---------------------------- MODULE RoomsProofs -----------------------------
(***************************************************************************)
(* The server implements ChatRooms: every line and every departure moves   *)
(* people between the channels by the rules of the rooms, or not at all,   *)
(* for any number of clients and channels.                                 *)
(*                                                                         *)
(* Two facts are needed beside ServerInv: nobody is an administrator, who  *)
(* would be above the rules, and a channel without an entry is blank, so   *)
(* that creating one opens no closed room.                                 *)
(***************************************************************************)
EXTENDS MessageTranslatorProofs

RoomsInv ==
    /\ ServerInv
    /\ is_admin = {}
    /\ \A c \in Chans : ExistChannel(c) \/ channels[c] = NoChannel

\* What every step is proved to do.
Ruled ==
    /\ (\E p \in Fds : Hall!Act(p)) \/ UNCHANGED Hall!rooms
    /\ \A c \in Chans : ExistChannel(c)' \/ channels'[c] = NoChannel

\* The rooms as functions, and what a room is.
LEMMA RoomTypes ==
    ASSUME ServerInv
    PROVE  /\ AllMembers \in [Chans -> SUBSET Fds]
           /\ AllOperators \in [Chans -> SUBSET Fds]
           /\ AllGuests \in [Chans -> SUBSET Fds]
           /\ ClosedRooms \subseteq Chans
           /\ \A c \in Chans : AllMembers[c] = Members(c)
           /\ \A c \in Chans : AllOperators[c] = channels[c].is_master
           /\ \A c \in Chans : AllGuests[c] = channels[c].register_player \cap Fds
           /\ \A c \in Chans : c \in ClosedRooms <=> HasMode(c, "i")
<1>1. \A c \in Chans : channels[c] \in ChannelInfo
  BY DEF ServerInv
<1> QED BY <1>1 DEF AllMembers, AllOperators, AllGuests, ClosedRooms, Members, ChannelInfo

\* A function changed at one argument, and one changed to what it was.
LEMMA ChangedAt ==
    ASSUME NEW S, NEW f, NEW T, f \in [S -> T], NEW c \in S, NEW v,
           NEW g, g = [x \in S |-> IF x = c THEN v ELSE f[x]]
    PROVE  g = [f EXCEPT ![c] = v]
  OBVIOUS

LEMMA ChangedToSame ==
    ASSUME NEW S, NEW f, NEW T, f \in [S -> T], NEW c \in S
    PROVE  [f EXCEPT ![c] = f[c]] = f
  OBVIOUS

\* A step that changes one channel, seen from the rooms.
LEMMA OneRoom ==
    ASSUME ServerInv, NEW c \in Chans, NEW info \in ChannelInfo,
           channels' = [channels EXCEPT ![c] = info]
    PROVE  /\ AllMembers' = [AllMembers EXCEPT ![c] = info.joined_player]
           /\ AllOperators' = [AllOperators EXCEPT ![c] = info.is_master]
           /\ AllGuests' = [AllGuests EXCEPT ![c] = info.register_player \cap Fds]
           /\ ClosedRooms' = IF "i" \in info.modes THEN ClosedRooms \cup {c} ELSE ClosedRooms \ {c}
<1>1. \A d \in Chans : channels'[d] = IF d = c THEN info ELSE channels[d]
  BY DEF ServerInv
<1>2. AllMembers' = [AllMembers EXCEPT ![c] = info.joined_player]
  <2>1. AllMembers' = [d \in Chans |-> channels'[d].joined_player]
    BY DEF AllMembers, Members
  <2>2. AllMembers' = [d \in Chans |-> IF d = c THEN info.joined_player ELSE AllMembers[d]]
    BY <1>1, <2>1, RoomTypes DEF Members
  <2> QED BY <2>2, RoomTypes, ChangedAt
<1>3. AllOperators' = [AllOperators EXCEPT ![c] = info.is_master]
  <2>1. AllOperators' = [d \in Chans |-> channels'[d].is_master]
    BY DEF AllOperators
  <2>2. AllOperators' = [d \in Chans |-> IF d = c THEN info.is_master ELSE AllOperators[d]]
    BY <1>1, <2>1, RoomTypes
  <2> QED BY <2>2, RoomTypes, ChangedAt
<1>4. AllGuests' = [AllGuests EXCEPT ![c] = info.register_player \cap Fds]
  <2>1. AllGuests' = [d \in Chans |-> channels'[d].register_player \cap Fds]
    BY DEF AllGuests
  <2>2. AllGuests' = [d \in Chans |-> IF d = c THEN info.register_player \cap Fds ELSE AllGuests[d]]
    BY <1>1, <2>1, RoomTypes
  <2> QED BY <2>2, RoomTypes, ChangedAt
<1>5. ClosedRooms' = {d \in Chans : "i" \in channels'[d].modes}
  BY DEF ClosedRooms, HasMode
<1>9. ClosedRooms' = IF "i" \in info.modes THEN ClosedRooms \cup {c} ELSE ClosedRooms \ {c}
  BY <1>1, <1>5 DEF ClosedRooms, HasMode
<1> QED BY <1>2, <1>3, <1>4, <1>9

\* The other half of Ruled for such a step.
LEMMA OneBlank ==
    ASSUME RoomsInv, NEW c \in Chans, NEW info, info.exists \/ info = NoChannel,
           channels' = [channels EXCEPT ![c] = info]
    PROVE  \A d \in Chans : ExistChannel(d)' \/ channels'[d] = NoChannel
<1>1. \A d \in Chans : channels'[d] = IF d = c THEN info ELSE channels[d]
  BY DEF RoomsInv, ServerInv
<1> QED BY <1>1 DEF RoomsInv, ExistChannel

\* A step that leaves the channels alone.
LEMMA NoRoom ==
    ASSUME RoomsInv, UNCHANGED channels
    PROVE  Ruled
<1>1. UNCHANGED Hall!rooms
  BY DEF Hall!rooms, AllMembers, AllOperators, AllGuests, ClosedRooms, Members, HasMode
<1>2. \A c \in Chans : ExistChannel(c)' \/ channels'[c] = NoChannel
  BY DEF RoomsInv, ExistChannel
<1> QED BY <1>1, <1>2 DEF Ruled

\* A step that changes nothing of a channel the rooms know.
LEMMA SameRoom ==
    ASSUME RoomsInv, NEW fd \in Fds, NEW c \in Chans, ExistChannel(c), NEW info \in ChannelInfo,
           channels' = [channels EXCEPT ![c] = info],
           info.exists, info.joined_player = Members(c),
           info.is_master = channels[c].is_master,
           info.register_player \cap Fds = channels[c].register_player \cap Fds,
           info.modes = channels[c].modes
    PROVE  Ruled
<1>1. ServerInv
  BY DEF RoomsInv
<1>2. UNCHANGED Hall!rooms
  <2>0. /\ AllMembers' = [AllMembers EXCEPT ![c] = info.joined_player]
        /\ AllOperators' = [AllOperators EXCEPT ![c] = info.is_master]
        /\ AllGuests' = [AllGuests EXCEPT ![c] = info.register_player \cap Fds]
    BY <1>1, OneRoom
  <2>1. UNCHANGED AllMembers
    <3>1. info.joined_player = AllMembers[c]
      BY <1>1, RoomTypes
    <3> QED BY <1>1, <2>0, <3>1, RoomTypes, ChangedToSame
  <2>2. UNCHANGED AllOperators
    <3>1. info.is_master = AllOperators[c]
      BY <1>1, RoomTypes
    <3> QED BY <1>1, <2>0, <3>1, RoomTypes, ChangedToSame
  <2>3. UNCHANGED AllGuests
    <3>1. info.register_player \cap Fds = AllGuests[c]
      BY <1>1, RoomTypes
    <3> QED BY <1>1, <2>0, <3>1, RoomTypes, ChangedToSame
  <2>4. UNCHANGED ClosedRooms
    <3>1. ClosedRooms' = IF "i" \in info.modes THEN ClosedRooms \cup {c} ELSE ClosedRooms \ {c}
      BY <1>1, OneRoom
    <3>2. "i" \in info.modes <=> c \in ClosedRooms
      BY <1>1, RoomTypes DEF HasMode
    <3> QED BY <3>1, <3>2
  <2> QED BY <2>1, <2>2, <2>3, <2>4 DEF Hall!rooms
<1>3. \A d \in Chans : ExistChannel(d)' \/ channels'[d] = NoChannel
  BY OneBlank
<1> QED BY <1>2, <1>3 DEF Ruled

\* JOIN enters.
LEMMA JoinRuled ==
    ASSUME RoomsInv, NEW fd \in Fds, NEW c \in Chans, NEW pass \in Nicks, Join(fd, c, pass)
    PROVE  Ruled
<1>1. ServerInv /\ ChannelOK(channels[c])
  BY DEF RoomsInv, ServerInv
<1>2. CASE ~Joins(JoinAnswer(fd, c, pass))
  BY <1>2, NoRoom DEF Join, JoinedChannel
<1>3. CASE Joins(JoinAnswer(fd, c, pass))
  <2> DEFINE info == AfterJoin(fd, c)
  <2>1. channels' = [channels EXCEPT ![c] = info]
    BY <1>3 DEF Join, JoinedChannel
  <2>2. info \in ChannelInfo /\ info.joined_player = Members(c) \cup {fd}
    BY <1>1, AfterJoinOK DEF ChannelOK
  <2>3. info.exists
    BY <1>1 DEF AfterJoin, Bare, NoChannel, ExistChannel, ChannelOK, ChannelInfo
  <2>4. fd \notin Members(c)
    BY <1>1, <1>3 DEF Joins, JoinAnswer, IsJoined, ExistChannel, Members, ChannelOK
  <2>5. HasMode(c, "i") => fd \in channels[c].register_player
    BY <1>3 DEF RoomsInv, Joins, JoinAnswer, IsAdmin, HasMode, NoChannel
  <2>6. info.register_player = channels[c].register_player \ {fd} /\ info.modes = channels[c].modes
    BY <1>1 DEF RoomsInv, AfterJoin, Bare, NoChannel, ExistChannel, ChannelOK, ChannelInfo
  <2>7. \/ info.is_master = channels[c].is_master
        \/ Members(c) = {} /\ info.is_master = {fd}
    BY <1>1 DEF AfterJoin, Bare, NoChannel, ExistChannel, ChannelOK, ChannelInfo, Members
  <2> HIDE DEF info
  <2>8. /\ AllMembers' = [AllMembers EXCEPT ![c] = info.joined_player]
        /\ AllOperators' = [AllOperators EXCEPT ![c] = info.is_master]
        /\ AllGuests' = [AllGuests EXCEPT ![c] = info.register_player \cap Fds]
        /\ ClosedRooms' = IF "i" \in info.modes THEN ClosedRooms \cup {c} ELSE ClosedRooms \ {c}
    BY <1>1, <2>1, <2>2, OneRoom
  <2>9. Hall!Enter(fd, c)
    <3>1. fd \notin AllMembers[c] /\ (c \in ClosedRooms => fd \in AllGuests[c])
      BY <1>1, <2>4, <2>5, RoomTypes
    <3>2. AllMembers' = [AllMembers EXCEPT ![c] = AllMembers[c] \cup {fd}]
      BY <1>1, <2>2, <2>8, RoomTypes
    <3>3. AllGuests' = [AllGuests EXCEPT ![c] = AllGuests[c] \ {fd}]
      <4>1. info.register_player \cap Fds = AllGuests[c] \ {fd}
        BY <1>1, <2>6, RoomTypes
      <4> QED BY <2>8, <4>1
    <3>4. \/ UNCHANGED AllOperators
          \/ AllMembers[c] = {} /\ AllOperators' = [AllOperators EXCEPT ![c] = {fd}]
      <4>1. CASE info.is_master = channels[c].is_master
        <5>1. info.is_master = AllOperators[c]
          BY <1>1, <4>1, RoomTypes
        <5> QED BY <1>1, <2>8, <5>1, RoomTypes, ChangedToSame
      <4>2. CASE Members(c) = {} /\ info.is_master = {fd}
        BY <1>1, <2>8, <4>2, RoomTypes
      <4> QED BY <2>7, <4>1, <4>2
    <3>5. UNCHANGED ClosedRooms
      BY <1>1, <2>6, <2>8, RoomTypes DEF HasMode
    <3> QED BY <3>1, <3>2, <3>3, <3>4, <3>5 DEF Hall!Enter
  <2> QED BY <2>1, <2>3, <2>9, OneBlank DEF Ruled, Hall!Act
<1> QED BY <1>2, <1>3

\* One member leaves one channel, by PART or KICK.
LEMMA OneOut ==
    ASSUME RoomsInv, NEW fd \in Fds, NEW c \in Chans, fd \in Members(c), NEW info \in ChannelInfo,
           channels' = [channels EXCEPT ![c] = info],
           info.joined_player = Members(c) \ {fd},
           info.is_master = channels[c].is_master \ {fd},
           IF Members(c) = {fd} THEN info.register_player = {} /\ info.modes = {}
           ELSE /\ info.register_player = channels[c].register_player
                /\ info.modes = channels[c].modes
    PROVE  Hall!Out(fd, {c})
<1>1. ServerInv
  BY DEF RoomsInv
<1>2. /\ AllMembers' = [AllMembers EXCEPT ![c] = info.joined_player]
      /\ AllOperators' = [AllOperators EXCEPT ![c] = info.is_master]
      /\ AllGuests' = [AllGuests EXCEPT ![c] = info.register_player \cap Fds]
      /\ ClosedRooms' = IF "i" \in info.modes THEN ClosedRooms \cup {c} ELSE ClosedRooms \ {c}
  BY <1>1, OneRoom
<1> DEFINE emptied == {r \in {c} : AllMembers[r] = {fd}}
<1>3. AllMembers[c] = Members(c) /\ AllOperators[c] = channels[c].is_master
      /\ AllGuests[c] = channels[c].register_player \cap Fds
      /\ (c \in ClosedRooms <=> "i" \in channels[c].modes)
  BY <1>1, RoomTypes DEF HasMode
<1>4. emptied = IF Members(c) = {fd} THEN {c} ELSE {}
  BY <1>3
<1>5. AllMembers' = [r \in Chans |-> IF r \in {c} THEN AllMembers[r] \ {fd} ELSE AllMembers[r]]
  BY <1>1, <1>2, <1>3, RoomTypes
<1>6. AllOperators' = [r \in Chans |-> IF r \in {c} THEN AllOperators[r] \ {fd} ELSE AllOperators[r]]
  BY <1>1, <1>2, <1>3, RoomTypes
<1>7. AllGuests' = [r \in Chans |-> IF r \in emptied THEN {} ELSE AllGuests[r]]
  <2>1. AllGuests' = [r \in Chans |-> IF r = c THEN info.register_player \cap Fds ELSE AllGuests[r]]
    BY <1>1, <1>2, RoomTypes
  <2> HIDE DEF emptied
  <2>2. CASE Members(c) = {fd}
    BY <1>4, <2>1, <2>2
  <2>3. CASE Members(c) # {fd}
    BY <1>3, <1>4, <2>1, <2>3
  <2> QED BY <2>2, <2>3
<1>8. ClosedRooms' = ClosedRooms \ emptied
  <2> HIDE DEF emptied
  <2>1. CASE Members(c) = {fd}
    BY <1>2, <1>4, <2>1
  <2>2. CASE Members(c) # {fd}
    BY <1>2, <1>3, <1>4, <2>2
  <2> QED BY <2>1, <2>2
<1> QED BY <1>5, <1>6, <1>7, <1>8 DEF Hall!Out

\* What AfterLeave leaves behind.
LEMMA LeaveInfo ==
    ASSUME RoomsInv, NEW fd \in Fds, NEW c \in Chans, fd \in Members(c)
    PROVE  LET info == AfterLeave(fd, c)
           IN  /\ info \in ChannelInfo
               /\ info.exists \/ info = NoChannel
               /\ info.joined_player = Members(c) \ {fd}
               /\ info.is_master = channels[c].is_master \ {fd}
               /\ IF Members(c) = {fd} THEN info.register_player = {} /\ info.modes = {}
                  ELSE /\ info.register_player = channels[c].register_player
                       /\ info.modes = channels[c].modes
<1>1. ChannelOK(channels[c])
  BY DEF RoomsInv, ServerInv
<1>2. CASE Members(c) = {fd}
  <2>1. AfterLeave(fd, c) = NoChannel
    BY <1>2 DEF AfterLeave
  <2>2. channels[c].is_master \ {fd} = {}
    BY <1>1, <1>2 DEF ChannelOK, Members
  <2>3. NoChannel \in ChannelInfo
    BY EmptyChannelOK DEF ChannelOK
  <2> QED BY <1>2, <2>1, <2>2, <2>3 DEF NoChannel
<1>3. CASE Members(c) # {fd}
  <2>1. AfterLeave(fd, c) = [channels[c] EXCEPT !.joined_player = @ \ {fd}, !.is_master = @ \ {fd}]
    BY <1>3 DEF AfterLeave
  <2> QED BY <1>1, <1>3, <2>1 DEF ChannelOK, ChannelInfo, Members
<1> QED BY <1>2, <1>3

\* PART leaves.
LEMMA PartRuled ==
    ASSUME RoomsInv, NEW fd \in Fds, NEW c \in Chans, Part(fd, c)
    PROVE  Ruled
<1>1. CASE LeaveAnswer(fd, c) # "PART"
  BY <1>1, NoRoom DEF Part, LeaveChannel
<1>2. CASE LeaveAnswer(fd, c) = "PART"
  <2>1. fd \in Members(c)
    BY <1>2 DEF LeaveAnswer, IsJoined
  <2>2. channels' = [channels EXCEPT ![c] = AfterLeave(fd, c)]
    BY <1>2 DEF Part, LeaveChannel
  <2>3. Hall!Out(fd, {c})
    BY <2>1, <2>2, LeaveInfo, OneOut
  <2>4. fd \in AllMembers[c]
    BY <2>1, RoomTypes DEF RoomsInv
  <2> QED BY <2>1, <2>2, <2>3, <2>4, LeaveInfo, OneBlank DEF Ruled, Hall!Act, Hall!Leave
<1> QED BY <1>1, <1>2

\* Who may do what an operator does is one: nobody is above the rules.
LEMMA OperatorRules ==
    ASSUME RoomsInv, NEW fd \in Fds, NEW c \in Chans, IsOperator(fd, c)
    PROVE  fd \in AllOperators[c]
  BY RoomTypes DEF RoomsInv, IsOperator, IsAdmin

\* KICK puts somebody out, and may leave an empty channel behind.
LEMMA KickRuled ==
    ASSUME RoomsInv, NEW fd \in Fds, NEW c \in Chans, NEW n \in Nicks, Kick(fd, c, n)
    PROVE  Ruled
<1>1. CASE UNCHANGED channels
  BY <1>1, NoRoom
<1>2. ASSUME NEW t, IsJoined(t, c), KickChannel(t, c), KickRefusal(fd, c) = "None" PROVE Ruled
  <2>1. t \in Members(c) /\ t \in Fds
    BY <1>2 DEF RoomsInv, ServerInv, ChannelInfo, IsJoined, Members
  <2> DEFINE info == AfterKick(t, c)
  <2>2. channels' = [channels EXCEPT ![c] = info]
    BY <1>2 DEF KickChannel
  <2>3. /\ info \in ChannelInfo
        /\ info.exists \/ info = NoChannel
        /\ info.joined_player = Members(c) \ {t}
        /\ info.is_master = channels[c].is_master \ {t}
        /\ IF Members(c) = {t} THEN info.register_player = {} /\ info.modes = {}
           ELSE /\ info.register_player = channels[c].register_player
                /\ info.modes = channels[c].modes
    <3>1. CASE Members(c) = {t}
      <4>1. info = Bare
        BY <3>1 DEF AfterKick
      <4>2. channels[c].is_master \ {t} = {}
        BY <3>1 DEF RoomsInv, ServerInv, ChannelOK, Members
      <4> HIDE DEF info
      <4> QED BY <3>1, <4>1, <4>2, EmptyChannelOK DEF Bare, NoChannel, ChannelOK
    <3>2. CASE Members(c) # {t}
      <4>1. info = AfterLeave(t, c)
        BY <2>1, <3>2 DEF AfterKick
      <4> HIDE DEF info
      <4> QED BY <2>1, <3>2, <4>1, LeaveInfo
    <3> QED BY <3>1, <3>2
  <2> HIDE DEF info
  <2>4. Hall!Out(t, {c})
    BY <2>1, <2>2, <2>3, OneOut
  <2>5. t \in AllMembers[c]
    BY <2>1, RoomTypes DEF RoomsInv
  <2>6. fd \in AllOperators[c]
    BY <1>2, OperatorRules DEF KickRefusal
  <2> QED BY <2>1, <2>2, <2>3, <2>4, <2>5, <2>6, OneBlank DEF Ruled, Hall!Act, Hall!Kick
<1> QED BY <1>1, <1>2 DEF Kick, Dies

\* INVITE makes a guest of whoever the nickname led to.
LEMMA InviteRuled ==
    ASSUME RoomsInv, NEW fd \in Fds, NEW c \in Chans, NEW n \in Nicks, Invite(fd, n, c)
    PROVE  Ruled
<1>1. CASE UNCHANGED channels
  BY <1>1, NoRoom
<1>2. ASSUME NEW t, InviteAnswer(fd, n, t, c) = "RPL_INVITING", InviteToChannel(fd, n, t, c),
             t \in Fds \cup {NoFd}
      PROVE  Ruled
  <2>1. ServerInv /\ channels[c] \in ChannelInfo
    BY DEF RoomsInv, ServerInv
  <2> DEFINE info == [channels[c] EXCEPT !.register_player = @ \cup {t}]
  <2>2. channels' = [channels EXCEPT ![c] = info]
    BY <1>2, <2>1 DEF InviteToChannel, ServerInv
  <2>3. /\ info \in ChannelInfo
        /\ info.exists = ExistChannel(c)
        /\ info.joined_player = Members(c)
        /\ info.is_master = channels[c].is_master
        /\ info.register_player = channels[c].register_player \cup {t}
        /\ info.modes = channels[c].modes
    BY <1>2, <2>1 DEF ChannelInfo, ExistChannel, Members
  <2> HIDE DEF info
  <2>4. ExistChannel(c) /\ ~IsJoined(t, c) /\ IsOperator(fd, c)
    BY <1>2 DEF InviteAnswer
  <2>5. CASE t \in Fds
    <3>1. /\ AllMembers' = [AllMembers EXCEPT ![c] = info.joined_player]
          /\ AllOperators' = [AllOperators EXCEPT ![c] = info.is_master]
          /\ AllGuests' = [AllGuests EXCEPT ![c] = info.register_player \cap Fds]
          /\ ClosedRooms' = IF "i" \in info.modes THEN ClosedRooms \cup {c} ELSE ClosedRooms \ {c}
      BY <2>1, <2>2, <2>3, OneRoom
    <3>2. UNCHANGED <<AllMembers, AllOperators>>
      <4>1. info.joined_player = AllMembers[c] /\ info.is_master = AllOperators[c]
        BY <2>1, <2>3, RoomTypes
      <4> QED BY <2>1, <3>1, <4>1, RoomTypes, ChangedToSame
    <3>3. UNCHANGED ClosedRooms
      BY <2>1, <2>3, <3>1, RoomTypes DEF HasMode
    <3>4. AllGuests' = [AllGuests EXCEPT ![c] = AllGuests[c] \cup {t}]
      <4>1. info.register_player \cap Fds = AllGuests[c] \cup {t}
        BY <2>1, <2>3, <2>5, RoomTypes
      <4> QED BY <3>1, <4>1
    <3>5. t \notin AllMembers[c]
      BY <2>1, <2>4, RoomTypes DEF IsJoined
    <3>6. Hall!Invite(fd, t, c)
      BY <2>4, <3>2, <3>3, <3>4, <3>5, OperatorRules DEF Hall!Invite
    <3> QED BY <2>2, <2>3, <2>4, <2>5, <3>6, OneBlank DEF Ruled, Hall!Act
  <2>6. CASE t = NoFd
    <3>1. info.register_player \cap Fds = channels[c].register_player \cap Fds
      BY <2>3, <2>6, EveryoneConstants
    <3> QED BY <2>2, <2>3, <2>4, <3>1, SameRoom
  <2> QED BY <1>2, <2>5, <2>6
<1>3. ASSUME NEW t \in InviteTargets(fd, n, c), t # Crash, InviteToChannel(fd, n, t, c)
      PROVE  Ruled
  <2>1. t \in Fds \cup {NoFd}
    BY <1>3, InviteReaches DEF RoomsInv
  <2>2. CASE InviteAnswer(fd, n, t, c) = "RPL_INVITING"
    BY <1>2, <1>3, <2>1, <2>2
  <2>3. CASE InviteAnswer(fd, n, t, c) # "RPL_INVITING"
    BY <1>1, <1>3, <2>3 DEF InviteToChannel
  <2> QED BY <2>2, <2>3
<1> QED BY <1>1, <1>3 DEF Invite, Dies

\* MODE is the operator's.
LEMMA ModeRuled ==
    ASSUME RoomsInv, NEW fd \in Fds, NEW c \in Chans, NEW valid \in BOOLEAN,
           NEW flags \in ModeSets, NEW key \in Nicks, Mode(fd, c, valid, flags, key)
    PROVE  Ruled
<1>1. CASE UNCHANGED channels
  BY <1>1, NoRoom
<1>2. ASSUME NEW t, ChangeChannelMode(valid, flags, c, key, t), ModeRefusal(fd, flags, c) = "None"
      PROVE  Ruled
  <2>1. ServerInv /\ ChannelOK(channels[c]) /\ channels[c] \in ChannelInfo
    BY DEF RoomsInv, ServerInv
  <2>2. ExistChannel(c) /\ fd \in AllOperators[c]
    BY <1>2, OperatorRules DEF ModeRefusal
  <2> DEFINE set  == IF valid THEN AfterSet(flags, c, key) ELSE AfterClear(flags, c)
             info == IF ReachesOperator(valid, flags, c, key)
                     THEN ChangeOperator(set, t, valid) ELSE set
  <2>3. channels' = [channels EXCEPT ![c] = info]
    BY <1>2 DEF ChangeChannelMode
  <2>4. /\ ChannelOK(set)
        /\ set.exists = ExistChannel(c)
        /\ set.joined_player = Members(c)
        /\ set.is_master = channels[c].is_master
        /\ set.register_player = channels[c].register_player
    <3>1. CASE valid
      <4>1. set = AfterSet(flags, c, key)
        BY <3>1
      <4>2. /\ set.exists = ExistChannel(c)
            /\ set.register_player = channels[c].register_player
        BY <2>1, <4>1 DEF AfterSet, ExistChannel, ChannelInfo
      <4> HIDE DEF set
      <4> QED BY <2>1, <4>1, <4>2, AfterSetOK
    <3>2. CASE ~valid
      <4>1. set = AfterClear(flags, c)
        BY <3>2
      <4>2. /\ set.exists = ExistChannel(c)
            /\ set.register_player = channels[c].register_player
        BY <2>1, <4>1 DEF AfterClear, ExistChannel, ChannelInfo
      <4> HIDE DEF set
      <4> QED BY <2>1, <4>1, <4>2, AfterClearOK
    <3> QED BY <3>1, <3>2
  <2> HIDE DEF set
  <2>5. /\ info \in ChannelInfo
        /\ info.exists = ExistChannel(c)
        /\ info.joined_player = Members(c)
        /\ info.register_player = channels[c].register_player
        /\ \/ info.is_master = channels[c].is_master
           \/ t \in Members(c) /\ info.is_master \in {channels[c].is_master \cup {t},
                                                      channels[c].is_master \ {t}}
    <3>1. CASE info = set
      BY <2>4, <3>1 DEF ChannelOK
    <3>2. CASE /\ t \in set.joined_player
               /\ info = [set EXCEPT !.is_master = IF valid THEN @ \cup {t} ELSE @ \ {t}]
      <4>1. set \in ChannelInfo
        BY <2>4 DEF ChannelOK
      <4>2. t \in Fds
        BY <3>2, <4>1 DEF ChannelInfo
      <4> HIDE DEF info
      <4>3. /\ info \in ChannelInfo
            /\ info.exists = set.exists
            /\ info.joined_player = set.joined_player
            /\ info.register_player = set.register_player
            /\ info.is_master = IF valid THEN set.is_master \cup {t} ELSE set.is_master \ {t}
        BY <3>2, <4>1, <4>2 DEF ChannelInfo
      <4> QED BY <2>4, <3>2, <4>3
    <3> QED BY <3>1, <3>2 DEF ChangeOperator
  <2> HIDE DEF info
  <2>6. /\ AllMembers' = [AllMembers EXCEPT ![c] = info.joined_player]
        /\ AllOperators' = [AllOperators EXCEPT ![c] = info.is_master]
        /\ AllGuests' = [AllGuests EXCEPT ![c] = info.register_player \cap Fds]
        /\ ClosedRooms' = IF "i" \in info.modes THEN ClosedRooms \cup {c} ELSE ClosedRooms \ {c}
    BY <2>1, <2>3, <2>5, OneRoom
  <2>7. UNCHANGED <<AllMembers, AllGuests>>
    <3>1. info.joined_player = AllMembers[c] /\ info.register_player \cap Fds = AllGuests[c]
      BY <2>1, <2>5, RoomTypes
    <3> QED BY <2>1, <2>6, <3>1, RoomTypes, ChangedToSame
  <2>8. \/ UNCHANGED AllOperators
        \/ \E q \in AllMembers[c] :
              \E rank \in {AllOperators[c] \cup {q}, AllOperators[c] \ {q}} :
                AllOperators' = [AllOperators EXCEPT ![c] = rank]
    <3>1. CASE info.is_master = channels[c].is_master
      <4>1. info.is_master = AllOperators[c]
        BY <2>1, <3>1, RoomTypes
      <4> QED BY <2>1, <2>6, <4>1, RoomTypes, ChangedToSame
    <3>2. CASE t \in Members(c) /\ info.is_master \in {channels[c].is_master \cup {t},
                                                     channels[c].is_master \ {t}}
      <4>1. t \in AllMembers[c] /\ AllOperators[c] = channels[c].is_master
        BY <2>1, <3>2, RoomTypes
      <4> QED BY <2>6, <3>2, <4>1
    <3> QED BY <2>5, <3>1, <3>2
  <2>9. Hall!Manage(fd, c)
    <3>1. ClosedRooms' \in {ClosedRooms, ClosedRooms \cup {c}, ClosedRooms \ {c}}
      BY <2>6
    <3> QED BY <2>2, <2>7, <2>8, <3>1 DEF Hall!Manage
  <2> QED BY <2>2, <2>3, <2>5, <2>9, OneBlank DEF Ruled, Hall!Act
<1> QED BY <1>1, <1>2 DEF Mode, Dies

\* TOPIC is nothing the rooms know about.
LEMMA TopicRuled ==
    ASSUME RoomsInv, NEW fd \in Fds, NEW c \in Chans,
           NEW text \in Topics \cup {NoTopic}, Topic(fd, c, text)
    PROVE  Ruled
<1>1. CASE TopicAnswer(fd, c) # "Changed"
  BY <1>1, NoRoom DEF Topic, ChangeTopic
<1>2. CASE TopicAnswer(fd, c) = "Changed"
  <2> DEFINE info == [channels[c] EXCEPT !.topic = text]
  <2>1. ExistChannel(c) /\ channels[c] \in ChannelInfo
    BY <1>2 DEF TopicAnswer, RoomsInv, ServerInv
  <2>2. channels' = [channels EXCEPT ![c] = info]
    BY <1>2 DEF Topic, ChangeTopic, RoomsInv, ServerInv
  <2>3. /\ info \in ChannelInfo
        /\ info.exists
        /\ info.joined_player = Members(c)
        /\ info.is_master = channels[c].is_master
        /\ info.register_player = channels[c].register_player
        /\ info.modes = channels[c].modes
    BY <2>1 DEF ChannelInfo, ExistChannel, Members
  <2> HIDE DEF info
  <2> QED BY <2>1, <2>2, <2>3, SameRoom
<1> QED BY <1>1, <1>2

\* QUIT and the end of a connection take the user out of all its rooms.
LEMMA DepartureRuled ==
    ASSUME RoomsInv, NEW fd \in Fds, LeaveAll(fd)
    PROVE  Ruled
<1>1. ServerInv
  BY DEF RoomsInv
<1>2. \A c \in Chans : fd \in Members(c) => LeaveAnswer(fd, c) = "PART"
  BY <1>1 DEF ServerInv, MembersAreRegistered, ChannelOK, LeaveAnswer, IsRegister, IsRegisterAll,
              Levels, ExistChannel, IsJoined, Members
<1>3. \A c \in Chans : channels'[c] = IF fd \in Members(c) THEN AfterLeave(fd, c) ELSE channels[c]
  BY <1>1, <1>2 DEF LeaveAll, ServerInv, MembershipMutual
<1> DEFINE left == {r \in Chans : fd \in AllMembers[r]}
           emptied == {r \in left : AllMembers[r] = {fd}}
<1>4. \A c \in Chans : (c \in left <=> fd \in Members(c)) /\ (c \in emptied <=> Members(c) = {fd})
  BY <1>1, RoomTypes
<1>5. \A c \in Chans :
        /\ channels'[c].joined_player = IF c \in left THEN Members(c) \ {fd} ELSE Members(c)
        /\ channels'[c].is_master = IF c \in left THEN channels[c].is_master \ {fd}
                                    ELSE channels[c].is_master
        /\ channels'[c].register_player = IF c \in emptied THEN {} ELSE channels[c].register_player
        /\ channels'[c].modes = IF c \in emptied THEN {} ELSE channels[c].modes
        /\ channels'[c].exists \/ channels'[c] = NoChannel
  <2> TAKE c \in Chans
  <2> HIDE DEF left, emptied
  <2>1. CASE fd \in Members(c)
    <3> DEFINE info == AfterLeave(fd, c)
    <3>1. /\ info.exists \/ info = NoChannel
          /\ info.joined_player = Members(c) \ {fd}
          /\ info.is_master = channels[c].is_master \ {fd}
          /\ IF Members(c) = {fd} THEN info.register_player = {} /\ info.modes = {}
             ELSE /\ info.register_player = channels[c].register_player
                  /\ info.modes = channels[c].modes
      BY <2>1, LeaveInfo
    <3>2. channels'[c] = info /\ c \in left /\ (c \in emptied <=> Members(c) = {fd})
      BY <1>3, <1>4, <2>1
    <3> HIDE DEF info
    <3> QED BY <3>1, <3>2
  <2>2. CASE fd \notin Members(c)
    BY <1>3, <1>4, <2>2 DEF Members, RoomsInv, ExistChannel
  <2> QED BY <2>1, <2>2
<1>6. AllMembers' = [r \in Chans |-> IF r \in left THEN AllMembers[r] \ {fd} ELSE AllMembers[r]]
  <2>1. AllMembers' = [r \in Chans |-> channels'[r].joined_player]
    BY DEF AllMembers, Members
  <2> HIDE DEF left, emptied
  <2> QED BY <1>1, <1>5, <2>1, RoomTypes
<1>7. AllOperators' = [r \in Chans |-> IF r \in left THEN AllOperators[r] \ {fd} ELSE AllOperators[r]]
  <2>1. AllOperators' = [r \in Chans |-> channels'[r].is_master]
    BY DEF AllOperators
  <2> HIDE DEF left, emptied
  <2> QED BY <1>1, <1>5, <2>1, RoomTypes
<1>8. AllGuests' = [r \in Chans |-> IF r \in emptied THEN {} ELSE AllGuests[r]]
  <2>1. AllGuests' = [r \in Chans |-> channels'[r].register_player \cap Fds]
    BY DEF AllGuests
  <2> HIDE DEF left, emptied
  <2>2. \A r \in Chans : channels'[r].register_player \cap Fds = IF r \in emptied THEN {} ELSE AllGuests[r]
    BY <1>1, <1>5, RoomTypes
  <2> QED BY <2>1, <2>2
<1>9. ClosedRooms' = ClosedRooms \ emptied
  <2>1. ClosedRooms' = {r \in Chans : "i" \in channels'[r].modes}
    BY DEF ClosedRooms, HasMode
  <2> HIDE DEF left, emptied
  <2> QED BY <1>1, <1>5, <2>1, RoomTypes DEF HasMode
<1>10. Hall!Disappear(fd)
  BY <1>6, <1>7, <1>8, <1>9 DEF Hall!Disappear, Hall!Out
<1>11. \A c \in Chans : ExistChannel(c)' \/ channels'[c] = NoChannel
  BY <1>5 DEF ExistChannel
<1> QED BY <1>10, <1>11 DEF Ruled, Hall!Act

\* Every step is one the rooms allow.
LEMMA NextRuled ==
    ASSUME RoomsInv, Next
    PROVE  Ruled
<1>1. ASSUME NEW fd \in Fds, Register(fd) PROVE Ruled
  <2>1. UNCHANGED channels
    BY <1>1 DEF Register, Skip, Pass, Nick, User, TooFewWords, Unregistered, Blank, Dies
  <2> QED BY <2>1, NoRoom
<1>2. ASSUME NEW fd \in Fds, NEW c \in Chans, ChannelCommand(fd, c) PROVE Ruled
  <2>1. CASE PrivmsgChannel(fd, c)
    BY <2>1, NoRoom DEF PrivmsgChannel
  <2> QED BY <1>2, <2>1, JoinRuled, PartRuled, KickRuled, InviteRuled, ModeRuled, TopicRuled
          DEF ChannelCommand
<1>3. ASSUME NEW fd \in Fds, UserCommand(fd) PROVE Ruled
  <2>1. CASE Quit(fd)
    BY <2>1, DepartureRuled DEF Quit
  <2>2. CASE UNCHANGED channels
    BY <2>2, NoRoom
  <2> QED BY <1>3, <2>1, <2>2 DEF UserCommand, PrivmsgUser, Whois, Question, Exit
<1>4. ASSUME NEW fd \in Fds, CloseClient(fd) PROVE Ruled
  BY <1>4, DepartureRuled DEF CloseClient
<1>5. CASE BrokenPipe
  <2>1. UNCHANGED channels
    BY <1>5 DEF BrokenPipe
  <2> QED BY <2>1, NoRoom
<1> QED BY <1>1, <1>2, <1>3, <1>4, <1>5 DEF Next

\* Nobody becomes an administrator: every record is created without the flag.
LEMMA NoAdmins == is_admin = {} /\ [EveryoneNext]_everyoneVars => is_admin' = {}
  BY DEF EveryoneNext, UserLine, CreateUser, DeleteUser, AddJoinChannel, DeleteJoinChannel, everyoneVars

\* The two facts are kept, and so is the rest.
LEMMA RoomsNext == RoomsInv /\ [Next]_vars => RoomsInv' /\ [\E p \in Fds : Hall!Act(p)]_(Hall!rooms)
<1> SUFFICES ASSUME RoomsInv, [Next]_vars
             PROVE  RoomsInv' /\ [\E p \in Fds : Hall!Act(p)]_(Hall!rooms)
  OBVIOUS
<1>1. ServerInv' /\ is_admin' = {}
  BY NextGood, NoAdmins DEF RoomsInv, Good
<1>2. CASE UNCHANGED vars
  <2>1. UNCHANGED channels
    BY <1>2 DEF vars
  <2>2. UNCHANGED Hall!rooms
    BY <2>1 DEF Hall!rooms, AllMembers, AllOperators, AllGuests, ClosedRooms, Members, HasMode
  <2> QED BY <1>1, <2>1, <2>2 DEF RoomsInv, ExistChannel
<1>3. CASE Next
  <2>1. Ruled
    BY <1>3, NextRuled
  <2> QED BY <1>1, <2>1 DEF RoomsInv, Ruled
<1> QED BY <1>2, <1>3

\* Nobody is in any room at the start.
LEMMA RoomsInit == Init => RoomsInv /\ Hall!Vacant
<1> SUFFICES ASSUME Init PROVE RoomsInv /\ Hall!Vacant
  OBVIOUS
<1>1. ServerInv
  BY InitServer
<1>2. channels = [c \in Chans |-> NoChannel] /\ is_admin = {}
  BY DEF Init, ChannelInit, EveryoneInit
<1>3. RoomsInv
  BY <1>1, <1>2 DEF RoomsInv
<1>4. Hall!Vacant
  BY <1>2 DEF Hall!Vacant, AllMembers, AllOperators, AllGuests, ClosedRooms, Members, HasMode, NoChannel
<1> QED BY <1>3, <1>4

\* In every reachable state.
LEMMA RoomsCorrect == Spec => []RoomsInv
<1>1. RoomsInv /\ [Next]_vars => RoomsInv'
  BY RoomsNext
<1> QED BY RoomsInit, <1>1, PTL DEF Spec

\* The server implements the rooms: whatever the commands, people enter and
\* leave, are put out and invited, and rooms are ruled, only by their rules.
THEOREM ServerKeepsRooms == Spec => RoomsContract
<1>1. RoomsInv /\ [Next]_vars => [\E p \in Fds : Hall!Act(p)]_(Hall!rooms)
  BY RoomsNext
<1> QED BY RoomsInit, <1>1, RoomsCorrect, PTL DEF Spec, RoomsContract, Hall!Contract

=============================================================================
