---------------------- MODULE MessageTranslatorProofs -----------------------
(***************************************************************************)
(* The server's invariants for any number of clients, nicknames, channels  *)
(* and modes, whatever subset of the commands the clients use.             *)
(*                                                                         *)
(* The invariant joins the registry's to the channels' by MembershipMutual *)
(* and MembersAreRegistered.  Both are needed to see that the server keeps *)
(* the registry's contract: KICK works on whoever the nickname led to, and *)
(* it is membership that says that this one has a record; DeleteUser       *)
(* leaves the channels of the record, and it is their mutuality that says  *)
(* that these are all there are.                                           *)
(***************************************************************************)
EXTENDS MessageTranslator, EveryoneProofs

-----------------------------------------------------------------------------
(* One channel: what the operators of Channel preserve, for any argument *)

ChannelOK(info) ==
    /\ info \in ChannelInfo
    /\ info.joined_player # {} => info.exists
    /\ info.is_master \subseteq info.joined_player
    /\ "k" \in info.modes <=> info.password # NoArg
    /\ info.register_player \cap info.joined_player = {}

\* The absent channel and the one operator[] creates are well formed.
LEMMA EmptyChannelOK == ChannelOK(NoChannel) /\ ChannelOK(Bare)
<1>1. NoArg \in Nicks /\ 0 \in Int
  BY ChannelConstants, EveryoneConstants
<1>2. NoChannel \in ChannelInfo /\ Bare \in ChannelInfo
  BY <1>1 DEF NoChannel, Bare, ChannelInfo
<1> QED BY <1>2 DEF ChannelOK, NoChannel, Bare

\* JOIN: the newcomer is a member and its invitation is spent.
LEMMA AfterJoinOK ==
    ASSUME NEW fd \in Fds, NEW c \in Chans, ChannelOK(channels[c])
    PROVE  /\ ChannelOK(AfterJoin(fd, c))
           /\ AfterJoin(fd, c).joined_player = Members(c) \cup {fd}
<1>1. CASE ExistChannel(c)
  BY <1>1 DEF AfterJoin, ChannelOK, ChannelInfo, Members, ExistChannel
<1>2. CASE ~ExistChannel(c)
  <2>1. Members(c) = {}
    BY <1>2 DEF ChannelOK, Members, ExistChannel
  <2> QED
    BY <1>2, <2>1, EmptyChannelOK DEF AfterJoin, ChannelOK, ChannelInfo, Bare, NoChannel
<1> QED BY <1>1, <1>2

\* Leaving takes out one member, with its rank.
LEMMA AfterLeaveOK ==
    ASSUME NEW fd \in Fds, NEW c \in Chans, ChannelOK(channels[c])
    PROVE  /\ ChannelOK(AfterLeave(fd, c))
           /\ AfterLeave(fd, c).joined_player = Members(c) \ {fd}
<1>1. CASE Members(c) \subseteq {fd}
  BY <1>1, EmptyChannelOK DEF AfterLeave, NoChannel
<1>2. CASE ~(Members(c) \subseteq {fd})
  BY <1>2 DEF AfterLeave, ChannelOK, ChannelInfo, Members, ExistChannel
<1> QED BY <1>1, <1>2

\* So does KICK, and the channel it may leave behind is empty.
LEMMA AfterKickOK ==
    ASSUME NEW t \in Fds, NEW c \in Chans, ChannelOK(channels[c])
    PROVE  /\ ChannelOK(AfterKick(t, c))
           /\ AfterKick(t, c).joined_player = Members(c) \ {t}
<1>1. CASE Members(c) \subseteq {t}
  BY <1>1, EmptyChannelOK DEF AfterKick, Bare, NoChannel
<1>2. CASE ~(Members(c) \subseteq {t})
  BY <1>2, AfterLeaveOK DEF AfterKick
<1> QED BY <1>1, <1>2

\* MODE + changes modes, key and limit only, and sets a key when it sets +k.
LEMMA AfterSetOK ==
    ASSUME NEW c \in Chans, ChannelOK(channels[c]), NEW flags, NEW key \in Nicks
    PROVE  /\ ChannelOK(AfterSet(flags, c, key))
           /\ AfterSet(flags, c, key).joined_player = Members(c)
           /\ AfterSet(flags, c, key).is_master = channels[c].is_master
<1> DEFINE stopped == SetAnswer(flags, c, key) \in {"ERR_NEEDMOREPARAMS", "ERR_KEYSET"}
           done    == IF stopped THEN flags \cap {"i", "t"} ELSE flags \cap Modes
<1>1. done \subseteq Modes
  BY DEF Modes
<1>2. "k" \in done => key # NoArg
  BY DEF SetAnswer
<1>3. AfterSet(flags, c, key) =
        [channels[c] EXCEPT
            !.modes        = @ \cup done,
            !.password     = IF "k" \in done THEN key ELSE @,
            !.limit_member = IF "l" \in done /\ key \in Numbers THEN key ELSE @]
  BY DEF AfterSet
<1> HIDE DEF stopped, done
<1> DEFINE old == channels[c]
           new == AfterSet(flags, c, key)
<1>4. old \in ChannelInfo
  BY DEF ChannelOK
<1>5. /\ new.modes = old.modes \cup done
      /\ new.password = IF "k" \in done THEN key ELSE old.password
      /\ new.exists = old.exists /\ new.joined_player = old.joined_player
      /\ new.is_master = old.is_master /\ new.register_player = old.register_player
  BY <1>3, <1>4 DEF ChannelInfo
<1>6. new \in ChannelInfo
  <2>1. old.modes \cup done \subseteq Modes
    BY <1>1, <1>4 DEF ChannelInfo
  <2>2. \A limit \in Numbers : limit \in Int
    BY ChannelConstants
  <2> QED BY <1>3, <1>4, <2>1, <2>2 DEF ChannelInfo
<1> HIDE DEF old, new
<1>7. ChannelOK(old)
  BY DEF old
<1>8. ChannelOK(new)
  BY <1>2, <1>5, <1>6, <1>7 DEF ChannelOK
<1> QED BY <1>5, <1>8 DEF old, new, Members

\* MODE - likewise; -k removes the key.
LEMMA AfterClearOK ==
    ASSUME NEW c \in Chans, ChannelOK(channels[c]), NEW flags
    PROVE  /\ ChannelOK(AfterClear(flags, c))
           /\ AfterClear(flags, c).joined_player = Members(c)
           /\ AfterClear(flags, c).is_master = channels[c].is_master
  BY ChannelConstants, EveryoneConstants DEF AfterClear, ChannelOK, ChannelInfo, Members

\* +o and -o move the rank among members.
LEMMA ChangeOperatorOK ==
    ASSUME NEW info, ChannelOK(info), NEW t, NEW valid \in BOOLEAN
    PROVE  /\ ChannelOK(ChangeOperator(info, t, valid))
           /\ ChangeOperator(info, t, valid).joined_player = info.joined_player
  BY DEF ChangeOperator, ChannelOK, ChannelInfo

\* A topic or an invitation leaves the rest of the channel alone.
LEMMA TopicOK ==
    ASSUME NEW c \in Chans, ChannelOK(channels[c]), NEW text \in Topics \cup {NoTopic}
    PROVE  LET info == [channels[c] EXCEPT !.topic = text]
           IN  ChannelOK(info) /\ info.joined_player = Members(c)
  BY DEF ChannelOK, ChannelInfo, Members

LEMMA InvitationOK ==
    ASSUME NEW c \in Chans, ChannelOK(channels[c]), NEW t \in Fds \cup {NoFd}, t \notin Members(c)
    PROVE  LET info == [channels[c] EXCEPT !.register_player = @ \cup {t}]
           IN  ChannelOK(info) /\ info.joined_player = Members(c)
  BY DEF ChannelOK, ChannelInfo, Members

-----------------------------------------------------------------------------
(* The server *)

ServerInv ==
    /\ RegistryInv
    /\ channels \in [Chans -> ChannelInfo]
    /\ \A c \in Chans : ChannelOK(channels[c])
    /\ MembershipMutual
    /\ MembersAreRegistered

\* What every step is proved to do: keep the invariant and the contract.
Good == ServerInv' /\ [EveryoneNext]_everyoneVars

\* The server starts with the invariant.
LEMMA InitServer == Init => ServerInv
<1> SUFFICES ASSUME Init PROVE ServerInv
  OBVIOUS
<1>1. RegistryInv
  BY InitRegistry DEF Init
<1>2. channels \in [Chans -> ChannelInfo] /\ \A c \in Chans : ChannelOK(channels[c])
  BY EmptyChannelOK DEF Init, ChannelInit, ChannelOK
<1>3. MembershipMutual /\ MembersAreRegistered
  BY DEF Init, ChannelInit, EveryoneInit, MembershipMutual, MembersAreRegistered,
         Members, NoChannel
<1> QED BY <1>1, <1>2, <1>3 DEF ServerInv

\* A registered client has a record.
LEMMA RegisteredIsCreated ==
    ASSUME RegistryInv, NEW fd \in Fds, IsRegisterAll(fd)
    PROVE  IsCreated(fd)
  BY DEF RegistryInv, EveryoneTypeOK, IsRegisterAll, IsCreated, Levels

\* Registration never takes a level back.
LEMMA LineKeepsLevels ==
    ASSUME RegistryInv, NEW fd \in Fds, UserLine(fd)
    PROVE  /\ \A g \in Fds : level[g] \subseteq level'[g]
           /\ UNCHANGED join_channel
<1>1. level \in [Fds -> SUBSET Levels]
  BY DEF RegistryInv, EveryoneTypeOK
<1>2. CASE SetRegister(fd)
  BY <1>1, <1>2 DEF SetRegister
<1>3. CASE \E n \in Nicks : SetNickname(fd, n)
  BY <1>1, <1>3 DEF SetNickname
<1>4. CASE SetUser(fd)
  BY <1>1, <1>4 DEF SetUser
<1>5. CASE \E n \in Nicks \ BadNicks : RegisterAtOnce(fd, n)
  <2> PICK n \in Nicks \ BadNicks : RegisterAtOnce(fd, n)
    BY <1>5
  <2>1. UNCHANGED join_channel
    BY DEF RegisterAtOnce
  <2>2. \E some : level' = [level EXCEPT ![fd] = level[fd] \cup some]
    <3> DEFINE some == {"REGISTER", "USER"}
                 \cup (IF NickTaken(NickAnswer(level[fd] \cup {"REGISTER"}, n))
                       THEN {"NICK"} ELSE {})
    <3>1. level' = [level EXCEPT ![fd] = level[fd] \cup some]
      <4>1. level[fd] \cup some =
               (level[fd] \cup {"REGISTER"}) \cup {"USER"}
                 \cup (IF NickTaken(NickAnswer(level[fd] \cup {"REGISTER"}, n))
                       THEN {"NICK"} ELSE {})
        OBVIOUS
      <4> HIDE DEF some
      <4> QED BY <4>1 DEF RegisterAtOnce
    <3> HIDE DEF some
    <3> QED BY <3>1
  <2>3. \A g \in Fds : level[g] \subseteq level'[g]
    BY <1>1, <2>2
  <2> QED BY <2>1, <2>3
<1>6. CASE UNCHANGED <<level, nick_name, join_channel, everyone_nickname, nick_list>>
  BY <1>6
<1> QED BY <1>2, <1>3, <1>4, <1>5, <1>6 DEF UserLine

\* First shape of a step: a line about registration, or about the settings of
\* a channel; nobody moves.
LEMMA NobodyMoves ==
    ASSUME ServerInv, NEW fd \in Fds, UserLine(fd),
           channels' \in [Chans -> ChannelInfo],
           \A c \in Chans : ChannelOK(channels'[c]) /\ Members(c)' = Members(c)
    PROVE  Good
<1>1. RegistryInv'
  BY LineKeepsRegistry DEF ServerInv
<1>2. MembershipMutual' /\ MembersAreRegistered'
  <2>1. UNCHANGED join_channel /\ \A g \in Fds : level[g] \subseteq level'[g]
    BY LineKeepsLevels DEF ServerInv
  <2>2. MembershipMutual'
    BY <2>1 DEF ServerInv, MembershipMutual
  <2>3. \A c \in Chans : Members(c) \subseteq Fds
    BY DEF ServerInv, ChannelInfo, Members
  <2>4. level' \in [Fds -> SUBSET Levels]
    BY <1>1 DEF RegistryInv, EveryoneTypeOK
  <2> QED BY <2>1, <2>2, <2>3, <2>4 DEF ServerInv, MembersAreRegistered, IsRegisterAll
<1>3. EveryoneNext
  BY DEF EveryoneNext
<1> QED BY <1>1, <1>2, <1>3 DEF Good, ServerInv

\* The same when the channels are untouched.
LEMMA ChannelsUntouched ==
    ASSUME ServerInv, NEW fd \in Fds, UserLine(fd), UNCHANGED channels
    PROVE  Good
  BY NobodyMoves DEF ServerInv, Members

\* The same when one channel gets new settings.
LEMMA SettingsChange ==
    ASSUME ServerInv, NEW fd \in Fds, UserLine(fd), NEW c \in Chans, NEW info,
           channels' = [channels EXCEPT ![c] = info],
           ChannelOK(info), info.joined_player = Members(c)
    PROVE  Good
<1>1. channels' \in [Chans -> ChannelInfo]
  BY DEF ServerInv, ChannelOK
<1>2. \A d \in Chans : ChannelOK(channels'[d]) /\ Members(d)' = Members(d)
  BY DEF ServerInv, Members
<1> QED BY <1>1, <1>2, NobodyMoves

\* Second shape: one client enters, or leaves, one channel.
LEMMA OneMoves ==
    ASSUME ServerInv, NEW fd \in Fds, NEW c \in Chans, IsRegisterAll(fd), NEW info,
           channels' = [channels EXCEPT ![c] = info], ChannelOK(info),
           \/ AddJoinChannel(fd, c) /\ info.joined_player = Members(c) \cup {fd}
           \/ DeleteJoinChannel(fd, c) /\ info.joined_player = Members(c) \ {fd}
    PROVE  Good
<1>1. IsCreated(fd)
  BY RegisteredIsCreated DEF ServerInv
<1>2. EveryoneNext
  BY <1>1 DEF EveryoneNext
<1>3. RegistryInv'
  BY <1>2, NextKeepsRegistry DEF ServerInv
<1>4. channels' \in [Chans -> ChannelInfo] /\ \A d \in Chans : ChannelOK(channels'[d])
  BY DEF ServerInv, ChannelOK
<1>5. \A d \in Chans : Members(d)' = IF d = c THEN info.joined_player ELSE Members(d)
  BY DEF ServerInv, Members
<1>6. join_channel \in [Fds -> SUBSET Chans]
  BY DEF ServerInv, RegistryInv, EveryoneTypeOK
<1>7. MembershipMutual'
  BY <1>5, <1>6 DEF ServerInv, MembershipMutual, AddJoinChannel, DeleteJoinChannel
<1>8. MembersAreRegistered'
  BY <1>5 DEF ServerInv, MembersAreRegistered, IsRegisterAll, AddJoinChannel, DeleteJoinChannel
<1> QED BY <1>2, <1>3, <1>4, <1>7, <1>8 DEF Good, ServerInv

\* Third shape: a user is deleted, and leaves every channel it was in.
LEMMA OneDeparts ==
    ASSUME ServerInv, NEW fd \in Fds, DeleteUser(fd), LeaveAll(fd)
    PROVE  Good
<1>1. EveryoneNext
  BY DEF EveryoneNext
<1>2. RegistryInv'
  BY <1>1, NextKeepsRegistry DEF ServerInv
<1>3. \A c \in Chans : c \in join_channel[fd] <=> fd \in Members(c)
  BY DEF ServerInv, MembershipMutual
<1>4. \A c \in Chans : fd \in Members(c) => LeaveAnswer(fd, c) = "PART"
  BY DEF ServerInv, MembersAreRegistered, ChannelOK, LeaveAnswer, IsRegister, IsRegisterAll,
         Levels, ExistChannel, IsJoined, Members
<1>5. \A c \in Chans : channels'[c] = IF fd \in Members(c) THEN AfterLeave(fd, c)
                                      ELSE channels[c]
  BY <1>3, <1>4 DEF LeaveAll
<1>6. \A c \in Chans : ChannelOK(channels'[c]) /\ channels'[c].joined_player = Members(c) \ {fd}
  <2> TAKE c \in Chans
  <2>1. ChannelOK(channels[c])
    BY DEF ServerInv
  <2>2. CASE fd \in Members(c)
    BY <2>1, <2>2, <1>5, AfterLeaveOK
  <2>3. CASE fd \notin Members(c)
    <3>1. Members(c) \ {fd} = Members(c)
      BY <2>3
    <3> QED BY <2>1, <2>3, <3>1, <1>5 DEF Members
  <2> QED BY <2>2, <2>3
<1>7. channels' \in [Chans -> ChannelInfo]
  <2>1. channels' = [c \in Chans |-> channels'[c]]
    BY DEF LeaveAll
  <2>2. \A c \in Chans : channels'[c] \in ChannelInfo
    BY <1>6 DEF ChannelOK
  <2> QED BY <2>1, <2>2
<1>8. /\ \A g \in Fds : join_channel'[g] = IF g = fd THEN {} ELSE join_channel[g]
      /\ \A g \in Fds : g # fd => level'[g] = level[g]
  BY DEF DeleteUser, ServerInv, RegistryInv, EveryoneTypeOK
<1>9. MembershipMutual'
  BY <1>6, <1>8 DEF ServerInv, MembershipMutual, Members
<1>10. MembersAreRegistered'
  <2> SUFFICES ASSUME NEW c \in Chans, NEW g \in Members(c)' PROVE IsRegisterAll(g)'
    BY DEF MembersAreRegistered
  <2>1. g \in Members(c) /\ g # fd
    BY <1>6 DEF Members
  <2>2. g \in Fds
    BY <2>1 DEF ServerInv, ChannelInfo, Members
  <2> QED BY <2>1, <2>2, <1>8 DEF ServerInv, MembersAreRegistered, IsRegisterAll
<1> QED BY <1>1, <1>2, <1>6, <1>7, <1>9, <1>10 DEF Good, ServerInv

-----------------------------------------------------------------------------
(* The commands, by shape *)

\* A line that leaves the users alone is a line of the registry.
LEMMA SameUsersLine ==
    ASSUME NEW fd \in Fds, NEW cmd, Line(fd, cmd), SameUsers
    PROVE  UserLine(fd)
  BY DEF Line, SameUsers, UserLine

\* PASS, NICK, USER, SKIP, the gate and the blank line.
LEMMA RegisterGood ==
    ASSUME ServerInv, NEW fd \in Fds, Register(fd)
    PROVE  Good
<1>1. ASSUME NEW n \in Nicks \ BadNicks, Skip(fd, n) PROVE Good
  BY <1>1, ChannelsUntouched DEF Skip, Line, UserLine
<1>2. ASSUME NEW word \in PassWords, Pass(fd, word) PROVE Good
  <2>1. UserLine(fd)
    BY <1>2 DEF Pass, Line, UserLine, SameUsers
  <2> QED BY <1>2, <2>1, ChannelsUntouched DEF Pass
<1>3. ASSUME NEW n \in Nicks \ {NoArg}, Nick(fd, n) PROVE Good
  BY <1>3, ChannelsUntouched DEF Nick, Line, UserLine
<1>4. ASSUME User(fd) PROVE Good
  <2>1. UserLine(fd)
    BY <1>4 DEF User, Line, UserLine, SameUsers
  <2> QED BY <1>4, <2>1, ChannelsUntouched DEF User
<1>5. ASSUME Unregistered(fd) PROVE Good
  BY <1>5, SameUsersLine, ChannelsUntouched DEF Unregistered
<1>6. ASSUME Blank(fd) PROVE Good
  BY <1>6, SameUsersLine, ChannelsUntouched DEF Blank, Dies
<1>7. ASSUME TooFewWords(fd) PROVE Good
  BY <1>7, SameUsersLine, ChannelsUntouched DEF TooFewWords
<1> QED BY <1>1, <1>2, <1>3, <1>4, <1>5, <1>6, <1>7 DEF Register

\* JOIN.
LEMMA JoinGood ==
    ASSUME ServerInv, NEW fd \in Fds, NEW c \in Chans, NEW pass \in Nicks, Join(fd, c, pass)
    PROVE  Good
<1>1. Line(fd, "JOIN") /\ IsRegisterAll(fd) /\ JoinedChannel(fd, c, pass)
  BY DEF Join, Command
<1>2. CASE Joins(JoinAnswer(fd, c, pass))
  <2>1. channels' = [channels EXCEPT ![c] = AfterJoin(fd, c)] /\ AddJoinChannel(fd, c)
    BY <1>1, <1>2 DEF JoinedChannel
  <2>2. /\ ChannelOK(AfterJoin(fd, c))
        /\ AfterJoin(fd, c).joined_player = Members(c) \cup {fd}
    BY AfterJoinOK DEF ServerInv
  <2> QED BY <1>1, <2>1, <2>2, OneMoves
<1>3. CASE ~Joins(JoinAnswer(fd, c, pass))
  <2>1. UNCHANGED <<channels, everyoneVars>>
    BY <1>1, <1>3 DEF JoinedChannel
  <2>2. UserLine(fd) /\ UNCHANGED channels
    BY <1>1, <2>1, SameUsersLine DEF everyoneVars, SameUsers
  <2> QED BY <2>2, ChannelsUntouched
<1> QED BY <1>2, <1>3

\* PART.
LEMMA PartGood ==
    ASSUME ServerInv, NEW fd \in Fds, NEW c \in Chans, Part(fd, c)
    PROVE  Good
<1>1. Line(fd, "PART") /\ IsRegisterAll(fd) /\ LeaveChannel(fd, c)
  BY DEF Part, Command
<1>2. CASE LeaveAnswer(fd, c) = "PART"
  <2>1. channels' = [channels EXCEPT ![c] = AfterLeave(fd, c)] /\ DeleteJoinChannel(fd, c)
    BY <1>1, <1>2 DEF LeaveChannel
  <2>2. /\ ChannelOK(AfterLeave(fd, c))
        /\ AfterLeave(fd, c).joined_player = Members(c) \ {fd}
    BY AfterLeaveOK DEF ServerInv
  <2> QED BY <1>1, <2>1, <2>2, OneMoves
<1>3. CASE LeaveAnswer(fd, c) # "PART"
  <2>1. UNCHANGED <<channels, everyoneVars>>
    BY <1>1, <1>3 DEF LeaveChannel
  <2>2. UserLine(fd) /\ UNCHANGED channels
    BY <1>1, <2>1, SameUsersLine DEF everyoneVars, SameUsers
  <2> QED BY <2>2, ChannelsUntouched
<1> QED BY <1>2, <1>3

\* KICK, whoever the nickname led to.
LEMMA KickGood ==
    ASSUME ServerInv, NEW fd \in Fds, NEW c \in Chans, NEW n \in Nicks, Kick(fd, c, n)
    PROVE  Good
<1>1. Line(fd, "KICK")
  BY DEF Kick, Command
<1>2. CASE SameUsers /\ UNCHANGED channels
  BY <1>1, <1>2, SameUsersLine, ChannelsUntouched
<1>3. ASSUME NEW t, IsJoined(t, c), KickChannel(t, c) PROVE Good
  <2>1. t \in Fds /\ IsRegisterAll(t)
    BY <1>3 DEF ServerInv, ChannelInfo, MembersAreRegistered, IsJoined, Members
  <2>2. /\ ChannelOK(AfterKick(t, c))
        /\ AfterKick(t, c).joined_player = Members(c) \ {t}
    BY <2>1, AfterKickOK DEF ServerInv
  <2> QED BY <1>3, <2>1, <2>2, OneMoves DEF KickChannel
<1> QED BY <1>2, <1>3 DEF Kick, Dies

\* An invitation goes to a client's descriptor, or to the number that is none.
LEMMA InviteReaches ==
    ASSUME ServerInv, NEW fd, NEW n \in Nicks, NEW c, NEW t \in InviteTargets(fd, n, c), t # Crash
    PROVE  t \in Fds \cup {NoFd}
<1>1. everyone_nickname[n] \in Fds \cup {None, Dangling}
  BY DEF ServerInv, RegistryInv, EveryoneTypeOK
<1>2. GetUserIdNick(n) \subseteq Fds \cup {NoFd, Crash}
  <2>1. CASE everyone_nickname[n] \in Fds
    BY <2>1, EveryoneConstants DEF GetUserIdNick
  <2>2. CASE everyone_nickname[n] = None
    BY <2>2, EveryoneConstants DEF GetUserIdNick
  <2>3. CASE everyone_nickname[n] = Dangling
    BY <2>3, EveryoneConstants DEF GetUserIdNick
  <2> QED BY <1>1, <2>1, <2>2, <2>3
<1> QED BY <1>2 DEF InviteTargets

\* INVITE.
LEMMA InviteGood ==
    ASSUME ServerInv, NEW fd \in Fds, NEW n \in Nicks, NEW c \in Chans, Invite(fd, n, c)
    PROVE  Good
<1>1. Line(fd, "INVITE") /\ SameUsers
  BY DEF Invite, Command, Dies
<1>2. CASE UNCHANGED channels
  BY <1>1, <1>2, SameUsersLine, ChannelsUntouched
<1>3. ASSUME NEW t \in InviteTargets(fd, n, c), t # Crash, InviteToChannel(fd, n, t, c)
      PROVE  Good
  <2>1. CASE InviteAnswer(fd, n, t, c) # "RPL_INVITING"
    BY <1>2, <1>3, <2>1 DEF InviteToChannel
  <2>2. CASE InviteAnswer(fd, n, t, c) = "RPL_INVITING"
    <3>1. t \in Fds \cup {NoFd}
      BY <1>3, InviteReaches
    <3>2. ExistChannel(c) /\ ~IsJoined(t, c)
      BY <2>2 DEF InviteAnswer
    <3>3. t \notin Members(c)
      BY <3>2 DEF IsJoined
    <3> DEFINE info == [channels[c] EXCEPT !.register_player = @ \cup {t}]
    <3>4. ChannelOK(info) /\ info.joined_player = Members(c)
      BY <3>1, <3>3, InvitationOK DEF ServerInv
    <3>5. channels' = [channels EXCEPT ![c] = info]
      BY <1>3, <2>2 DEF InviteToChannel, ServerInv
    <3> HIDE DEF info
    <3> QED BY <1>1, <3>4, <3>5, SameUsersLine, SettingsChange
  <2> QED BY <2>1, <2>2
<1> QED BY <1>2, <1>3 DEF Invite, Dies

\* MODE.
LEMMA ModeGood ==
    ASSUME ServerInv, NEW fd \in Fds, NEW c \in Chans, NEW valid \in BOOLEAN,
           NEW flags \in ModeSets, NEW key \in Nicks, Mode(fd, c, valid, flags, key)
    PROVE  Good
<1>1. Line(fd, "MODE") /\ SameUsers
  BY DEF Mode, Command, Dies
<1>2. CASE UNCHANGED channels
  BY <1>1, <1>2, SameUsersLine, ChannelsUntouched
<1>3. ASSUME NEW t, ChangeChannelMode(valid, flags, c, key, t) PROVE Good
  <2> DEFINE info == IF valid THEN AfterSet(flags, c, key) ELSE AfterClear(flags, c)
             last == IF ReachesOperator(valid, flags, c, key)
                     THEN ChangeOperator(info, t, valid) ELSE info
  <2>1. ChannelOK(info) /\ info.joined_player = Members(c)
    BY AfterSetOK, AfterClearOK DEF ServerInv
  <2>2. channels' = [channels EXCEPT ![c] = last]
    BY <1>3 DEF ChangeChannelMode
  <2> HIDE DEF info
  <2>3. ChannelOK(last) /\ last.joined_player = Members(c)
    BY <2>1, ChangeOperatorOK
  <2> HIDE DEF last
  <2> QED BY <1>1, <2>2, <2>3, SameUsersLine, SettingsChange
<1> QED BY <1>2, <1>3 DEF Mode, Dies

\* TOPIC with a text.
LEMMA TopicGood ==
    ASSUME ServerInv, NEW fd \in Fds, NEW c \in Chans,
           NEW text \in Topics \cup {NoTopic}, Topic(fd, c, text)
    PROVE  Good
<1>1. UserLine(fd)
  BY SameUsersLine DEF Topic, Command
<1>2. CASE TopicAnswer(fd, c) # "Changed"
  BY <1>1, <1>2, ChannelsUntouched DEF Topic, ChangeTopic
<1>3. CASE TopicAnswer(fd, c) = "Changed"
  <2> DEFINE info == [channels[c] EXCEPT !.topic = text]
  <2>1. ChannelOK(info) /\ info.joined_player = Members(c)
    BY TopicOK DEF ServerInv
  <2>2. channels' = [channels EXCEPT ![c] = info]
    BY <1>3 DEF Topic, ChangeTopic, ServerInv
  <2> HIDE DEF info
  <2> QED BY <1>1, <2>1, <2>2, SettingsChange
<1> QED BY <1>2, <1>3

\* PRIVMSG, WHOIS, EXIT and the questions change neither users nor channels.
LEMMA TalkGood ==
    ASSUME ServerInv, NEW fd \in Fds,
           \/ \E c \in Chans : PrivmsgChannel(fd, c)
           \/ \E n \in Nicks : PrivmsgUser(fd, n) \/ Whois(fd, n)
           \/ Question(fd)
           \/ Exit(fd)
    PROVE  Good
<1>1. \E cmd : Line(fd, cmd)
  BY DEF PrivmsgChannel, PrivmsgUser, Whois, SendLog, Question, Exit, Command
<1>2. SameUsers
  BY DEF PrivmsgChannel, PrivmsgUser, Whois, SendLog, Question, Exit, Dies
<1>3. UNCHANGED channels
  BY DEF PrivmsgChannel, PrivmsgUser, Whois, SendLog, Question, Exit
<1> QED BY <1>1, <1>2, <1>3, SameUsersLine, ChannelsUntouched

-----------------------------------------------------------------------------
(* Putting it together *)

\* Every step keeps the invariant and is a step of the registry.
LEMMA NextGood == ServerInv /\ [Next]_vars => Good
<1> SUFFICES ASSUME ServerInv, [Next]_vars PROVE Good
  OBVIOUS
<1>1. CASE BrokenPipe \/ UNCHANGED vars
  <2>1. UNCHANGED everyoneVars /\ UNCHANGED channels
    BY <1>1 DEF BrokenPipe, vars
  <2>2. RegistryInv'
    BY <2>1, NextKeepsRegistry DEF ServerInv
  <2>3. MembershipMutual' /\ MembersAreRegistered'
    BY <2>1 DEF everyoneVars, ServerInv, MembershipMutual, MembersAreRegistered, Members,
                IsRegisterAll
  <2> QED BY <2>1, <2>2, <2>3 DEF Good, ServerInv
<1>2. ASSUME NEW fd \in Fds, Register(fd) PROVE Good
  BY <1>2, RegisterGood
<1>3. ASSUME NEW fd \in Fds, NEW c \in Chans, ChannelCommand(fd, c) PROVE Good
  BY <1>3, JoinGood, PartGood, KickGood, InviteGood, ModeGood, TopicGood, TalkGood
  DEF ChannelCommand
<1>4. ASSUME NEW fd \in Fds, UserCommand(fd) PROVE Good
  <2>1. ASSUME Quit(fd) PROVE Good
    BY <2>1, OneDeparts DEF Quit
  <2> QED BY <1>4, <2>1, TalkGood DEF UserCommand
<1>5. ASSUME NEW fd \in Fds, CloseClient(fd) PROVE Good
  BY <1>5, OneDeparts DEF CloseClient
<1> QED BY <1>1, <1>2, <1>3, <1>4, <1>5 DEF Next

\* The server satisfies its invariant.
THEOREM ServerCorrect == Spec => []ServerInv
<1>1. ServerInv /\ [Next]_vars => ServerInv'
  BY NextGood DEF Good
<1> QED BY InitServer, <1>1, PTL DEF Spec

\* The server keeps the registry's contract: what is proved of the registry
\* alone holds of it inside the server.
THEOREM ServerKeepsContract == Spec => RegistryContract
<1>1. Init => EveryoneInit
  BY DEF Init
<1>2. ServerInv /\ [Next]_vars => [EveryoneNext]_everyoneVars
  BY NextGood DEF Good
<1> QED BY <1>1, <1>2, ServerCorrect, PTL DEF Spec, RegistryContract, EveryoneSpec

\* Users and channels always agree on who is where.
THEOREM MembershipAgrees == Spec => []MembershipMutual
<1>1. ServerInv => MembershipMutual
  BY DEF ServerInv
<1> QED BY <1>1, ServerCorrect, PTL

\* Nobody enters a channel without password, nickname and user name.
THEOREM OnlyRegisteredMembers == Spec => []MembersAreRegistered
<1>1. ServerInv => MembersAreRegistered
  BY DEF ServerInv
<1> QED BY <1>1, ServerCorrect, PTL

\* An operator is always a member.
THEOREM OnlyMembersOperate == Spec => []OperatorsAreMembers
<1>1. ServerInv => OperatorsAreMembers
  BY DEF ServerInv, ChannelOK, OperatorsAreMembers, Members
<1> QED BY <1>1, ServerCorrect, PTL

\* A channel asks for a key exactly when it has one.
THEOREM KeysMatchModes == Spec => []KeyModeHasKey
<1>1. ServerInv => KeyModeHasKey
  BY DEF ServerInv, ChannelOK, KeyModeHasKey, HasMode
<1> QED BY <1>1, ServerCorrect, PTL

\* No member holds an invitation.
THEOREM InvitationsUsedOnce == Spec => []InvitationsAreSpent
<1>1. ServerInv => InvitationsAreSpent
  BY DEF ServerInv, ChannelOK, InvitationsAreSpent, Members
<1> QED BY <1>1, ServerCorrect, PTL

=============================================================================
