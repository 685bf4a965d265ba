----------------------------- MODULE StepsProofs ----------------------------
(***************************************************************************)
(* What a single step may do, for any number of clients, nicknames and     *)
(* channels: who changes what in a channel, who gets in, who hears of it,  *)
(* when a client is welcomed, what a descriptor leaves to its next user,   *)
(* and what ends the process; and the type of what is sent.                *)
(*                                                                         *)
(* The laws are about one channel at a time.  Most commands touch one      *)
(* channel or none; DeleteUser touches all those the user is in, each in   *)
(* the way PART does.                                                      *)
(***************************************************************************)
EXTENDS RoomsProofs, FiniteSetTheorems

Traffic == {"JOIN", "PART", "KICK", "PRIVMSG", "RPL_TOPIC", "RPL_NOTOPIC"}

\* Who may move whom in and out of channel c ...
MoveLaw(c) ==
    \A fd \in Fds \ {actor'} :
        /\ fd \in Members(c)' => fd \in Members(c)
        /\ fd \in Members(c) \ Members(c)' => actor' \in channels[c].is_master

\* ... how it gets empty ...
EmptyLaw(c) ==
    Members(c) # {} /\ Members(c)' = {} /\ ExistChannel(c)' =>
        Members(c) = {actor'} /\ IsOperator(actor', c) /\ Msg(actor', "KICK", actor', c) \in sent'

\* ... who may change the rest of it ...
OperatorLaw(c) ==
    ExistChannel(c) /\ ExistChannel(c)' /\ Members(c)' # {} =>
        LET old == channels[c]
            new == channels'[c]
        IN  /\ \/ actor' \in old.is_master
               \/ /\ new.modes = old.modes
                  /\ new.password = old.password
                  /\ new.limit_member = old.limit_member
                  /\ old.is_master \ {actor'} \subseteq new.is_master
                  /\ new.is_master \subseteq old.is_master
                  /\ new.register_player \subseteq old.register_player
                  /\ "t" \in old.modes => new.topic = old.topic
            /\ new.topic # old.topic => actor' \in old.joined_player

\* ... and who is told.
PresenceLaw(c) ==
    \A to \in Members(c) \cap Members(c)' :
        /\ \A fd \in Members(c)' \ Members(c) : Msg(to, "JOIN", fd, c) \in sent'
        /\ \A fd \in Members(c) \ Members(c)' :
              \E what \in {"PART", "KICK"} : Msg(to, what, fd, c) \in sent'

ChannelLaw(c) == MoveLaw(c) /\ EmptyLaw(c) /\ OperatorLaw(c) /\ PresenceLaw(c)

TrafficLaw ==
    \A m \in sent' : m.what \in Traffic /\ m.on \in Chans =>
        m.to \in Members(m.on) \cup Members(m.on)'

Lawful ==
    /\ \A c \in Chans : ChannelLaw(c)
    /\ TrafficLaw

\* The answers go to no channel.
Quiet == \A m \in sent' : m.on = None \/ m.what \notin Traffic

-----------------------------------------------------------------------------
(* Messages *)

\* What is sent when the messages are chosen.
LEMMA SentAre ==
    ASSUME NEW msgs, SendOnly(msgs)
    PROVE  \A m : m \in sent' <=> m \in msgs /\ m.to \in Fds
  BY DEF SendOnly

LEMMA MsgFields ==
    ASSUME NEW to, NEW what, NEW who, NEW on
    PROVE  /\ Msg(to, what, who, on).to = to
           /\ Msg(to, what, who, on).what = what
           /\ Msg(to, what, who, on).who = who
           /\ Msg(to, what, who, on).on = on
  BY DEF Msg

LEMMA ToAllAre ==
    ASSUME NEW fds, NEW what, NEW who, NEW on
    PROVE  /\ \A m \in ToAll(fds, what, who, on) :
                 m.to \in fds /\ m.what = what /\ m.who = who /\ m.on = on
           /\ \A to \in fds : Msg(to, what, who, on) \in ToAll(fds, what, who, on)
  BY MsgFields DEF ToAll

LEMMA ReplyIs ==
    ASSUME NEW fd, NEW what
    PROVE  \A m \in Reply(fd, what) : m.to = fd /\ m.what = what /\ m.who = fd /\ m.on = None
  BY MsgFields DEF Reply

\* All a message may say.
Talk == Errors \cup Replies \cup Notices

\* Questions are answered, with no welcome, and change nothing.
LEMMA QuestionSays ==
    ASSUME NEW fd, Question(fd)
    PROVE  /\ SameUsers /\ UNCHANGED channels
           /\ \/ \E what \in Talk \ {"RPL_WELCOME"} : SendOnly(Reply(fd, what))
              \/ SendOnly({})
              \/ SendOnly(Reply(fd, "ERR_NOSUCHNICK") \cup Reply(fd, "RPL_ENDOFWHOIS"))
<1>1. \A cmd \in (RegisteredOnly \cup SilentBefore) \ {"QUIT", "EXIT", "LOG"} :
          Answers(cmd) \subseteq Talk \ {"RPL_WELCOME"}
  <2> DEFINE all == {"PONG", "ERR_NOORIGIN", "ERR_NORECIPIENT", "ERR_NOTEXTTOSEND",
                     "ERR_NONICKNAMEGIVEN", "ERR_UNKNOWNCOMMAND", "ERR_NEEDMOREPARAMS"}
  <2>1. all \subseteq Talk \ {"RPL_WELCOME"}
    BY DEF Talk, Errors, Notices
  <2>2. \A cmd \in (RegisteredOnly \cup SilentBefore) \ {"QUIT", "EXIT", "LOG"} : Answers(cmd) \subseteq all
    BY DEF RegisteredOnly, SilentBefore, Answers
  <2> HIDE DEF all
  <2> QED BY <2>1, <2>2
<1>2. \A c : GetTopic(c) \in Talk \ {"RPL_WELCOME"}
  BY DEF GetTopic, Talk, Errors, Replies
<1>3. \E what \in Talk \ {"RPL_WELCOME"} : AdminAnswer(fd) = Reply(fd, what)
  <2>1. "" \in Talk \ {"RPL_WELCOME"} /\ "FATAL" \in Talk \ {"RPL_WELCOME"}
    BY DEF Talk, Errors, Notices
  <2> QED BY <2>1 DEF AdminAnswer
<1>4. SameUsers /\ UNCHANGED channels
  BY DEF Question
<1>5. \/ \E cmd \in (RegisteredOnly \cup SilentBefore) \ {"QUIT", "EXIT", "LOG"} :
            \E what \in Answers(cmd) : SendOnly(Reply(fd, what))
      \/ \E c \in Chans : SendOnly(Reply(fd, GetTopic(c)))
      \/ SendOnly({}) \/ SendOnly(AdminAnswer(fd))
      \/ SendOnly(Reply(fd, "ERR_NOSUCHNICK") \cup Reply(fd, "RPL_ENDOFWHOIS"))
  BY DEF Question
<1>6. CASE \E c \in Chans : SendOnly(Reply(fd, GetTopic(c)))
  BY <1>2, <1>4, <1>6
<1>7. CASE SendOnly(AdminAnswer(fd))
  BY <1>3, <1>4, <1>7
<1>8. CASE \E cmd \in (RegisteredOnly \cup SilentBefore) \ {"QUIT", "EXIT", "LOG"} :
              \E what \in Answers(cmd) : SendOnly(Reply(fd, what))
  BY <1>1, <1>4, <1>8
<1> QED BY <1>4, <1>5, <1>6, <1>7, <1>8

-----------------------------------------------------------------------------
(* Steps that leave the channels alone *)

LEMMA SameChannel ==
    ASSUME NEW c \in Chans, channels'[c] = channels[c]
    PROVE  ChannelLaw(c)
  BY DEF ChannelLaw, MoveLaw, EmptyLaw, OperatorLaw, PresenceLaw, Members, ExistChannel

LEMMA QuietLaws ==
    ASSUME Quiet
    PROVE  TrafficLaw
  BY ChannelConstants DEF Quiet, TrafficLaw, Traffic

LEMMA QuietLawful ==
    ASSUME UNCHANGED channels, Quiet
    PROVE  Lawful
<1>1. \A c \in Chans : ChannelLaw(c)
  BY SameChannel
<1> QED BY <1>1, QuietLaws DEF Lawful

\* An answer, or nothing.
LEMMA AnswerLawful ==
    ASSUME UNCHANGED channels, NEW fd, NEW what, SendOnly(Reply(fd, what)) \/ SendOnly({})
    PROVE  Lawful
<1>1. Quiet
  BY SentAre, ReplyIs DEF Quiet
<1> QED BY <1>1, QuietLawful

LEMMA DiesLawful ==
    ASSUME Dies
    PROVE  Lawful
<1>1. Quiet
  BY DEF Dies, Quiet
<1> QED BY <1>1, QuietLawful DEF Dies

-----------------------------------------------------------------------------
(* Steps that change one channel *)

LEMMA OneChannel ==
    ASSUME RoomsInv, NEW c \in Chans, NEW info, channels' = [channels EXCEPT ![c] = info]
    PROVE  /\ channels'[c] = info
           /\ Members(c) \subseteq Fds /\ channels[c] \in ChannelInfo
           /\ \A d \in Chans \ {c} : ChannelLaw(d)
<1>1. channels \in [Chans -> ChannelInfo]
  BY DEF RoomsInv, ServerInv
<1>2. Members(c) \subseteq Fds
  BY <1>1 DEF ChannelInfo, Members
<1> QED BY <1>1, <1>2, SameChannel

\* JOIN.
LEMMA JoinLawful ==
    ASSUME RoomsInv, NEW fd \in Fds, NEW c \in Chans, NEW pass \in Nicks, Join(fd, c, pass)
    PROVE  Lawful
<1> DEFINE answer == JoinAnswer(fd, c, pass)
<1>1. actor' = fd /\ JoinedChannel(fd, c, pass)
  BY DEF Join, Command, Line, Turn
<1>2. SendOnly(Reply(fd, answer) \cup
               IF Joins(answer) THEN ToAll(Members(c) \cup {fd}, "JOIN", fd, c) ELSE {})
  BY DEF Join
<1>3. CASE ~Joins(answer)
  <2>1. UNCHANGED channels /\ SendOnly(Reply(fd, answer))
    BY <1>1, <1>2, <1>3 DEF JoinedChannel
  <2> QED BY <2>1, AnswerLawful
<1>4. CASE Joins(answer)
  <2>1. channels' = [channels EXCEPT ![c] = AfterJoin(fd, c)]
    BY <1>1, <1>4 DEF JoinedChannel
  <2>2. /\ channels'[c] = AfterJoin(fd, c)
        /\ Members(c) \subseteq Fds /\ channels[c] \in ChannelInfo
        /\ \A d \in Chans \ {c} : ChannelLaw(d)
    BY <2>1, OneChannel
  <2>3. Members(c)' = Members(c) \cup {fd}
    BY <2>2, AfterJoinOK DEF Members, RoomsInv, ServerInv
  <2> DEFINE msgs == Reply(fd, answer) \cup ToAll(Members(c) \cup {fd}, "JOIN", fd, c)
  <2>4. \A m : m \in sent' <=> m \in msgs /\ m.to \in Fds
    BY <1>2, <1>4, SentAre
  <2>5. \A m \in sent' : m.on = None \/ (m.what = "JOIN" /\ m.to \in Members(c)' /\ m.on = c)
    BY <2>3, <2>4, ReplyIs, ToAllAre
  <2>6. \A to \in Members(c) : Msg(to, "JOIN", fd, c) \in sent'
    BY <2>2, <2>4, ToAllAre, MsgFields
  <2> HIDE DEF answer, msgs
  <2>7. TrafficLaw
    BY <2>5, ChannelConstants DEF TrafficLaw
  <2>8. MoveLaw(c) /\ EmptyLaw(c) /\ PresenceLaw(c)
    BY <1>1, <2>3, <2>6 DEF MoveLaw, EmptyLaw, PresenceLaw
  <2>9. OperatorLaw(c)
    <3>1. ASSUME ExistChannel(c) PROVE OperatorLaw(c)
      <4>1. channels'[c] = [channels[c] EXCEPT !.joined_player = @ \cup {fd},
                                               !.register_player = @ \ {fd}]
        BY <2>2, <3>1 DEF AfterJoin
      <4> QED BY <2>2, <4>1 DEF OperatorLaw, ChannelInfo
    <3> QED BY <3>1 DEF OperatorLaw
  <2> QED BY <2>2, <2>7, <2>8, <2>9 DEF Lawful, ChannelLaw
<1> QED BY <1>3, <1>4

\* One member leaves one channel on its own, by PART, QUIT or its connection.
LEMMA LeavingLaw ==
    ASSUME RoomsInv, NEW fd \in Fds, NEW c \in Chans, fd \in Members(c), actor' = fd,
           channels'[c] = AfterLeave(fd, c),
           \A to \in Members(c) \ {fd} : Msg(to, "PART", fd, c) \in sent'
    PROVE  ChannelLaw(c)
<1>1. Members(c)' = Members(c) \ {fd}
  BY AfterLeaveOK DEF Members, RoomsInv, ServerInv
<1>2. channels[c] \in ChannelInfo
  BY DEF RoomsInv, ServerInv
<1>3. CASE Members(c) \subseteq {fd}
  <2>1. channels'[c] = NoChannel
    BY <1>3 DEF AfterLeave
  <2> QED
    BY <1>1, <1>3, <2>1 DEF ChannelLaw, MoveLaw, EmptyLaw, OperatorLaw, PresenceLaw,
                            ExistChannel, NoChannel
<1>4. CASE ~(Members(c) \subseteq {fd})
  <2>1. channels'[c] = [channels[c] EXCEPT !.joined_player = @ \ {fd}, !.is_master = @ \ {fd}]
    BY <1>4 DEF AfterLeave
  <2>2. MoveLaw(c) /\ EmptyLaw(c) /\ PresenceLaw(c)
    BY <1>1, <1>4 DEF MoveLaw, EmptyLaw, PresenceLaw
  <2>3. OperatorLaw(c)
    BY <1>2, <2>1 DEF OperatorLaw, ChannelInfo
  <2> QED BY <2>2, <2>3 DEF ChannelLaw
<1> QED BY <1>3, <1>4

\* PART.
LEMMA PartLawful ==
    ASSUME RoomsInv, NEW fd \in Fds, NEW c \in Chans, Part(fd, c)
    PROVE  Lawful
<1> DEFINE answer == LeaveAnswer(fd, c)
           msgs == LeaveMessages(fd, c) \cup {Msg(fd, answer, fd, c)}
<1>1. actor' = fd /\ LeaveChannel(fd, c)
  BY DEF Part, Command, Line, Turn
<1>2. \A m : m \in sent' <=> m \in msgs /\ m.to \in Fds
  BY SentAre DEF Part
<1>3. CASE answer # "PART"
  <2>1. UNCHANGED channels
    BY <1>1, <1>3 DEF LeaveChannel
  <2>2. LeaveMessages(fd, c) = {}
    BY <1>3 DEF LeaveMessages
  <2>3. answer \notin Traffic
    BY <1>3 DEF LeaveAnswer, Traffic
  <2>4. Quiet
    BY <1>2, <2>2, <2>3, MsgFields DEF Quiet
  <2> QED BY <2>1, <2>4, QuietLawful
<1>4. CASE answer = "PART"
  <2>1. channels' = [channels EXCEPT ![c] = AfterLeave(fd, c)]
    BY <1>1, <1>4 DEF LeaveChannel
  <2>2. /\ channels'[c] = AfterLeave(fd, c)
        /\ Members(c) \subseteq Fds
        /\ \A d \in Chans \ {c} : ChannelLaw(d)
    BY <2>1, OneChannel
  <2>3. fd \in Members(c)
    BY <1>4 DEF LeaveAnswer, IsJoined
  <2>4. msgs = ToAll(Members(c) \ {fd}, "PART", fd, c) \cup {Msg(fd, "PART", fd, c)}
    BY <1>4 DEF LeaveMessages
  <2> HIDE DEF answer, msgs
  <2>5. \A m \in sent' : m.what = "PART" /\ m.to \in Members(c) /\ m.on = c
    BY <1>2, <2>3, <2>4, ToAllAre, MsgFields
  <2>6. \A to \in Members(c) \ {fd} : Msg(to, "PART", fd, c) \in sent'
    BY <1>2, <2>2, <2>4, ToAllAre, MsgFields
  <2>7. TrafficLaw
    BY <2>5 DEF TrafficLaw
  <2>8. ChannelLaw(c)
    BY <1>1, <2>2, <2>3, <2>6, LeavingLaw
  <2> QED BY <2>2, <2>7, <2>8 DEF Lawful
<1> QED BY <1>3, <1>4

\* KICK.
LEMMA KickLawful ==
    ASSUME RoomsInv, NEW fd \in Fds, NEW c \in Chans, NEW n \in Nicks, Kick(fd, c, n)
    PROVE  Lawful
<1>1. actor' = fd
  BY DEF Kick, Command, Line, Turn
<1>2. CASE Dies
  BY <1>2, DiesLawful
<1>3. ASSUME NEW what, SendOnly(Reply(fd, what)), UNCHANGED channels PROVE Lawful
  BY <1>3, AnswerLawful
<1>4. ASSUME KickRefusal(fd, c) = "None", NEW t, IsJoined(t, c), KickChannel(t, c),
             SendOnly(KickMessages(t, c))
      PROVE  Lawful
  <2>1. fd \in channels[c].is_master
    BY <1>4 DEF KickRefusal, IsOperator, IsAdmin, RoomsInv
  <2>2. channels' = [channels EXCEPT ![c] = AfterKick(t, c)]
    BY <1>4 DEF KickChannel
  <2>3. /\ channels'[c] = AfterKick(t, c)
        /\ Members(c) \subseteq Fds
        /\ \A d \in Chans \ {c} : ChannelLaw(d)
    BY <2>2, OneChannel
  <2>4. t \in Members(c) /\ t \in Fds /\ fd \in Members(c)
    BY <1>4, <2>1, <2>3 DEF IsJoined, RoomsInv, ServerInv, ChannelOK, Members
  <2>5. Members(c)' = Members(c) \ {t}
    BY <2>3, <2>4, AfterKickOK DEF Members, RoomsInv, ServerInv
  <2>6. \A m : m \in sent' <=> m \in ToAll(Members(c) \cup {t}, "KICK", t, c) /\ m.to \in Fds
    BY <1>4, SentAre DEF KickMessages
  <2>7. \A m \in sent' : m.what = "KICK" /\ m.to \in Members(c) /\ m.on = c
    BY <2>4, <2>6, ToAllAre
  <2>8. \A to \in Members(c) : Msg(to, "KICK", t, c) \in sent'
    BY <2>3, <2>6, ToAllAre, MsgFields
  <2>9. TrafficLaw
    BY <2>7 DEF TrafficLaw
  <2>10. MoveLaw(c) /\ OperatorLaw(c) /\ PresenceLaw(c)
    <3>1. MoveLaw(c)
      BY <1>1, <2>1, <2>5 DEF MoveLaw
    <3>2. OperatorLaw(c)
      BY <1>1, <2>1, <2>4 DEF OperatorLaw, Members
    <3>3. PresenceLaw(c)
      BY <2>5, <2>8 DEF PresenceLaw
    <3> QED BY <3>1, <3>2, <3>3
  <2>11. EmptyLaw(c)
    BY <1>1, <2>1, <2>4, <2>5, <2>8 DEF EmptyLaw, IsOperator
  <2> QED BY <2>3, <2>9, <2>10, <2>11 DEF Lawful, ChannelLaw
<1> QED BY <1>2, <1>3, <1>4 DEF Kick

\* What an operator changes without moving anybody.
LEMMA SettingsLaw ==
    ASSUME RoomsInv, NEW c \in Chans, actor' \in channels[c].is_master, Members(c)' = Members(c)
    PROVE  ChannelLaw(c)
<1>1. actor' \in channels[c].joined_player
  BY DEF RoomsInv, ServerInv, ChannelOK
<1> QED BY <1>1 DEF ChannelLaw, MoveLaw, EmptyLaw, OperatorLaw, PresenceLaw

\* INVITE: the only channel traffic goes to the members.
LEMMA InviteLawful ==
    ASSUME RoomsInv, NEW fd \in Fds, NEW c \in Chans, NEW n \in Nicks, Invite(fd, n, c)
    PROVE  Lawful
<1>1. actor' = fd
  BY DEF Invite, Command, Line, Turn
<1>2. CASE Dies
  BY <1>2, DiesLawful
<1>3. ASSUME NEW t, InviteToChannel(fd, n, t, c), InviteAnswer(fd, n, t, c) # "RPL_INVITING",
             SendOnly(Reply(fd, InviteAnswer(fd, n, t, c)))
      PROVE  Lawful
  BY <1>3, AnswerLawful DEF InviteToChannel
<1>4. ASSUME NEW t, InviteToChannel(fd, n, t, c), InviteAnswer(fd, n, t, c) = "RPL_INVITING",
             SendOnly(InviteMessages(fd, t, c))
      PROVE  Lawful
  <2>1. fd \in channels[c].is_master
    BY <1>4 DEF InviteAnswer, IsOperator, IsAdmin, RoomsInv
  <2> DEFINE info == [channels[c] EXCEPT !.register_player = @ \cup {t}]
  <2>2. channels' = [channels EXCEPT ![c] = info]
    BY <1>4 DEF InviteToChannel, RoomsInv, ServerInv
  <2>3. info.joined_player = Members(c)
    BY DEF RoomsInv, ServerInv, ChannelInfo, Members
  <2> HIDE DEF info
  <2>4. /\ Members(c)' = Members(c)
        /\ \A d \in Chans \ {c} : ChannelLaw(d)
    BY <2>2, <2>3, OneChannel DEF Members
  <2>5. \A m \in sent' : m.on = None \/ m.what \in {"RPL_INVITING", "INVITE"}
                           \/ (m.what = "JOIN" /\ m.to \in Members(c) /\ m.on = c)
    <3>1. \A m \in InviteMessages(fd, t, c) :
              m.on = None \/ m.what \in {"RPL_INVITING", "INVITE"}
                  \/ (m.what = "JOIN" /\ m.to \in Members(c) /\ m.on = c)
      BY MsgFields, ToAllAre DEF InviteMessages
    <3> QED BY <1>4, <3>1, SentAre
  <2>6. TrafficLaw
    BY <2>5, ChannelConstants DEF TrafficLaw, Traffic
  <2>7. ChannelLaw(c)
    BY <1>1, <2>1, <2>4, SettingsLaw
  <2> QED BY <2>4, <2>6, <2>7 DEF Lawful
<1> QED BY <1>2, <1>3, <1>4 DEF Invite

\* MODE.
LEMMA ModeLawful ==
    ASSUME RoomsInv, NEW fd \in Fds, NEW c \in Chans, NEW valid \in BOOLEAN,
           NEW flags \in ModeSets, NEW key \in Nicks, Mode(fd, c, valid, flags, key)
    PROVE  Lawful
<1>1. actor' = fd
  BY DEF Mode, Command, Line, Turn
<1>2. CASE Dies
  BY <1>2, DiesLawful
<1>3. ASSUME NEW what, SendOnly(Reply(fd, what)), UNCHANGED channels PROVE Lawful
  BY <1>3, AnswerLawful
<1>4. ASSUME ModeRefusal(fd, flags, c) = "None", NEW t,
             ChangeChannelMode(valid, flags, c, key, t), NEW what, SendOnly(Reply(fd, what))
      PROVE  Lawful
  <2>1. fd \in channels[c].is_master
    BY <1>4 DEF ModeRefusal, IsOperator, IsAdmin, RoomsInv
  <2> DEFINE info == IF valid THEN AfterSet(flags, c, key) ELSE AfterClear(flags, c)
             last == IF ReachesOperator(valid, flags, c, key)
                     THEN ChangeOperator(info, t, valid) ELSE info
  <2>2. ChannelOK(info) /\ info.joined_player = Members(c)
    BY AfterSetOK, AfterClearOK DEF RoomsInv, ServerInv
  <2>3. channels' = [channels EXCEPT ![c] = last]
    BY <1>4 DEF ChangeChannelMode
  <2> HIDE DEF info
  <2>4. last.joined_player = Members(c)
    BY <2>2, ChangeOperatorOK
  <2> HIDE DEF last
  <2>5. /\ Members(c)' = Members(c)
        /\ \A d \in Chans \ {c} : ChannelLaw(d)
    BY <2>3, <2>4, OneChannel DEF Members
  <2>6. ChannelLaw(c)
    BY <1>1, <2>1, <2>5, SettingsLaw
  <2>7. Quiet
    BY <1>4, SentAre, ReplyIs DEF Quiet
  <2> QED BY <2>5, <2>6, <2>7, QuietLaws DEF Lawful
<1> QED BY <1>2, <1>3, <1>4 DEF Mode

\* TOPIC with a text.
LEMMA TopicLawful ==
    ASSUME RoomsInv, NEW fd \in Fds, NEW c \in Chans,
           NEW text \in Topics \cup {NoTopic}, Topic(fd, c, text)
    PROVE  Lawful
<1>1. actor' = fd
  BY DEF Topic, Command, Line, Turn
<1>2. CASE TopicAnswer(fd, c) # "Changed"
  BY <1>2, AnswerLawful DEF Topic, ChangeTopic
<1>3. CASE TopicAnswer(fd, c) = "Changed"
  <2> DEFINE info == [channels[c] EXCEPT !.topic = text]
  <2>1. channels' = [channels EXCEPT ![c] = info]
    BY <1>3 DEF Topic, ChangeTopic, RoomsInv, ServerInv
  <2>2. /\ channels'[c] = info
        /\ channels[c] \in ChannelInfo
        /\ \A d \in Chans \ {c} : ChannelLaw(d)
    BY <2>1, OneChannel
  <2>3. Members(c)' = Members(c)
    BY <2>2 DEF Members, ChannelInfo
  <2>4. fd \in Members(c) /\ (HasMode(c, "t") => fd \in channels[c].is_master)
    BY <1>3 DEF TopicAnswer, IsJoined, IsOperator, IsAdmin, RoomsInv
  <2>5. \A m \in sent' : m.to \in Members(c) /\ m.on = c
    BY <1>3, SentAre, ToAllAre DEF Topic
  <2>6. TrafficLaw
    BY <2>5 DEF TrafficLaw
  <2>7. MoveLaw(c) /\ EmptyLaw(c) /\ PresenceLaw(c)
    BY <2>3 DEF MoveLaw, EmptyLaw, PresenceLaw
  <2>8. OperatorLaw(c)
    BY <1>1, <2>2, <2>4 DEF OperatorLaw, ChannelInfo, Members, HasMode
  <2> QED BY <2>2, <2>6, <2>7, <2>8 DEF Lawful, ChannelLaw
<1> QED BY <1>2, <1>3

-----------------------------------------------------------------------------
(* Texts, questions, registration: no channel changes *)

\* PRIVMSG to a channel.
LEMMA TextLawful ==
    ASSUME RoomsInv, NEW fd \in Fds, NEW c \in Chans, PrivmsgChannel(fd, c)
    PROVE  Lawful
<1>1. UNCHANGED channels
  BY DEF PrivmsgChannel
<1>2. CASE SendAnswer(fd, c) # "Sent"
  BY <1>1, <1>2, AnswerLawful DEF PrivmsgChannel
<1>3. CASE SendAnswer(fd, c) = "Sent"
  <2>1. Members(c) \subseteq Fds
    BY DEF RoomsInv, ServerInv, ChannelInfo, Members
  <2>2. \A m : m \in sent' <=> m \in ToAll(Members(c) \ {fd}, "PRIVMSG", fd, c) /\ m.to \in Fds
    BY <1>3, SentAre DEF PrivmsgChannel, ChannelText
  <2>3. \A m \in sent' : m.on = c /\ m.to \in Members(c)
    BY <2>2, ToAllAre
  <2>4. TrafficLaw
    BY <2>3 DEF TrafficLaw
  <2> QED BY <1>1, <2>4, SameChannel DEF Lawful
<1> QED BY <1>2, <1>3

\* PASS, NICK, USER, SKIP, the gate and the blank line.
LEMMA RegisterLawful ==
    ASSUME NEW fd \in Fds, Register(fd)
    PROVE  Lawful
<1>1. ASSUME NEW n, Skip(fd, n) PROVE Lawful
  BY <1>1, AnswerLawful DEF Skip
<1>2. ASSUME NEW word, Pass(fd, word) PROVE Lawful
  BY <1>2, AnswerLawful DEF Pass
<1>3. ASSUME NEW n, Nick(fd, n) PROVE Lawful
  BY <1>3, AnswerLawful DEF Nick
<1>4. ASSUME User(fd) PROVE Lawful
  BY <1>4, AnswerLawful DEF User
<1>5. ASSUME Unregistered(fd) PROVE Lawful
  BY <1>5, AnswerLawful DEF Unregistered
<1>6. ASSUME Blank(fd) PROVE Lawful
  BY <1>6, DiesLawful DEF Blank
<1>7. ASSUME TooFewWords(fd) PROVE Lawful
  BY <1>7, AnswerLawful DEF TooFewWords
<1> QED BY <1>1, <1>2, <1>3, <1>4, <1>5, <1>6, <1>7 DEF Register

\* PRIVMSG to a user, WHOIS, EXIT and the questions.
LEMMA TalkLawful ==
    ASSUME NEW fd \in Fds,
           \/ \E n \in Nicks : PrivmsgUser(fd, n) \/ Whois(fd, n)
           \/ Question(fd)
           \/ Exit(fd)
    PROVE  Lawful
<1>1. UNCHANGED channels
  BY DEF PrivmsgUser, Whois, Question, Exit
<1>6. ASSUME Exit(fd) PROVE \E what : SendOnly(Reply(fd, what))
  BY <1>6 DEF Exit, AdminAnswer
<1>2. ASSUME NEW n, PrivmsgUser(fd, n) PROVE Quiet
  <2>1. CASE Dies
    BY <2>1 DEF Dies, Quiet
  <2>2. ASSUME NEW t, SendOnly({Msg(t, "PRIVMSG", fd, None)}) PROVE Quiet
    BY <2>2, SentAre, MsgFields DEF Quiet
  <2>3. CASE SendOnly(Reply(fd, "ERR_NOSUCHNICK"))
    BY <2>3, SentAre, ReplyIs DEF Quiet
  <2> QED BY <1>2, <2>1, <2>2, <2>3 DEF PrivmsgUser
<1>3. ASSUME NEW n, Whois(fd, n) PROVE Quiet
  <2>1. CASE Dies
    BY <2>1 DEF Dies, Quiet
  <2>2. ASSUME NEW t, SendOnly({Msg(fd, "RPL_WHOISUSER", t, None)}
                               \cup Reply(fd, "RPL_WHOISCHANNELS")
                               \cup Reply(fd, "RPL_WHOISSERVER")
                               \cup Reply(fd, "RPL_ENDOFWHOIS"))
        PROVE Quiet
    BY <2>2, SentAre, MsgFields, ReplyIs DEF Quiet
  <2>3. CASE SendOnly(Reply(fd, "ERR_NOSUCHNICK") \cup Reply(fd, "RPL_ENDOFWHOIS"))
    BY <2>3, SentAre, ReplyIs DEF Quiet
  <2> QED BY <1>3, <2>1, <2>2, <2>3 DEF Whois, SendLog
<1>4. ASSUME Question(fd) PROVE Quiet
  <2>1. CASE \E what : SendOnly(Reply(fd, what))
    BY <2>1, SentAre, ReplyIs DEF Quiet
  <2>2. CASE SendOnly({})
    BY <2>2, SentAre DEF Quiet
  <2>3. CASE SendOnly(Reply(fd, "ERR_NOSUCHNICK") \cup Reply(fd, "RPL_ENDOFWHOIS"))
    BY <2>3, SentAre, ReplyIs DEF Quiet
  <2>4. \/ \E what \in Talk \ {"RPL_WELCOME"} : SendOnly(Reply(fd, what))
        \/ SendOnly({})
        \/ SendOnly(Reply(fd, "ERR_NOSUCHNICK") \cup Reply(fd, "RPL_ENDOFWHOIS"))
    BY <1>4, QuestionSays
  <2> QED BY <2>1, <2>2, <2>3, <2>4
<1>5. ASSUME Exit(fd) PROVE Lawful
  BY <1>1, <1>5, <1>6, AnswerLawful
<1> QED BY <1>1, <1>2, <1>3, <1>4, <1>5, QuietLawful

-----------------------------------------------------------------------------
(* Departures *)

\* QUIT and a connection that ends.
LEMMA DepartureLawful ==
    ASSUME RoomsInv, NEW fd \in Fds, LeaveAll(fd), actor' = fd,
           NEW last, SendOnly(LeaveAllMessages(fd) \cup last), last \subseteq Reply(fd, "001")
    PROVE  Lawful
<1>1. \A c \in Chans : c \in join_channel[fd] <=> fd \in Members(c)
  BY DEF RoomsInv, ServerInv, MembershipMutual
<1>2. \A c \in Chans : fd \in Members(c) => LeaveAnswer(fd, c) = "PART"
  BY DEF RoomsInv, ServerInv, MembersAreRegistered, ChannelOK, LeaveAnswer, IsRegister,
         IsRegisterAll, Levels, ExistChannel, IsJoined, Members
<1>3. \A c \in Chans : channels'[c] = IF fd \in Members(c) THEN AfterLeave(fd, c)
                                      ELSE channels[c]
  BY <1>1, <1>2 DEF LeaveAll
<1>4. join_channel[fd] \subseteq Chans
  BY DEF RoomsInv, ServerInv, RegistryInv, EveryoneTypeOK
<1>5. \A c \in Chans : Members(c) \subseteq Fds
  BY DEF RoomsInv, ServerInv, ChannelInfo, Members
<1>6. \A m : m \in sent' <=> m \in LeaveAllMessages(fd) \cup last /\ m.to \in Fds
  BY SentAre
<1>7. ASSUME NEW m \in sent'
      PROVE  m.on = None \/ (m.what = "PART" /\ m.on \in Chans /\ m.to \in Members(m.on))
             \/ m.what = "001"
  <2>1. CASE m \in last
    BY <2>1, ReplyIs
  <2>2. CASE m \in LeaveAllMessages(fd)
    <3>1. PICK c \in join_channel[fd] : m \in LeaveMessages(fd, c)
      BY <2>2 DEF LeaveAllMessages
    <3>2. m \in ToAll(Members(c) \ {fd}, "PART", fd, c)
      BY <3>1 DEF LeaveMessages
    <3> QED BY <1>4, <3>2, ToAllAre
  <2> QED BY <1>6, <2>1, <2>2
<1>8. TrafficLaw
  BY <1>7, ChannelConstants DEF TrafficLaw, Traffic
<1>9. ASSUME NEW c \in Chans, fd \in Members(c) PROVE ChannelLaw(c)
  <2>1. LeaveMessages(fd, c) = ToAll(Members(c) \ {fd}, "PART", fd, c)
    BY <1>2, <1>9 DEF LeaveMessages
  <2>2. LeaveMessages(fd, c) \subseteq LeaveAllMessages(fd)
    BY <1>1, <1>9 DEF LeaveAllMessages
  <2>3. \A to \in Members(c) \ {fd} : Msg(to, "PART", fd, c) \in sent'
    BY <1>5, <1>6, <2>1, <2>2, ToAllAre, MsgFields
  <2>4. channels'[c] = AfterLeave(fd, c)
    BY <1>3, <1>9
  <2> QED BY <1>9, <2>3, <2>4, LeavingLaw
<1>10. ASSUME NEW c \in Chans, fd \notin Members(c) PROVE ChannelLaw(c)
  BY <1>3, <1>10, SameChannel
<1> QED BY <1>8, <1>9, <1>10 DEF Lawful

-----------------------------------------------------------------------------
(* Putting it together *)

\* Every step is lawful.
LEMMA NextLawful ==
    ASSUME RoomsInv, Next
    PROVE  Lawful
<1>1. ASSUME NEW fd \in Fds, Register(fd) PROVE Lawful
  BY <1>1, RegisterLawful
<1>2. ASSUME NEW fd \in Fds, NEW c \in Chans, ChannelCommand(fd, c) PROVE Lawful
  BY <1>2, JoinLawful, PartLawful, KickLawful, InviteLawful, ModeLawful, TopicLawful, TextLawful
  DEF ChannelCommand
<1>3. ASSUME NEW fd \in Fds, UserCommand(fd) PROVE Lawful
  <2>1. ASSUME Quit(fd) PROVE Lawful
    BY <2>1, DepartureLawful DEF Quit, Turn
  <2> QED BY <1>3, <2>1, TalkLawful DEF UserCommand
<1>4. ASSUME NEW fd \in Fds, CloseClient(fd) PROVE Lawful
  <2>1. SendOnly(LeaveAllMessages(fd) \cup {})
    BY <1>4 DEF CloseClient, SendOnly
  <2> QED BY <1>4, <2>1, DepartureLawful DEF CloseClient
<1>5. CASE BrokenPipe
  <2>1. Quiet
    BY <1>5 DEF BrokenPipe, Quiet
  <2> QED BY <1>5, <2>1, QuietLawful DEF BrokenPipe
<1> QED BY <1>1, <1>2, <1>3, <1>4, <1>5 DEF Next

\* A channel is left empty and alive only by an operator kicking itself.
THEOREM SelfKickOnly == Spec => EmptiedOnlyBySelfKick
<1> DEFINE Step == \A c \in Chans :
          Members(c) # {} /\ Members(c)' = {} /\ ExistChannel(c)' =>
              Members(c) = {actor'} /\ IsOperator(actor', c)
                  /\ Msg(actor', "KICK", actor', c) \in sent'
<1>1. ASSUME RoomsInv, [Next]_vars PROVE [Step]_vars
  BY <1>1, NextLawful DEF Lawful, ChannelLaw, EmptyLaw
<1>2. Spec => [][Step]_vars
  BY <1>1, RoomsCorrect, PTL DEF Spec
<1> QED BY <1>2 DEF EmptiedOnlyBySelfKick

\* Modes, key, limit, rank and invitations are the operators' to change.
THEOREM OperatorsDecide == Spec => OperatorOnly
<1> DEFINE Step == \A c \in Chans : ExistChannel(c) /\ ExistChannel(c)' /\ Members(c)' # {} =>
          LET old == channels[c]
              new == channels'[c]
          IN  /\ \/ actor' \in old.is_master
                 \/ /\ new.modes = old.modes
                    /\ new.password = old.password
                    /\ new.limit_member = old.limit_member
                    /\ old.is_master \ {actor'} \subseteq new.is_master
                    /\ new.is_master \subseteq old.is_master
                    /\ new.register_player \subseteq old.register_player
                    /\ "t" \in old.modes => new.topic = old.topic
              /\ new.topic # old.topic => actor' \in old.joined_player
<1>1. ASSUME RoomsInv, [Next]_vars PROVE [Step]_vars
  BY <1>1, NextLawful DEF Lawful, ChannelLaw, OperatorLaw
<1>2. Spec => [][Step]_vars
  BY <1>1, RoomsCorrect, PTL DEF Spec
<1> QED BY <1>2 DEF OperatorOnly

\* Nobody is put into a channel by another, or out of it but by KICK.
THEOREM NobodyIsMoved == Spec => OthersMoveOnlyByKick
<1> DEFINE Step == \A c \in Chans, fd \in Fds \ {actor'} :
          /\ fd \in Members(c)' => fd \in Members(c)
          /\ fd \in Members(c) \ Members(c)' => actor' \in channels[c].is_master
<1>1. ASSUME RoomsInv, [Next]_vars PROVE [Step]_vars
  BY <1>1, NextLawful DEF Lawful, ChannelLaw, MoveLaw
<1>2. Spec => [][Step]_vars
  BY <1>1, RoomsCorrect, PTL DEF Spec
<1> QED BY <1>2 DEF OthersMoveOnlyByKick

\* What is said in a channel is not heard outside it.
THEOREM TrafficInside == Spec => ChannelTrafficStaysInside
<1> DEFINE Step == \A m \in sent' :
          m.what \in {"JOIN", "PART", "KICK", "PRIVMSG", "RPL_TOPIC", "RPL_NOTOPIC"} /\ m.on \in Chans =>
              m.to \in Members(m.on) \cup Members(m.on)'
<1>1. ASSUME RoomsInv, [Next]_vars PROVE [Step]_vars
  BY <1>1, NextLawful DEF Lawful, TrafficLaw, Traffic
<1>2. Spec => [][Step]_vars
  BY <1>1, RoomsCorrect, PTL DEF Spec
<1> QED BY <1>2 DEF ChannelTrafficStaysInside

\* Those who stay are told of every arrival and every departure.
THEOREM PresenceIsAnnounced == Spec => PresenceAnnounced
<1> DEFINE Step == \A c \in Chans : \A to \in Members(c) \cap Members(c)' :
          /\ \A fd \in Members(c)' \ Members(c) : Msg(to, "JOIN", fd, c) \in sent'
          /\ \A fd \in Members(c) \ Members(c)' :
                \E what \in {"PART", "KICK"} : Msg(to, what, fd, c) \in sent'
<1>1. ASSUME RoomsInv, [Next]_vars PROVE [Step]_vars
  BY <1>1, NextLawful DEF Lawful, ChannelLaw, PresenceLaw
<1>2. Spec => [][Step]_vars
  BY <1>1, RoomsCorrect, PTL DEF Spec
<1> QED BY <1>2 DEF PresenceAnnounced

-----------------------------------------------------------------------------
(* What is sent is well formed, and the welcome *)

WelcomeLaw ==
    \A fd \in Fds :
        Msg(fd, "RPL_WELCOME", fd, None) \in sent' <=> ~IsRegisterAll(fd) /\ IsRegisterAll(fd)'

\* Nobody's registration is completed, and nobody is welcomed.
NobodyCompletes ==
    /\ \A m \in sent' : m.what # "RPL_WELCOME"
    /\ \A fd \in Fds : IsRegisterAll(fd)' => IsRegisterAll(fd)

LEMMA WelcomeNobody ==
    ASSUME NobodyCompletes
    PROVE  WelcomeLaw
  BY MsgFields DEF NobodyCompletes, WelcomeLaw

LEMMA MsgTyped ==
    ASSUME NEW to \in Fds, NEW what \in Talk, NEW who \in Fds \cup {NoFd},
           NEW on \in Chans \cup {None}
    PROVE  Msg(to, what, who, on) \in Message
  BY DEF Msg, Message, Talk

LEMMA ReplyTyped ==
    ASSUME NEW fd \in Fds, NEW what \in Talk
    PROVE  Reply(fd, what) \subseteq Message
  BY MsgTyped DEF Reply

LEMMA ToAllTyped ==
    ASSUME NEW fds \in SUBSET Fds, NEW what \in Talk, NEW who \in Fds \cup {NoFd},
           NEW on \in Chans \cup {None}
    PROVE  ToAll(fds, what, who, on) \subseteq Message
<1>1. \A to \in fds : Msg(to, what, who, on) \in Message
  BY MsgTyped
<1> QED BY <1>1 DEF ToAll

LEMMA ToAllPlain ==
    ASSUME NEW fds \in SUBSET Fds, NEW what \in Talk \ {"RPL_WELCOME"}, NEW who \in Fds \cup {NoFd},
           NEW on \in Chans \cup {None}
    PROVE  \A m \in ToAll(fds, what, who, on) : m \in Message /\ m.what # "RPL_WELCOME"
<1>1. ToAll(fds, what, who, on) \subseteq Message
  BY ToAllTyped
<1>2. \A m \in ToAll(fds, what, who, on) : m.what = what
  BY ToAllAre
<1> QED BY <1>1, <1>2

\* A step that changes nobody's levels, but for whom it deletes.
LEMMA NobodyNew ==
    ASSUME RoomsInv, NEW fd \in Fds, UNCHANGED level \/ level' = [level EXCEPT ![fd] = {}]
    PROVE  \A g \in Fds : IsRegisterAll(g)' => IsRegisterAll(g)
<1>1. level \in [Fds -> SUBSET Levels]
  BY DEF RoomsInv, ServerInv, RegistryInv, EveryoneTypeOK
<1> QED BY <1>1 DEF IsRegisterAll, Levels

\* One answer, other than the welcome.
LEMMA AnswerPlain ==
    ASSUME RoomsInv, NEW fd \in Fds, NEW what \in Talk \ {"RPL_WELCOME"},
           SendOnly(Reply(fd, what)) \/ SendOnly({}) \/ sent' = {}, UNCHANGED level
    PROVE  sent' \subseteq Message /\ NobodyCompletes
<1>1. \A m \in sent' : m.what # "RPL_WELCOME"
  BY SentAre, ReplyIs
<1>2. sent' \subseteq Message
  BY SentAre, ReplyTyped
<1> QED BY <1>1, <1>2, NobodyNew DEF NobodyCompletes

\* The end of the process.
LEMMA DiesPlain ==
    ASSUME RoomsInv, NEW fd \in Fds, Dies
    PROVE  sent' \subseteq Message /\ NobodyCompletes
<1>1. sent' = {} /\ UNCHANGED level
  BY DEF Dies, SameUsers
<1>2. \A g \in Fds : IsRegisterAll(g)' => IsRegisterAll(g)
  BY <1>1, NobodyNew
<1> QED BY <1>1, <1>2 DEF NobodyCompletes

\* The same for a set of messages.
LEMMA MessagesPlain ==
    ASSUME RoomsInv, NEW fd \in Fds, NEW msgs, SendOnly(msgs),
           \A m \in msgs : m.to \in Fds => m \in Message /\ m.what # "RPL_WELCOME",
           UNCHANGED level \/ level' = [level EXCEPT ![fd] = {}]
    PROVE  sent' \subseteq Message /\ NobodyCompletes
<1>1. sent' \subseteq Message /\ \A m \in sent' : m.what # "RPL_WELCOME"
  BY SentAre
<1> QED BY <1>1, NobodyNew DEF NobodyCompletes

\* PASS: it never completes a registration, since NICK and USER do not both
\* succeed before it.
LEMMA PassWelcome ==
    ASSUME RoomsInv, NEW fd \in Fds, NEW word, Pass(fd, word)
    PROVE  sent' \subseteq Message /\ WelcomeLaw
<1>1. CASE ~(word \in {"pass_", "operator_pass_"} /\ ~IsRegister(fd))
  <2>1. SameUsers /\ \E what \in {"ERR_ALREADYREGISTRED", "ERR_PASSWDMISMATCH"} :
                        SendOnly(Reply(fd, what))
    BY <1>1 DEF Pass
  <2>2. UNCHANGED level
    BY <2>1 DEF SameUsers
  <2> QED BY <2>1, <2>2, AnswerPlain, WelcomeNobody DEF Talk, Errors, Replies, Notices
<1>2. CASE word \in {"pass_", "operator_pass_"} /\ ~IsRegister(fd)
  <2>1. sent' = {} /\ level' = [level EXCEPT ![fd] = @ \cup {"REGISTER"}]
    BY <1>2 DEF Pass, SetRegister, SendOnly
  <2>2. ~({"NICK", "USER"} \subseteq level[fd])
    BY <1>2 DEF RoomsInv, ServerInv, RegistryInv, RegistrationGate
  <2>3. level \in [Fds -> SUBSET Levels]
    BY DEF RoomsInv, ServerInv, RegistryInv, EveryoneTypeOK
  <2>4. \A g \in Fds : IsRegisterAll(g)' => IsRegisterAll(g)
    BY <2>1, <2>2, <2>3 DEF IsRegisterAll, Levels
  <2> QED BY <2>1, <2>4, WelcomeNobody DEF NobodyCompletes
<1> QED BY <1>1, <1>2

\* One client gets a level, with the answer of that command.
LEMMA CompletesOne ==
    ASSUME RoomsInv, NEW fd \in Fds, NEW lev, level' = [level EXCEPT ![fd] = lev],
           NEW what \in Talk \cup {"RPL_NOSEND"},
           SendOnly(IF what = "RPL_NOSEND" THEN {} ELSE Reply(fd, what)),
           what = "RPL_WELCOME" <=> level[fd] # Levels /\ lev = Levels
    PROVE  sent' \subseteq Message /\ WelcomeLaw
<1>1. level \in [Fds -> SUBSET Levels]
  BY DEF RoomsInv, ServerInv, RegistryInv, EveryoneTypeOK
<1>2. \A g \in Fds : level'[g] = IF g = fd THEN lev ELSE level[g]
  BY <1>1
<1>3. sent' = IF what = "RPL_NOSEND" THEN {} ELSE Reply(fd, what)
  BY MsgFields DEF SendOnly, Reply
<1>4. sent' \subseteq Message
  BY <1>3, ReplyTyped
<1>5. \A g \in Fds : Msg(g, "RPL_WELCOME", g, None) \in sent' <=> g = fd /\ what = "RPL_WELCOME"
  <2>1. \A g \in Fds : Msg(g, "RPL_WELCOME", g, None) \in Reply(fd, what)
                           <=> g = fd /\ what = "RPL_WELCOME"
    BY MsgFields DEF Reply
  <2> QED BY <1>3, <2>1
<1> QED BY <1>2, <1>4, <1>5 DEF WelcomeLaw, IsRegisterAll

\* NICK.
LEMMA NickWelcome ==
    ASSUME RoomsInv, NEW fd \in Fds, NEW n \in Nicks, Nick(fd, n)
    PROVE  sent' \subseteq Message /\ WelcomeLaw
<1> DEFINE answer == NickAnswer(level[fd], n)
<1>1. SetNickname(fd, n) /\ SendOnly(IF answer = "RPL_NOSEND" THEN {} ELSE Reply(fd, answer))
  BY DEF Nick
<1>2. level[fd] \subseteq Levels
  BY DEF RoomsInv, ServerInv, RegistryInv, EveryoneTypeOK
<1>3. CASE ~NickTaken(answer)
  <2>1. UNCHANGED level
    BY <1>1, <1>3 DEF SetNickname
  <2>2. answer \in {"ERR_ERRONEUSNICKNAME", "ERR_NICKNAMEINUSE", "Denied"}
    BY <1>3 DEF NickTaken, NickAnswer
  <2>3. SendOnly(Reply(fd, answer)) /\ answer \in Talk \ {"RPL_WELCOME"}
    BY <1>1, <2>2 DEF Talk, Errors, Notices, Replies
  <2> HIDE DEF answer
  <2> QED BY <2>1, <2>3, AnswerPlain, WelcomeNobody
<1>4. CASE NickTaken(answer)
  <2>1. level' = [level EXCEPT ![fd] = level[fd] \cup {"NICK"}]
    BY <1>1, <1>4 DEF SetNickname
  <2>2. n \notin nick_list /\ ("USER" \in level[fd] => "REGISTER" \in level[fd])
    BY <1>4, TakenWhenFree
  <2>3. is_nick(n)
    BY <1>4 DEF NickTaken, NickAnswer
  <2>4. answer = IF "USER" \in level[fd] /\ "NICK" \notin level[fd] THEN "RPL_WELCOME"
                 ELSE "RPL_NOSEND"
    BY <2>2, <2>3 DEF NickAnswer
  <2>5. answer \in Talk \cup {"RPL_NOSEND"}
    BY <2>4 DEF Talk, Replies
  <2>6. answer = "RPL_WELCOME" <=> level[fd] # Levels /\ level[fd] \cup {"NICK"} = Levels
    BY <1>2, <2>2, <2>4 DEF Levels
  <2> HIDE DEF answer
  <2> QED BY <1>1, <2>1, <2>5, <2>6, CompletesOne
<1> QED BY <1>3, <1>4

\* USER.
LEMMA UserWelcome ==
    ASSUME RoomsInv, NEW fd \in Fds, User(fd)
    PROVE  sent' \subseteq Message /\ WelcomeLaw
<1> DEFINE answer == UserAnswer(level[fd])
<1>2. level[fd] \subseteq Levels
  BY DEF RoomsInv, ServerInv, RegistryInv, EveryoneTypeOK
<1>3. CASE IsRegisterUser(fd)
  <2>1. SameUsers /\ SendOnly(Reply(fd, "ERR_ALREADYREGISTRED"))
    BY <1>3 DEF User
  <2>2. UNCHANGED level /\ "ERR_ALREADYREGISTRED" \in Talk
    BY <2>1 DEF SameUsers, Talk, Errors
  <2> QED BY <2>1, <2>2, AnswerPlain, WelcomeNobody
<1>4. CASE ~IsRegisterUser(fd)
  <2>0. "USER" \notin level[fd]
    BY <1>4 DEF IsRegisterUser
  <2>1. SetUser(fd) /\ SendOnly(IF answer = "RPL_NOSEND" THEN {} ELSE Reply(fd, answer))
    BY <1>4 DEF User
  <2>2. CASE answer = "Denied"
    <3>1. UNCHANGED level /\ SendOnly(Reply(fd, "Denied")) /\ "Denied" \in Talk
      BY <2>1, <2>2 DEF SetUser, Talk, Notices
    <3> QED BY <3>1, AnswerPlain, WelcomeNobody
  <2>3. CASE answer # "Denied"
    <3>1. level' = [level EXCEPT ![fd] = level[fd] \cup {"USER"}]
      BY <2>1, <2>3 DEF SetUser
    <3>2. "NICK" \in level[fd] => "REGISTER" \in level[fd]
      BY <2>3 DEF UserAnswer
    <3>3. answer = IF "NICK" \in level[fd] THEN "RPL_WELCOME" ELSE "RPL_NOSEND"
      <4>1. CASE "NICK" \in level[fd]
        BY <4>1, <3>2, <2>0 DEF UserAnswer
      <4>2. CASE "NICK" \notin level[fd]
        BY <4>2 DEF UserAnswer
      <4> QED BY <4>1, <4>2
    <3>4. answer \in Talk \cup {"RPL_NOSEND"}
      BY <3>3 DEF Talk, Replies
    <3>5. answer = "RPL_WELCOME" <=> level[fd] # Levels /\ level[fd] \cup {"USER"} = Levels
      BY <1>2, <2>0, <3>2, <3>3 DEF Levels
    <3> HIDE DEF answer
    <3> QED BY <2>1, <3>1, <3>4, <3>5, CompletesOne
  <2> QED BY <2>2, <2>3
<1> QED BY <1>3, <1>4

\* JOIN, PART and KICK.
LEMMA MovePlain ==
    ASSUME RoomsInv, NEW fd \in Fds, NEW c \in Chans,
           \/ \E pass \in Nicks : Join(fd, c, pass)
           \/ Part(fd, c)
           \/ \E n \in Nicks : Kick(fd, c, n)
    PROVE  sent' \subseteq Message /\ NobodyCompletes
<1>1. Members(c) \subseteq Fds
  BY DEF RoomsInv, ServerInv, ChannelInfo, Members
<1>2. ASSUME NEW pass \in Nicks, Join(fd, c, pass) PROVE sent' \subseteq Message /\ NobodyCompletes
  <2> DEFINE answer == JoinAnswer(fd, c, pass)
             msgs == Reply(fd, answer) \cup
                     IF Joins(answer) THEN ToAll(Members(c) \cup {fd}, "JOIN", fd, c) ELSE {}
  <2>1. SendOnly(msgs) /\ UNCHANGED level
    BY <1>2 DEF Join, JoinedChannel, AddJoinChannel, everyoneVars
  <2>2. answer \in Talk \ {"RPL_WELCOME"}
    BY DEF JoinAnswer, CreateAnswer, GetTopic, Talk, Errors, Replies
  <2> HIDE DEF answer
  <2>3. Reply(fd, answer) \subseteq Message /\ \A m \in Reply(fd, answer) : m.what # "RPL_WELCOME"
    BY <2>2, ReplyTyped, ReplyIs
  <2>4. \A m \in ToAll(Members(c) \cup {fd}, "JOIN", fd, c) : m \in Message /\ m.what # "RPL_WELCOME"
    <3>1. "JOIN" \in Talk
      BY DEF Talk, Notices
    <3> QED BY <1>1, <3>1, ToAllPlain
  <2>5. \A m \in msgs : m \in Message /\ m.what # "RPL_WELCOME"
    BY <2>3, <2>4
  <2> HIDE DEF msgs
  <2> QED BY <2>1, <2>5, MessagesPlain
<1>3. ASSUME Part(fd, c) PROVE sent' \subseteq Message /\ NobodyCompletes
  <2> DEFINE answer == LeaveAnswer(fd, c)
             msgs == LeaveMessages(fd, c) \cup {Msg(fd, answer, fd, c)}
  <2>1. SendOnly(msgs) /\ UNCHANGED level
    BY <1>3 DEF Part, LeaveChannel, DeleteJoinChannel, everyoneVars
  <2>2. answer \in Talk \ {"RPL_WELCOME"} /\ "PART" \in Talk
    BY DEF LeaveAnswer, Talk, Errors, Notices
  <2> HIDE DEF answer
  <2>3. Msg(fd, answer, fd, c) \in Message /\ Msg(fd, answer, fd, c).what # "RPL_WELCOME"
    BY <2>2, MsgTyped, MsgFields
  <2>4. \A m \in LeaveMessages(fd, c) : m \in Message /\ m.what # "RPL_WELCOME"
    <3>1. \A m \in ToAll(Members(c) \ {fd}, "PART", fd, c) : m \in Message /\ m.what # "RPL_WELCOME"
      BY <1>1, <2>2, ToAllPlain
    <3> QED BY <3>1 DEF LeaveMessages
  <2>5. \A m \in msgs : m \in Message /\ m.what # "RPL_WELCOME"
    BY <2>3, <2>4
  <2> HIDE DEF msgs
  <2> QED BY <2>1, <2>5, MessagesPlain
<1>4. ASSUME NEW n \in Nicks, Kick(fd, c, n) PROVE sent' \subseteq Message /\ NobodyCompletes
  <2>1. CASE Dies
    BY <2>1, DiesPlain
  <2>2. CASE KickRefusal(fd, c) # "None"
    <3>1. SendOnly(Reply(fd, KickRefusal(fd, c))) /\ UNCHANGED level
      BY <1>4, <2>2 DEF Kick, SameUsers
    <3>2. KickRefusal(fd, c) \in Talk \ {"RPL_WELCOME"}
      BY <2>2 DEF KickRefusal, Talk, Errors
    <3> QED BY <3>1, <3>2, AnswerPlain
  <2>3. CASE SendOnly(Reply(fd, "ERR_NOSUCHNICK")) /\ SameUsers
    <3>1. "ERR_NOSUCHNICK" \in Talk /\ UNCHANGED level
      BY <2>3 DEF Talk, Errors, SameUsers
    <3> QED BY <2>3, <3>1, AnswerPlain
  <2>4. ASSUME NEW t, IsJoined(t, c), KickChannel(t, c), SendOnly(KickMessages(t, c))
        PROVE  sent' \subseteq Message /\ NobodyCompletes
    <3>1. UNCHANGED level
      BY <2>4 DEF KickChannel, DeleteJoinChannel
    <3>2. t \in Fds /\ "KICK" \in Talk
      BY <1>1, <2>4 DEF IsJoined, Talk, Notices
    <3>3. \A m \in KickMessages(t, c) : m \in Message /\ m.what # "RPL_WELCOME"
      BY <1>1, <3>2, ToAllPlain DEF KickMessages
    <3> QED BY <2>4, <3>1, <3>3, MessagesPlain
  <2> QED BY <1>4, <2>1, <2>2, <2>3, <2>4 DEF Kick
<1> QED BY <1>2, <1>3, <1>4

\* INVITE, MODE and TOPIC.
LEMMA SettingsPlain ==
    ASSUME RoomsInv, NEW fd \in Fds, NEW c \in Chans,
           \/ \E n \in Nicks : Invite(fd, n, c)
           \/ \E valid \in BOOLEAN, flags \in ModeSets, key \in Nicks : Mode(fd, c, valid, flags, key)
           \/ \E text \in Topics \cup {NoTopic} : Topic(fd, c, text)
    PROVE  sent' \subseteq Message /\ NobodyCompletes
<1>1. Members(c) \subseteq Fds
  BY DEF RoomsInv, ServerInv, ChannelInfo, Members
<1>0. UNCHANGED level
  BY DEF Invite, Mode, Topic, Dies, SameUsers
<1>2. CASE Dies
  BY <1>2, DiesPlain
<1>3. ASSUME NEW n \in Nicks, Invite(fd, n, c) PROVE sent' \subseteq Message /\ NobodyCompletes
  <2>1. ASSUME NEW t, InviteAnswer(fd, n, t, c) # "RPL_INVITING",
               SendOnly(Reply(fd, InviteAnswer(fd, n, t, c)))
        PROVE  sent' \subseteq Message /\ NobodyCompletes
    <3>1. InviteAnswer(fd, n, t, c) \in Talk \ {"RPL_WELCOME"}
      BY <2>1 DEF InviteAnswer, Talk, Errors
    <3> QED BY <1>0, <2>1, <3>1, AnswerPlain
  <2>2. ASSUME NEW t \in InviteTargets(fd, n, c), t # Crash, SendOnly(InviteMessages(fd, t, c))
        PROVE  sent' \subseteq Message /\ NobodyCompletes
    <3>1. t \in Fds \cup {NoFd}
      BY <2>2, InviteReaches DEF RoomsInv
    <3>2. {"RPL_INVITING", "INVITE", "JOIN"} \subseteq Talk
          /\ GetTopic(c) \in Talk \ {"RPL_WELCOME"}
      BY DEF Talk, Errors, Replies, Notices, GetTopic
    <3>3. /\ Msg(fd, "RPL_INVITING", t, c) \in Message
          /\ t \in Fds => Msg(t, "INVITE", fd, c) \in Message
          /\ Msg(fd, GetTopic(c), fd, None) \in Message
      BY <3>1, <3>2, MsgTyped
    <3>5. \A m \in ToAll(Members(c), "JOIN", t, c) : m \in Message /\ m.what # "RPL_WELCOME"
      BY <1>1, <3>1, <3>2, ToAllPlain
    <3>4. \A m \in InviteMessages(fd, t, c) :
              m.to \in Fds => m \in Message /\ m.what # "RPL_WELCOME"
      BY <3>2, <3>3, <3>5, MsgFields DEF InviteMessages
    <3> QED BY <1>0, <2>2, <3>4, MessagesPlain
  <2> QED BY <1>2, <1>3, <2>1, <2>2 DEF Invite
<1>4. ASSUME NEW valid \in BOOLEAN, NEW flags \in ModeSets, NEW key \in Nicks,
             Mode(fd, c, valid, flags, key)
      PROVE  sent' \subseteq Message /\ NobodyCompletes
  <2>1. CASE ModeRefusal(fd, flags, c) # "None"
    <3>1. ModeRefusal(fd, flags, c) \in Talk \ {"RPL_WELCOME"}
      BY <2>1 DEF ModeRefusal, Talk, Errors
    <3>2. SendOnly(Reply(fd, ModeRefusal(fd, flags, c)))
      BY <1>4, <2>1 DEF Mode
    <3> QED BY <1>0, <3>1, <3>2, AnswerPlain
  <2>2. CASE SendOnly(Reply(fd, ModeAnswer(valid, flags, c, key)))
    <3>1. ModeAnswer(valid, flags, c, key) \in Talk \ {"RPL_WELCOME"}
      BY DEF ModeAnswer, SetAnswer, Talk, Errors, Replies
    <3> QED BY <1>0, <2>2, <3>1, AnswerPlain
  <2> QED BY <1>2, <1>4, <2>1, <2>2 DEF Mode
<1>5. ASSUME NEW text \in Topics \cup {NoTopic}, Topic(fd, c, text)
      PROVE  sent' \subseteq Message /\ NobodyCompletes
  <2>1. CASE TopicAnswer(fd, c) # "Changed"
    <3>1. TopicAnswer(fd, c) \in Talk \ {"RPL_WELCOME"}
      BY <2>1 DEF TopicAnswer, Talk, Errors
    <3>2. SendOnly(Reply(fd, TopicAnswer(fd, c)))
      BY <1>5, <2>1 DEF Topic
    <3> QED BY <1>0, <3>1, <3>2, AnswerPlain
  <2>2. CASE TopicAnswer(fd, c) = "Changed"
    <3> DEFINE topic == IF text = NoTopic THEN "RPL_NOTOPIC" ELSE "RPL_TOPIC"
    <3>1. SendOnly(ToAll(Members(c), topic, fd, c))
      BY <1>5, <2>2 DEF Topic
    <3>2. topic \in Talk \ {"RPL_WELCOME"}
      BY DEF Talk, Replies
    <3> HIDE DEF topic
    <3>3. \A m \in ToAll(Members(c), topic, fd, c) : m \in Message /\ m.what # "RPL_WELCOME"
      BY <1>1, <3>2, ToAllPlain
    <3> QED BY <1>0, <3>1, <3>3, MessagesPlain
  <2> QED BY <2>1, <2>2
<1> QED BY <1>3, <1>4, <1>5

\* PRIVMSG, WHOIS, EXIT and the questions.
LEMMA TalkPlain ==
    ASSUME RoomsInv, NEW fd \in Fds,
           \/ \E c \in Chans : PrivmsgChannel(fd, c)
           \/ \E n \in Nicks : PrivmsgUser(fd, n) \/ Whois(fd, n)
           \/ Question(fd)
           \/ Exit(fd)
    PROVE  sent' \subseteq Message /\ NobodyCompletes
<1>0. UNCHANGED level
  BY DEF PrivmsgChannel, PrivmsgUser, Whois, SendLog, Question, Exit, Dies, SameUsers
<1>1. CASE Dies
  BY <1>1, DiesPlain
<1>2. ASSUME NEW what \in Talk \ {"RPL_WELCOME"}, SendOnly(Reply(fd, what)) \/ SendOnly({})
      PROVE  sent' \subseteq Message /\ NobodyCompletes
  BY <1>0, <1>2, AnswerPlain
<1>3. ASSUME NEW c \in Chans, PrivmsgChannel(fd, c)
      PROVE  sent' \subseteq Message /\ NobodyCompletes
  <2>1. CASE SendAnswer(fd, c) # "Sent"
    <3>1. SendAnswer(fd, c) \in Talk \ {"RPL_WELCOME"}
      BY <2>1 DEF SendAnswer, Talk, Errors
    <3> QED BY <1>2, <1>3, <2>1, <3>1 DEF PrivmsgChannel
  <2>2. CASE SendAnswer(fd, c) = "Sent"
    <3>1. Members(c) \ {fd} \subseteq Fds /\ "PRIVMSG" \in Talk
      BY DEF RoomsInv, ServerInv, ChannelInfo, Members, Talk, Notices
    <3>2. SendOnly(ToAll(Members(c) \ {fd}, "PRIVMSG", fd, c))
      BY <1>3, <2>2 DEF PrivmsgChannel, ChannelText
    <3>3. \A m \in ToAll(Members(c) \ {fd}, "PRIVMSG", fd, c) : m \in Message /\ m.what # "RPL_WELCOME"
      BY <3>1, ToAllPlain
    <3> QED BY <1>0, <3>2, <3>3, MessagesPlain
  <2> QED BY <2>1, <2>2
<1>4. ASSUME NEW n \in Nicks, PrivmsgUser(fd, n)
      PROVE  sent' \subseteq Message /\ NobodyCompletes
  <2>1. ASSUME NEW t, SendOnly({Msg(t, "PRIVMSG", fd, None)})
        PROVE  sent' \subseteq Message /\ NobodyCompletes
    <3>1. \A m \in {Msg(t, "PRIVMSG", fd, None)} :
              m.to \in Fds => m \in Message /\ m.what # "RPL_WELCOME"
      <4>1. "PRIVMSG" \in Talk
        BY DEF Talk, Notices
      <4>2. t \in Fds => Msg(t, "PRIVMSG", fd, None) \in Message
        BY <4>1, MsgTyped
      <4> QED BY <4>2, MsgFields
    <3> QED BY <1>0, <2>1, <3>1, MessagesPlain
  <2>2. "ERR_NOSUCHNICK" \in Talk
    BY DEF Talk, Errors
  <2> QED BY <1>1, <1>2, <1>4, <2>1, <2>2 DEF PrivmsgUser
<1>5. ASSUME NEW n \in Nicks, Whois(fd, n)
      PROVE  sent' \subseteq Message /\ NobodyCompletes
  <2>0. {"RPL_WHOISUSER", "RPL_WHOISCHANNELS", "RPL_WHOISSERVER", "RPL_ENDOFWHOIS",
         "ERR_NOSUCHNICK"} \subseteq Talk
    BY DEF Talk, Errors, Replies
  <2>1. CASE SendOnly(Reply(fd, "ERR_NOSUCHNICK") \cup Reply(fd, "RPL_ENDOFWHOIS"))
    <3>1. \A m \in Reply(fd, "ERR_NOSUCHNICK") \cup Reply(fd, "RPL_ENDOFWHOIS") :
              m \in Message /\ m.what # "RPL_WELCOME"
      BY <2>0, ReplyTyped, ReplyIs
    <3> QED BY <1>0, <2>1, <3>1, MessagesPlain
  <2>2. ASSUME NEW t, IsCreated(t),
               SendOnly({Msg(fd, "RPL_WHOISUSER", t, None)}
                             \cup Reply(fd, "RPL_WHOISCHANNELS")
                             \cup Reply(fd, "RPL_WHOISSERVER")
                             \cup Reply(fd, "RPL_ENDOFWHOIS"))
        PROVE  sent' \subseteq Message /\ NobodyCompletes
    <3>1. t \in Fds
      BY <2>2 DEF IsCreated, RoomsInv, ServerInv, RegistryInv, EveryoneTypeOK
    <3>2. Msg(fd, "RPL_WHOISUSER", t, None) \in Message
      BY <2>0, <3>1, MsgTyped
    <3>3. \A m \in {Msg(fd, "RPL_WHOISUSER", t, None)}
                       \cup Reply(fd, "RPL_WHOISCHANNELS")
                       \cup Reply(fd, "RPL_WHOISSERVER")
                       \cup Reply(fd, "RPL_ENDOFWHOIS") :
              m \in Message /\ m.what # "RPL_WELCOME"
      BY <2>0, <3>2, MsgFields, ReplyTyped, ReplyIs
    <3> QED BY <1>0, <2>2, <3>3, MessagesPlain
  <2> QED BY <1>1, <1>5, <2>1, <2>2 DEF Whois, SendLog
<1>6. CASE Question(fd)
  <2>1. CASE SendOnly(Reply(fd, "ERR_NOSUCHNICK") \cup Reply(fd, "RPL_ENDOFWHOIS"))
    <3>1. "ERR_NOSUCHNICK" \in Talk /\ "RPL_ENDOFWHOIS" \in Talk
      BY DEF Talk, Errors, Replies
    <3>2. \A m \in Reply(fd, "ERR_NOSUCHNICK") \cup Reply(fd, "RPL_ENDOFWHOIS") :
              m \in Message /\ m.what # "RPL_WELCOME"
      BY <3>1, ReplyTyped, ReplyIs
    <3> QED BY <1>0, <2>1, <3>2, MessagesPlain
  <2>2. \/ \E what \in Talk \ {"RPL_WELCOME"} : SendOnly(Reply(fd, what))
        \/ SendOnly({})
        \/ SendOnly(Reply(fd, "ERR_NOSUCHNICK") \cup Reply(fd, "RPL_ENDOFWHOIS"))
    BY <1>6, QuestionSays
  <2>3. ASSUME SendOnly({}) PROVE sent' \subseteq Message /\ NobodyCompletes
    <3>1. "" \in Talk \ {"RPL_WELCOME"}
      BY DEF Talk, Notices
    <3> QED BY <1>2, <2>3, <3>1
  <2>4. ASSUME NEW what \in Talk \ {"RPL_WELCOME"}, SendOnly(Reply(fd, what))
        PROVE  sent' \subseteq Message /\ NobodyCompletes
    BY <1>2, <2>4
  <2> QED BY <2>1, <2>2, <2>3, <2>4
<1>7. CASE Exit(fd)
  <2>1. {"", "FATAL"} \subseteq Talk \ {"RPL_WELCOME"}
    BY DEF Talk, Errors, Notices
  <2> QED BY <1>2, <1>7, <2>1 DEF Exit, AdminAnswer
<1> QED BY <1>3, <1>4, <1>5, <1>6, <1>7

\* Departures.
LEMMA DeparturePlain ==
    ASSUME RoomsInv, NEW fd \in Fds, DeleteUser(fd),
           NEW last, SendOnly(LeaveAllMessages(fd) \cup last), last \subseteq Reply(fd, "001")
    PROVE  sent' \subseteq Message /\ NobodyCompletes
<1>1. join_channel[fd] \subseteq Chans
  BY DEF RoomsInv, ServerInv, RegistryInv, EveryoneTypeOK
<1>2. "PART" \in Talk /\ "001" \in Talk
  BY DEF Talk, Notices
<1>3. ASSUME NEW m \in LeaveAllMessages(fd) PROVE m \in Message /\ m.what # "RPL_WELCOME"
  <2>1. PICK c \in join_channel[fd] : m \in LeaveMessages(fd, c)
    BY <1>3 DEF LeaveAllMessages
  <2>2. c \in Chans /\ Members(c) \ {fd} \subseteq Fds
    BY <1>1 DEF RoomsInv, ServerInv, ChannelInfo, Members
  <2>3. m \in ToAll(Members(c) \ {fd}, "PART", fd, c)
    BY <2>1 DEF LeaveMessages
  <2>4. \A x \in ToAll(Members(c) \ {fd}, "PART", fd, c) : x \in Message /\ x.what # "RPL_WELCOME"
    BY <1>2, <2>2, ToAllPlain
  <2> QED BY <2>3, <2>4
<1>4. \A m \in last : m \in Message /\ m.what # "RPL_WELCOME"
  BY <1>2, ReplyTyped, ReplyIs
<1>5. level' = [level EXCEPT ![fd] = {}]
  BY DEF DeleteUser
<1> QED BY <1>3, <1>4, <1>5, MessagesPlain

\* The welcome and the types, whatever the command; SKIP welcomes always.
LEMMA NextWelcome ==
    ASSUME RoomsInv, Next
    PROVE  sent' \subseteq Message /\ ("SKIP" \notin Commands => WelcomeLaw)
<1>1. ASSUME NEW fd \in Fds, Register(fd)
      PROVE  sent' \subseteq Message /\ ("SKIP" \notin Commands => WelcomeLaw)
  <2>1. ASSUME NEW n, Skip(fd, n) PROVE sent' \subseteq Message /\ "SKIP" \in Commands
    <3>1. SendOnly(Reply(fd, "RPL_WELCOME")) /\ "SKIP" \in Commands /\ "RPL_WELCOME" \in Talk
      BY <2>1 DEF Skip, Line, Turn, Talk, Replies
    <3> QED BY <3>1, SentAre, ReplyTyped
  <2>2. ASSUME Unregistered(fd) PROVE sent' \subseteq Message /\ WelcomeLaw
    <3>1. UNCHANGED level /\ (SendOnly(Reply(fd, "ERR_NOTREGISTERED")) \/ SendOnly({}))
      BY <2>2 DEF Unregistered, SameUsers
    <3>2. "ERR_NOTREGISTERED" \in Talk
      BY DEF Talk, Errors
    <3> QED BY <3>1, <3>2, AnswerPlain, WelcomeNobody
  <2>3. ASSUME Blank(fd) PROVE sent' \subseteq Message /\ WelcomeLaw
    BY <2>3, DiesPlain, WelcomeNobody DEF Blank
  <2>4. ASSUME TooFewWords(fd) PROVE sent' \subseteq Message /\ WelcomeLaw
    <3>1. UNCHANGED level /\ \E what \in {"ERR_NEEDMOREPARAMS", "ERR_NONICKNAMEGIVEN"} :
                                SendOnly(Reply(fd, what))
      BY <2>4 DEF TooFewWords, SameUsers
    <3>2. {"ERR_NEEDMOREPARAMS", "ERR_NONICKNAMEGIVEN"} \subseteq Talk \ {"RPL_WELCOME"}
      BY DEF Talk, Errors
    <3> QED BY <3>1, <3>2, AnswerPlain, WelcomeNobody
  <2> QED BY <1>1, <2>1, <2>2, <2>3, <2>4, PassWelcome, NickWelcome, UserWelcome DEF Register
<1>2. ASSUME NEW fd \in Fds, NEW c \in Chans, ChannelCommand(fd, c)
      PROVE  sent' \subseteq Message /\ WelcomeLaw
  BY <1>2, MovePlain, SettingsPlain, TalkPlain, WelcomeNobody DEF ChannelCommand
<1>3. ASSUME NEW fd \in Fds, UserCommand(fd) PROVE sent' \subseteq Message /\ WelcomeLaw
  <2>1. ASSUME Quit(fd) PROVE sent' \subseteq Message /\ WelcomeLaw
    BY <2>1, DeparturePlain, WelcomeNobody DEF Quit
  <2> QED BY <1>3, <2>1, TalkPlain, WelcomeNobody DEF UserCommand
<1>4. ASSUME NEW fd \in Fds, CloseClient(fd) PROVE sent' \subseteq Message /\ WelcomeLaw
  <2>1. SendOnly(LeaveAllMessages(fd) \cup {})
    BY <1>4 DEF CloseClient, SendOnly
  <2> QED BY <1>4, <2>1, DeparturePlain, WelcomeNobody DEF CloseClient
<1>5. CASE BrokenPipe
  <2>1. sent' = {} /\ UNCHANGED level
    BY <1>5 DEF BrokenPipe, everyoneVars
  <2> QED BY <2>1, WelcomeNobody DEF NobodyCompletes, IsRegisterAll
<1> QED BY <1>1, <1>2, <1>3, <1>4, <1>5 DEF Next

\* Whose line it was, and whether the process goes on.
LEMMA NextRuns ==
    ASSUME alive \in BOOLEAN, Next
    PROVE  alive' \in BOOLEAN /\ actor' \in Fds \cup {None}
<1>1. ASSUME NEW fd \in Fds, Register(fd) PROVE alive' \in BOOLEAN /\ actor' = fd
  BY <1>1 DEF Register, Skip, Pass, Nick, User, TooFewWords, Unregistered, Blank, Line, Turn, Survives, Dies
<1>2. ASSUME NEW fd \in Fds, NEW c \in Chans, ChannelCommand(fd, c)
      PROVE  alive' \in BOOLEAN /\ actor' = fd
  BY <1>2 DEF ChannelCommand, Join, Part, Kick, Invite, Mode, Topic, PrivmsgChannel, Command,
              Line, Turn, Survives, Dies
<1>3. ASSUME NEW fd \in Fds, UserCommand(fd) PROVE alive' \in BOOLEAN /\ actor' = fd
  BY <1>3 DEF UserCommand, PrivmsgUser, Whois, SendLog, Question, Quit, Exit, Command, Line,
              Turn, Survives, Dies
<1>4. ASSUME NEW fd \in Fds, CloseClient(fd) PROVE alive' \in BOOLEAN /\ actor' = fd
  BY <1>4 DEF CloseClient, Survives
<1> QED BY <1>1, <1>2, <1>3, <1>4 DEF Next, BrokenPipe

\* Everything has its type: what is sent goes to clients, about clients.
THEOREM ServerTyped == Spec => []ServerTypeOK
<1>1. Init => ServerTypeOK
  BY InitServer DEF Init, ServerTypeOK, ServerInv, RegistryInv
<1>2. RoomsInv /\ RoomsInv' /\ ServerTypeOK /\ [Next]_vars => ServerTypeOK'
  <2> SUFFICES ASSUME RoomsInv, RoomsInv', ServerTypeOK, [Next]_vars PROVE ServerTypeOK'
    OBVIOUS
  <2>1. EveryoneTypeOK' /\ channels' \in [Chans -> ChannelInfo]
    BY DEF RoomsInv, ServerInv, RegistryInv
  <2>2. CASE Next
    <3>1. sent' \subseteq Message
      BY <2>2, NextWelcome
    <3>2. alive' \in BOOLEAN /\ actor' \in Fds \cup {None}
      BY <2>2, NextRuns DEF ServerTypeOK
    <3> QED BY <2>1, <3>1, <3>2 DEF ServerTypeOK
  <2>3. CASE UNCHANGED vars
    BY <2>1, <2>3 DEF vars, serverVars, ServerTypeOK
  <2> QED BY <2>2, <2>3
<1> QED BY <1>1, <1>2, RoomsCorrect, PTL DEF Spec

\* The welcome is sent exactly by the line that completes a registration.
THEOREM WelcomedOnce ==
    ASSUME "SKIP" \notin Commands
    PROVE  Spec => WelcomeOnCompletion
<1> DEFINE Step == \A fd \in Fds :
              Msg(fd, "RPL_WELCOME", fd, None) \in sent'
                  <=> ~IsRegisterAll(fd) /\ IsRegisterAll(fd)'
<1>1. ASSUME RoomsInv, [Next]_vars PROVE [Step]_vars
  BY <1>1, NextWelcome DEF WelcomeLaw
<1>2. Spec => [][Step]_vars
  BY <1>1, RoomsCorrect, PTL DEF Spec
<1> QED BY <1>2 DEF WelcomeOnCompletion

-----------------------------------------------------------------------------
(* How one gets into a channel that is there *)

\* There is no way into an existing channel but the client's own JOIN, checked
\* against every mode the channel has: no invitation, rank, change of nickname
\* or command of somebody else lets anybody in.
EntryIsChecked ==
    [][\A c \in Chans, fd \in Fds :
          ExistChannel(c) /\ fd \in Members(c)' \ Members(c) =>
              /\ IsRegisterAll(fd)
              /\ HasMode(c, "i") => fd \in channels[c].register_player
              /\ HasMode(c, "l") => Cardinality(Members(c)) # channels[c].limit_member
              /\ ~(Cardinality(join_channel[fd]) > JoinLimit)
              /\ \E pass \in Nicks :
                    Join(fd, c, pass) /\ (HasMode(c, "k") => pass = channels[c].password)]_vars

EntryLaw(c, fd) ==
    ExistChannel(c) /\ fd \in Members(c)' \ Members(c) =>
        /\ IsRegisterAll(fd)
        /\ HasMode(c, "i") => fd \in channels[c].register_player
        /\ HasMode(c, "l") => Cardinality(Members(c)) # channels[c].limit_member
        /\ ~(Cardinality(join_channel[fd]) > JoinLimit)
        /\ \E pass \in Nicks : Join(fd, c, pass) /\ (HasMode(c, "k") => pass = channels[c].password)

\* A record gains a channel by JOIN only.
LEMMA RecordsGrowByJoin ==
    ASSUME RoomsInv, Next, NEW c \in Chans, NEW fd \in Fds,
           c \in join_channel'[fd], c \notin join_channel[fd]
    PROVE  \E pass \in Nicks : Join(fd, c, pass) /\ Joins(JoinAnswer(fd, c, pass))
<1> join_channel \in [Fds -> SUBSET Chans]
  BY DEF RoomsInv, ServerInv, RegistryInv, EveryoneTypeOK
<1>1. ASSUME NEW p \in Fds, Register(p) PROVE FALSE
  BY <1>1 DEF Register, Skip, Pass, Nick, User, TooFewWords, Unregistered, Blank, Dies, SameUsers,
              RegisterAtOnce, SetRegister, SetNickname, SetUser
<1>2. ASSUME NEW p \in Fds, NEW d \in Chans, ChannelCommand(p, d)
      PROVE  \E pass \in Nicks : Join(fd, c, pass) /\ Joins(JoinAnswer(fd, c, pass))
  <2>1. ASSUME NEW pass \in Nicks, Join(p, d, pass)
        PROVE  Join(fd, c, pass) /\ Joins(JoinAnswer(fd, c, pass))
    <3>1. CASE Joins(JoinAnswer(p, d, pass))
      <4>1. join_channel' = [join_channel EXCEPT ![p] = @ \cup {d}]
        BY <2>1, <3>1 DEF Join, JoinedChannel, AddJoinChannel
      <4>2. p = fd /\ d = c
        BY <4>1
      <4> QED BY <2>1, <3>1, <4>2
    <3>2. CASE ~Joins(JoinAnswer(p, d, pass))
      BY <2>1, <3>2 DEF Join, JoinedChannel, everyoneVars
    <3> QED BY <3>1, <3>2
  <2>2. ASSUME Part(p, d) PROVE FALSE
    BY <2>2 DEF Part, LeaveChannel, DeleteJoinChannel, everyoneVars
  <2>3. ASSUME NEW n \in Nicks, Kick(p, d, n) PROVE FALSE
    BY <2>3 DEF Kick, KickChannel, DeleteJoinChannel, SameUsers, Dies
  <2>4. ASSUME \/ \E n \in Nicks : Invite(p, n, d)
               \/ \E valid \in BOOLEAN, flags \in ModeSets, key \in Nicks : Mode(p, d, valid, flags, key)
               \/ \E text \in Topics \cup {NoTopic} : Topic(p, d, text)
               \/ PrivmsgChannel(p, d)
        PROVE  FALSE
    BY <2>4 DEF Invite, Mode, Topic, PrivmsgChannel, SameUsers, Dies
  <2> QED BY <1>2, <2>1, <2>2, <2>3, <2>4 DEF ChannelCommand
<1>3. ASSUME NEW p \in Fds, UserCommand(p) \/ CloseClient(p) PROVE FALSE
  BY <1>3 DEF UserCommand, PrivmsgUser, Whois, SendLog, Question, Quit, Exit, CloseClient,
              DeleteUser, SameUsers, Dies
<1>4. CASE BrokenPipe
  BY <1>4 DEF BrokenPipe, everyoneVars
<1> QED BY <1>1, <1>2, <1>3, <1>4 DEF Next

\* What JOIN has looked at when it lets a client into a channel that is there.
LEMMA JoinChecks ==
    ASSUME RoomsInv, NEW c \in Chans, NEW fd \in Fds, NEW pass \in Nicks,
           ExistChannel(c), fd \notin Members(c), Joins(JoinAnswer(fd, c, pass))
    PROVE  /\ HasMode(c, "i") => fd \in channels[c].register_player
           /\ ~IsFull(c)
           /\ ~(Cardinality(join_channel[fd]) > JoinLimit)
           /\ HasMode(c, "k") => pass = channels[c].password
<1>1. ~IsAdmin(fd) /\ ~IsJoined(fd, c)
  BY DEF IsAdmin, IsJoined, RoomsInv
<1> QED BY <1>1 DEF JoinAnswer, Joins

LEMMA NextEntry ==
    ASSUME RoomsInv, RoomsInv', Next, NEW c \in Chans, NEW fd \in Fds
    PROVE  EntryLaw(c, fd)
<1> SUFFICES ASSUME ExistChannel(c), fd \in Members(c)', fd \notin Members(c)
             PROVE  /\ IsRegisterAll(fd)
                    /\ HasMode(c, "i") => fd \in channels[c].register_player
                    /\ HasMode(c, "l") => Cardinality(Members(c)) # channels[c].limit_member
                    /\ ~(Cardinality(join_channel[fd]) > JoinLimit)
                    /\ \E pass \in Nicks :
                          Join(fd, c, pass) /\ (HasMode(c, "k") => pass = channels[c].password)
  BY DEF EntryLaw
<1>1. c \in join_channel'[fd] /\ c \notin join_channel[fd]
  BY DEF RoomsInv, ServerInv, MembershipMutual
<1>2. PICK pass \in Nicks : Join(fd, c, pass) /\ Joins(JoinAnswer(fd, c, pass))
  BY <1>1, RecordsGrowByJoin
<1>3. IsRegisterAll(fd)
  BY <1>2 DEF Join, Command
<1>4. /\ HasMode(c, "i") => fd \in channels[c].register_player
      /\ ~IsFull(c)
      /\ ~(Cardinality(join_channel[fd]) > JoinLimit)
      /\ HasMode(c, "k") => pass = channels[c].password
  BY <1>2, JoinChecks
<1> QED BY <1>2, <1>3, <1>4 DEF IsFull

\* The modes of a channel guard its only entrance.
THEOREM EveryEntryChecked == Spec => EntryIsChecked
<1> DEFINE Step == \A c \in Chans, fd \in Fds : EntryLaw(c, fd)
<1>1. ASSUME RoomsInv, RoomsInv', [Next]_vars PROVE [Step]_vars
  BY <1>1, NextEntry
<1>2. Spec => [][Step]_vars
  BY <1>1, RoomsCorrect, PTL DEF Spec
<1> QED BY <1>2 DEF EntryIsChecked, EntryLaw

\* No channel outgrows a limit that was set while it was within it.
THEOREM LimitsAreKept ==
    ASSUME IsFiniteSet(Fds)
    PROVE  Spec => LimitKept
<1> DEFINE Law(c) ==
          HasMode(c, "l") /\ Cardinality(Members(c)) <= channels[c].limit_member =>
              Cardinality(Members(c)') <= channels[c].limit_member
          Step == \A c \in Chans : Law(c)
<1>1. ASSUME RoomsInv, RoomsInv', Next, NEW c \in Chans, HasMode(c, "l"),
             Cardinality(Members(c)) <= channels[c].limit_member
      PROVE  Cardinality(Members(c)') <= channels[c].limit_member
  <2> DEFINE M == Members(c)
             M1 == Members(c)'
             max == channels[c].limit_member
  <2>1. M \subseteq Fds /\ M1 \subseteq Fds /\ max \in Int
    BY <1>1 DEF RoomsInv, ServerInv, ChannelInfo, Members
  <2>2. IsFiniteSet(M) /\ IsFiniteSet(M1) /\ Cardinality(M) \in Nat /\ Cardinality(M1) \in Nat
    BY <2>1, FS_Subset, FS_CardinalityType
  <2>3. \A fd \in Fds \ {actor'} : fd \in M1 => fd \in M
    BY <1>1, NextLawful DEF Lawful, ChannelLaw, MoveLaw
  <2>4. CASE M1 \subseteq M
    <3>1. Cardinality(M1) <= Cardinality(M)
      BY <2>2, <2>4, FS_Subset
    <3> HIDE DEF M, M1, max
    <3>2. Cardinality(M1) <= max
      BY <1>1, <2>1, <2>2, <3>1 DEF M, max
    <3> QED BY <3>2 DEF M1, max
  <2>5. CASE ~(M1 \subseteq M)
    <3>1. PICK fd \in Fds : fd \in M1 /\ fd \notin M
      BY <2>1, <2>5
    <3>2. fd = actor'
      BY <2>3, <3>1
    <3>3. ExistChannel(c)
      <4>1. channels[c] # NoChannel
        BY <1>1 DEF HasMode, NoChannel
      <4> QED BY <1>1, <4>1 DEF RoomsInv
    <3>4. Cardinality(M) # max
      BY <1>1, <3>1, <3>3, NextEntry DEF EntryLaw
    <3>5. M1 \subseteq M \cup {fd}
      BY <2>1, <2>3, <3>2
    <3>6. /\ IsFiniteSet(M \cup {fd})
          /\ Cardinality(M \cup {fd}) = Cardinality(M) + 1
      BY <2>2, <3>1, FS_AddElement
    <3>7. Cardinality(M1) <= Cardinality(M) + 1
      BY <3>5, <3>6, FS_Subset
    <3> HIDE DEF M, M1, max
    <3>8. Cardinality(M1) <= max
      <4>1. Cardinality(M) <= max
        BY <1>1 DEF M, max
      <4> QED BY <2>1, <2>2, <3>4, <3>7, <4>1
    <3> QED BY <3>8 DEF M1, max
  <2> QED BY <2>4, <2>5
<1>2. ASSUME RoomsInv, RoomsInv', Next PROVE Step
  BY <1>1, <1>2
<1> HIDE DEF Step
<1>3. Spec => [][Step]_vars
  BY <1>2, RoomsCorrect, PTL DEF Spec
<1> QED BY <1>3 DEF LimitKept, Step

-----------------------------------------------------------------------------
(* Who comes next, and what ends the process *)

\* A connection without a record, so also the next one on a reused
\* descriptor, has no level, no nickname, no channel and no rank, and no
\* nickname leads to it.  (An invitation it may have: that is the run
\* MCInviteReused.)
NothingInherited ==
    \A fd \in Fds \ everyone_id :
        /\ level[fd] = {} /\ nick_name[fd] = None /\ join_channel[fd] = {}
        /\ fd \notin is_admin
        /\ \A n \in Nicks : everyone_nickname[n] # fd
        /\ \A c \in Chans : fd \notin Members(c) \cup channels[c].is_master

\* What a nickname may stand for.
LEMMA EntryIs ==
    ASSUME RoomsInv, NEW n \in Nicks
    PROVE  /\ everyone_nickname[n] \in Fds => GetUserIdNick(n) = {everyone_nickname[n]}
           /\ everyone_nickname[n] \notin Fds => everyone_nickname[n] \in {None, Dangling}
<1>1. everyone_nickname[n] \in Fds \cup {None, Dangling}
  BY DEF RoomsInv, ServerInv, RegistryInv, EveryoneTypeOK
<1>2. everyone_nickname[n] \in Fds =>
        everyone_nickname[n] # None /\ everyone_nickname[n] # Dangling
  BY EveryoneConstants
<1> QED BY <1>1, <1>2 DEF GetUserIdNick

LEMMA CrashHasCause ==
    ASSUME RoomsInv, NEW n \in Nicks, Crash \in GetUserIdNick(n)
    PROVE  everyone_nickname[n] \in {None, Dangling}
  BY EntryIs, EveryoneConstants

\* A handler that survives ends nothing; one that dies has its cause.
LEMMA ChannelCommandFatal ==
    ASSUME RoomsInv, NEW fd \in Fds, NEW c \in Chans, ChannelCommand(fd, c), alive, ~alive'
    PROVE  Fatal(fd)
<1> USE DEF Survives
<1>1. ASSUME NEW pass \in Nicks, Join(fd, c, pass) PROVE FALSE
  BY <1>1 DEF Join
<1>2. CASE Part(fd, c)
  BY <1>2 DEF Part
<1>3. ASSUME NEW n \in Nicks, Kick(fd, c, n) PROVE Fatal(fd)
  <2>1. KickRefusal(fd, c) = "None" /\ Crash \in GetUserIdNick(n)
    BY <1>3 DEF Kick
  <2>2. fd \in channels[c].is_master
    BY <2>1 DEF KickRefusal, IsOperator, IsAdmin, RoomsInv
  <2>3. everyone_nickname[n] \in {None, Dangling}
    BY <2>1, CrashHasCause
  <2> QED BY <1>3, <2>2, <2>3 DEF Fatal
<1>4. ASSUME NEW n \in Nicks, Invite(fd, n, c) PROVE Fatal(fd)
  <2>1. Crash \in InviteTargets(fd, n, c)
    BY <1>4 DEF Invite
  <2>2. Crash \in GetUserIdNick(n) /\ everyone_nickname[n] # None
    BY <2>1, EveryoneConstants DEF InviteTargets, ExistUserNick
  <2>3. everyone_nickname[n] = Dangling
    BY <2>2, CrashHasCause
  <2> QED BY <1>4, <2>3 DEF Fatal
<1>5. ASSUME NEW valid \in BOOLEAN, NEW flags \in ModeSets, NEW key \in Nicks,
             Mode(fd, c, valid, flags, key)
      PROVE  Fatal(fd)
  <2>1. ModeRefusal(fd, flags, c) = "None" /\ Crash \in ModeTargets(valid, flags, c, key)
    BY <1>5 DEF Mode
  <2>2. fd \in channels[c].is_master
    BY <2>1 DEF ModeRefusal, IsOperator, IsAdmin, RoomsInv
  <2>3. Crash \in GetUserIdNick(key)
    BY <2>1, EveryoneConstants DEF ModeTargets
  <2>4. everyone_nickname[key] \in {None, Dangling}
    BY <2>3, CrashHasCause
  <2> QED BY <1>5, <2>2, <2>4 DEF Fatal
<1>6. ASSUME NEW text \in Topics \cup {NoTopic}, Topic(fd, c, text) PROVE FALSE
  BY <1>6 DEF Topic
<1>7. CASE PrivmsgChannel(fd, c)
  BY <1>7 DEF PrivmsgChannel
<1> QED BY <1>1, <1>2, <1>3, <1>4, <1>5, <1>6, <1>7 DEF ChannelCommand

LEMMA UserCommandFatal ==
    ASSUME RoomsInv, EntriesAreLive, NEW fd \in Fds, UserCommand(fd), alive, ~alive'
    PROVE  Fatal(fd)
<1> USE DEF Survives
<1>1. ASSUME NEW n \in Nicks, PrivmsgUser(fd, n) PROVE Fatal(fd)
  <2>1. Crash \in GetUserIdNick(n) /\ everyone_nickname[n] # None
    BY <1>1 DEF PrivmsgUser, ExistUserNick
  <2>2. everyone_nickname[n] = Dangling
    BY <2>1, CrashHasCause
  <2> QED BY <1>1, <2>2 DEF Fatal
<1>2. ASSUME NEW n \in Nicks, Whois(fd, n) PROVE Fatal(fd)
  <2>1. everyone_nickname[n] # None
    BY <1>2 DEF Whois, SendLog, ExistUserNick
  <2>2. PICK t \in GetUserIdNick(n) : ~IsCreated(t)
    BY <1>2 DEF Whois, SendLog
  <2>3. everyone_nickname[n] \notin Fds
    BY <2>2, EntryIs DEF EntriesAreLive
  <2>4. everyone_nickname[n] = Dangling
    BY <2>1, <2>3, EntryIs
  <2> QED BY <1>2, <2>4 DEF Fatal
<1>3. CASE Question(fd)
  BY <1>3 DEF Question
<1>4. CASE Quit(fd)
  BY <1>4 DEF Quit
<1>5. CASE Exit(fd)
  BY <1>5 DEF Exit, IsAdmin, RoomsInv
<1> QED BY <1>1, <1>2, <1>3, <1>4, <1>5 DEF UserCommand

\* The nickname index inside the server.
LEMMA ServerEntriesLive == Spec => []EntriesAreLive
<1>1. Spec => EveryoneSpec
  BY ServerKeepsContract DEF RegistryContract
<1> QED BY <1>1, PointersAreLive, PTL

\* The process ends by a message to a client that has reset its connection, by
\* a blank line or through a nickname that leads to no record, and in no other
\* way: never by EXIT, which nobody may use, nor by a nickname somebody answers
\* to.
THEOREM EndsForAReason == Spec => EndsOnlyBy
<1> DEFINE Step == alive /\ ~alive' => BrokenPipe \/ \E fd \in Fds : Fatal(fd)
<1>1. ASSUME RoomsInv, EntriesAreLive, [Next]_vars PROVE [Step]_vars
  <2> SUFFICES ASSUME Next, alive, ~alive' PROVE BrokenPipe \/ \E fd \in Fds : Fatal(fd)
    BY <1>1
  <2>1. ASSUME NEW fd \in Fds, Register(fd) PROVE Fatal(fd)
    BY <2>1 DEF Register, Skip, Pass, Nick, User, TooFewWords, Unregistered, Survives, Fatal
  <2>2. ASSUME NEW fd \in Fds, NEW c \in Chans, ChannelCommand(fd, c) PROVE Fatal(fd)
    BY <1>1, <2>2, ChannelCommandFatal
  <2>3. ASSUME NEW fd \in Fds, UserCommand(fd) PROVE Fatal(fd)
    BY <1>1, <2>3, UserCommandFatal
  <2>4. ASSUME NEW fd \in Fds, CloseClient(fd) PROVE FALSE
    BY <2>4 DEF CloseClient, Survives
  <2> QED BY <2>1, <2>2, <2>3, <2>4 DEF Next
<1>2. Spec => [][Step]_vars
  BY <1>1, RoomsCorrect, ServerEntriesLive, PTL DEF Spec
<1> QED BY <1>2 DEF EndsOnlyBy

\* Whoever connects next on a descriptor starts from nothing.
THEOREM NextStartsFresh == Spec => []NothingInherited
<1>1. RoomsInv /\ EntriesAreLive => NothingInherited
  <2> SUFFICES ASSUME RoomsInv, EntriesAreLive, NEW fd \in Fds \ everyone_id
               PROVE  /\ level[fd] = {} /\ nick_name[fd] = None /\ join_channel[fd] = {}
                      /\ fd \notin is_admin
                      /\ \A n \in Nicks : everyone_nickname[n] # fd
                      /\ \A c \in Chans : fd \notin Members(c) \cup channels[c].is_master
    BY DEF NothingInherited
  <2>1. level[fd] = {} /\ nick_name[fd] = None /\ join_channel[fd] = {}
    BY DEF RoomsInv, ServerInv, RegistryInv, EveryoneTypeOK
  <2>2. \A n \in Nicks : everyone_nickname[n] # fd
    BY DEF EntriesAreLive, IsCreated
  <2>3. \A c \in Chans : fd \notin Members(c)
    BY <2>1 DEF RoomsInv, ServerInv, MembershipMutual
  <2>4. \A c \in Chans : channels[c].is_master \subseteq Members(c)
    BY DEF RoomsInv, ServerInv, ChannelOK, Members
  <2>5. fd \notin is_admin
    BY DEF RoomsInv
  <2> QED BY <2>1, <2>2, <2>3, <2>4, <2>5
<1> QED BY <1>1, RoomsCorrect, ServerEntriesLive, PTL

=============================================================================
