------------------------- MODULE MessageTranslator --------------------------
(***************************************************************************)
(* The command dispatcher (src/class/MessageTranslator.cpp) on top of the  *)
(* registry and the channels: the server as its clients see it.  One step  *)
(* is one complete line of one client, executed to the end by the single   *)
(* thread, or the departure of a connection.                               *)
(*                                                                         *)
(* The lists "a,b,c" that JOIN, PART and PRIVMSG take are handled name by  *)
(* name; a list is that many lines here.  Words that are only echoed (real *)
(* name, text of a message, part and kick reasons) are left out.           *)
(***************************************************************************)
EXTENDS Channel

CONSTANTS
    Commands,   \* the commands clients use, out of AllCommands
    ModeSets,   \* the sets of letters they give MODE
    PassWords   \* the words they give PASS

RegisteredOnly == {"JOIN", "PART", "MODE", "INVITE", "KICK", "QUIT", "EXIT", "WHOIS",
                   "PING", "PONG", "LOG", "UNKNOWN"}
SilentBefore   == {"PRIVMSG", "TOPIC", "other"}   \* not in func_
AllCommands    == RegisteredOnly \cup SilentBefore
                      \cup {"BLANK", "SKIP", "PASS", "NICK", "USER"}

ASSUME TranslatorConstants ==
    /\ Commands \subseteq AllCommands
    /\ ModeSets \subseteq SUBSET (Modes \cup {"o", "?"})
    /\ PassWords \subseteq {"pass_", "operator_pass_", "wrong"}

\* The numbers the handlers answer, and the lines they write themselves.
Errors == {"ERR_NOSUCHNICK", "ERR_NOSUCHCHANNEL", "ERR_CANNOTSENDTOCHAN",
           "ERR_TOOMANYCHANNELS", "ERR_NOORIGIN", "ERR_NORECIPIENT", "ERR_NOTEXTTOSEND",
           "ERR_UNKNOWNCOMMAND", "ERR_NONICKNAMEGIVEN", "ERR_ERRONEUSNICKNAME",
           "ERR_NICKNAMEINUSE", "ERR_NOTONCHANNEL", "ERR_USERONCHANNEL",
           "ERR_NOTREGISTERED", "ERR_NEEDMOREPARAMS", "ERR_ALREADYREGISTRED",
           "ERR_PASSWDMISMATCH", "ERR_KEYSET", "ERR_CHANNELISFULL", "ERR_UNKNOWNMODE",
           "ERR_INVITEONLYCHAN", "ERR_BADCHANNELKEY", "ERR_CHANOPRIVSNEEDED", "FATAL"}
Replies == {"RPL_WELCOME", "RPL_NOTOPIC", "RPL_TOPIC", "RPL_INVITING",
            "RPL_CHANNELMODEIS", "RPL_WHOISUSER", "RPL_WHOISSERVER",
            "RPL_WHOISCHANNELS", "RPL_ENDOFWHOIS"}
Notices == {"JOIN", "PART", "KICK", "INVITE", "PRIVMSG", "PONG", "Denied", "001", ""}

Message == [to : Fds, what : Errors \cup Replies \cup Notices,
            who : Fds \cup {NoFd}, on : Chans \cup {None}]

VARIABLES
    alive,  \* the process runs
    actor,  \* whose line, or whose departure, the last step was, if anybody's
    sent    \* the messages the last step sent

serverVars == <<alive, actor, sent>>
vars == <<everyoneVars, channels, serverVars>>

Init ==
    /\ EveryoneInit
    /\ ChannelInit
    /\ alive = TRUE
    /\ actor = None
    /\ sent = {}

-----------------------------------------------------------------------------
(* Execute: the record is made before the command is looked at *)

Turn(fd, cmd) ==
    /\ alive
    /\ cmd \in Commands
    /\ actor' = fd

Line(fd, cmd) == Turn(fd, cmd) /\ CreateUser(fd, FALSE)

CommandAnyTime(fd, cmd) == Line(fd, cmd)      \* mutant: there is no gate

\* Behind the gate: PASS, NICK and USER have all succeeded.
Command(fd, cmd) == Line(fd, cmd) /\ IsRegisterAll(fd)

Reply(fd, what) == {Msg(fd, what, fd, None)}
SendOnly(msgs) == sent' = {m \in msgs : m.to \in Fds}
Survives == UNCHANGED alive
SameUsers == UNCHANGED <<level, nick_name, join_channel, everyone_nickname, nick_list>>

Dies ==
    /\ alive' = FALSE
    /\ sent' = {}
    /\ SameUsers
    /\ UNCHANGED channels

\* A line of blanks has no words, and box[0] is read all the same.
Blank(fd) == Line(fd, "BLANK") /\ Dies

\* The commands of the table; PRIVMSG and TOPIC are compared by hand.
hasCommand(cmd) == cmd \in RegisteredOnly

\* Behind the gate nothing else is reached: known commands are answered 451.
Unregistered(fd) ==
    \E cmd \in RegisteredOnly \cup SilentBefore :
        /\ Line(fd, cmd)
        /\ ~IsRegisterAll(fd)
        /\ SendOnly(IF hasCommand(cmd) THEN Reply(fd, "ERR_NOTREGISTERED") ELSE {})
        /\ Survives /\ SameUsers
        /\ UNCHANGED channels

-----------------------------------------------------------------------------
(* Registration *)

SkipUnchecked(fd, n) ==               \* mutant: SKIP writes the record itself
    /\ Line(fd, "SKIP")
    /\ TakeNick(fd, n)
    /\ level' = [level EXCEPT ![fd] = Levels]
    /\ SendOnly(Reply(fd, "RPL_WELCOME"))
    /\ Survives
    /\ UNCHANGED <<channels, join_channel>>

\* SKIP and ASKIP pick a well-formed name of their own and always welcome.
Skip(fd, n) ==
    /\ Line(fd, "SKIP")
    /\ RegisterAtOnce(fd, n)
    /\ SendOnly(Reply(fd, "RPL_WELCOME"))
    /\ Survives
    /\ UNCHANGED channels

\* Both passwords register, and the operator's does no more than that.
Pass(fd, word) ==
    /\ Line(fd, "PASS")
    /\ IF word \in {"pass_", "operator_pass_"} /\ ~IsRegister(fd)
         THEN SetRegister(fd) /\ SendOnly({})
         ELSE /\ SameUsers
              /\ SendOnly(Reply(fd, IF IsRegister(fd) THEN "ERR_ALREADYREGISTRED"
                                    ELSE "ERR_PASSWDMISMATCH"))
    /\ Survives
    /\ UNCHANGED channels

Nick(fd, n) ==
    /\ Line(fd, "NICK")
    /\ SetNickname(fd, n)
    /\ LET answer == NickAnswer(level[fd], n)
       IN  SendOnly(IF answer = "RPL_NOSEND" THEN {} ELSE Reply(fd, answer))
    /\ Survives
    /\ UNCHANGED channels

UserAgain(fd) ==                      \* mutant: a repeated USER is welcomed again
    /\ Line(fd, "USER")
    /\ SetUser(fd)
    /\ LET answer == UserAnswer(level[fd] \ {"USER"})
       IN  SendOnly(IF answer = "RPL_NOSEND" THEN {} ELSE Reply(fd, answer))
    /\ Survives
    /\ UNCHANGED channels

User(fd) ==
    /\ Line(fd, "USER")
    /\ IF IsRegisterUser(fd)
         THEN SameUsers /\ SendOnly(Reply(fd, "ERR_ALREADYREGISTRED"))
         ELSE /\ SetUser(fd)
              /\ LET answer == UserAnswer(level[fd])
                 IN  SendOnly(IF answer = "RPL_NOSEND" THEN {} ELSE Reply(fd, answer))
    /\ Survives
    /\ UNCHANGED channels

\* PASS and NICK without a word, USER without exactly four.
TooFewWords(fd) ==
    /\ \/ Line(fd, "PASS") /\ SendOnly(Reply(fd, "ERR_NEEDMOREPARAMS"))
       \/ Line(fd, "NICK") /\ SendOnly(Reply(fd, "ERR_NONICKNAMEGIVEN"))
       \/ /\ Line(fd, "USER") /\ ~IsRegisterUser(fd)
          /\ SendOnly(Reply(fd, "ERR_NEEDMOREPARAMS"))
    /\ Survives /\ SameUsers
    /\ UNCHANGED channels

-----------------------------------------------------------------------------
(* Channel commands *)

Join(fd, c, pass) ==
    /\ Command(fd, "JOIN")
    /\ JoinedChannel(fd, c, pass)
    /\ LET answer == JoinAnswer(fd, c, pass)
       IN  SendOnly(Reply(fd, answer) \cup
                    IF Joins(answer) THEN ToAll(Members(c) \cup {fd}, "JOIN", fd, c) ELSE {})
    /\ Survives

Part(fd, c) ==
    /\ Command(fd, "PART")
    /\ LeaveChannel(fd, c)
    /\ SendOnly(LeaveMessages(fd, c) \cup {Msg(fd, LeaveAnswer(fd, c), fd, c)})
    /\ Survives

Kick(fd, c, n) ==
    /\ Command(fd, "KICK")
    /\ IF KickRefusal(fd, c) # "None"
         THEN /\ SendOnly(Reply(fd, KickRefusal(fd, c)))
              /\ Survives /\ SameUsers /\ UNCHANGED channels
         ELSE \E t \in GetUserIdNick(n) :
                \/ t = Crash /\ Dies
                \/ /\ t # Crash /\ ~IsJoined(t, c)
                   /\ SendOnly(Reply(fd, "ERR_NOSUCHNICK"))
                   /\ Survives /\ SameUsers /\ UNCHANGED channels
                \/ /\ IsJoined(t, c)
                   /\ KickChannel(t, c)
                   /\ SendOnly(KickMessages(t, c))
                   /\ Survives

\* The nickname is only looked up for a member who invites to a channel.
InviteTargets(fd, n, c) ==
    IF ExistUserNick(n) /\ IsJoined(fd, c) THEN GetUserIdNick(n) ELSE {NoFd}

\* On success the inviter is also answered as by TOPIC; when there is no
\* topic the members are told that the guest has joined, which it has not.
InviteMessages(fd, t, c) ==
    {Msg(fd, "RPL_INVITING", t, c), Msg(t, "INVITE", fd, c), Msg(fd, GetTopic(c), fd, None)}
        \cup IF channels[c].topic = NoTopic THEN ToAll(Members(c), "JOIN", t, c) ELSE {}

Invite(fd, n, c) ==
    /\ Command(fd, "INVITE")
    /\ \E t \in InviteTargets(fd, n, c) :
         \/ t = Crash /\ Dies
         \/ /\ t # Crash
            /\ InviteToChannel(fd, n, t, c)
            /\ LET answer == InviteAnswer(fd, n, t, c)
               IN  SendOnly(IF answer = "RPL_INVITING" THEN InviteMessages(fd, t, c)
                            ELSE Reply(fd, answer))
            /\ Survives /\ SameUsers

\* The nickname of +o and -o is only looked up when the command gets there.
ModeTargets(valid, flags, c, key) ==
    IF ReachesOperator(valid, flags, c, key) THEN GetUserIdNick(key) ELSE {NoFd}

Mode(fd, c, valid, flags, key) ==
    /\ Command(fd, "MODE")
    /\ IF ModeRefusal(fd, flags, c) # "None"
         THEN /\ SendOnly(Reply(fd, ModeRefusal(fd, flags, c)))
              /\ Survives /\ SameUsers /\ UNCHANGED channels
         ELSE \E t \in ModeTargets(valid, flags, c, key) :
                \/ t = Crash /\ Dies
                \/ /\ t # Crash
                   /\ ChangeChannelMode(valid, flags, c, key, t)
                   /\ SendOnly(Reply(fd, ModeAnswer(valid, flags, c, key)))
                   /\ Survives /\ SameUsers

\* TOPIC with a text; every member is told, the author included.  The text
\* is what follows the line's second blank, which may be nothing.
Topic(fd, c, text) ==
    /\ Command(fd, "TOPIC")
    /\ ChangeTopic(fd, c, text)
    /\ LET topic == IF text = NoTopic THEN "RPL_NOTOPIC" ELSE "RPL_TOPIC"
       IN  SendOnly(IF TopicAnswer(fd, c) = "Changed" THEN ToAll(Members(c), topic, fd, c)
                    ELSE Reply(fd, TopicAnswer(fd, c)))
    /\ Survives /\ SameUsers

-----------------------------------------------------------------------------
(* Messages and questions *)

PrivmsgChannel(fd, c) ==
    /\ Command(fd, "PRIVMSG")
    /\ SendOnly(IF SendAnswer(fd, c) = "Sent" THEN ChannelText(fd, c)
                ELSE Reply(fd, SendAnswer(fd, c)))
    /\ Survives /\ SameUsers
    /\ UNCHANGED channels

PrivmsgUnchecked(fd, n) ==            \* mutant: the nickname is looked up unseen
    /\ Command(fd, "PRIVMSG")
    /\ \E t \in GetUserIdNick(n) :
          \/ t = Crash /\ Dies
          \/ t # Crash /\ SendOnly({Msg(t, "PRIVMSG", fd, None)})
                       /\ Survives /\ SameUsers
    /\ UNCHANGED channels

PrivmsgUser(fd, n) ==
    /\ Command(fd, "PRIVMSG")
    /\ IF ~ExistUserNick(n)
         THEN SendOnly(Reply(fd, "ERR_NOSUCHNICK")) /\ Survives /\ SameUsers
         ELSE \E t \in GetUserIdNick(n) :
                \/ t = Crash /\ Dies
                \/ t # Crash /\ SendOnly({Msg(t, "PRIVMSG", fd, None)})
                             /\ Survives /\ SameUsers
    /\ UNCHANGED channels

\* everyone_id_[...] of a number without a record inserts a null pointer,
\* which SendLog then copies from.
SendLog(fd, n) ==
    IF ~ExistUserNick(n)
    THEN SendOnly(Reply(fd, "ERR_NOSUCHNICK") \cup Reply(fd, "RPL_ENDOFWHOIS"))
         /\ Survives /\ SameUsers
    ELSE \E t \in GetUserIdNick(n) :
            \/ ~IsCreated(t) /\ Dies
            \/ /\ IsCreated(t)
               /\ SendOnly({Msg(fd, "RPL_WHOISUSER", t, None)}
                             \cup Reply(fd, "RPL_WHOISCHANNELS")
                             \cup Reply(fd, "RPL_WHOISSERVER")
                             \cup Reply(fd, "RPL_ENDOFWHOIS"))
               /\ Survives /\ SameUsers

Whois(fd, n) ==
    /\ Command(fd, "WHOIS")
    /\ SendLog(fd, n)
    /\ UNCHANGED channels

AdminAnswer(fd) == Reply(fd, IF IsAdmin(fd) THEN "" ELSE "FATAL")

\* Lines that are only answered, and MODE with a channel and no letters, which
\* is not; the answers to too few words (of WHOIS, too many) among them.
Answers(cmd) ==
    CASE cmd = "PING" -> {"PONG", "ERR_NOORIGIN"}
      [] cmd = "PONG" -> {"ERR_NOORIGIN"}
      [] cmd = "PRIVMSG" -> {"ERR_NORECIPIENT", "ERR_NOTEXTTOSEND"}
      [] cmd = "WHOIS" -> {"ERR_NONICKNAMEGIVEN"}
      [] cmd \in {"UNKNOWN", "other"} -> {"ERR_UNKNOWNCOMMAND"}
      [] cmd \in {"JOIN", "PART", "MODE", "INVITE", "KICK", "TOPIC"} -> {"ERR_NEEDMOREPARAMS"}

Question(fd) ==
    /\ \/ \E cmd \in (RegisteredOnly \cup SilentBefore) \ {"QUIT", "EXIT", "LOG"} :
             Command(fd, cmd) /\ \E what \in Answers(cmd) : SendOnly(Reply(fd, what))
       \/ Command(fd, "TOPIC") /\ \E c \in Chans : SendOnly(Reply(fd, GetTopic(c)))
       \/ Command(fd, "WHOIS") /\ SendOnly(Reply(fd, "ERR_NOSUCHNICK") \cup Reply(fd, "RPL_ENDOFWHOIS"))
       \/ Command(fd, "PONG") /\ SendOnly({})
       \/ Command(fd, "MODE") /\ SendOnly({})
       \/ Command(fd, "LOG") /\ SendOnly(AdminAnswer(fd))
    /\ Survives /\ SameUsers
    /\ UNCHANGED channels

-----------------------------------------------------------------------------
(* Departures *)

Quit(fd) ==
    /\ Turn(fd, "QUIT") /\ IsRegisterAll(fd)
    /\ DeleteUser(fd)
    /\ LeaveAll(fd)
    /\ SendOnly(LeaveAllMessages(fd) \cup Reply(fd, "001"))
    /\ Survives

Exit(fd) ==
    /\ Command(fd, "EXIT")
    /\ SendOnly(AdminAnswer(fd))
    /\ alive' = ~IsAdmin(fd)
    /\ SameUsers
    /\ UNCHANGED channels

\* SocketServer::closeClient: the peer is gone, its user is deleted.
CloseClient(fd) ==
    /\ alive
    /\ DeleteUser(fd)
    /\ LeaveAll(fd)
    /\ actor' = fd
    /\ SendOnly(LeaveAllMessages(fd))
    /\ Survives

\* A message of the last step goes to a client that has reset its connection:
\* SIGPIPE, which nothing in the program ignores, ends the process.  What the
\* step had still to do after that message is gone with it.
BrokenPipe ==
    /\ alive /\ sent # {}
    /\ alive' = FALSE
    /\ actor' = None
    /\ sent' = {}
    /\ UNCHANGED <<everyoneVars, channels>>

-----------------------------------------------------------------------------
Register(fd) ==
    \/ \E n \in Nicks \ BadNicks : Skip(fd, n)
    \/ \E word \in PassWords : Pass(fd, word)
    \/ \E n \in Nicks \ {NoArg} : Nick(fd, n)
    \/ User(fd)
    \/ TooFewWords(fd)
    \/ Unregistered(fd)
    \/ Blank(fd)

ChannelCommand(fd, c) ==
    \/ \E pass \in Nicks : Join(fd, c, pass)
    \/ Part(fd, c)
    \/ \E n \in Nicks \ {NoArg} : Kick(fd, c, n) \/ Invite(fd, n, c)
    \/ \E valid \in BOOLEAN, flags \in ModeSets, key \in Nicks :
          Mode(fd, c, valid, flags, key)
    \/ \E text \in Topics \cup {NoTopic} : Topic(fd, c, text)
    \/ PrivmsgChannel(fd, c)

UserCommand(fd) ==
    \/ \E n \in Nicks \ {NoArg} : PrivmsgUser(fd, n) \/ Whois(fd, n)
    \/ Question(fd)
    \/ Quit(fd)
    \/ Exit(fd)

Next ==
    \/ \E fd \in Fds :
          \/ Register(fd)
          \/ \E c \in Chans : ChannelCommand(fd, c)
          \/ UserCommand(fd)
          \/ CloseClient(fd)
    \/ BrokenPipe

Spec == Init /\ [][Next]_vars

-----------------------------------------------------------------------------
(* Properties *)

\* The types of the channels and of the step's record.
ServerTypeOK ==
    /\ EveryoneTypeOK
    /\ channels \in [Chans -> ChannelInfo]
    /\ alive \in BOOLEAN
    /\ actor \in Fds \cup {None}
    /\ sent \subseteq Message

\* The two sides of membership agree: a channel is in the user's record
\* exactly when the user is among the channel's members.  DeleteUser relies
\* on it: it leaves the channels the record names, and no others.
MembershipMutual ==
    \A fd \in Fds, c \in Chans : c \in join_channel[fd] <=> fd \in Members(c)

\* Whoever is in a channel is fully registered, and so has a nickname: the
\* members' nick_name.back() in PART, KICK and PRIVMSG is never undefined.
MembersAreRegistered ==
    \A c \in Chans : \A fd \in Members(c) : IsRegisterAll(fd)

\* An operator is a member: whoever leaves, is kicked or disconnects loses
\* the rank, so that coming back (or reusing the descriptor) does not give
\* it back.
OperatorsAreMembers ==
    \A c \in Chans : channels[c].is_master \subseteq Members(c)

\* A channel wants a key exactly when it has one, whatever +k, -k and the
\* errors in between did.
KeyModeHasKey ==
    \A c \in Chans : HasMode(c, "k") <=> channels[c].password # NoArg

\* An invitation is for one entry: a member never holds one, so a user who
\* is kicked from an invite-only channel cannot walk back in.
InvitationsAreSpent ==
    \A c \in Chans : channels[c].register_player \cap Members(c) = {}

\* A channel loses its last member without disappearing only when that
\* member, as operator, kicked itself.
EmptiedOnlyBySelfKick ==
    [][\A c \in Chans :
          Members(c) # {} /\ Members(c)' = {} /\ ExistChannel(c)' =>
              Members(c) = {actor'} /\ IsOperator(actor', c)
                  /\ Msg(actor', "KICK", actor', c) \in sent']_vars

\* Modes, key, limit, other people's rank and invitations change only in a
\* step of an operator; so does the topic while +t is set, and without it
\* only a member changes it.
OperatorOnly ==
    [][\A c \in Chans : ExistChannel(c) /\ ExistChannel(c)' /\ Members(c)' # {} =>
          LET old == channels[c]
              new == channels'[c]
          IN  /\ \/ actor' \in old.is_master
                 \/ /\ new.modes = old.modes
                    /\ new.password = old.password
                    /\ new.limit_member = old.limit_member
                    /\ old.is_master \ {actor'} \subseteq new.is_master
                    /\ new.is_master \subseteq old.is_master
                    /\ new.register_player \subseteq old.register_player
                    /\ "t" \in old.modes => new.topic = old.topic
              /\ new.topic # old.topic => actor' \in old.joined_player]_vars

\* Only the operator's KICK takes someone else out of a channel, and nobody
\* puts someone else in.
OthersMoveOnlyByKick ==
    [][\A c \in Chans, fd \in Fds \ {actor'} :
          /\ fd \in Members(c)' => fd \in Members(c)
          /\ fd \in Members(c) \ Members(c)' => actor' \in channels[c].is_master]_vars

\* What is said in a channel stays there: a message on a channel goes only
\* to clients who were members before the step or are after it.  (INVITE
\* and the answers to the author of the line are no channel traffic.)
ChannelTrafficStaysInside ==
    [][\A m \in sent' :
          m.what \in {"JOIN", "PART", "KICK", "PRIVMSG", "RPL_TOPIC", "RPL_NOTOPIC"} /\ m.on \in Chans =>
              m.to \in Members(m.on) \cup Members(m.on)']_vars

\* Every member that stays learns of every arrival and departure, also of
\* those by QUIT, a closed connection or KICK.
PresenceAnnounced ==
    [][\A c \in Chans : \A to \in Members(c) \cap Members(c)' :
          /\ \A fd \in Members(c)' \ Members(c) : Msg(to, "JOIN", fd, c) \in sent'
          /\ \A fd \in Members(c) \ Members(c)' :
                \E what \in {"PART", "KICK"} : Msg(to, what, fd, c) \in sent']_vars

\* The welcome is sent by the line that completes the registration, and by
\* no other (SKIP, a developer's shortcut, is outside this statement).
WelcomeOnCompletion ==
    [][\A fd \in Fds :
          Msg(fd, "RPL_WELCOME", fd, None) \in sent'
              <=> ~IsRegisterAll(fd) /\ IsRegisterAll(fd)']_vars

\* What remains of +l although it is compared with ==: no step takes a channel
\* that is within its limit beyond it.  (What an operator may do is set a limit
\* that the channel is beyond already: that is LimitKeepsOut.)
LimitKept ==
    [][\A c \in Chans :
          HasMode(c, "l") /\ Cardinality(Members(c)) <= channels[c].limit_member =>
              Cardinality(Members(c)') <= channels[c].limit_member]_vars

\* The process ends in these ways only: by a message to a client that has reset
\* its connection; by a line of blanks; by an operator who names, in KICK or in
\* MODE +o or -o, somebody without a record; by INVITE, PRIVMSG or WHOIS of a
\* nickname whose user has left.  So EXIT, or a nickname that leads to a user,
\* never ends it, nor does a nickname nobody ever had outside KICK and MODE.
\* (A step does not tell its command: with "BLANK" among the Commands any line
\* that ends the process may have been one of blanks, so the run is without it.)
Fatal(fd) ==
    \/ Blank(fd)
    \/ \E n \in Nicks, c \in Chans :
          /\ everyone_nickname[n] \in {None, Dangling}
          /\ fd \in channels[c].is_master
          /\ Kick(fd, c, n) \/ \E valid \in BOOLEAN, flags \in ModeSets : Mode(fd, c, valid, flags, n)
    \/ \E n \in Nicks :
          /\ everyone_nickname[n] = Dangling
          /\ \/ \E c \in Chans : Invite(fd, n, c)
             \/ PrivmsgUser(fd, n)
             \/ Whois(fd, n)

EndsOnlyBy == [][alive /\ ~alive' => BrokenPipe \/ \E fd \in Fds : Fatal(fd)]_vars

\* README, general rule 1: the program does not crash.
KeepsRunning == alive

\* What the test says of the channel whose last member is gone: it has been
\* deleted.
LiveChannelHasMembers ==
    \A c \in Chans : ExistChannel(c) => Members(c) # {}

\* What the test script says of +l: a client more than the limit is refused.
LimitKeepsOut ==
    [][\A c \in Chans :
          HasMode(c, "l") /\ Cardinality(Members(c)) >= channels[c].limit_member =>
              Members(c)' \subseteq Members(c)]_vars

\* Invite-only: an invitation is for the user who was invited, and goes when
\* that user goes; its descriptor will be somebody else's.
InvitationsDieWithUser ==
    \A c \in Chans : channels[c].register_player \cap Fds \subseteq everyone_id

\* The server uses the registry only as the registry's own specification
\* allows: every line and every departure is one of its steps.
RegistryContract == EveryoneSpec

\* Whatever commands are behind it, a step moves people between the rooms
\* only as the rooms' own rules allow.  A channel is closed by +i; numbers
\* that are no client's are no guests.
AllMembers   == [c \in Chans |-> Members(c)]
AllOperators == [c \in Chans |-> channels[c].is_master]
AllGuests    == [c \in Chans |-> channels[c].register_player \cap Fds]
ClosedRooms  == {c \in Chans : HasMode(c, "i")}

Hall == INSTANCE ChatRooms WITH
            People <- Fds, Rooms <- Chans, members <- AllMembers, operators <- AllOperators,
            guests <- AllGuests, closed <- ClosedRooms
RoomsContract == Hall!Contract

=============================================================================
