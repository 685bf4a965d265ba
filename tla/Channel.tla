------------------------------ MODULE Channel -------------------------------
(***************************************************************************)
(* The channels (src/class/Channel.cpp): members, operators, invitations,  *)
(* modes, key, member limit and topic of every channel, and the methods    *)
(* the command handlers call.  A method that refuses has no effect; what   *)
(* it answers is its ...Answer operator, one IF per early return and in    *)
(* the same order.  What a method sends by itself is its ...Messages.      *)
(*                                                                         *)
(* channels_ is a std::map: a name without an entry is NoChannel here.     *)
(* operator[] on a missing name inserts a value-initialised entry, Bare:   *)
(* a channel that exists and has nobody in it.                             *)
(***************************************************************************)
EXTENDS Everyone, Integers

CONSTANTS
    BadNames,   \* channel names without # or &, which CreateChannel refuses
    FatalNames, \* names it refuses because they are too long or hold a ^G
    Numbers,    \* the words of MODE that parse as an int
    NoArg,      \* the argument that is not there: the empty string
    Topics,     \* texts a client may give as a topic
    NoTopic,    \* the empty topic
    JoinLimit   \* JoinedChannel compares join_channel.size() to it: 10 in the code

ASSUME ChannelConstants ==
    /\ BadNames \cup FatalNames \subseteq Chans
    /\ None \notin Chans
    /\ Numbers \subseteq Int
    /\ Numbers \cup {NoArg} \subseteq BadNicks
    /\ NoArg \notin Numbers
    /\ NoTopic \notin Topics
    /\ JoinLimit \in Nat

VARIABLES
    channels    \* name -> ChannelInfo

Modes == {"i", "t", "k", "l"}   \* is_invite, is_topic, is_key, is_limit

ChannelInfo == [exists          : BOOLEAN,
                joined_player   : SUBSET Fds,
                is_master       : SUBSET Fds,
                register_player : SUBSET (Fds \cup {NoFd}),
                modes           : SUBSET Modes,
                password        : Nicks,
                limit_member    : Int,
                topic           : Topics \cup {NoTopic}]

NoChannel == [exists |-> FALSE, joined_player |-> {}, is_master |-> {},
              register_player |-> {}, modes |-> {}, password |-> NoArg,
              limit_member |-> 0, topic |-> NoTopic]

Bare == [NoChannel EXCEPT !.exists = TRUE]

ChannelInit == channels = [c \in Chans |-> NoChannel]

\* A line sent to a client: what it says, about whom, on which channel.
Msg(to, what, who, on) == [to |-> to, what |-> what, who |-> who, on |-> on]
ToAll(fds, what, who, on) == {Msg(to, what, who, on) : to \in fds}

-----------------------------------------------------------------------------
(* Queries *)

ExistChannel(c)   == channels[c].exists
Members(c)        == channels[c].joined_player
IsJoined(fd, c)   == ExistChannel(c) /\ fd \in Members(c)
IsOperator(fd, c) == IsAdmin(fd) \/ fd \in channels[c].is_master
HasMode(c, m)     == m \in channels[c].modes

GetTopic(c) == IF ~ExistChannel(c) THEN "ERR_NOSUCHCHANNEL"
               ELSE IF channels[c].topic = NoTopic THEN "RPL_NOTOPIC"
               ELSE "RPL_TOPIC"

-----------------------------------------------------------------------------
(* JOIN: JoinedChannel, and CreateChannel for a name without an entry *)

CreateAnswer(fd, c) ==
    IF ~IsRegister(fd) THEN "ERR_NOTREGISTERED"
    ELSE IF c \in FatalNames THEN "FATAL"
    ELSE IF c \in BadNames THEN "ERR_NOSUCHCHANNEL"
    ELSE "RPL_NOTOPIC"

NeverFull(c) == FALSE                 \* mutant: the limit is not looked at

\* The limit is compared with ==, and only while is_limit is set.  A negative
\* one becomes a huge size_t, which no number of members is equal to.
IsFull(c) == HasMode(c, "l") /\ Cardinality(Members(c)) = channels[c].limit_member

JoinAnswerUninvited(fd, c, pass) ==   \* mutant: +i is not looked at
    IF ~IsRegister(fd) THEN "ERR_NOTREGISTERED"
    ELSE IF ~ExistChannel(c) THEN CreateAnswer(fd, c)
    ELSE IF IsJoined(fd, c) THEN "ERR_USERONCHANNEL"
    ELSE GetTopic(c)

JoinAnswer(fd, c, pass) ==
    IF ~IsRegister(fd) THEN "ERR_NOTREGISTERED"
    ELSE IF ~ExistChannel(c) THEN CreateAnswer(fd, c)
    ELSE IF IsJoined(fd, c) THEN "ERR_USERONCHANNEL"
    ELSE IF ~IsAdmin(fd) /\ HasMode(c, "i") /\ fd \notin channels[c].register_player
         THEN "ERR_INVITEONLYCHAN"
    ELSE IF ~IsAdmin(fd) /\ IsFull(c) THEN "ERR_CHANNELISFULL"
    ELSE IF ~IsAdmin(fd) /\ Cardinality(join_channel[fd]) > JoinLimit
         THEN "ERR_TOOMANYCHANNELS"
    ELSE IF ~IsAdmin(fd) /\ HasMode(c, "k") /\ channels[c].password # pass
         THEN "ERR_BADCHANNELKEY"
    ELSE GetTopic(c)

Joins(answer) == answer \in {"RPL_TOPIC", "RPL_NOTOPIC"}

AfterJoinKeepInvite(fd, c) ==         \* mutant: register_player.erase is forgotten
    IF ExistChannel(c)
    THEN [channels[c] EXCEPT !.joined_player = @ \cup {fd}]
    ELSE [Bare EXCEPT !.joined_player = {fd}, !.is_master = {fd}]

\* Entering consumes the invitation; the first member becomes operator.
AfterJoin(fd, c) ==
    IF ExistChannel(c)
    THEN [channels[c] EXCEPT !.joined_player = @ \cup {fd}, !.register_player = @ \ {fd}]
    ELSE [Bare EXCEPT !.joined_player = {fd}, !.is_master = {fd}]

JoinedChannel(fd, c, pass) ==
    IF Joins(JoinAnswer(fd, c, pass))
    THEN /\ channels' = [channels EXCEPT ![c] = AfterJoin(fd, c)]
         /\ AddJoinChannel(fd, c)
    ELSE UNCHANGED <<channels, everyoneVars>>

-----------------------------------------------------------------------------
(* PART, and the leaving that QUIT, a closed connection and KICK imply *)

LeaveAnswer(fd, c) ==
    IF ~IsRegister(fd) THEN "ERR_NOTREGISTERED"
    ELSE IF ~ExistChannel(c) THEN "ERR_NOSUCHCHANNEL"
    ELSE IF ~IsJoined(fd, c) THEN "ERR_NOTONCHANNEL"
    ELSE "PART"

AfterLeaveKeepsMaster(fd, c) ==       \* mutant: is_master.erase is forgotten
    IF Members(c) \subseteq {fd} THEN NoChannel
    ELSE [channels[c] EXCEPT !.joined_player = @ \ {fd}]

AfterLeaveEmptyStays(fd, c) ==        \* mutant: no DeleteChannel for the last one
    [channels[c] EXCEPT !.joined_player = @ \ {fd}, !.is_master = @ \ {fd}]

\* The last member to leave takes the channel with it.
AfterLeave(fd, c) ==
    IF Members(c) \subseteq {fd} THEN NoChannel
    ELSE [channels[c] EXCEPT !.joined_player = @ \ {fd}, !.is_master = @ \ {fd}]

LeaveChannel(fd, c) ==
    IF LeaveAnswer(fd, c) = "PART"
    THEN /\ channels' = [channels EXCEPT ![c] = AfterLeave(fd, c)]
         /\ DeleteJoinChannel(fd, c)
    ELSE UNCHANGED <<channels, everyoneVars>>

\* flag = 1, the default: those who stay are told.
LeaveMessages(fd, c) ==
    IF LeaveAnswer(fd, c) = "PART" THEN ToAll(Members(c) \ {fd}, "PART", fd, c) ELSE {}

LeaveAllButFirst(fd) ==               \* mutant: the loop stops after one channel
    LET first == CHOOSE c \in join_channel[fd] : TRUE
    IN  channels' = [c \in Chans |->
            IF join_channel[fd] # {} /\ c = first /\ LeaveAnswer(fd, c) = "PART"
            THEN AfterLeave(fd, c) ELSE channels[c]]

\* The loop of Everyone::DeleteUser over the record's channels.
LeaveAll(fd) ==
    channels' = [c \in Chans |->
        IF c \in join_channel[fd] /\ LeaveAnswer(fd, c) = "PART"
        THEN AfterLeave(fd, c) ELSE channels[c]]

LeaveAllSilently(fd) == {}            \* mutant: LeaveChannel is called with flag = 0

LeaveAllMessages(fd) == UNION {LeaveMessages(fd, c) : c \in join_channel[fd]}

-----------------------------------------------------------------------------
KickRefusalMembersToo(fd, c) ==       \* mutant: any member may kick
    IF ~IsRegister(fd) THEN "ERR_NOTREGISTERED"
    ELSE IF ~ExistChannel(c) THEN "ERR_NOSUCHCHANNEL"
    ELSE IF ~IsAdmin(fd) /\ ~IsJoined(fd, c) THEN "ERR_NOTONCHANNEL"
    ELSE "None"

(***************************************************************************)
(* KICK.  t is what GetUserIdNick returned for the nickname.  The loop     *)
(* that tells the members reads channels_[channel_str]: when the operator  *)
(* was alone and kicked itself, LeaveChannel has deleted the channel and   *)
(* operator[] puts a Bare one in its place.                                *)
(***************************************************************************)
KickRefusal(fd, c) ==
    IF ~IsRegister(fd) THEN "ERR_NOTREGISTERED"
    ELSE IF ~ExistChannel(c) THEN "ERR_NOSUCHCHANNEL"
    ELSE IF ~IsAdmin(fd) /\ ~IsJoined(fd, c) THEN "ERR_NOTONCHANNEL"
    ELSE IF ~IsOperator(fd, c) THEN "ERR_CHANOPRIVSNEEDED"
    ELSE "None"

AfterKick(t, c) ==
    IF Members(c) \subseteq {t} THEN Bare ELSE AfterLeave(t, c)

KickChannel(t, c) ==
    /\ channels' = [channels EXCEPT ![c] = AfterKick(t, c)]
    /\ DeleteJoinChannel(t, c)

KickMessages(t, c) == ToAll(Members(c) \cup {t}, "KICK", t, c)

-----------------------------------------------------------------------------
(* INVITE: the limit is looked at whether or not is_limit is set *)

InviteAnswer(fd, n, t, c) ==
    IF ~IsRegister(fd) THEN "ERR_NOTREGISTERED"
    ELSE IF ~ExistUserNick(n) THEN "ERR_NOSUCHNICK"
    ELSE IF ~ExistChannel(c) THEN "ERR_NOSUCHCHANNEL"
    ELSE IF ~IsJoined(fd, c) THEN "ERR_NOTONCHANNEL"
    ELSE IF IsJoined(t, c) THEN "ERR_USERONCHANNEL"
    ELSE IF ~IsOperator(fd, c) THEN "ERR_CHANOPRIVSNEEDED"
    ELSE IF Cardinality(Members(c)) = channels[c].limit_member THEN "ERR_CHANNELISFULL"
    ELSE "RPL_INVITING"

InviteToChannel(fd, n, t, c) ==
    channels' = IF InviteAnswer(fd, n, t, c) = "RPL_INVITING"
                THEN [channels EXCEPT ![c].register_player = @ \cup {t}]
                ELSE channels

-----------------------------------------------------------------------------
(* TOPIC *)

TopicAnswer(fd, c) ==
    IF ~IsRegister(fd) THEN "ERR_NOTREGISTERED"
    ELSE IF ~ExistChannel(c) THEN "ERR_NOTONCHANNEL"
    ELSE IF ~IsAdmin(fd) /\ ~IsJoined(fd, c) THEN "ERR_NOTONCHANNEL"
    ELSE IF HasMode(c, "t") /\ ~IsOperator(fd, c) THEN "ERR_CHANOPRIVSNEEDED"
    ELSE "Changed"

ChangeTopic(fd, c, text) ==
    channels' = IF TopicAnswer(fd, c) = "Changed"
                THEN [channels EXCEPT ![c].topic = text] ELSE channels

-----------------------------------------------------------------------------
ModeRefusalMembersToo(fd, flags, c) ==    \* mutant: any member may change modes
    IF ~IsRegister(fd) THEN "ERR_NOTREGISTERED"
    ELSE IF ~ExistChannel(c) THEN "ERR_NOSUCHCHANNEL"
    ELSE IF ~IsJoined(fd, c) THEN "ERR_NOTONCHANNEL"
    ELSE IF ~(flags \subseteq Modes \cup {"o"}) THEN "ERR_UNKNOWNMODE"
    ELSE "None"

(***************************************************************************)
(* MODE.  flags is the set of letters after the sign, key the next word,   *)
(* which serves as channel key, limit and nickname at once.  The letters   *)
(* are applied in the order i, t, k, l, o whatever order they were given   *)
(* in, and an error in k or l stops there: what came before stays applied, *)
(* +l even sets is_limit before it parses its number.                      *)
(***************************************************************************)
ModeRefusal(fd, flags, c) ==
    IF ~IsRegister(fd) THEN "ERR_NOTREGISTERED"
    ELSE IF ~ExistChannel(c) THEN "ERR_NOSUCHCHANNEL"
    ELSE IF ~IsAdmin(fd) /\ ~IsJoined(fd, c) THEN "ERR_NOTONCHANNEL"
    ELSE IF ~IsOperator(fd, c) THEN "ERR_CHANOPRIVSNEEDED"
    ELSE IF ~(flags \subseteq Modes \cup {"o"}) THEN "ERR_UNKNOWNMODE"
    ELSE "None"

\* The answer of the part that sets modes: where +k or +l stops it.
SetAnswer(flags, c, key) ==
    IF flags \cap {"k", "l"} # {} /\ key = NoArg THEN "ERR_NEEDMOREPARAMS"
    ELSE IF "k" \in flags /\ channels[c].password # NoArg THEN "ERR_KEYSET"
    ELSE IF "l" \in flags /\ key \notin Numbers THEN "FATAL"
    ELSE "RPL_CHANNELMODEIS"

AfterSetUnparsed(flags, c, key) ==    \* mutant: +l takes a word that is no number
    [channels[c] EXCEPT !.limit_member = IF "l" \in flags THEN key ELSE @]

AfterSet(flags, c, key) ==
    LET stopped == SetAnswer(flags, c, key) \in {"ERR_NEEDMOREPARAMS", "ERR_KEYSET"}
        done    == IF stopped THEN flags \cap {"i", "t"} ELSE flags \cap Modes
    IN  [channels[c] EXCEPT
            !.modes        = @ \cup done,
            !.password     = IF "k" \in done THEN key ELSE @,
            !.limit_member = IF "l" \in done /\ key \in Numbers THEN key ELSE @]

AfterClearKeepsKey(flags, c) ==       \* mutant: -k forgets the password
    [channels[c] EXCEPT !.modes = @ \ flags]

AfterClear(flags, c) ==
    [channels[c] EXCEPT !.modes    = @ \ flags,
                        !.password = IF "k" \in flags THEN NoArg ELSE @]

ModeAnswer(valid, flags, c, key) ==
    IF valid THEN SetAnswer(flags, c, key) ELSE "RPL_CHANNELMODEIS"

\* +o and -o, when the letters before did not stop the command; what
\* ChangeOperator answers is dropped.
ReachesOperator(valid, flags, c, key) ==
    "o" \in flags /\ ModeAnswer(valid, flags, c, key) = "RPL_CHANNELMODEIS"

ChangeOperator(info, t, valid) ==
    IF t \notin info.joined_player THEN info
    ELSE [info EXCEPT !.is_master = IF valid THEN @ \cup {t} ELSE @ \ {t}]

ChangeChannelMode(valid, flags, c, key, t) ==
    LET info == IF valid THEN AfterSet(flags, c, key) ELSE AfterClear(flags, c)
    IN  channels' = [channels EXCEPT ![c] =
                        IF ReachesOperator(valid, flags, c, key)
                        THEN ChangeOperator(info, t, valid) ELSE info]

-----------------------------------------------------------------------------
(* PRIVMSG to a channel: every member but the author *)

SendAnswer(fd, c) ==
    IF ~IsRegister(fd) THEN "ERR_NOTREGISTERED"
    ELSE IF ~ExistChannel(c) THEN "ERR_CANNOTSENDTOCHAN"
    ELSE IF ~IsAdmin(fd) /\ ~IsJoined(fd, c) THEN "ERR_NOTONCHANNEL"
    ELSE "Sent"

ChannelTextInvited(fd, c) ==          \* mutant: those invited hear it too
    ToAll((Members(c) \cup channels[c].register_player) \ {fd}, "PRIVMSG", fd, c)

ChannelText(fd, c) ==
    IF SendAnswer(fd, c) = "Sent" THEN ToAll(Members(c) \ {fd}, "PRIVMSG", fd, c) ELSE {}

=============================================================================
