------------------------------ MODULE Everyone ------------------------------
(***************************************************************************)
(* The user registry (src/class/Everyone.cpp): the singleton every part of *)
(* the server asks "who is connection fd, what is its nickname, how far is *)
(* its registration, which channels is it in".                             *)
(*                                                                         *)
(* A user record (struct Someone) lives from CreateUser to DeleteUser.  It *)
(* is split here into one function per field, indexed by the connection;   *)
(* a connection without a record has the values CreateUser would give it,  *)
(* so "create the record if it is missing, then work on it", which is how  *)
(* the dispatcher always starts, is one formula.                           *)
(*                                                                         *)
(* Two indexes hang off the records: nick_list_ (the nicknames in use) and *)
(* everyone_nickname_ (nickname -> pointer to a record).  A pointer is the *)
(* connection whose record it points to, or Dangling once that record has  *)
(* been deleted.  everyone_username_ is written and never read by the      *)
(* server, and the words given to USER are only echoed; both are left out. *)
(***************************************************************************)
EXTENDS Naturals, FiniteSets

CONSTANTS
    Fds,        \* file descriptors a client connection may get
    Nicks,      \* words a client may give as a nickname
    BadNicks,   \* those of them that is_nick() refuses
    Chans,      \* words a client may give as a channel name
    None,       \* "no entry" of a map, "no nickname yet"
    Dangling,   \* a pointer to a deleted record
    NoFd,       \* a number that is no client's descriptor
    Crash       \* the process dies

ASSUME EveryoneConstants ==
    /\ BadNicks \subseteq Nicks
    /\ None \notin Nicks \cup Fds
    /\ Dangling \notin Fds \cup {None}
    /\ NoFd \notin Fds
    /\ Crash \notin Fds \cup {NoFd}

VARIABLES
    everyone_id,        \* the connections that have a record
    level,              \* which of PASS (REGISTER), NICK and USER succeeded
    is_admin,           \* the connections whose record has is_admin set
    nick_name,          \* the last of the record's nicknames
    join_channel,       \* the channels the record says it is in
    everyone_nickname,  \* nickname -> record pointer
    nick_list           \* the nicknames in use

everyoneVars == <<everyone_id, level, is_admin, nick_name, join_channel,
                  everyone_nickname, nick_list>>

Levels == {"NICK", "USER", "REGISTER"}

EveryoneInit ==
    /\ everyone_id = {}
    /\ level = [fd \in Fds |-> {}]
    /\ is_admin = {}
    /\ nick_name = [fd \in Fds |-> None]
    /\ join_channel = [fd \in Fds |-> {}]
    /\ everyone_nickname = [n \in Nicks |-> None]
    /\ nick_list = {}

-----------------------------------------------------------------------------
(* Queries *)

IsCreated(fd)     == fd \in everyone_id
IsRegister(fd)    == "REGISTER" \in level[fd]
IsRegisterUser(fd) == "USER" \in level[fd]
IsRegisterAll(fd) == level[fd] = Levels
IsAdmin(fd)       == fd \in is_admin
ExistUserNick(n)  == everyone_nickname[n] # None

(***************************************************************************)
(* What GetUserIdNick(n) may return.  Without an entry the code follows    *)
(* the end() iterator; through a dangling pointer it reads freed memory,   *)
(* which may since belong to the record of any other connection.           *)
(***************************************************************************)
GetUserIdNick(n) ==
    CASE everyone_nickname[n] \in Fds     -> {everyone_nickname[n]}
      [] everyone_nickname[n] = None      -> {NoFd, Crash}
      [] everyone_nickname[n] = Dangling  -> Fds \cup {NoFd, Crash}

-----------------------------------------------------------------------------
(* Registration *)

\* CreateUser(fd, flag): a second call for the same connection is refused.
CreateUser(fd, flag) ==
    /\ everyone_id' = everyone_id \cup {fd}
    /\ is_admin' = IF flag /\ ~IsCreated(fd) THEN is_admin \cup {fd} ELSE is_admin

SetRegisterAll(fd) ==                 \* mutant: a password is all it takes
    /\ level' = [level EXCEPT ![fd] = Levels]
    /\ UNCHANGED <<nick_name, join_channel, everyone_nickname, nick_list>>

SetRegister(fd) ==
    /\ level' = [level EXCEPT ![fd] = @ \cup {"REGISTER"}]
    /\ UNCHANGED <<nick_name, join_channel, everyone_nickname, nick_list>>

\* ErrorCode.cpp: a letter, then letters, digits and special characters.
is_nick(n) == n \notin BadNicks

NickAnswerIgnoresUse(lev, n) ==       \* mutant: nick_list is not looked at
    IF ~is_nick(n) THEN "ERR_ERRONEUSNICKNAME"
    ELSE IF "USER" \in lev /\ "REGISTER" \notin lev THEN "Denied"
    ELSE IF "USER" \in lev /\ "NICK" \notin lev THEN "RPL_WELCOME"
    ELSE "RPL_NOSEND"

(***************************************************************************)
(* SetNickname: the answer, in the order of the early returns, for a       *)
(* record that already has levels lev.                                     *)
(***************************************************************************)
NickAnswer(lev, n) ==
    CASE ~is_nick(n)                       -> "ERR_ERRONEUSNICKNAME"
      [] is_nick(n) /\ n \in nick_list     -> "ERR_NICKNAMEINUSE"
      [] is_nick(n) /\ n \notin nick_list  ->
            IF "USER" \in lev /\ "REGISTER" \notin lev THEN "Denied"
            ELSE IF "USER" \in lev /\ "NICK" \notin lev THEN "RPL_WELCOME"
            ELSE "RPL_NOSEND"

NickTaken(answer) == answer \in {"RPL_WELCOME", "RPL_NOSEND"}

TakeNickKeepOld(fd, n) ==             \* mutant: the old nickname stays in use
    /\ nick_list' = nick_list \cup {n}
    /\ nick_name' = [nick_name EXCEPT ![fd] = n]
    /\ everyone_nickname' = [everyone_nickname EXCEPT ![n] = fd]

\* The indexes when fd takes n: only nick_list forgets the nickname it had.
TakeNick(fd, n) ==
    /\ nick_list' = (nick_list \ {nick_name[fd]}) \cup {n}
    /\ nick_name' = [nick_name EXCEPT ![fd] = n]
    /\ everyone_nickname' = [everyone_nickname EXCEPT ![n] = fd]

SetNickname(fd, n) ==
    /\ IF NickTaken(NickAnswer(level[fd], n))
         THEN /\ TakeNick(fd, n)
              /\ level' = [level EXCEPT ![fd] = @ \cup {"NICK"}]
         ELSE UNCHANGED <<nick_name, everyone_nickname, nick_list, level>>
    /\ UNCHANGED join_channel

UserAnswerNoPass(lev) ==              \* mutant: the password is not asked for
    IF "NICK" \in lev /\ "USER" \notin lev THEN "RPL_WELCOME" ELSE "RPL_NOSEND"

\* SetUser: refused when a nickname came first and no password did.
UserAnswer(lev) ==
    CASE "NICK" \in lev /\ "REGISTER" \notin lev -> "Denied"
      [] "NICK" \notin lev                       -> "RPL_NOSEND"
      [] {"NICK", "REGISTER"} \subseteq lev      ->
            IF "USER" \in lev THEN "RPL_NOSEND" ELSE "RPL_WELCOME"

SetUser(fd) ==
    /\ level' = IF UserAnswer(level[fd]) = "Denied" THEN level
                ELSE [level EXCEPT ![fd] = @ \cup {"USER"}]
    /\ UNCHANGED <<nick_name, join_channel, everyone_nickname, nick_list>>

\* SKIP and ASKIP call SetRegister, SetNickname and SetUser in a row.
RegisterAtOnce(fd, n) ==
    LET lev1 == level[fd] \cup {"REGISTER"}
        took == NickTaken(NickAnswer(lev1, n))
    IN  /\ IF took THEN TakeNick(fd, n)
                   ELSE UNCHANGED <<nick_name, everyone_nickname, nick_list>>
        /\ level' = [level EXCEPT ![fd] =
                        lev1 \cup {"USER"} \cup (IF took THEN {"NICK"} ELSE {})]
        /\ UNCHANGED join_channel

-----------------------------------------------------------------------------
(* Membership, as the record sees it *)

AddJoinChannel(fd, c) ==
    /\ join_channel' = [join_channel EXCEPT ![fd] = @ \cup {c}]
    /\ UNCHANGED <<everyone_id, is_admin, level, nick_name, everyone_nickname, nick_list>>

DeleteJoinChannel(fd, c) ==
    /\ join_channel' = [join_channel EXCEPT ![fd] = @ \ {c}]
    /\ UNCHANGED <<everyone_id, is_admin, level, nick_name, everyone_nickname, nick_list>>

-----------------------------------------------------------------------------
(***************************************************************************)
(* DeleteUser.  The channels are left through Channel::LeaveChannel (the   *)
(* Channel module composes that part); the current nickname is erased from *)
(* both indexes, then the record is freed: an entry of everyone_nickname_  *)
(* under one of its earlier nicknames now dangles.                         *)
(***************************************************************************)
IndexAfterDelete(fd) ==
    [n \in Nicks |->
        IF n = nick_name[fd] THEN None
        ELSE IF everyone_nickname[n] = fd THEN Dangling
        ELSE everyone_nickname[n]]

DeleteUser(fd) ==
    /\ IsCreated(fd)
    /\ nick_list' = nick_list \ {nick_name[fd]}
    /\ everyone_nickname' = IndexAfterDelete(fd)
    /\ nick_name' = [nick_name EXCEPT ![fd] = None]
    /\ level' = [level EXCEPT ![fd] = {}]
    /\ join_channel' = [join_channel EXCEPT ![fd] = {}]
    /\ everyone_id' = everyone_id \ {fd}
    /\ is_admin' = is_admin \ {fd}

-----------------------------------------------------------------------------
(***************************************************************************)
(* The registry on its own: any client of the class that creates the       *)
(* record before it uses it, in any order.                                 *)
(***************************************************************************)
UserLine(fd) ==
    /\ CreateUser(fd, FALSE)
    /\ \/ SetRegister(fd)
       \/ \E n \in Nicks : SetNickname(fd, n)
       \/ SetUser(fd)
       \/ \E n \in Nicks \ BadNicks : RegisterAtOnce(fd, n)
       \/ UNCHANGED <<level, nick_name, join_channel, everyone_nickname, nick_list>>

EveryoneNext ==
    \E fd \in Fds :
        \/ UserLine(fd)
        \/ DeleteUser(fd)
        \/ /\ IsCreated(fd)
           /\ \E c \in Chans : AddJoinChannel(fd, c) \/ DeleteJoinChannel(fd, c)

EveryoneSpec == EveryoneInit /\ [][EveryoneNext]_everyoneVars

-----------------------------------------------------------------------------
(* Properties *)

\* The type of every field, and: a connection without a record has none of
\* the previous owner's fields (the descriptor can be reused at once).
EveryoneTypeOK ==
    /\ everyone_id \subseteq Fds
    /\ level \in [Fds -> SUBSET Levels]
    /\ is_admin \subseteq everyone_id
    /\ nick_name \in [Fds -> Nicks \cup {None}]
    /\ join_channel \in [Fds -> SUBSET Chans]
    /\ everyone_nickname \in [Nicks -> Fds \cup {None, Dangling}]
    /\ nick_list \subseteq Nicks
    /\ \A fd \in Fds \ everyone_id :
          level[fd] = {} /\ nick_name[fd] = None /\ join_channel[fd] = {}

\* Nobody completes NICK and USER without the password, whatever the order
\* and the repetitions of PASS, NICK and USER: SetUser and SetNickname each
\* refuse only the second of the two steps.  This is what the handlers do and
\* not what the class's own test expects: TranslatorTest.cpp:55-73 registers by
\* NICK and USER alone, without a password, and so do 113-116 and 135-141.
RegistrationGate ==
    \A fd \in Fds : {"NICK", "USER"} \subseteq level[fd] => IsRegister(fd)

\* The nickname a user now has resolves to that user (so no two users share
\* one), however often nicknames were taken, given up and taken over.
CurrentNickResolves ==
    \A fd \in Fds : nick_name[fd] # None => everyone_nickname[nick_name[fd]] = fd

\* nick_list_, which decides ERR_NICKNAMEINUSE, holds exactly the nicknames
\* users have now: none leaks after a rename or a departure.
NickListExact ==
    nick_list = {nick_name[fd] : fd \in Fds} \ {None}

\* A record has a nickname exactly when its NICK level is set, so that
\* nick_name.back(), called wherever NICK is set, never reads an empty vector.
NickLevelMeansNick ==
    \A fd \in Fds : nick_name[fd] # None <=> "NICK" \in level[fd]

\* What the comment in SetNickname says: on a change of nickname the existing
\* value is removed.  Every index entry would then name its user's nickname.
RenameForgetsOldNick ==
    \A n \in Nicks : everyone_nickname[n] \in Fds => nick_name[everyone_nickname[n]] = n

=============================================================================
