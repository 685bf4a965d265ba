---------------------------- MODULE SampleServer ----------------------------
(***************************************************************************)
(* The prototype the event loop grew out of (yyamasak/sample_socket/server *)
(* class/SocketServer.cpp and class/Parser.cpp).  Its closeClient erases   *)
(* the pollfd inside the scan, and what start then looks at under the same *)
(* index is the neighbour, or the slot behind the end; its Parser keeps an *)
(* entry per descriptor that only QUIT takes away.                         *)
(*                                                                         *)
(* The byte stream is in SocketServer: here a client sends whole lines, or *)
(* a part of one.  What is only echoed is left out, and so is isLoggedIn,  *)
(* which nothing reads.                                                    *)
(***************************************************************************)
EXTENDS Naturals, Sequences

CONSTANTS
    Clients, Fds, ServerFd, None,
    Nicks, Empty,   \* nicknames, and the empty string
    MaxLines        \* bound: lines sent in a behaviour

ASSUME SampleConstants ==
    /\ ServerFd \notin Fds
    /\ None \notin Clients
    /\ Empty \notin Nicks
    /\ MaxLines \in Nat

\* "short" is NICK, USER or PASS without a space behind it, or such a CAP REQ;
\* "other" any line that makes no more than an entry, the empty one included;
\* "part" has no newline.
Lines == {[cmd |-> "NICK", arg |-> n] : n \in Nicks \cup {Empty}}
    \cup {[cmd |-> c, arg |-> Empty] : c \in {"USER", "QUIT", "short", "other", "part"}}

VARIABLES
    slots, size,        \* poll_fds_: its memory, and how much of it counts
    i, pc,              \* the scan's index; "scan" or "lines"
    todo,               \* lines of the message that are not executed yet
    unfinished,         \* descriptors whose message_buffer_ is not empty
    indices_to_remove,
    clients_,           \* Parser: descriptor -> ClientInfo
    alive,
    owner, backlog, inbox, peer, lines_left     \* the kernel and the clients

loopVars == <<slots, size, i, pc, indices_to_remove>>
kernelVars == <<owner, backlog, inbox, peer, lines_left>>
vars == <<loopVars, todo, unfinished, clients_, alive, kernelVars>>

ClientInfo == [nick : Nicks \cup {Empty}, hasNick : BOOLEAN, hasUser : BOOLEAN, registered : BOOLEAN]
NewInfo == [nick |-> Empty, hasNick |-> FALSE, hasUser |-> FALSE, registered |-> FALSE]

Init ==
    /\ slots = << [fd |-> ServerFd, in |-> FALSE] >> /\ size = 1
    /\ i = 1 /\ pc = "scan" /\ todo = <<>> /\ unfinished = {}
    /\ indices_to_remove = <<>>
    /\ clients_ = [fd \in Fds |-> None]
    /\ alive = TRUE
    /\ owner = [fd \in Fds |-> None]
    /\ backlog = {}
    /\ inbox = [c \in Clients |-> <<>>]
    /\ peer = [c \in Clients |-> "new"]
    /\ lines_left = MaxLines

isExist(fd) == clients_[fd] # None

-----------------------------------------------------------------------------
(* The clients *)

Connect(c) ==
    /\ peer[c] = "new"
    /\ peer' = [peer EXCEPT ![c] = "up"]
    /\ backlog' = backlog \cup {c}
    /\ UNCHANGED <<loopVars, todo, unfinished, clients_, alive, owner, inbox, lines_left>>

SendLine(c) ==
    /\ peer[c] = "up" /\ lines_left > 0
    /\ \E fd \in Fds : owner[fd] = c
    /\ \E line \in Lines : inbox' = [inbox EXCEPT ![c] = Append(@, line)]
    /\ lines_left' = lines_left - 1
    /\ UNCHANGED <<loopVars, todo, unfinished, clients_, alive, owner, backlog, peer>>

HangUp(c) ==
    /\ peer[c] = "up"
    /\ peer' = [peer EXCEPT ![c] = "gone"]
    /\ inbox' \in {inbox, [inbox EXCEPT ![c] = <<>>]}
    /\ UNCHANGED <<loopVars, todo, unfinished, clients_, alive, owner, backlog, lines_left>>

-----------------------------------------------------------------------------
(* poll and accept *)

Readable(fd) ==
    IF fd = ServerFd THEN backlog # {}
    ELSE owner[fd] # None /\ (inbox[owner[fd]] # <<>> \/ peer[owner[fd]] = "gone")

NextEvent(k) ==
    /\ alive /\ pc = "scan"
    /\ k \in i .. size
    /\ slots[k].in
    /\ \A j \in i .. (k - 1) : ~slots[j].in

ScanDone == alive /\ pc = "scan" /\ \A j \in i .. size : ~slots[j].in
Idle == ScanDone /\ indices_to_remove = <<>>

Poll ==
    /\ Idle
    /\ \E k \in 1 .. size : Readable(slots[k].fd)
    /\ slots' = [k \in DOMAIN slots |->
                    IF k <= size THEN [slots[k] EXCEPT !.in = Readable(slots[k].fd)] ELSE slots[k]]
    /\ i' = 1
    /\ UNCHANGED <<size, pc, todo, unfinished, indices_to_remove, clients_, alive, kernelVars>>

HandleNewConnection ==
    /\ \E k \in 1 .. size : NextEvent(k) /\ slots[k].fd = ServerFd /\ i' = k + 1
    /\ LET free == {fd \in Fds : owner[fd] = None}
       IN  \/ free = {} /\ UNCHANGED <<slots, size, owner, backlog>>
           \/ \E fd \in free, c \in backlog :
                /\ owner' = [owner EXCEPT ![fd] = c]
                /\ backlog' = backlog \ {c}
                /\ slots' = SubSeq(slots, 1, size) \o << [fd |-> fd, in |-> FALSE] >>
                                \o SubSeq(slots, size + 2, Len(slots))
                /\ size' = size + 1
    /\ UNCHANGED <<pc, todo, unfinished, indices_to_remove, clients_, alive, inbox, peer, lines_left>>

-----------------------------------------------------------------------------
(* A message: received, cut into lines, executed *)

\* vector::erase moves what is behind one down; the last slot keeps its value.
Without(k) ==
    [j \in DOMAIN slots |-> IF j \in k .. (size - 1) THEN slots[j + 1] ELSE slots[j]]

CloseClientLater(k) ==                \* mutant: the pollfd stays, as in the successor
    /\ owner' = [owner EXCEPT ![slots[k].fd] = None]
    /\ UNCHANGED <<slots, size>>

CloseClient(k) ==
    /\ owner' = [owner EXCEPT ![slots[k].fd] = None]
    /\ slots' = Without(k)
    /\ size' = size - 1

Newline(m) == \E n \in DOMAIN m : m[n].cmd # "part"

\* handleClientMessage: nothing to read is the end of the connection.
Receive ==
    /\ \E k \in 1 .. size :
          /\ NextEvent(k) /\ slots[k].fd # ServerFd
          /\ i' = k
          /\ LET fd == slots[k].fd
                 c  == owner[fd]
             IN  \/ /\ c = None \/ inbox[c] = <<>>
                    /\ CloseClient(k)
                    /\ unfinished' = unfinished \ {fd}
                    /\ UNCHANGED <<todo, inbox>>
                 \/ /\ c # None
                    /\ \E n \in 1 .. Len(inbox[c]) :
                          /\ n = Len(inbox[c]) \/ Newline(SubSeq(inbox[c], 1, n))
                          /\ todo' = SubSeq(inbox[c], 1, n)
                          /\ inbox' = [inbox EXCEPT ![c] = SubSeq(@, n + 1, Len(@))]
                    /\ UNCHANGED <<slots, size, owner, unfinished>>
    /\ pc' = "lines"
    /\ UNCHANGED <<indices_to_remove, clients_, alive, backlog, peer, lines_left>>

-----------------------------------------------------------------------------
(* Parser::action *)

InUseByAnother(fd, nick) ==           \* mutant: only registered clients are looked at
    \E g \in Fds \ {fd} : isExist(g) /\ clients_[g].registered /\ clients_[g].nick = nick

nick_in_use(fd, nick) ==
    \E g \in Fds \ {fd} : isExist(g) /\ clients_[g].nick = nick

RegisterEither(info) ==               \* mutant: || for &&
    [info EXCEPT !.registered = @ \/ info.hasNick \/ info.hasUser]

registerClient(info) ==
    [info EXCEPT !.registered = @ \/ (info.hasNick /\ info.hasUser)]

\* The entry after a line; what is sent is left out.
Action(fd, line) ==
    LET client == IF isExist(fd) THEN clients_[fd] ELSE NewInfo
    IN  CASE line.cmd = "NICK" ->
                IF nick_in_use(fd, line.arg) THEN client
                ELSE registerClient([client EXCEPT !.nick = line.arg, !.hasNick = TRUE])
          [] line.cmd = "USER"  -> registerClient([client EXCEPT !.hasUser = TRUE])
          [] line.cmd = "QUIT"  -> None
          [] line.cmd = "other" -> client

\* What follows an unfinished line is glued to it and is no command any more.
Complete(fd, line) == IF fd \in unfinished THEN [cmd |-> "other", arg |-> Empty] ELSE line

ExecuteLine ==
    /\ alive /\ pc = "lines" /\ todo # <<>>
    /\ LET fd   == slots[i].fd
           line == Complete(fd, Head(todo))
       IN  \/ /\ Head(todo).cmd = "part"
              /\ unfinished' = unfinished \cup {fd}
              /\ UNCHANGED <<clients_, alive>>
           \/ /\ Head(todo).cmd # "part" /\ line.cmd = "short"
              /\ alive' = FALSE       \* substr throws, nobody catches
              /\ UNCHANGED <<unfinished, clients_>>
           \/ /\ Head(todo).cmd # "part" /\ line.cmd # "short"
              /\ unfinished' = unfinished \ {fd}
              /\ clients_' = [clients_ EXCEPT ![fd] = Action(fd, line)]
              /\ UNCHANGED alive
    /\ todo' = Tail(todo)
    /\ UNCHANGED <<loopVars, kernelVars>>

ToRemoveAnyEmpty(fd) == fd \notin unfinished  \* mutant: isExist is not asked
ToRemove(fd) == fd \notin unfinished /\ ~isExist(fd)

\* After closeClient, slots[i] is the neighbour, or the slot behind the end.
EndOfLines ==
    /\ alive /\ pc = "lines" /\ todo = <<>>
    /\ indices_to_remove' = IF ToRemove(slots[i].fd) THEN Append(indices_to_remove, i)
                            ELSE indices_to_remove
    /\ i' = i + 1 /\ pc' = "scan"
    /\ UNCHANGED <<slots, size, todo, unfinished, clients_, alive, kernelVars>>

\* erase(end()) is undefined: it crashes, or drops the last element.
Sweep ==
    /\ ScanDone /\ indices_to_remove # <<>>
    /\ LET k == indices_to_remove[Len(indices_to_remove)]
       IN  /\ owner' = [owner EXCEPT ![slots[k].fd] = None]
           /\ slots' = Without(k)
           /\ \/ k <= size /\ size' = size - 1 /\ UNCHANGED alive
              \/ k > size /\ size > 0 /\ size' = size - 1 /\ UNCHANGED alive
              \/ k > size /\ alive' = FALSE /\ UNCHANGED size
    /\ indices_to_remove' = SubSeq(indices_to_remove, 1, Len(indices_to_remove) - 1)
    /\ UNCHANGED <<i, pc, todo, unfinished, clients_, backlog, inbox, peer, lines_left>>

-----------------------------------------------------------------------------
Next ==
    \/ Poll
    \/ HandleNewConnection
    \/ Receive
    \/ ExecuteLine
    \/ EndOfLines
    \/ Sweep
    \/ \E c \in Clients : Connect(c) \/ SendLine(c) \/ HangUp(c)

Spec == Init /\ [][Next]_vars

-----------------------------------------------------------------------------
(* Properties *)

Slot == [fd : Fds \cup {ServerFd}, in : BOOLEAN]

\* The index the loop uses is always within the memory of the vector, if not
\* within its size: what is read there is an old value, never garbage.  And
\* who is registered has given both names.
TypeOK ==
    /\ slots \in Seq(Slot) /\ size \in 0 .. Len(slots)
    /\ pc \in {"scan", "lines"}
    /\ pc = "lines" => i \in DOMAIN slots /\ slots[i].fd # ServerFd
    /\ indices_to_remove \in Seq(DOMAIN slots)
    /\ todo \in Seq(Lines) /\ unfinished \subseteq Fds
    /\ clients_ \in [Fds -> ClientInfo \cup {None}]
    /\ \A fd \in Fds : isExist(fd) /\ clients_[fd].registered => clients_[fd].hasNick /\ clients_[fd].hasUser
    /\ alive \in BOOLEAN
    /\ owner \in [Fds -> Clients \cup {None}] /\ backlog \subseteq Clients
    /\ inbox \in [Clients -> Seq(Lines)]
    /\ peer \in [Clients -> {"new", "up", "gone"}]
    /\ lines_left \in 0 .. MaxLines

\* No two entries have taken the same nickname, those left behind by a
\* connection that is gone included, nor the empty one.
UniqueNicks ==
    \A f, g \in Fds : isExist(f) /\ isExist(g) /\ clients_[f].hasNick /\ clients_[g].hasNick
        => clients_[f].nick # clients_[g].nick \/ f = g

\* Whatever the erasures inside the scan and past the end left in the list,
\* poll is called with open descriptors only, none of them twice.
WatchedAreOpen ==
    Idle => /\ \A k \in 1 .. size : slots[k].fd # ServerFd => owner[slots[k].fd] # None
            /\ \A j, k \in 1 .. size : slots[j].fd = slots[k].fd => j = k

Watched == {slots[k].fd : k \in 1 .. size}

\* A connection whose peer is there is closed only without entry in the Parser.
ClosedNameless ==
    \A fd \in Fds :
        owner[fd] # None /\ owner'[fd] # owner[fd] /\ peer[owner[fd]] = "up" => ~isExist(fd)

\* A descriptor leaves the list and stays open only as the last of the list,
\* when the index of one without an entry, once last itself, is erased behind
\* the end.
LostBehindTheEnd ==
    \A fd \in Watched \ Watched' :
        fd = ServerFd \/ owner'[fd] # None =>
            /\ fd = slots[size].fd
            /\ indices_to_remove # <<>>
            /\ indices_to_remove[Len(indices_to_remove)] = size + 1
            /\ slots[size + 1].fd \notin Watched /\ ~isExist(slots[size + 1].fd)

\* What the wrong indices cost: they close nobody's connection who has an entry
\* and is there, but the erasure behind the end loses the pollfd of whoever is
\* last in the list then, with an entry or without, or of the listening socket:
\* that descriptor stays open and is never polled again.
WrongIndexCost == [][ClosedNameless /\ LostBehindTheEnd]_vars

=============================================================================
