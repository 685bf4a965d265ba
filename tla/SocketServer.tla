---------------------------- MODULE SocketServer ----------------------------
(***************************************************************************)
(* The event loop (src/class/SocketServer.cpp): poll, accept, receive,     *)
(* cut the byte stream into lines, execute them, sweep out the closed      *)
(* connections.  One server step is one system call with the bookkeeping   *)
(* around it, or one executed line; the clients act in between, as they    *)
(* do while the single thread is busy.                                     *)
(*                                                                         *)
(* What a line does is reduced to what the loop looks at, IsCreated: a     *)
(* registering line makes the user, QUIT of a registered user deletes it,  *)
(* any other line with a word in it makes an unregistered one, an empty    *)
(* line does nothing.  The module MessageTranslator has the rest.          *)
(***************************************************************************)
EXTENDS Naturals, Sequences, FiniteSets, SequencesExt

CONSTANTS
    Clients,        \* one element per connection ever attempted
    Fds,            \* descriptors accept may return
    ServerFd,       \* server_fd_
    None,           \* no client, no user
    Script,         \* what each client sends, byte by byte, if it lives
    BUFFER_SIZE     \* bytes recv takes at a time: 512 in the code

Bytes == {"skip", "quit", "x", "cr", "nl", "nul"}   \* the first two are whole words

ASSUME SocketServerConstants ==
    /\ ServerFd \notin Fds
    /\ None \notin Clients
    /\ None \notin [by : Clients, registered : BOOLEAN]
    /\ BUFFER_SIZE \in Nat \ {0}

ASSUME ScriptType == Script \in [Clients -> Seq(Bytes)]

VARIABLES
    \* the server
    poll_fds,           \* the vector given to poll: descriptor and POLLIN
    message_buffer,     \* per descriptor, the bytes after the last newline
    message,            \* receiveMessage: what the chunks gave so far
    indices_to_remove,  \* connections to sweep out after this pass
    user,               \* Everyone: whose line made the record, and is it registered
    pc, i,              \* where the thread is; the index of the scan
    \* the kernel
    owner,              \* the connection behind an open descriptor
    backlog,            \* connections waiting for accept
    inbox,              \* bytes a client sent and the server has not read
    \* the clients
    peer,               \* "new", "up" or "gone"
    sent,               \* how many bytes of its script it has got across
    executed            \* history: the lines executed for it

serverVars == <<poll_fds, message_buffer, message, indices_to_remove, user, pc, i>>
vars == <<serverVars, owner, backlog, inbox, peer, sent, executed>>

Init ==
    /\ poll_fds = << [fd |-> ServerFd, in |-> FALSE] >>
    /\ message_buffer = [fd \in Fds |-> <<>>]
    /\ message = <<>>
    /\ indices_to_remove = <<>>
    /\ user = [fd \in Fds |-> None]
    /\ pc = "scan"
    /\ i = 1
    /\ owner = [fd \in Fds |-> None]
    /\ backlog = {}
    /\ inbox = [c \in Clients |-> <<>>]
    /\ peer = [c \in Clients |-> "new"]
    /\ sent = [c \in Clients |-> 0]
    /\ executed = [c \in Clients |-> <<>>]

-----------------------------------------------------------------------------
(* The clients and the network *)

Connect(c) ==
    /\ peer[c] = "new"
    /\ peer' = [peer EXCEPT ![c] = "up"]
    /\ backlog' = backlog \cup {c}
    /\ UNCHANGED <<serverVars, owner, inbox, sent, executed>>

\* The next byte arrives; what a closed connection receives is lost.
SendByte(c) ==
    /\ peer[c] = "up"
    /\ sent[c] < Len(Script[c])
    /\ c \in backlog \cup {owner[fd] : fd \in Fds}
    /\ sent' = [sent EXCEPT ![c] = @ + 1]
    /\ inbox' = [inbox EXCEPT ![c] = Append(@, Script[c][sent[c] + 1])]
    /\ UNCHANGED <<serverVars, owner, backlog, peer, executed>>

\* An orderly close leaves what was sent to be read; a reset throws it away.
HangUp(c) ==
    /\ peer[c] = "up"
    /\ peer' = [peer EXCEPT ![c] = "gone"]
    /\ \/ UNCHANGED <<inbox, sent>>
       \/ /\ inbox' = [inbox EXCEPT ![c] = <<>>]
          /\ sent' = [sent EXCEPT ![c] = @ - Len(inbox[c])]
    /\ UNCHANGED <<serverVars, owner, backlog, executed>>

-----------------------------------------------------------------------------
(* poll *)

\* What poll reports: a connection to accept, bytes to read, or the end.
Readable(fd) ==
    IF fd = ServerFd THEN backlog # {}
    ELSE owner[fd] # None /\ (inbox[owner[fd]] # <<>> \/ peer[owner[fd]] = "gone")

\* The scan looks at each revents in turn: k is the next index to be served.
NextEvent(k) ==
    /\ pc = "scan"
    /\ k \in i .. Len(poll_fds)
    /\ poll_fds[k].in
    /\ \A j \in i .. (k - 1) : ~poll_fds[j].in

ScanDone == pc = "scan" /\ \A j \in i .. Len(poll_fds) : ~poll_fds[j].in

\* The pass is over and its sweep too: the thread is about to call poll.
Idle == ScanDone /\ indices_to_remove = <<>>

Poll ==
    /\ Idle
    /\ \E k \in DOMAIN poll_fds : Readable(poll_fds[k].fd)
    /\ poll_fds' = [k \in DOMAIN poll_fds |->
                        [poll_fds[k] EXCEPT !.in = Readable(poll_fds[k].fd)]]
    /\ i' = 1
    /\ UNCHANGED <<message_buffer, message, indices_to_remove, user, pc,
                   owner, backlog, inbox, peer, sent, executed>>

-----------------------------------------------------------------------------
(* The scan over poll_fds *)

\* handleNewConnection: any free descriptor; without one accept fails and
\* the connection stays in the backlog.
HandleNewConnection ==
    /\ \E k \in DOMAIN poll_fds :
          NextEvent(k) /\ poll_fds[k].fd = ServerFd /\ i' = k + 1
    /\ LET free == {fd \in Fds : owner[fd] = None}
       IN  \/ /\ free = {}
              /\ UNCHANGED <<poll_fds, owner, backlog>>
           \/ \E fd \in free, c \in backlog :
                /\ owner' = [owner EXCEPT ![fd] = c]
                /\ backlog' = backlog \ {c}
                /\ poll_fds' = Append(poll_fds, [fd |-> fd, in |-> FALSE])
    /\ UNCHANGED <<message_buffer, message, indices_to_remove, user, pc, inbox, peer, sent, executed>>

Newline(bytes) == SelectInSeq(bytes, LAMBDA b : b = "nl")

\* One recv takes what is there, up to the size of its buffer.
Chunk(bytes) ==
    SubSeq(bytes, 1, IF Len(bytes) < BUFFER_SIZE THEN Len(bytes) ELSE BUFFER_SIZE)

\* The chunk is appended as a C string: it ends at its first zero byte.
CString(chunk) ==
    LET z == SelectInSeq(chunk, LAMBDA b : b = "nul")
    IN  IF z = 0 THEN chunk ELSE SubSeq(chunk, 1, z - 1)

CloseForgetsBuffer(fd) ==             \* mutant: message_buffer_ is not cleared
    /\ owner' = [owner EXCEPT ![fd] = None]
    /\ user' = [user EXCEPT ![fd] = None]
    /\ UNCHANGED message_buffer

CloseKeepsUser(fd) ==                 \* mutant: Everyone::DeleteUser is not called
    /\ owner' = [owner EXCEPT ![fd] = None]
    /\ message_buffer' = [message_buffer EXCEPT ![fd] = <<>>]
    /\ UNCHANGED user

CloseOnlyIdle(fd) ==                  \* mutant: not while a line is unfinished
    /\ owner' = [owner EXCEPT ![fd] = IF message_buffer[fd] = <<>> THEN None ELSE @]
    /\ user' = [user EXCEPT ![fd] = IF message_buffer[fd] = <<>> THEN None ELSE @]
    /\ UNCHANGED message_buffer

CloseClient(fd) ==
    /\ owner' = [owner EXCEPT ![fd] = None]
    /\ user' = [user EXCEPT ![fd] = None]
    /\ message_buffer' = [message_buffer EXCEPT ![fd] = <<>>]

\* handleClientMessage: an empty message is taken for the end of the
\* connection, any other is appended to the buffer.
Received(fd, m) ==
    IF m = <<>> THEN CloseClient(fd)
    ELSE /\ message_buffer' = [message_buffer EXCEPT ![fd] = @ \o m]
         /\ UNCHANGED <<owner, user>>

\* One round of receiveMessage: it comes back for more until recv has nothing
\* to give or a newline is there.
Receive ==
    \E k \in DOMAIN poll_fds :
        /\ NextEvent(k) \/ (pc = "recv" /\ k = i)
        /\ poll_fds[k].fd # ServerFd
        /\ i' = k
        /\ LET fd    == poll_fds[k].fd
               c     == owner[fd]
               chunk == Chunk(inbox[c])
               m     == message \o CString(chunk)
               ends  == chunk = <<>> \/ Newline(m) # 0
           IN  /\ inbox' = [inbox EXCEPT ![c] = SubSeq(@, Len(chunk) + 1, Len(@))]
               /\ message' = IF ends THEN <<>> ELSE m
               /\ pc' = IF ends THEN "lines" ELSE "recv"
               /\ IF ends THEN Received(fd, m) ELSE UNCHANGED <<message_buffer, owner, user>>
    /\ UNCHANGED <<poll_fds, indices_to_remove, backlog, peer, sent, executed>>

-----------------------------------------------------------------------------
(* The loop over the lines in the buffer *)

\* One trailing carriage return is taken off.
KeepCR(line) == line                  \* mutant: it is not

StripCR(line) ==
    IF line # <<>> /\ Last(line) = "cr" THEN Front(line) ELSE line

\* MessageTranslator::Execute, as far as IsCreated goes.
AfterLine(u, c, line) ==
    IF line = <<>> THEN u
    ELSE IF line = <<"skip">> THEN [by |-> IF u = None THEN c ELSE u.by, registered |-> TRUE]
    ELSE IF line = <<"quit">> /\ u # None THEN IF u.registered THEN None ELSE u
    ELSE IF u = None THEN [by |-> c, registered |-> FALSE]
    ELSE u

ExecuteOneLine ==                     \* mutant: if instead of while
    LET fd == poll_fds[i].fd
        n  == Newline(message_buffer[fd])
    IN  /\ pc = "lines"
        /\ n # 0
        /\ message_buffer' = [message_buffer EXCEPT ![fd] = SubSeq(@, n + 1, Len(@))]
        /\ user' = [user EXCEPT ![fd] = AfterLine(@, owner[fd], SubSeq(message_buffer[fd], 1, n - 1))]
        /\ executed' = [executed EXCEPT ![owner[fd]] =
                            Append(@, SubSeq(message_buffer[fd], 1, n - 1))]
        /\ pc' = "scan" /\ i' = i + 1
        /\ UNCHANGED <<poll_fds, message, indices_to_remove, owner, backlog, inbox, peer, sent>>

ExecuteLine ==
    /\ pc = "lines"
    /\ LET fd   == poll_fds[i].fd
           c    == owner[fd]
           n    == Newline(message_buffer[fd])
           line == StripCR(SubSeq(message_buffer[fd], 1, n - 1))
       IN  /\ n # 0
           /\ message_buffer' = [message_buffer EXCEPT ![fd] = SubSeq(@, n + 1, Len(@))]
           /\ user' = [user EXCEPT ![fd] = AfterLine(@, c, line)]
           /\ executed' = [executed EXCEPT ![c] = Append(@, line)]
    /\ UNCHANGED <<poll_fds, message, indices_to_remove, pc, i, owner, backlog, inbox, peer, sent>>

\* No newline left: a connection with no user and nothing pending is listed
\* for removal, and the scan goes on.
ToRemoveAnyEmpty(fd) ==               \* mutant: only the buffer is looked at
    message_buffer[fd] = <<>>

ToRemove(fd) ==
    message_buffer[fd] = <<>> /\ user[fd] = None

EndOfLines ==
    /\ pc = "lines"
    /\ Newline(message_buffer[poll_fds[i].fd]) = 0
    /\ indices_to_remove' = IF ToRemove(poll_fds[i].fd) THEN Append(indices_to_remove, i)
                            ELSE indices_to_remove
    /\ i' = i + 1
    /\ pc' = "scan"
    /\ UNCHANGED <<poll_fds, message_buffer, message, user, owner, backlog, inbox, peer, sent, executed>>

-----------------------------------------------------------------------------
(* The sweep, from the last index to the first, once the scan is over *)

SweepFromFirst == 1                   \* mutant: from the first to the last
SweepFrom == Len(indices_to_remove)

\* close() of a descriptor closeClient has closed already changes nothing.
Sweep ==
    /\ ScanDone
    /\ indices_to_remove # <<>>
    /\ LET k == indices_to_remove[SweepFrom]
       IN  /\ owner' = [owner EXCEPT ![poll_fds[k].fd] = None]
           /\ poll_fds' = RemoveAt(poll_fds, k)
    /\ indices_to_remove' = RemoveAt(indices_to_remove, SweepFrom)
    /\ UNCHANGED <<message_buffer, message, user, pc, i, backlog, inbox, peer, sent, executed>>

-----------------------------------------------------------------------------
ServerStep ==
    \/ Poll
    \/ HandleNewConnection
    \/ Receive
    \/ ExecuteLine
    \/ EndOfLines
    \/ Sweep

Next ==
    \/ ServerStep
    \/ \E c \in Clients : Connect(c) \/ SendByte(c) \/ HangUp(c)

\* The one thread runs its loop forever; clients do what they like.
Spec == Init /\ [][Next]_vars /\ WF_vars(ServerStep)

-----------------------------------------------------------------------------
(* Properties *)

TypeOK ==
    /\ poll_fds \in Seq([fd : Fds \cup {ServerFd}, in : BOOLEAN])
    /\ message_buffer \in [Fds -> Seq(Bytes)]
    /\ message \in Seq(Bytes)
    /\ indices_to_remove \in Seq(1 .. Len(poll_fds))
    /\ user \in [Fds -> {None} \cup [by : Clients, registered : BOOLEAN]]
    /\ pc \in {"scan", "recv", "lines"}
    /\ i \in Nat
    /\ owner \in [Fds -> Clients \cup {None}]
    /\ backlog \subseteq Clients
    /\ inbox \in [Clients -> Seq(Bytes)]
    /\ peer \in [Clients -> {"new", "up", "gone"}]
    /\ \A c \in Clients : sent[c] \in 0 .. Len(Script[c])

\* The reference: the lines of a whole stream, and what follows the last one.
Newlines(s) == {k \in DOMAIN s : s[k] = "nl"}
NthNewline(s, n) ==
    CHOOSE k \in Newlines(s) : Cardinality({j \in Newlines(s) : j <= k}) = n
LineStart(s, n) == IF n = 1 THEN 1 ELSE NthNewline(s, n - 1) + 1
WithoutCR(s) == IF \E k \in DOMAIN s : k = Len(s) /\ s[k] = "cr" THEN SubSeq(s, 1, Len(s) - 1) ELSE s
LinesOf(s) ==
    [n \in 1 .. Cardinality(Newlines(s)) |->
        WithoutCR(SubSeq(s, LineStart(s, n), NthNewline(s, n) - 1))]
RestOf(s) == SubSeq(s, LineStart(s, Cardinality(Newlines(s)) + 1), Len(s))

Arrived(c) == SubSeq(Script[c], 1, sent[c])
Taken(c)   == SubSeq(Script[c], 1, sent[c] - Len(inbox[c]))
InLoop(fd)  == pc \in {"recv", "lines"} /\ poll_fds[i].fd = fd
SendsZero(c) == \E k \in DOMAIN Arrived(c) : Arrived(c)[k] = "nul"

\* However the bytes were cut into packets and chunks, and whoever had the
\* descriptor before: a client's executed lines are exactly the lines of what
\* was read from it, and its buffer is the unfinished one.  Only a client that
\* sends a zero byte garbles its own lines.
LinesFaithful ==
    \A fd \in Fds : owner[fd] # None /\ ~InLoop(fd) /\ ~SendsZero(owner[fd]) =>
        /\ executed[owner[fd]] = LinesOf(Taken(owner[fd]))
        /\ message_buffer[fd] = RestOf(Taken(owner[fd]))

\* A descriptor accept can return carries nothing of its last connection.
FreeFdIsClean ==
    \A fd \in Fds : owner[fd] = None => message_buffer[fd] = <<>> /\ user[fd] = None

\* The user behind a descriptor was made by the connection that has it now:
\* nobody acts with the registration of a predecessor.
UserIsConnections ==
    \A fd \in Fds : user[fd] # None => user[fd].by = owner[fd]

\* No descriptor is polled twice, and when the thread sleeps in poll it
\* watches exactly the listening socket and the open connections: none is
\* forgotten, none is closed (poll would return at once, for ever).
PollListExact ==
    /\ \A j, k \in DOMAIN poll_fds : poll_fds[j].fd = poll_fds[k].fd => j = k
    /\ Idle => {poll_fds[k].fd : k \in DOMAIN poll_fds}
                          = {ServerFd} \cup {fd \in Fds : owner[fd] # None}

\* The server closes the connection of a client that is still there only
\* after that client's QUIT or empty line, or when a zero byte of its own hid
\* a whole message: never a connection that took over a descriptor between
\* the first close and the second, nor a neighbour in poll_fds.
DroppedOnlyAfterQuit ==
    [][\A fd \in Fds :
          LET c == owner[fd]
          IN  c # None /\ owner'[fd] # c /\ peer[c] = "up" =>
                \/ executed[c] # <<>> /\ Last(executed[c]) \in {<<"quit">>, <<>>}
                \/ SendsZero(c)]_vars

\* A complete line of an accepted client is executed in the end, however busy
\* the others are, unless its connection is closed or it sends a zero byte:
\* no client waits for ever.
Accepted(c) == \E fd \in Fds : owner[fd] = c
Waiting(c)  == Accepted(c) /\ ~SendsZero(c)
                 /\ Len(executed[c]) < Cardinality(Newlines(Arrived(c)))

LinesGetExecuted == \A c \in Clients : []<>~Waiting(c)

\* The connection of a client that is gone is closed in the end, and its user
\* deleted, whatever it left unread or unfinished: it does not stay for ever.
GoneGetClosed == \A c \in Clients : []<>~(Accepted(c) /\ peer[c] = "gone")

=============================================================================
