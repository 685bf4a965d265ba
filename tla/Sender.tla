------------------------------- MODULE Sender -------------------------------
(***************************************************************************)
(* Sending (src/class/Sender.cpp): the single thread hands each message to *)
(* a non-blocking socket, piece by piece until the socket refuses, while   *)
(* the clients read when they like or go away.                             *)
(***************************************************************************)
EXTENDS Naturals, Sequences

CONSTANTS
    Clients,
    None,           \* no call of sendResponse is under way
    Room,           \* bytes a socket holds for a client that does not read
    Lengths,        \* of responses: "\r\n" is always there
    MaxMessages     \* bound: messages sent in a behaviour

\* What sendResponse keeps on its stack.
Call == [to : Clients, msg : 1 .. MaxMessages, len : Lengths, bytes_sent : Nat, free : Nat]

ASSUME SenderConstants ==
    /\ Room \in Nat \ {0}
    /\ Lengths \subseteq Nat \ {0}
    /\ MaxMessages \in Nat
    /\ None \notin Call

VARIABLES
    call,       \* sendResponse: response, its receiver, bytes_sent
    handed,     \* the number of messages so far: the last one's name
    stream,     \* per client, the bytes its socket took
    read,       \* how many of them the client has read
    peer,       \* "up" or "gone"
    alive       \* the process runs

vars == <<call, handed, stream, read, peer, alive>>

Init ==
    /\ call = None
    /\ handed = 0
    /\ stream = [c \in Clients |-> <<>>]
    /\ read = [c \in Clients |-> 0]
    /\ peer = [c \in Clients |-> "up"]
    /\ alive = TRUE

Free(c) == Room - (Len(stream[c]) - read[c])

-----------------------------------------------------------------------------
(* The clients *)

Read(c) ==
    /\ peer[c] = "up"
    /\ \E n \in (read[c] + 1) .. Len(stream[c]) : read' = [read EXCEPT ![c] = n]
    /\ UNCHANGED <<call, handed, stream, peer, alive>>

HangUp(c) ==
    /\ peer[c] = "up"
    /\ peer' = [peer EXCEPT ![c] = "gone"]
    /\ UNCHANGED <<call, handed, stream, read, alive>>

-----------------------------------------------------------------------------
(* The server *)

\* free is history: the room in the socket when the call began.
SendMessage(c) ==
    /\ alive /\ call = None
    /\ handed < MaxMessages
    /\ handed' = handed + 1
    /\ \E len \in Lengths :
          call' = [to |-> c, msg |-> handed + 1, len |-> len, bytes_sent |-> 0, free |-> Free(c)]
    /\ UNCHANGED <<stream, read, peer, alive>>

RemainingWhole == call.len                \* mutant: total_len, not total_len - bytes_sent
Remaining == call.len - call.bytes_sent

PieceFromStart(n) ==                      \* mutant: c_str() without + bytes_sent
    [k \in 1 .. n |-> [msg |-> call.msg, pos |-> k, of |-> call.len]]
Piece(n) ==
    [k \in 1 .. n |-> [msg |-> call.msg, pos |-> call.bytes_sent + k, of |-> call.len]]

AfterOneSend(n) == None                   \* mutant: no loop
AfterSend(n) ==
    IF n >= Remaining THEN None ELSE [call EXCEPT !.bytes_sent = @ + n]

\* send takes some of the bytes, at most what there is room for.
SendPiece ==
    /\ alive /\ call # None
    /\ peer[call.to] = "up"
    /\ \E n \in 1 .. Remaining :
          /\ n <= Free(call.to)
          /\ stream' = [stream EXCEPT ![call.to] = @ \o Piece(n)]
          /\ call' = AfterSend(n)
    /\ UNCHANGED <<handed, read, peer, alive>>

GiveUpNever == UNCHANGED call             \* mutant: EAGAIN is tried again
GiveUp == call' = None

\* The socket is full, or the connection was reset: -1, the rest is dropped.
SendRefused ==
    /\ alive /\ call # None
    /\ Free(call.to) = 0 \/ peer[call.to] = "gone"
    /\ GiveUp
    /\ UNCHANGED <<handed, stream, read, peer, alive>>

\* A client that is gone gets nothing: the kernel takes bytes it will throw
\* away, or raises SIGPIPE, which nothing in the program handles.
SendInVain ==
    /\ alive /\ call # None
    /\ peer[call.to] = "gone"
    /\ \/ UNCHANGED alive /\ \E n \in 1 .. Remaining : call' = AfterSend(n)
       \/ alive' = FALSE /\ UNCHANGED call
    /\ UNCHANGED <<handed, stream, read, peer>>

Send == SendPiece \/ SendRefused \/ SendInVain

Next ==
    \/ Send
    \/ \E c \in Clients : SendMessage(c) \/ Read(c) \/ HangUp(c)

\* The thread makes its next system call; clients read when they like.
Spec == Init /\ [][Next]_vars /\ WF_vars(Send)

-----------------------------------------------------------------------------
(* Properties *)

Byte == [msg : 1 .. MaxMessages, pos : Nat \ {0}, of : Lengths]

TypeOK ==
    /\ call \in Call \cup {None}
    /\ handed \in 0 .. MaxMessages
    /\ stream \in [Clients -> Seq(Byte)]
    /\ read \in [Clients -> Nat]
    /\ peer \in [Clients -> {"up", "gone"}]
    /\ alive \in BOOLEAN
    /\ \A c \in Clients : \A k \in DOMAIN stream[c] : stream[c][k].pos <= stream[c][k].of
    /\ \A c \in Clients : read[c] <= Len(stream[c]) /\ Len(stream[c]) - read[c] <= Room

\* However a message was cut into pieces and whichever sends were refused,
\* every client sees the messages in the order they were sent to it, the
\* bytes of each in order and none twice.
Clean == INSTANCE Delivery WITH Receivers <- Clients, Names <- 1 .. MaxMessages,
                                MessageLengths <- Lengths
StreamContract == Clean!Contract

\* A message is cut only when the socket is full: if all of it fitted when
\* the call began and the client is still there, its last byte is in the
\* socket when the call ends, in however many pieces.
FitsThenWhole ==
    [][call # None /\ call' = None /\ peer[call.to] = "up" /\ call.len <= call.free =>
          LET s == stream'[call.to]
          IN  s # <<>> /\ s[Len(s)].msg = call.msg /\ s[Len(s)].pos = call.len]_vars

\* A client that does not read keeps nobody waiting: every call returns,
\* unless SIGPIPE ends the process.
SendReturns == call # None ~> call = None \/ ~alive

=============================================================================
