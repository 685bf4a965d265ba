------------------------- MODULE SocketServerProofs -------------------------
(***************************************************************************)
(* The bookkeeping of the event loop, for any number of clients and        *)
(* descriptors, whatever the clients send and in whatever pieces.          *)
(*                                                                         *)
(* Poll list, open descriptors, buffers and users are changed by different *)
(* steps of one pass.  What ties them together: an entry of the poll list  *)
(* whose descriptor is closed is listed for removal, or just being served; *)
(* what is listed lies behind the scan, in ascending order, and is clean.  *)
(*                                                                         *)
(* The second half follows the bytes: what a client sent and the server    *)
(* has read is, up to the last newline cut off, the lines executed for it, *)
(* and behind that its buffer and the message being received.              *)
(***************************************************************************)
EXTENDS SocketServer, SequenceTheorems, FiniteSetTheorems, WellFoundedInduction, TLAPS

PollFd == [fd : Fds \cup {ServerFd}, in : BOOLEAN]

Listed(k) == \E j \in 1 .. Len(indices_to_remove) : indices_to_remove[j] = k

\* The list starts with the listening socket and has no descriptor twice.
ListInv ==
    /\ Len(poll_fds) >= 1 /\ poll_fds[1].fd = ServerFd
    /\ \A k \in 2 .. Len(poll_fds) : poll_fds[k].fd \in Fds
    /\ \A j, k \in 1 .. Len(poll_fds) : poll_fds[j].fd = poll_fds[k].fd => j = k
    /\ \A j \in 1 .. Len(indices_to_remove) :
          indices_to_remove[j] \in 2 .. Len(poll_fds) /\ indices_to_remove[j] < i
    /\ \A j, k \in 1 .. Len(indices_to_remove) : j < k => indices_to_remove[j] < indices_to_remove[k]
    /\ pc # "scan" => i \in 2 .. Len(poll_fds)

\* Which entries are open, and which clean.
OpenInv ==
    /\ \A fd \in Fds : owner[fd] # None => \E k \in 2 .. Len(poll_fds) : poll_fds[k].fd = fd
    /\ \A k \in 2 .. Len(poll_fds) :
          /\ owner[poll_fds[k].fd] = None => Listed(k) \/ (pc = "lines" /\ k = i)
          /\ Listed(k) => message_buffer[poll_fds[k].fd] = <<>> /\ user[poll_fds[k].fd] = None
    /\ FreeFdIsClean
    /\ UserIsConnections

\* A connection is in one place.
ClientInv ==
    /\ sent \in [Clients -> Nat]
    /\ executed \in [Clients -> Seq(Seq(Bytes))]
    /\ \A c \in Clients : Len(inbox[c]) <= sent[c]
    /\ \A f, g \in Fds : owner[f] # None /\ owner[f] = owner[g] => f = g
    /\ \A f \in Fds : owner[f] \notin backlog
    /\ \A c \in Clients : peer[c] = "new" =>
          inbox[c] = <<>> /\ c \notin backlog /\ \A f \in Fds : owner[f] # c

Quitted(c) == executed[c] # <<>> /\ Last(executed[c]) \in {<<"quit">>, <<>>}

\* Why a client that is still there may be taken for gone: what poll reported
\* of it is still unread, or it hid it behind a zero byte, or it had to go.
Justified(k) ==
    LET fd == poll_fds[k].fd
        c  == owner[fd]
    IN  c # None =>
        /\ (k > i \/ (k = i /\ pc = "scan")) /\ poll_fds[k].in /\ peer[c] = "up" => inbox[c] # <<>>
        /\ pc = "recv" /\ k = i /\ message = <<>> /\ peer[c] = "up" => SendsZero(c)
        /\ Listed(k) => Quitted(c)
        /\ pc = "lines" /\ k = i /\ message_buffer[fd] = <<>> /\ user[fd] = None => Quitted(c)

ZeroAhead(c) == \E k \in 1 .. Len(inbox[c]) : inbox[c][k] = "nul"

DropInv ==
    /\ \A c \in Clients : peer[c] = "up" /\ ZeroAhead(c) => SendsZero(c)
    /\ \A k \in 2 .. Len(poll_fds) : Justified(k)

LoopInv == TypeOK /\ ListInv /\ OpenInv /\ ClientInv /\ DropInv

\* The connection of a client that is there is closed for a reason.
DropLaw ==
    \A fd \in Fds :
        LET c == owner[fd]
        IN  c # None /\ owner'[fd] # c /\ peer[c] = "up" => Quitted(c) \/ SendsZero(c)

-----------------------------------------------------------------------------
(* Sequences *)

Less == {ss \in Nat \X Nat : ss[1] < ss[2]}

LEMMA MinExists ==
    ASSUME NEW I \in SUBSET Nat, I # {}
    PROVE  Min(I) \in I /\ \A j \in I : Min(I) <= j
<1>1. IsWellFoundedOn(Less, Nat)
  BY NatLessThanWellFounded, SMT DEF OpToRel, Less
<1>2. PICK x \in I : \A y \in I : ~(<<y, x>> \in Less)
  BY <1>1, WFMin
<1>3. \A y \in I : x <= y
  <2> TAKE y \in I
  <2>1. x \in Nat /\ y \in Nat
    OBVIOUS
  <2>2. <<y, x>> \in Nat \X Nat /\ <<y, x>>[1] = y /\ <<y, x>>[2] = x
    BY <2>1
  <2>3. ~(y < x)
    BY <1>2, <2>2 DEF Less
  <2> QED BY <2>1, <2>3
<1>4. Min(I) = CHOOSE z \in I : \A y \in I : z <= y
  BY DEF Min
<1> QED BY <1>3, <1>4

LEMMA NewlineIs ==
    ASSUME NEW s \in Seq(Bytes)
    PROVE  /\ Newline(s) \in 0 .. Len(s)
           /\ Newline(s) # 0 => s[Newline(s)] = "nl"
           /\ s = <<>> => Newline(s) = 0
<1> DEFINE I == {k \in 1 .. Len(s) : s[k] = "nl"}
<1>1. Newline(s) = IF I # {} THEN Min(I) ELSE 0
  BY DEF Newline, SelectInSeq
<1>2. Len(s) \in Nat /\ I \in SUBSET Nat
  BY LenProperties
<1>3. I # {} => Min(I) \in I
  BY <1>2, MinExists
<1>4. s = <<>> => I = {}
  BY EmptySeq
<1>5. \A k \in I : k \in 1 .. Len(s) /\ s[k] = "nl"
  OBVIOUS
<1> HIDE DEF I
<1>6. CASE I = {}
  BY <1>1, <1>2, <1>6
<1>7. CASE I # {}
  <2>1. Newline(s) \in I
    BY <1>1, <1>3, <1>7
  <2>2. Newline(s) \in 1 .. Len(s) /\ s[Newline(s)] = "nl"
    BY <1>5, <2>1
  <2>3. s # <<>>
    BY <1>4, <1>7
  <2> QED BY <1>2, <2>2, <2>3
<1> QED BY <1>6, <1>7

\* CString cuts at a zero byte or not at all.
LEMMA CStringIs ==
    ASSUME NEW s \in Seq(Bytes)
    PROVE  /\ CString(s) \in Seq(Bytes)
           /\ CString(s) = <<>> /\ s # <<>> => \E k \in 1 .. Len(s) : s[k] = "nul"
           /\ s = <<>> => CString(s) = <<>>
<1> DEFINE I == {k \in 1 .. Len(s) : s[k] = "nul"}
           z == IF I # {} THEN Min(I) ELSE 0
<1>1. CString(s) = IF z = 0 THEN s ELSE SubSeq(s, 1, z - 1)
  BY DEF CString, SelectInSeq
<1>2. Len(s) \in Nat /\ I \in SUBSET Nat
  BY LenProperties
<1>3. I # {} => Min(I) \in I
  BY <1>2, MinExists
<1>4. s = <<>> => I = {}
  BY EmptySeq
<1>5. \A k \in I : k \in 1 .. Len(s) /\ s[k] = "nul"
  OBVIOUS
<1> HIDE DEF I
<1>6. CASE I = {}
  BY <1>1, <1>6
<1>7. CASE I # {}
  <2>1. z \in 1 .. Len(s) /\ s[z] = "nul"
    BY <1>3, <1>5, <1>7
  <2>2. SubSeq(s, 1, z - 1) \in Seq(Bytes)
    BY <1>2, <2>1, ElementOfSeq, SubSeqProperties
  <2> QED BY <1>1, <1>2, <1>4, <1>7, <2>1, <2>2
<1> QED BY <1>6, <1>7

\* What is left after the first n, and the first n.
LEMMA Cut ==
    ASSUME NEW S, NEW s \in Seq(S), NEW n \in 0 .. Len(s)
    PROVE  /\ SubSeq(s, n + 1, Len(s)) \in Seq(S)
           /\ Len(SubSeq(s, n + 1, Len(s))) = Len(s) - n
           /\ \A k \in 1 .. Len(s) - n : SubSeq(s, n + 1, Len(s))[k] = s[n + k]
           /\ SubSeq(s, 1, n) \in Seq(S)
           /\ Len(SubSeq(s, 1, n)) = n
           /\ \A k \in 1 .. n : SubSeq(s, 1, n)[k] = s[k]
<1>1. Len(s) \in Nat /\ n \in Nat /\ n <= Len(s)
  BY LenProperties
<1>2. (\A k \in (n + 1) .. Len(s) : s[k] \in S) /\ (\A k \in 1 .. n : s[k] \in S)
  BY <1>1, ElementOfSeq
<1>3. /\ SubSeq(s, n + 1, Len(s)) \in Seq(S)
      /\ Len(SubSeq(s, n + 1, Len(s))) = IF n + 1 <= Len(s) THEN Len(s) - (n + 1) + 1 ELSE 0
      /\ \A k \in 1 .. Len(s) - (n + 1) + 1 : SubSeq(s, n + 1, Len(s))[k] = s[n + 1 + k - 1]
  BY <1>1, <1>2, SubSeqProperties
<1>4. /\ SubSeq(s, 1, n) \in Seq(S)
      /\ Len(SubSeq(s, 1, n)) = IF 1 <= n THEN n - 1 + 1 ELSE 0
      /\ \A k \in 1 .. n - 1 + 1 : SubSeq(s, 1, n)[k] = s[1 + k - 1]
  BY <1>1, <1>2, SubSeqProperties
<1>5. \A k \in 1 .. Len(s) - n : SubSeq(s, n + 1, Len(s))[k] = s[n + k]
  BY <1>1, <1>3
<1>6. \A k \in 1 .. n : SubSeq(s, 1, n)[k] = s[k]
  BY <1>1, <1>4
<1> QED BY <1>1, <1>3, <1>4, <1>5, <1>6

\* vector::erase.
LEMMA Removed ==
    ASSUME NEW S, NEW s \in Seq(S), NEW n \in 1 .. Len(s)
    PROVE  /\ RemoveAt(s, n) \in Seq(S)
           /\ Len(RemoveAt(s, n)) = Len(s) - 1
           /\ \A k \in 1 .. Len(s) - 1 : RemoveAt(s, n)[k] = IF k < n THEN s[k] ELSE s[k + 1]
<1>1. Len(s) \in Nat /\ n \in Nat /\ n - 1 \in 0 .. Len(s) /\ n \in 0 .. Len(s) /\ n <= Len(s)
  BY LenProperties
<1> DEFINE a == SubSeq(s, 1, n - 1)
           b == SubSeq(s, n + 1, Len(s))
<1>2. a \in Seq(S) /\ Len(a) = n - 1 /\ \A k \in 1 .. n - 1 : a[k] = s[k]
  BY <1>1, Cut
<1>3. b \in Seq(S) /\ Len(b) = Len(s) - n /\ \A k \in 1 .. Len(s) - n : b[k] = s[n + k]
  BY <1>1, Cut
<1>4. RemoveAt(s, n) = a \o b
  BY DEF RemoveAt
<1> HIDE DEF a, b
<1>5. /\ a \o b \in Seq(S) /\ Len(a \o b) = Len(a) + Len(b)
      /\ \A k \in 1 .. Len(a) + Len(b) : (a \o b)[k] = IF k <= Len(a) THEN a[k] ELSE b[k - Len(a)]
  BY <1>2, <1>3, ConcatProperties
<1>6. ASSUME NEW k \in 1 .. Len(s) - 1
      PROVE  (a \o b)[k] = IF k < n THEN s[k] ELSE s[k + 1]
  <2>0. Len(a) + Len(b) = Len(s) - 1
    BY <1>1, <1>2, <1>3
  <2>1. (a \o b)[k] = IF k <= n - 1 THEN a[k] ELSE b[k - (n - 1)]
    BY <1>2, <1>5, <2>0
  <2>2. CASE k < n
    BY <1>1, <1>2, <2>1, <2>2
  <2>3. CASE ~(k < n)
    <3>1. k - (n - 1) \in 1 .. Len(s) - n /\ n + (k - (n - 1)) = k + 1
      BY <1>1, <2>3
    <3>2. (a \o b)[k] = b[k - (n - 1)]
      BY <1>1, <2>1, <2>3
    <3>3. b[k - (n - 1)] = s[k + 1]
      BY <1>3, <3>1
    <3> QED BY <2>3, <3>2, <3>3
  <2> QED BY <2>2, <2>3
<1> QED BY <1>1, <1>2, <1>3, <1>4, <1>5, <1>6

-----------------------------------------------------------------------------
(* What the types say *)

LEMMA Types ==
    ASSUME TypeOK
    PROVE  /\ Len(poll_fds) \in Nat /\ DOMAIN poll_fds = 1 .. Len(poll_fds)
           /\ \A k \in 1 .. Len(poll_fds) : poll_fds[k] \in PollFd
           /\ poll_fds \in Seq(PollFd)
           /\ Len(indices_to_remove) \in Nat /\ DOMAIN indices_to_remove = 1 .. Len(indices_to_remove)
           /\ i \in Nat
<1>1. poll_fds \in Seq(PollFd) /\ indices_to_remove \in Seq(1 .. Len(poll_fds)) /\ i \in Nat
  BY DEF TypeOK, PollFd
<1> QED BY <1>1, LenProperties, ElementOfSeq

LEMMA LoopInit == Init => LoopInv
<1> SUFFICES ASSUME Init PROVE LoopInv
  OBVIOUS
<1> DEFINE p == [fd |-> ServerFd, in |-> FALSE]
<1>1. p \in PollFd /\ poll_fds = <<p>> /\ Len(poll_fds) = 1 /\ poll_fds[1] = p
  BY DEF Init, PollFd
<1>2. poll_fds \in Seq(PollFd)
  BY <1>1
<1>3. \A c \in Clients : Len(Script[c]) \in Nat
  BY ScriptType, LenProperties
<1>4. /\ indices_to_remove = <<>> /\ Len(indices_to_remove) = 0
      /\ \A c \in Clients : inbox[c] = <<>> /\ Len(inbox[c]) = 0
  BY DEF Init
<1>5. TypeOK
  BY <1>2, <1>3, <1>4 DEF Init, TypeOK, PollFd
<1>6. ListInv
  BY <1>1, <1>4 DEF Init, ListInv
<1>7. OpenInv
  BY <1>1, <1>4, SocketServerConstants DEF Init, OpenInv, FreeFdIsClean, UserIsConnections
<1>8. ClientInv
  BY <1>4, SocketServerConstants DEF Init, ClientInv
<1>9. DropInv
  BY <1>1, <1>4 DEF Init, DropInv, Justified, ZeroAhead
<1> QED BY <1>5, <1>6, <1>7, <1>8, <1>9 DEF LoopInv

-----------------------------------------------------------------------------
(* The clients *)

LEMMA ConnectStep ==
    ASSUME LoopInv, NEW c \in Clients, Connect(c)
    PROVE  LoopInv' /\ DropLaw
<1>1. /\ UNCHANGED <<poll_fds, message_buffer, message, indices_to_remove, user, pc, i>>
      /\ UNCHANGED <<owner, inbox, sent, executed>>
  BY DEF Connect, serverVars
<1>2. peer[c] = "new" /\ peer' = [peer EXCEPT ![c] = "up"] /\ backlog' = backlog \cup {c}
  BY DEF Connect
<1>3. \A d \in Clients : peer'[d] = IF d = c THEN "up" ELSE peer[d]
  BY <1>2 DEF LoopInv, TypeOK
<1>4. inbox[c] = <<>> /\ \A f \in Fds : owner[f] # c
  BY <1>2 DEF LoopInv, ClientInv
<1>5. TypeOK'
  BY <1>1, <1>2 DEF LoopInv, TypeOK
<1>6. ListInv'
  BY <1>1 DEF LoopInv, ListInv
<1>7. OpenInv'
  BY <1>1 DEF LoopInv, OpenInv, FreeFdIsClean, UserIsConnections, Listed
<1>8. ClientInv'
  BY <1>1, <1>2, <1>3, <1>4 DEF LoopInv, ClientInv
<1>9. DropInv'
  <2>1. \A d \in Clients : SendsZero(d)' = SendsZero(d) /\ Quitted(d)' = Quitted(d)
    BY <1>1 DEF SendsZero, Arrived, Quitted
  <2>2. \A k \in 2 .. Len(poll_fds) : /\ poll_fds[k].fd \in Fds
                                      /\ owner[poll_fds[k].fd] \in Clients \cup {None}
                                      /\ owner[poll_fds[k].fd] # c
    BY <1>4 DEF LoopInv, ListInv, TypeOK
  <2>3. ~ZeroAhead(c) /\ \A d \in Clients : ZeroAhead(d)' = ZeroAhead(d)
    BY <1>1, <1>4 DEF ZeroAhead
  <2>4. \A k \in 2 .. Len(poll_fds) : Justified(k)'
    BY <1>1, <1>3, <2>1, <2>2 DEF LoopInv, DropInv, Justified, Listed
  <2> QED BY <1>1, <1>3, <2>1, <2>3, <2>4 DEF LoopInv, DropInv
<1>10. DropLaw
  BY <1>1 DEF DropLaw
<1> QED BY <1>5, <1>6, <1>7, <1>8, <1>9, <1>10 DEF LoopInv

\* One byte more has arrived.
LEMMA ZeroGrows ==
    ASSUME NEW c \in Clients, sent[c] \in Nat, sent[c] < Len(Script[c]),
           sent'[c] = sent[c] + 1
    PROVE  /\ Script[c][sent[c] + 1] \in Bytes
           /\ SendsZero(c) => SendsZero(c)'
           /\ Script[c][sent[c] + 1] = "nul" => SendsZero(c)'
<1> DEFINE s == Script[c]
           n == sent[c]
<1>1. s \in Seq(Bytes) /\ Len(s) \in Nat /\ n \in 0 .. Len(s) /\ n + 1 \in 0 .. Len(s) /\ n + 1 \in 1 .. Len(s)
  BY ScriptType, LenProperties
<1>2. /\ Len(SubSeq(s, 1, n)) = n /\ SubSeq(s, 1, n) \in Seq(Bytes)
      /\ \A k \in 1 .. n : SubSeq(s, 1, n)[k] = s[k]
  BY <1>1, Cut
<1>3. /\ Len(SubSeq(s, 1, n + 1)) = n + 1 /\ SubSeq(s, 1, n + 1) \in Seq(Bytes)
      /\ \A k \in 1 .. n + 1 : SubSeq(s, 1, n + 1)[k] = s[k]
  BY <1>1, Cut
<1>4. Arrived(c) = SubSeq(s, 1, n) /\ Arrived(c)' = SubSeq(s, 1, n + 1)
  BY DEF Arrived
<1>5. DOMAIN Arrived(c) = 1 .. n /\ DOMAIN Arrived(c)' = 1 .. n + 1
  BY <1>2, <1>3, <1>4, LenProperties
<1>6. SendsZero(c) <=> \E k \in 1 .. n : s[k] = "nul"
  BY <1>2, <1>4, <1>5 DEF SendsZero
<1>7. SendsZero(c)' <=> \E k \in 1 .. n + 1 : s[k] = "nul"
  BY <1>3, <1>4, <1>5 DEF SendsZero
<1>8. s[n + 1] \in Bytes
  BY <1>1, ElementOfSeq
<1> HIDE DEF s, n
<1>9. \A k \in 1 .. n : k \in 1 .. n + 1
  BY <1>1
<1>10. n + 1 \in 1 .. n + 1
  BY <1>1
<1> QED BY <1>6, <1>7, <1>8, <1>9, <1>10 DEF s, n

LEMMA SendByteStep ==
    ASSUME LoopInv, NEW c \in Clients, SendByte(c)
    PROVE  LoopInv' /\ DropLaw
<1> DEFINE b == Script[c][sent[c] + 1]
<1>1. /\ UNCHANGED <<poll_fds, message_buffer, message, indices_to_remove, user, pc, i>>
      /\ UNCHANGED <<owner, backlog, peer, executed>>
  BY DEF SendByte, serverVars
<1>2. /\ peer[c] = "up" /\ sent[c] < Len(Script[c])
      /\ sent' = [sent EXCEPT ![c] = sent[c] + 1]
      /\ inbox' = [inbox EXCEPT ![c] = Append(inbox[c], b)]
  BY DEF SendByte
<1>3. \A d \in Clients : /\ sent[d] \in Nat /\ inbox[d] \in Seq(Bytes) /\ Len(inbox[d]) \in Nat
                         /\ sent[d] <= Len(Script[d]) /\ Len(Script[d]) \in Nat
                         /\ Len(inbox[d]) <= sent[d]
  BY ScriptType, LenProperties DEF LoopInv, TypeOK, ClientInv
<1>4. \A d \in Clients : sent'[d] = IF d = c THEN sent[c] + 1 ELSE sent[d]
  BY <1>2 DEF LoopInv, ClientInv
<1>5. \A d \in Clients : inbox'[d] = IF d = c THEN Append(inbox[c], b) ELSE inbox[d]
  BY <1>2 DEF LoopInv, TypeOK
<1>6. /\ b \in Bytes
      /\ SendsZero(c) => SendsZero(c)'
      /\ b = "nul" => SendsZero(c)'
  BY <1>2, <1>3, <1>4, ZeroGrows
<1> HIDE DEF b
<1>7. /\ inbox'[c] \in Seq(Bytes) /\ inbox'[c] # <<>> /\ Len(inbox'[c]) = Len(inbox[c]) + 1
      /\ \A k \in 1 .. Len(inbox[c]) : inbox'[c][k] = inbox[c][k]
      /\ inbox'[c][Len(inbox[c]) + 1] = b
  <2>1. inbox'[c] = Append(inbox[c], b) /\ inbox[c] \in Seq(Bytes)
    BY <1>3, <1>5
  <2> QED BY <1>6, <2>1, AppendProperties
<1>8. TypeOK'
  <2>1. inbox' \in [Clients -> Seq(Bytes)]
    BY <1>2, <1>5, <1>7 DEF LoopInv, TypeOK
  <2>2. \A d \in Clients : sent'[d] \in 0 .. Len(Script[d])
    BY <1>2, <1>3, <1>4
  <2> QED BY <1>1, <2>1, <2>2 DEF LoopInv, TypeOK
<1>9. ListInv'
  BY <1>1 DEF LoopInv, ListInv
<1>10. OpenInv'
  BY <1>1 DEF LoopInv, OpenInv, FreeFdIsClean, UserIsConnections, Listed
<1>11. ClientInv'
  <2>1. sent' \in [Clients -> Nat]
    BY <1>2, <1>3 DEF LoopInv, ClientInv
  <2>2. \A d \in Clients : Len(inbox'[d]) <= sent'[d]
    BY <1>3, <1>4, <1>5, <1>7
  <2>3. \A d \in Clients : peer'[d] = "new" => inbox'[d] = <<>>
    BY <1>1, <1>2, <1>5 DEF LoopInv, ClientInv
  <2> QED BY <1>1, <2>1, <2>2, <2>3 DEF LoopInv, ClientInv
<1>12. DropInv'
  <2>1. \A d \in Clients : Quitted(d)' = Quitted(d) /\ (SendsZero(d) => SendsZero(d)')
    <3>1. \A d \in Clients : d # c => SendsZero(d)' = SendsZero(d)
      BY <1>4 DEF SendsZero, Arrived
    <3>2. \A d \in Clients : Quitted(d)' = Quitted(d)
      BY <1>1 DEF Quitted
    <3>3. \A d \in Clients : d = c => (SendsZero(d) => SendsZero(d)')
      BY <1>6
    <3> QED BY <3>1, <3>2, <3>3
  <2>2. \A d \in Clients : ZeroAhead(d)' => ZeroAhead(d) \/ (d = c /\ b = "nul")
    <3> TAKE d \in Clients
    <3>1. CASE d = c
      <4> SUFFICES ASSUME NEW k \in 1 .. Len(inbox'[c]), inbox'[c][k] = "nul"
                   PROVE  ZeroAhead(c) \/ b = "nul"
        BY <3>1 DEF ZeroAhead
      <4>1. k \in 1 .. Len(inbox[c]) \/ k = Len(inbox[c]) + 1
        BY <1>3, <1>7
      <4> QED BY <1>7, <4>1 DEF ZeroAhead
    <3>2. CASE d # c
      BY <1>5, <3>2 DEF ZeroAhead
    <3> QED BY <3>1, <3>2
  <2>3. \A k \in 2 .. Len(poll_fds) : owner[poll_fds[k].fd] \in Clients \cup {None}
    BY DEF LoopInv, ListInv, TypeOK
  <2>4. \A d \in Clients : inbox[d] # <<>> => inbox'[d] # <<>>
    BY <1>5, <1>7
  <2>5. \A k \in 2 .. Len(poll_fds) : Justified(k)'
    BY <1>1, <2>1, <2>3, <2>4 DEF LoopInv, DropInv, Justified, Listed
  <2> QED BY <1>1, <1>6, <2>1, <2>2, <2>5 DEF LoopInv, DropInv
<1>13. DropLaw
  BY <1>1 DEF DropLaw
<1> QED BY <1>8, <1>9, <1>10, <1>11, <1>12, <1>13 DEF LoopInv

LEMMA HangUpStep ==
    ASSUME LoopInv, NEW c \in Clients, HangUp(c)
    PROVE  LoopInv' /\ DropLaw
<1>1. /\ UNCHANGED <<poll_fds, message_buffer, message, indices_to_remove, user, pc, i>>
      /\ UNCHANGED <<owner, backlog, executed>>
      /\ peer[c] = "up" /\ peer' = [peer EXCEPT ![c] = "gone"]
  BY DEF HangUp, serverVars
<1>2. \/ UNCHANGED <<inbox, sent>>
      \/ /\ inbox' = [inbox EXCEPT ![c] = <<>>]
         /\ sent' = [sent EXCEPT ![c] = sent[c] - Len(inbox[c])]
  BY DEF HangUp
<1>3. \A d \in Clients : /\ sent[d] \in Nat /\ inbox[d] \in Seq(Bytes) /\ Len(inbox[d]) \in Nat
                         /\ sent[d] <= Len(Script[d]) /\ Len(Script[d]) \in Nat
                         /\ Len(inbox[d]) <= sent[d]
  BY ScriptType, LenProperties DEF LoopInv, TypeOK, ClientInv
<1>4. sent[c] - Len(inbox[c]) \in Nat /\ sent[c] - Len(inbox[c]) <= Len(Script[c])
  BY <1>3
<1>5. /\ inbox' \in [Clients -> Seq(Bytes)]
      /\ sent' \in [Clients -> Nat]
      /\ \A d \in Clients : d # c => inbox'[d] = inbox[d] /\ sent'[d] = sent[d]
      /\ \/ inbox'[c] = inbox[c] /\ sent'[c] = sent[c]
         \/ inbox'[c] = <<>> /\ sent'[c] = sent[c] - Len(inbox[c])
  <2>1. inbox \in [Clients -> Seq(Bytes)] /\ sent \in [Clients -> Nat]
    BY DEF LoopInv, TypeOK, ClientInv
  <2>2. <<>> \in Seq(Bytes)
    OBVIOUS
  <2>3. CASE UNCHANGED <<inbox, sent>>
    BY <2>1, <2>3
  <2>4. CASE /\ inbox' = [inbox EXCEPT ![c] = <<>>]
             /\ sent' = [sent EXCEPT ![c] = sent[c] - Len(inbox[c])]
    <3> DEFINE n == sent[c] - Len(inbox[c])
    <3>1. n \in Nat /\ sent' = [sent EXCEPT ![c] = n]
      BY <1>4, <2>4
    <3> HIDE DEF n
    <3>2. /\ sent' \in [Clients -> Nat] /\ sent'[c] = n
          /\ \A d \in Clients : d # c => sent'[d] = sent[d]
      BY <2>1, <3>1
    <3>3. /\ inbox' \in [Clients -> Seq(Bytes)] /\ inbox'[c] = <<>>
          /\ \A d \in Clients : d # c => inbox'[d] = inbox[d]
      BY <2>1, <2>2, <2>4
    <3> QED BY <3>2, <3>3 DEF n
  <2> QED BY <1>2, <2>3, <2>4
<1>6. \A d \in Clients : peer'[d] = IF d = c THEN "gone" ELSE peer[d]
  BY <1>1 DEF LoopInv, TypeOK
<1>7. TypeOK'
  <2>1. \A d \in Clients : sent'[d] \in 0 .. Len(Script[d])
    <3>1. sent'[c] \in 0 .. Len(Script[c])
      BY <1>3, <1>4, <1>5
    <3> QED BY <1>3, <1>5, <3>1
  <2> QED BY <1>1, <1>5, <2>1 DEF LoopInv, TypeOK
<1>8. ListInv'
  BY <1>1 DEF LoopInv, ListInv
<1>9. OpenInv'
  BY <1>1 DEF LoopInv, OpenInv, FreeFdIsClean, UserIsConnections, Listed
<1>10. ClientInv'
  <2>1. \A d \in Clients : Len(inbox'[d]) <= sent'[d]
    <3>1. Len(<<>>) = 0
      OBVIOUS
    <3> QED BY <1>3, <1>4, <1>5, <3>1
  <2>2. \A d \in Clients : peer'[d] = "new" => peer[d] = "new" /\ d # c
    BY <1>6
  <2> QED BY <1>1, <1>5, <2>1, <2>2 DEF LoopInv, ClientInv
<1>11. DropInv'
  <2>1. \A d \in Clients : d # c => /\ SendsZero(d)' = SendsZero(d) /\ ZeroAhead(d)' = ZeroAhead(d)
                                     /\ inbox'[d] = inbox[d] /\ peer'[d] = peer[d]
    BY <1>5, <1>6 DEF SendsZero, Arrived, ZeroAhead
  <2>2. \A d \in Clients : Quitted(d)' = Quitted(d)
    BY <1>1 DEF Quitted
  <2>3. \A k \in 2 .. Len(poll_fds) : owner[poll_fds[k].fd] \in Clients \cup {None}
    BY DEF LoopInv, ListInv, TypeOK
  <2>4. peer'[c] # "up"
    BY <1>6
  <2>5. \A k \in 2 .. Len(poll_fds) : Justified(k)'
    BY <1>1, <2>1, <2>2, <2>3, <2>4 DEF LoopInv, DropInv, Justified, Listed
  <2> QED BY <1>1, <2>1, <2>4, <2>5 DEF LoopInv, DropInv
<1>12. DropLaw
  BY <1>1 DEF DropLaw
<1> QED BY <1>7, <1>8, <1>9, <1>10, <1>11, <1>12 DEF LoopInv

-----------------------------------------------------------------------------
(* The server *)

LEMMA PollStep ==
    ASSUME LoopInv, Poll
    PROVE  LoopInv' /\ DropLaw
<1>1. /\ UNCHANGED <<message_buffer, message, indices_to_remove, user, pc>>
      /\ UNCHANGED <<owner, backlog, inbox, peer, sent, executed>>
      /\ pc = "scan" /\ indices_to_remove = <<>> /\ i' = 1
  BY DEF Poll, Idle, ScanDone
<1>2. /\ Len(poll_fds) \in Nat /\ DOMAIN poll_fds = 1 .. Len(poll_fds)
      /\ \A k \in 1 .. Len(poll_fds) : poll_fds[k] \in PollFd
  BY Types DEF LoopInv
<1>3. \A k \in 1 .. Len(poll_fds) : Readable(poll_fds[k].fd) \in BOOLEAN
  BY <1>2 DEF Readable
<1>4. poll_fds' = [k \in 1 .. Len(poll_fds) |-> [poll_fds[k] EXCEPT !.in = Readable(poll_fds[k].fd)]]
  BY <1>2 DEF Poll
<1>5. /\ poll_fds' \in [1 .. Len(poll_fds) -> PollFd]
      /\ \A k \in 1 .. Len(poll_fds) : /\ poll_fds'[k].fd = poll_fds[k].fd
                                        /\ poll_fds'[k].in = Readable(poll_fds[k].fd)
  BY <1>2, <1>3, <1>4 DEF PollFd
<1>6. poll_fds' \in Seq(PollFd) /\ Len(poll_fds') = Len(poll_fds)
  BY <1>2, <1>5, SeqDef, LenProperties
<1>7. Len(indices_to_remove) = 0
  BY <1>1
<1>8. TypeOK'
  BY <1>1, <1>6 DEF LoopInv, TypeOK, PollFd
<1>9. ListInv'
  BY <1>1, <1>2, <1>5, <1>6, <1>7 DEF LoopInv, ListInv
<1>10. OpenInv'
  BY <1>1, <1>2, <1>5, <1>6, <1>7 DEF LoopInv, OpenInv, FreeFdIsClean, UserIsConnections, Listed
<1>11. ClientInv'
  BY <1>1 DEF LoopInv, ClientInv
<1>12. DropInv'
  <2>1. \A d \in Clients : /\ SendsZero(d)' = SendsZero(d) /\ Quitted(d)' = Quitted(d)
                           /\ ZeroAhead(d)' = ZeroAhead(d)
    BY <1>1 DEF SendsZero, Arrived, Quitted, ZeroAhead
  <2>2. \A k \in 2 .. Len(poll_fds) : poll_fds[k].fd # ServerFd
    BY SocketServerConstants DEF LoopInv, ListInv
  <2>3. \A k \in 2 .. Len(poll_fds) : Justified(k)'
    <3> TAKE k \in 2 .. Len(poll_fds)
    <3> DEFINE c == owner[poll_fds[k].fd]
    <3>1. k \in 1 .. Len(poll_fds)
      BY <1>2
    <3>2. poll_fds'[k].in => c # None /\ (inbox[c] # <<>> \/ peer[c] = "gone")
      BY <1>5, <2>2, <3>1 DEF Readable
    <3>3. ~Listed(k)'
      BY <1>1, <1>7 DEF Listed
    <3>4. poll_fds'[k].fd = poll_fds[k].fd
      BY <1>5, <3>1
    <3> QED BY <1>1, <3>2, <3>3, <3>4 DEF Justified
  <2> QED BY <1>1, <1>6, <2>1, <2>3 DEF LoopInv, DropInv
<1>13. DropLaw
  BY <1>1 DEF DropLaw
<1> QED BY <1>8, <1>9, <1>10, <1>11, <1>12, <1>13 DEF LoopInv

\* accept, and the new entry at the end of the list.  A free descriptor is in
\* no entry: the scan is at the first one, so nothing is listed.
LEMMA HandleNewConnectionStep ==
    ASSUME LoopInv, HandleNewConnection
    PROVE  LoopInv' /\ DropLaw
<1>1. /\ UNCHANGED <<message_buffer, message, indices_to_remove, user, pc>>
      /\ UNCHANGED <<inbox, peer, sent, executed>>
  BY DEF HandleNewConnection
<1>2. /\ Len(poll_fds) \in Nat /\ DOMAIN poll_fds = 1 .. Len(poll_fds)
      /\ \A k \in 1 .. Len(poll_fds) : poll_fds[k] \in PollFd
      /\ poll_fds \in Seq(PollFd) /\ i \in Nat
      /\ Len(indices_to_remove) \in Nat
  BY Types DEF LoopInv
<1>3. pc = "scan" /\ i <= 1 /\ i' = 2
  <2>1. PICK k \in 1 .. Len(poll_fds) : NextEvent(k) /\ poll_fds[k].fd = ServerFd /\ i' = k + 1
    BY <1>2 DEF HandleNewConnection
  <2>2. \A j \in 2 .. Len(poll_fds) : poll_fds[j].fd # ServerFd
    BY SocketServerConstants DEF LoopInv, ListInv
  <2>3. k = 1
    BY <1>2, <2>1, <2>2
  <2> QED BY <1>2, <2>1, <2>3 DEF NextEvent
<1>4. Len(indices_to_remove) = 0
  <2>1. \A j \in 1 .. Len(indices_to_remove) :
           indices_to_remove[j] \in 2 .. Len(poll_fds) /\ indices_to_remove[j] < i
    BY DEF LoopInv, ListInv
  <2>2. 1 \notin 1 .. Len(indices_to_remove)
    BY <1>2, <1>3, <2>1
  <2> QED BY <1>2, <2>2
<1>5. \A k \in 1 .. Len(poll_fds') : ~Listed(k) /\ ~Listed(k)'
  BY <1>1, <1>4 DEF Listed
<1>6. \A k \in 2 .. Len(poll_fds) : poll_fds[k].fd \in Fds /\ owner[poll_fds[k].fd] # None
  BY <1>3, <1>4 DEF LoopInv, ListInv, OpenInv, Listed
<1>7. /\ \A d \in Clients : /\ SendsZero(d)' = SendsZero(d) /\ Quitted(d)' = Quitted(d)
                            /\ ZeroAhead(d)' = ZeroAhead(d)
  BY <1>1 DEF SendsZero, Arrived, Quitted, ZeroAhead
<1>8. CASE UNCHANGED <<poll_fds, owner, backlog>>
  <2>1. TypeOK'
    BY <1>1, <1>3, <1>8 DEF LoopInv, TypeOK
  <2>2. ListInv'
    BY <1>1, <1>3, <1>4, <1>8 DEF LoopInv, ListInv
  <2>3. OpenInv'
    BY <1>1, <1>3, <1>4, <1>8 DEF LoopInv, OpenInv, FreeFdIsClean, UserIsConnections, Listed
  <2>4. ClientInv'
    BY <1>1, <1>8 DEF LoopInv, ClientInv
  <2>5. \A k \in 2 .. Len(poll_fds) : Justified(k)'
    <3> TAKE k \in 2 .. Len(poll_fds)
    <3>1. Justified(k) /\ i <= 1 /\ k > i /\ ~Listed(k)'
      BY <1>1, <1>2, <1>3, <1>4 DEF LoopInv, DropInv, Listed
    <3> QED BY <1>1, <1>3, <1>8, <3>1 DEF Justified
  <2>6. DropInv'
    BY <1>1, <1>7, <1>8, <2>5 DEF LoopInv, DropInv
  <2>7. DropLaw
    BY <1>8 DEF DropLaw
  <2> QED BY <2>1, <2>2, <2>3, <2>4, <2>6, <2>7 DEF LoopInv
<1>9. ASSUME NEW fd \in Fds, owner[fd] = None, NEW c \in backlog,
             owner' = [owner EXCEPT ![fd] = c], backlog' = backlog \ {c},
             poll_fds' = Append(poll_fds, [fd |-> fd, in |-> FALSE])
      PROVE  LoopInv' /\ DropLaw
  <2> DEFINE p == [fd |-> fd, in |-> FALSE]
             n == Len(poll_fds)
  <2>1. p \in PollFd /\ p.fd = fd /\ p.in = FALSE /\ c \in Clients /\ c # None /\ n \in Nat /\ n >= 1
    BY <1>2, SocketServerConstants DEF PollFd, LoopInv, TypeOK, ListInv
  <2>2. /\ poll_fds' \in Seq(PollFd) /\ Len(poll_fds') = n + 1
        /\ \A k \in 1 .. n : poll_fds'[k] = poll_fds[k]
        /\ poll_fds'[n + 1] = p
    BY <1>2, <1>9, <2>1, AppendProperties
  <2>3. \A f \in Fds : owner'[f] = IF f = fd THEN c ELSE owner[f]
    BY <1>9 DEF LoopInv, TypeOK
  <2>4. \A k \in 1 .. n : poll_fds[k].fd # fd
    <3>1. poll_fds[1].fd # fd
      BY SocketServerConstants DEF LoopInv, ListInv
    <3> QED BY <1>6, <1>9, <2>1, <3>1
  <2> HIDE DEF n, p
  <2>5. TypeOK'
    <3>1. poll_fds' \in Seq([fd : Fds \cup {ServerFd}, in : BOOLEAN])
      BY <2>2 DEF PollFd
    <3>2. indices_to_remove' \in Seq(1 .. Len(poll_fds'))
      BY <1>1, <1>4, EmptySeq DEF LoopInv, TypeOK
    <3>3. owner' \in [Fds -> Clients \cup {None}] /\ backlog' \subseteq Clients
      BY <1>9, <2>1 DEF LoopInv, TypeOK
    <3> QED BY <1>1, <1>3, <3>1, <3>2, <3>3 DEF LoopInv, TypeOK
  <2>6. ListInv'
    <3>1. \A k \in 1 .. n + 1 : k \in 1 .. n \/ k = n + 1
      BY <2>1
    <3>2. \A k \in 2 .. n + 1 : k \in 2 .. n \/ k = n + 1
      BY <2>1
    <3>3. poll_fds'[1].fd = ServerFd /\ 1 \in 1 .. n
      BY <2>1, <2>2 DEF LoopInv, ListInv
    <3>4. \A k \in 2 .. n + 1 : poll_fds'[k].fd \in Fds
      <4>1. \A k \in 2 .. n : k \in 1 .. n /\ poll_fds[k].fd \in Fds
        BY <2>1 DEF n, LoopInv, ListInv
      <4> QED BY <2>1, <2>2, <3>2, <4>1
    <3>5. \A j, k \in 1 .. n + 1 : poll_fds'[j].fd = poll_fds'[k].fd => j = k
      <4>1. \A j, k \in 1 .. n : poll_fds[j].fd = poll_fds[k].fd => j = k
        BY DEF n, LoopInv, ListInv
      <4> QED BY <2>1, <2>2, <2>4, <3>1, <4>1
    <3> QED BY <1>1, <1>3, <1>4, <2>1, <2>2, <3>3, <3>4, <3>5 DEF ListInv
  <2>7. OpenInv'
    <3>1. \A f \in Fds : owner'[f] # None => \E k \in 2 .. n + 1 : poll_fds'[k].fd = f
      <4> SUFFICES ASSUME NEW f \in Fds, owner'[f] # None
                   PROVE  \E k \in 2 .. n + 1 : poll_fds'[k].fd = f
        OBVIOUS
      <4>1. CASE f = fd
        BY <2>1, <2>2, <4>1
      <4>2. CASE f # fd
        <5>1. PICK k \in 2 .. n : poll_fds[k].fd = f
          BY <2>3, <4>2 DEF n, LoopInv, OpenInv
        <5>2. k \in 1 .. n /\ k \in 2 .. n + 1
          BY <2>1
        <5> QED BY <2>2, <5>1, <5>2
      <4> QED BY <4>1, <4>2
    <3>2. \A k \in 2 .. n + 1 : owner'[poll_fds'[k].fd] # None
      <4> TAKE k \in 2 .. n + 1
      <4>1. CASE k = n + 1
        BY <2>1, <2>2, <2>3, <4>1
      <4>2. CASE k # n + 1
        <5>1. k \in 2 .. n /\ k \in 1 .. n
          BY <2>1, <4>2
        <5>2. poll_fds'[k].fd = poll_fds[k].fd /\ poll_fds[k].fd \in Fds /\ owner[poll_fds[k].fd] # None
          BY <1>6, <2>2, <5>1 DEF n
        <5> QED BY <2>1, <2>3, <5>2
      <4> QED BY <4>1, <4>2
    <3>3. FreeFdIsClean'
      BY <1>1, <2>1, <2>3 DEF LoopInv, OpenInv, FreeFdIsClean
    <3>4. user[fd] = None
      BY <1>9 DEF LoopInv, OpenInv, FreeFdIsClean
    <3>5. UserIsConnections'
      BY <1>1, <2>3, <3>4 DEF LoopInv, OpenInv, UserIsConnections
    <3>6. \A k \in 2 .. n + 1 : ~Listed(k)'
      BY <1>1, <1>4 DEF Listed
    <3> QED BY <1>1, <2>2, <3>1, <3>2, <3>3, <3>5, <3>6 DEF OpenInv
  <2>8. ClientInv'
    <3>1. \A f \in Fds : owner[f] # c /\ owner[f] \notin backlog
      BY DEF LoopInv, ClientInv
    <3>2. peer[c] # "new"
      BY <2>1 DEF LoopInv, ClientInv
    <3>3. \A f, g \in Fds : owner'[f] # None /\ owner'[f] = owner'[g] => f = g
      BY <2>3, <3>1 DEF LoopInv, ClientInv
    <3>4. \A f \in Fds : owner'[f] \notin backlog'
      BY <1>9, <2>3, <3>1
    <3>5. \A d \in Clients : peer'[d] = "new" =>
             inbox'[d] = <<>> /\ d \notin backlog' /\ \A f \in Fds : owner'[f] # d
      BY <1>1, <1>9, <2>3, <3>2 DEF LoopInv, ClientInv
    <3> QED BY <1>1, <3>3, <3>4, <3>5 DEF LoopInv, ClientInv
  <2>9. DropInv'
    <3>1. \A k \in 2 .. n + 1 : Justified(k)'
      <4> TAKE k \in 2 .. n + 1
      <4>1. ~Listed(k)' /\ pc' = "scan"
        BY <1>1, <1>3, <1>4 DEF Listed
      <4>2. CASE k = n + 1
        BY <2>1, <2>2, <4>1, <4>2 DEF Justified
      <4>3. CASE k # n + 1
        <5>1. k \in 2 .. n /\ k \in 1 .. n /\ k > i
          BY <1>2, <1>3, <2>1, <4>3
        <5>2. poll_fds'[k] = poll_fds[k] /\ owner'[poll_fds[k].fd] = owner[poll_fds[k].fd]
          <6>1. poll_fds[k].fd # fd /\ poll_fds[k].fd \in Fds
            BY <1>6, <2>4, <5>1 DEF n
          <6> QED BY <2>2, <2>3, <5>1, <6>1
        <5>3. Justified(k)
          BY <5>1 DEF n, LoopInv, DropInv
        <5> QED BY <1>1, <4>1, <5>1, <5>2, <5>3 DEF Justified
      <4> QED BY <4>2, <4>3
    <3> QED BY <1>1, <1>7, <2>2, <3>1 DEF LoopInv, DropInv
  <2>10. DropLaw
    BY <1>9, <2>3 DEF DropLaw
  <2> QED BY <2>5, <2>6, <2>7, <2>8, <2>9, <2>10 DEF LoopInv
<1> QED BY <1>8, <1>9 DEF HandleNewConnection

\* A round of receiveMessage.  The entry served is not listed, so it is open.
LEMMA ReceiveStep ==
    ASSUME LoopInv, Receive
    PROVE  LoopInv' /\ DropLaw
<1>1. /\ UNCHANGED <<poll_fds, indices_to_remove, backlog, peer, sent, executed>>
  BY DEF Receive
<1>2. /\ Len(poll_fds) \in Nat /\ DOMAIN poll_fds = 1 .. Len(poll_fds) /\ i \in Nat
      /\ \A k \in 1 .. Len(poll_fds) : poll_fds[k] \in PollFd
  BY Types DEF LoopInv
<1>3. PICK k \in 1 .. Len(poll_fds) :
        /\ NextEvent(k) \/ (pc = "recv" /\ k = i)
        /\ poll_fds[k].fd # ServerFd
        /\ i' = k
        /\ LET fd    == poll_fds[k].fd
               c     == owner[fd]
               chunk == Chunk(inbox[c])
               m     == message \o CString(chunk)
               ends  == chunk = <<>> \/ Newline(m) # 0
           IN  /\ inbox' = [inbox EXCEPT ![c] = SubSeq(@, Len(chunk) + 1, Len(@))]
               /\ message' = IF ends THEN <<>> ELSE m
               /\ pc' = IF ends THEN "lines" ELSE "recv"
               /\ IF ends THEN Received(fd, m) ELSE UNCHANGED <<message_buffer, owner, user>>
  BY <1>2 DEF Receive
<1> DEFINE fd == poll_fds[k].fd
           c == owner[fd]
           b == inbox[c]
           chunk == Chunk(b)
           m == message \o CString(chunk)
           ends == chunk = <<>> \/ Newline(m) # 0
<1>4. /\ k \in 2 .. Len(poll_fds) /\ fd \in Fds /\ i' = k /\ k >= i
      /\ (pc = "scan" /\ poll_fds[k].in) \/ (pc = "recv" /\ k = i)
  <2>1. k # 1
    BY <1>3 DEF LoopInv, ListInv
  <2>2. k \in 2 .. Len(poll_fds)
    BY <1>2, <2>1
  <2>3. fd \in Fds
    BY <2>2 DEF LoopInv, ListInv
  <2>4. NextEvent(k) => pc = "scan" /\ poll_fds[k].in /\ k >= i
    BY <1>2 DEF NextEvent
  <2>5. (NextEvent(k) \/ (pc = "recv" /\ k = i)) /\ i' = k
    BY <1>3
  <2>6. k >= i
    BY <1>2, <2>4, <2>5
  <2> QED BY <2>2, <2>3, <2>4, <2>5, <2>6
<1>5. ~Listed(k)
  BY <1>2, <1>4 DEF Listed, LoopInv, ListInv
<1>6. c \in Clients /\ c # None
  BY <1>4, <1>5 DEF LoopInv, OpenInv, TypeOK
<1>7. \A j \in 1 .. Len(poll_fds) : j # k => poll_fds[j].fd # fd
  BY DEF LoopInv, ListInv
<1>8. \A f \in Fds : f # fd => owner[f] # c
  BY <1>4, <1>6 DEF LoopInv, ClientInv
<1>9. /\ chunk \in Seq(Bytes) /\ Len(chunk) \in 0 .. Len(b)
      /\ \A j \in 1 .. Len(chunk) : chunk[j] = b[j]
      /\ chunk = <<>> => b = <<>>
      /\ SubSeq(b, Len(chunk) + 1, Len(b)) \in Seq(Bytes)
      /\ Len(SubSeq(b, Len(chunk) + 1, Len(b))) = Len(b) - Len(chunk)
      /\ \A j \in 1 .. Len(b) - Len(chunk) : SubSeq(b, Len(chunk) + 1, Len(b))[j] = b[Len(chunk) + j]
      /\ Len(b) \in Nat
  <2> DEFINE n == IF Len(b) < BUFFER_SIZE THEN Len(b) ELSE BUFFER_SIZE
  <2>1. b \in Seq(Bytes) /\ Len(b) \in Nat
    BY <1>6, LenProperties DEF LoopInv, TypeOK
  <2>2. n \in 0 .. Len(b) /\ (n = 0 => Len(b) = 0)
    BY <2>1, SocketServerConstants
  <2>3. chunk = SubSeq(b, 1, n)
    BY DEF Chunk
  <2> HIDE DEF b, n, chunk
  <2>4. chunk \in Seq(Bytes) /\ Len(chunk) = n /\ \A j \in 1 .. n : chunk[j] = b[j]
    BY <2>1, <2>2, <2>3, Cut
  <2>5. /\ SubSeq(b, n + 1, Len(b)) \in Seq(Bytes)
        /\ Len(SubSeq(b, n + 1, Len(b))) = Len(b) - n
        /\ \A j \in 1 .. Len(b) - n : SubSeq(b, n + 1, Len(b))[j] = b[n + j]
    BY <2>1, <2>2, Cut
  <2>6. chunk = <<>> => b = <<>>
    BY <2>1, <2>2, <2>4, EmptySeq
  <2> QED BY <2>1, <2>2, <2>4, <2>5, <2>6
<1>10. /\ CString(chunk) \in Seq(Bytes) /\ m \in Seq(Bytes)
       /\ m = <<>> => message = <<>> /\ CString(chunk) = <<>>
  <2>1. message \in Seq(Bytes) /\ CString(chunk) \in Seq(Bytes)
    BY <1>9, CStringIs DEF LoopInv, TypeOK
  <2>2. m \in Seq(Bytes) /\ Len(m) = Len(message) + Len(CString(chunk))
    BY <2>1, ConcatProperties
  <2>3. Len(message) \in Nat /\ Len(CString(chunk)) \in Nat
    BY <2>1, LenProperties
  <2>4. m = <<>> => Len(m) = 0
    OBVIOUS
  <2>5. m = <<>> => Len(message) = 0 /\ Len(CString(chunk)) = 0
    BY <2>2, <2>3, <2>4
  <2> QED BY <2>1, <2>2, <2>5, EmptySeq
<1>11. m = <<>> /\ peer[c] = "up" => SendsZero(c)
  <2> SUFFICES ASSUME m = <<>>, peer[c] = "up" PROVE SendsZero(c)
    OBVIOUS
  <2>1. CASE chunk = <<>>
    <3>1. b = <<>> /\ message = <<>> /\ Justified(k)
      BY <1>4, <1>9, <1>10, <2>1 DEF LoopInv, DropInv
    <3> QED BY <1>2, <1>4, <1>6, <3>1 DEF Justified
  <2>2. CASE chunk # <<>>
    <3>1. PICK j \in 1 .. Len(chunk) : chunk[j] = "nul"
      BY <1>9, <1>10, <2>2, CStringIs
    <3>2. j \in 1 .. Len(b) /\ b[j] = "nul"
      <4> HIDE DEF chunk, b
      <4> QED BY <1>9, <3>1
    <3> QED BY <1>6, <3>2 DEF ZeroAhead, LoopInv, DropInv
  <2> QED BY <2>1, <2>2
<1> DEFINE rest == SubSeq(b, Len(chunk) + 1, Len(b))
<1>12. /\ inbox' \in [Clients -> Seq(Bytes)]
       /\ inbox'[c] = rest
       /\ \A d \in Clients : d # c => inbox'[d] = inbox[d]
  <2>1. inbox' = [inbox EXCEPT ![c] = rest]
    BY <1>3
  <2>2. rest \in Seq(Bytes)
    BY <1>9
  <2> HIDE DEF rest, c
  <2> QED BY <1>6, <2>1, <2>2 DEF LoopInv, TypeOK
<1>13. ASSUME NEW j \in 1 .. Len(inbox'[c]), inbox'[c][j] = "nul"
       PROVE  \E l \in 1 .. Len(b) : b[l] = "nul"
  <2> HIDE DEF c, b, chunk
  <2>1. Len(chunk) + j \in 1 .. Len(b) /\ b[Len(chunk) + j] = "nul"
    BY <1>9, <1>12, <1>13
  <2> QED BY <2>1
<1>14. /\ message' \in Seq(Bytes) /\ (~ends => message' = m)
       /\ pc' = IF ends THEN "lines" ELSE "recv"
  <2>1. /\ message' = IF ends THEN <<>> ELSE m
        /\ pc' = IF ends THEN "lines" ELSE "recv"
    BY <1>3
  <2> HIDE DEF ends, m
  <2> QED BY <1>10, <2>1
<1>15. /\ owner' \in [Fds -> Clients \cup {None}]
       /\ message_buffer' \in [Fds -> Seq(Bytes)]
       /\ user' \in [Fds -> {None} \cup [by : Clients, registered : BOOLEAN]]
       /\ \A f \in Fds : f # fd => /\ owner'[f] = owner[f] /\ user'[f] = user[f]
                                   /\ message_buffer'[f] = message_buffer[f]
       /\ \/ /\ owner'[fd] = c /\ user'[fd] = user[fd]
             /\ ends => message_buffer'[fd] # <<>>
          \/ owner'[fd] = None /\ user'[fd] = None /\ message_buffer'[fd] = <<>> /\ m = <<>> /\ ends
  <2>1. IF ends THEN Received(fd, m) ELSE UNCHANGED <<message_buffer, owner, user>>
    BY <1>3
  <2> HIDE DEF ends, m, fd
  <2>2. /\ owner \in [Fds -> Clients \cup {None}]
        /\ message_buffer \in [Fds -> Seq(Bytes)]
        /\ user \in [Fds -> {None} \cup [by : Clients, registered : BOOLEAN]]
    BY DEF LoopInv, TypeOK
  <2>3. CASE ~ends
    BY <2>1, <2>2, <2>3
  <2>4. CASE ends /\ m # <<>>
    <3> DEFINE q == message_buffer[fd] \o m
    <3>1. message_buffer' = [message_buffer EXCEPT ![fd] = q] /\ UNCHANGED <<owner, user>>
      BY <2>1, <2>4 DEF Received
    <3>2. message_buffer[fd] \in Seq(Bytes)
      BY <1>4, <2>2
    <3>3. q \in Seq(Bytes) /\ Len(q) = Len(message_buffer[fd]) + Len(m)
      BY <1>10, <3>2, ConcatProperties
    <3>4. Len(m) \in Nat /\ Len(m) # 0 /\ Len(message_buffer[fd]) \in Nat
      BY <1>10, <2>4, <3>2, LenProperties, EmptySeq
    <3>5. Len(<<>>) = 0
      OBVIOUS
    <3>6. q # <<>>
      BY <3>3, <3>4, <3>5
    <3> HIDE DEF q
    <3> QED BY <1>4, <2>2, <3>1, <3>3, <3>6
  <2>5. CASE ends /\ m = <<>>
    <3>1. /\ owner' = [owner EXCEPT ![fd] = None]
          /\ user' = [user EXCEPT ![fd] = None]
          /\ message_buffer' = [message_buffer EXCEPT ![fd] = <<>>]
      BY <2>1, <2>5 DEF Received, CloseClient
    <3>2. <<>> \in Seq(Bytes)
      OBVIOUS
    <3> QED BY <1>4, <2>2, <2>5, <3>1, <3>2
  <2> QED BY <2>3, <2>4, <2>5
<1>16. \A d \in Clients : /\ SendsZero(d)' = SendsZero(d) /\ Quitted(d)' = Quitted(d)
                          /\ ZeroAhead(d)' => ZeroAhead(d)
  <2>1. \A d \in Clients : SendsZero(d)' = SendsZero(d) /\ Quitted(d)' = Quitted(d)
    BY <1>1 DEF SendsZero, Arrived, Quitted
  <2>2. \A d \in Clients : d # c => ZeroAhead(d)' = ZeroAhead(d)
    BY <1>12 DEF ZeroAhead
  <2>3. \A d \in Clients : d = c => (ZeroAhead(d)' => ZeroAhead(d))
    BY <1>13 DEF ZeroAhead
  <2> HIDE DEF c
  <2> QED BY <2>1, <2>2, <2>3
<1>17. \A j \in 1 .. Len(poll_fds) : Listed(j)' = Listed(j)
  BY <1>1 DEF Listed
<1>18. /\ \A d \in Clients : Len(inbox[d]) <= sent[d] /\ sent[d] \in Nat
       /\ Len(rest) <= sent[c]
  <2>1. \A d \in Clients : Len(inbox[d]) <= sent[d] /\ sent[d] \in Nat
    BY DEF LoopInv, ClientInv
  <2>2. Len(b) <= sent[c] /\ sent[c] \in Nat
    BY <1>6, <2>1
  <2> HIDE DEF b, c, chunk
  <2> QED BY <1>9, <2>1, <2>2
<1>19. message_buffer'[fd] = message_buffer[fd] \/ ends
  <2>1. ~ends => UNCHANGED message_buffer
    BY <1>3
  <2> QED BY <2>1
<1> HIDE DEF ends, m, rest, chunk, b, c, fd
<1>20. TypeOK'
  BY <1>1, <1>4, <1>12, <1>14, <1>15 DEF LoopInv, TypeOK
<1>21. ListInv'
  BY <1>1, <1>2, <1>4 DEF LoopInv, ListInv
<1>22. OpenInv'
  <2>1. \A f \in Fds : owner'[f] # None => owner[f] # None
    BY <1>6, <1>15 DEF c
  <2>2. \A j \in 2 .. Len(poll_fds) :
          /\ owner'[poll_fds[j].fd] = None => Listed(j)' \/ (pc' = "lines" /\ j = i')
          /\ Listed(j)' => message_buffer'[poll_fds[j].fd] = <<>> /\ user'[poll_fds[j].fd] = None
    <3> TAKE j \in 2 .. Len(poll_fds)
    <3>0. j \in 1 .. Len(poll_fds) /\ poll_fds[j].fd \in Fds
      BY <1>2 DEF LoopInv, ListInv
    <3>1. CASE j = k
      BY <1>4, <1>5, <1>6, <1>14, <1>15, <1>17, <3>0, <3>1 DEF fd
    <3>2. CASE j # k
      <4>1. poll_fds[j].fd # fd
        BY <1>7, <3>0, <3>2
      <4>2. owner[poll_fds[j].fd] = None => Listed(j)
        BY <1>4 DEF LoopInv, OpenInv
      <4>3. Listed(j) => message_buffer[poll_fds[j].fd] = <<>> /\ user[poll_fds[j].fd] = None
        BY DEF LoopInv, OpenInv
      <4> QED BY <1>15, <1>17, <3>0, <4>1, <4>2, <4>3
    <3> QED BY <3>1, <3>2
  <2>3. FreeFdIsClean'
    BY <1>6, <1>15 DEF LoopInv, OpenInv, FreeFdIsClean
  <2>4. UserIsConnections'
    BY <1>6, <1>15 DEF LoopInv, OpenInv, UserIsConnections, c
  <2>5. \A f \in Fds : owner[f] # None => \E j \in 2 .. Len(poll_fds) : poll_fds[j].fd = f
    BY DEF LoopInv, OpenInv
  <2> QED BY <1>1, <2>1, <2>2, <2>3, <2>4, <2>5 DEF OpenInv
<1>23. ClientInv'
  <2>1. \A f \in Fds : owner'[f] = owner[f] \/ owner'[f] = None
    BY <1>15 DEF c
  <2>2. \A d \in Clients : Len(inbox'[d]) <= sent[d]
    BY <1>12, <1>18
  <2>3. \A d \in Clients : peer[d] = "new" => d # c
    BY <1>4 DEF LoopInv, ClientInv, c
  <2>4. None \notin backlog /\ None \notin Clients
    BY SocketServerConstants DEF LoopInv, TypeOK
  <2> QED BY <1>1, <1>12, <2>1, <2>2, <2>3, <2>4 DEF LoopInv, ClientInv
<1>24. DropInv'
  <2>1. \A j \in 2 .. Len(poll_fds) : Justified(j)'
    <3> TAKE j \in 2 .. Len(poll_fds)
    <3>0. j \in 1 .. Len(poll_fds) /\ poll_fds[j].fd \in Fds /\ Justified(j)
      BY <1>2 DEF LoopInv, ListInv, DropInv
    <3>1. CASE j = k
      <4>1. CASE owner'[fd] = None
        BY <1>1, <3>1, <4>1 DEF Justified, fd
      <4>2. CASE owner'[fd] # None
        <5>1. owner'[fd] = c /\ user'[fd] = user[fd] /\ (ends => message_buffer'[fd] # <<>>)
          BY <1>15, <4>2
        <5>2. ~Listed(k)'
          BY <1>5, <1>17
        <5>3. \A d \in Clients :
                 d = c /\ pc' = "recv" /\ message' = <<>> /\ peer[d] = "up" => SendsZero(d)'
          BY <1>11, <1>14, <1>16
        <5>4. pc' # "scan" /\ (pc' = "lines" => message_buffer'[fd] # <<>>)
          BY <1>14, <5>1
        <5>5. ~(k > i')
          BY <1>4
        <5> QED BY <1>1, <1>6, <3>1, <5>1, <5>2, <5>3, <5>4, <5>5 DEF Justified, fd
      <4> QED BY <4>1, <4>2
    <3>2. CASE j # k
      <4>1. /\ poll_fds[j].fd # fd
            /\ owner'[poll_fds[j].fd] = owner[poll_fds[j].fd] /\ owner[poll_fds[j].fd] # c
            /\ owner[poll_fds[j].fd] \in Clients \cup {None}
        BY <1>7, <1>8, <1>15, <3>0, <3>2 DEF LoopInv, TypeOK
      <4>2. j > i' => j > i
        BY <1>2, <1>4
      <4>3. owner[poll_fds[j].fd] # None => inbox'[owner[poll_fds[j].fd]] = inbox[owner[poll_fds[j].fd]]
        BY <1>12, <4>1
      <4>4. pc' # "scan" /\ j # i'
        BY <1>4, <1>14, <3>2
      <4> QED BY <1>1, <1>16, <1>17, <3>0, <4>1, <4>2, <4>3, <4>4 DEF Justified
    <3> QED BY <3>1, <3>2
  <2> QED BY <1>1, <1>16, <2>1 DEF LoopInv, DropInv
<1>25. DropLaw
  BY <1>6, <1>11, <1>15 DEF DropLaw, c
<1> QED BY <1>20, <1>21, <1>22, <1>23, <1>24, <1>25 DEF LoopInv

LEMMA StripCRType ==
    ASSUME NEW s \in Seq(Bytes)
    PROVE  StripCR(s) \in Seq(Bytes)
<1>1. CASE s = <<>>
  BY <1>1 DEF StripCR
<1>2. CASE s # <<>>
  <2>1. Len(s) \in Nat /\ Len(s) # 0
    BY <1>2, LenProperties, EmptySeq
  <2>2. Len(s) - 1 \in 0 .. Len(s)
    BY <2>1
  <2>3. SubSeq(s, 1, Len(s) - 1) \in Seq(Bytes)
    BY <2>2, Cut
  <2> QED BY <2>3 DEF StripCR, Front
<1> QED BY <1>1, <1>2

\* What a line leaves as the user: none only after an empty line or a quit.
LEMMA AfterLineIs ==
    ASSUME NEW c \in Clients, NEW line \in Seq(Bytes),
           NEW u \in {None} \cup [by : Clients, registered : BOOLEAN],
           u # None => u.by = c
    PROVE  /\ AfterLine(u, c, line) \in {None} \cup [by : Clients, registered : BOOLEAN]
           /\ AfterLine(u, c, line) # None => AfterLine(u, c, line).by = c
           /\ AfterLine(u, c, line) = None => line \in {<<"quit">>, <<>>}
<1> DEFINE w(r) == [by |-> c, registered |-> r]
<1>1. \A r \in BOOLEAN : /\ w(r) \in [by : Clients, registered : BOOLEAN]
                         /\ w(r).by = c /\ w(r) # None
  BY SocketServerConstants
<1>2. \/ AfterLine(u, c, line) = u /\ (u = None => line \in {<<"quit">>, <<>>})
      \/ AfterLine(u, c, line) = None /\ line = <<"quit">>
      \/ \E r \in BOOLEAN : AfterLine(u, c, line) = w(r)
  <2>1. CASE line = <<>>
    BY <2>1 DEF AfterLine
  <2>2. CASE line # <<>> /\ line = <<"skip">>
    <3>1. AfterLine(u, c, line) = w(TRUE)
      BY <2>2 DEF AfterLine
    <3> QED BY <3>1
  <2>3. CASE line # <<>> /\ line # <<"skip">> /\ line = <<"quit">> /\ u # None
    <3>1. AfterLine(u, c, line) = IF u.registered THEN None ELSE u
      BY <2>3 DEF AfterLine
    <3> QED BY <2>3, <3>1
  <2>4. CASE line # <<>> /\ line # <<"skip">> /\ ~(line = <<"quit">> /\ u # None)
    <3>1. AfterLine(u, c, line) = IF u = None THEN w(FALSE) ELSE u
      BY <2>4 DEF AfterLine
    <3>2. CASE u = None
      BY <3>1, <3>2
    <3>3. CASE u # None
      BY <3>1, <3>3
    <3> QED BY <3>2, <3>3
  <2> QED BY <2>1, <2>2, <2>3, <2>4
<1> HIDE DEF w
<1> QED BY <1>1, <1>2

\* One line: what it leaves without a user is a client that quit.
LEMMA ExecuteLineStep ==
    ASSUME LoopInv, ExecuteLine
    PROVE  LoopInv' /\ DropLaw
<1> DEFINE fd == poll_fds[i].fd
           c == owner[fd]
           buf == message_buffer[fd]
           n == Newline(buf)
           line == StripCR(SubSeq(buf, 1, n - 1))
           next == SubSeq(buf, n + 1, Len(buf))
           u == AfterLine(user[fd], c, line)
<1>1. /\ UNCHANGED <<poll_fds, message, indices_to_remove, pc, i>>
      /\ UNCHANGED <<owner, backlog, inbox, peer, sent>>
      /\ pc = "lines" /\ n # 0
      /\ message_buffer' = [message_buffer EXCEPT ![fd] = next]
      /\ user' = [user EXCEPT ![fd] = u]
      /\ executed' = [executed EXCEPT ![c] = Append(executed[c], line)]
  BY DEF ExecuteLine
<1>2. /\ Len(poll_fds) \in Nat /\ i \in Nat
      /\ i \in 2 .. Len(poll_fds) /\ i \in 1 .. Len(poll_fds) /\ fd \in Fds
  <2>1. Len(poll_fds) \in Nat /\ i \in Nat
    BY Types DEF LoopInv
  <2>2. i \in 2 .. Len(poll_fds)
    BY <1>1 DEF LoopInv, ListInv
  <2>3. fd \in Fds
    BY <2>2 DEF LoopInv, ListInv
  <2> QED BY <2>1, <2>2, <2>3
<1>3. buf \in Seq(Bytes) /\ Len(buf) \in Nat /\ n \in 1 .. Len(buf) /\ buf # <<>>
  <2>1. buf \in Seq(Bytes)
    BY <1>2 DEF LoopInv, TypeOK
  <2>2. n \in 0 .. Len(buf) /\ (buf = <<>> => n = 0)
    BY <2>1, NewlineIs
  <2>3. Len(buf) \in Nat
    BY <2>1, LenProperties
  <2> HIDE DEF n, buf
  <2> QED BY <1>1, <2>1, <2>2, <2>3
<1>4. c \in Clients /\ c # None
  BY <1>2, <1>3 DEF LoopInv, OpenInv, FreeFdIsClean, TypeOK
<1>5. line \in Seq(Bytes) /\ next \in Seq(Bytes)
  <2>1. n - 1 \in 0 .. Len(buf) /\ n \in 0 .. Len(buf)
    BY <1>3
  <2>2. SubSeq(buf, 1, n - 1) \in Seq(Bytes) /\ next \in Seq(Bytes)
    BY <1>3, <2>1, Cut
  <2> QED BY <2>2, StripCRType
<1>6. /\ u \in {None} \cup [by : Clients, registered : BOOLEAN]
      /\ u # None => u.by = c
      /\ u = None => line \in {<<"quit">>, <<>>}
  <2>1. /\ user[fd] \in {None} \cup [by : Clients, registered : BOOLEAN]
        /\ user[fd] # None => user[fd].by = c
    BY <1>2 DEF LoopInv, TypeOK, OpenInv, UserIsConnections
  <2> QED BY <1>4, <1>5, <2>1, AfterLineIs
<1> HIDE DEF u, next, line, n, buf
<1>7. /\ executed' \in [Clients -> Seq(Seq(Bytes))]
      /\ \A d \in Clients : d # c => executed'[d] = executed[d]
      /\ executed'[c] # <<>> /\ Last(executed'[c]) = line
  <2> DEFINE q == Append(executed[c], line)
  <2>1. executed \in [Clients -> Seq(Seq(Bytes))] /\ executed[c] \in Seq(Seq(Bytes))
    BY <1>4 DEF LoopInv, ClientInv
  <2>2. q \in Seq(Seq(Bytes)) /\ q # <<>> /\ Len(q) = Len(executed[c]) + 1 /\ q[Len(executed[c]) + 1] = line
    <3> DEFINE e == executed[c]
               T == Seq(Bytes)
    <3>1. e \in Seq(T) /\ line \in T
      BY <1>5, <2>1
    <3> HIDE DEF e, T
    <3>2. /\ Append(e, line) \in Seq(T) /\ Append(e, line) # <<>>
          /\ Len(Append(e, line)) = Len(e) + 1 /\ Append(e, line)[Len(e) + 1] = line
      BY <3>1, AppendProperties
    <3> QED BY <3>2 DEF e, T
  <2>3. executed' = [executed EXCEPT ![c] = q]
    BY <1>1
  <2> HIDE DEF q, c
  <2>4. executed' \in [Clients -> Seq(Seq(Bytes))] /\ executed'[c] = q
        /\ \A d \in Clients : d # c => executed'[d] = executed[d]
    BY <1>4, <2>1, <2>2, <2>3
  <2> QED BY <2>2, <2>4 DEF Last
<1>8. /\ message_buffer' \in [Fds -> Seq(Bytes)]
      /\ user' \in [Fds -> {None} \cup [by : Clients, registered : BOOLEAN]]
      /\ \A f \in Fds : f # fd => message_buffer'[f] = message_buffer[f] /\ user'[f] = user[f]
      /\ user'[fd] = u
  BY <1>1, <1>2, <1>5, <1>6 DEF LoopInv, TypeOK
<1>9. ~Listed(i) /\ \A k \in 1 .. Len(poll_fds) : Listed(k)' = Listed(k)
  BY <1>1, <1>2 DEF Listed, LoopInv, ListInv
<1>10. \A k \in 2 .. Len(poll_fds) : k # i =>
         /\ poll_fds[k].fd \in Fds /\ poll_fds[k].fd # fd
         /\ owner[poll_fds[k].fd] # c
         /\ owner[poll_fds[k].fd] \in Clients \cup {None}
  <2> SUFFICES ASSUME NEW k \in 2 .. Len(poll_fds), k # i
               PROVE  /\ poll_fds[k].fd \in Fds /\ poll_fds[k].fd # fd
                      /\ owner[poll_fds[k].fd] # c
                      /\ owner[poll_fds[k].fd] \in Clients \cup {None}
    OBVIOUS
  <2>1. k \in 1 .. Len(poll_fds)
    BY <1>2
  <2>2. poll_fds[k].fd \in Fds /\ poll_fds[k].fd # fd
    BY <1>2, <2>1 DEF LoopInv, ListInv
  <2> QED BY <1>2, <1>4, <2>2 DEF LoopInv, ClientInv, TypeOK
<1> HIDE DEF c, fd
<1>11. TypeOK'
  BY <1>1, <1>8 DEF LoopInv, TypeOK
<1>12. ListInv'
  BY <1>1 DEF LoopInv, ListInv
<1>13. OpenInv'
  <2>1. \A k \in 2 .. Len(poll_fds) :
          Listed(k)' => message_buffer'[poll_fds[k].fd] = <<>> /\ user'[poll_fds[k].fd] = None
    <3> SUFFICES ASSUME NEW k \in 2 .. Len(poll_fds), Listed(k)'
                 PROVE  message_buffer'[poll_fds[k].fd] = <<>> /\ user'[poll_fds[k].fd] = None
      OBVIOUS
    <3>1. Listed(k) /\ k # i
      BY <1>2, <1>9
    <3> QED BY <1>8, <1>10, <3>1 DEF LoopInv, OpenInv
  <2>2. FreeFdIsClean'
    BY <1>1, <1>4, <1>8 DEF LoopInv, OpenInv, FreeFdIsClean, c
  <2>3. UserIsConnections'
    BY <1>1, <1>6, <1>8 DEF LoopInv, OpenInv, UserIsConnections, c
  <2>4. \A k \in 2 .. Len(poll_fds) :
          owner'[poll_fds[k].fd] = None => Listed(k)' \/ (pc' = "lines" /\ k = i')
    BY <1>1, <1>2, <1>9 DEF LoopInv, OpenInv
  <2>5. \A f \in Fds : owner'[f] # None => \E k \in 2 .. Len(poll_fds) : poll_fds[k].fd = f
    BY <1>1 DEF LoopInv, OpenInv
  <2> QED BY <1>1, <2>1, <2>2, <2>3, <2>4, <2>5 DEF OpenInv
<1>14. ClientInv'
  BY <1>1, <1>7 DEF LoopInv, ClientInv
<1>15. DropInv'
  <2>1. \A d \in Clients : SendsZero(d)' = SendsZero(d) /\ ZeroAhead(d)' = ZeroAhead(d)
    BY <1>1 DEF SendsZero, Arrived, ZeroAhead
  <2>2. \A d \in Clients : d # c => Quitted(d)' = Quitted(d)
    BY <1>7 DEF Quitted
  <2>3. \A d \in Clients : d = c => (u = None => Quitted(d)')
    BY <1>6, <1>7 DEF Quitted
  <2>4. \A k \in 2 .. Len(poll_fds) : Justified(k)'
    <3> TAKE k \in 2 .. Len(poll_fds)
    <3>0. Justified(k) /\ k \in 1 .. Len(poll_fds)
      BY <1>2 DEF LoopInv, DropInv
    <3>1. CASE k = i
      <4>1. poll_fds[k].fd = fd /\ owner[fd] = c
        BY <3>1 DEF fd, c
      <4> QED BY <1>1, <1>2, <1>4, <1>8, <1>9, <2>1, <2>3, <3>0, <3>1, <4>1 DEF Justified
    <3>2. CASE k # i
      BY <1>1, <1>8, <1>9, <1>10, <2>1, <2>2, <3>0, <3>2 DEF Justified
    <3> QED BY <3>1, <3>2
  <2> QED BY <1>1, <2>1, <2>4 DEF LoopInv, DropInv
<1>16. DropLaw
  BY <1>1 DEF DropLaw
<1> QED BY <1>11, <1>12, <1>13, <1>14, <1>15, <1>16 DEF LoopInv

\* The end of the lines: what is closed by now is clean, and so gets listed.
LEMMA EndOfLinesStep ==
    ASSUME LoopInv, EndOfLines
    PROVE  LoopInv' /\ DropLaw
<1> DEFINE fd == poll_fds[i].fd
           l == indices_to_remove
<1>1. /\ UNCHANGED <<poll_fds, message_buffer, message, user>>
      /\ UNCHANGED <<owner, backlog, inbox, peer, sent, executed>>
      /\ pc = "lines" /\ pc' = "scan" /\ i' = i + 1
      /\ l' = IF ToRemove(fd) THEN Append(l, i) ELSE l
  BY DEF EndOfLines
<1>2. /\ Len(poll_fds) \in Nat /\ i \in Nat /\ Len(l) \in Nat
      /\ i \in 2 .. Len(poll_fds) /\ i \in 1 .. Len(poll_fds) /\ fd \in Fds
      /\ l \in Seq(1 .. Len(poll_fds))
  <2>1. Len(poll_fds) \in Nat /\ i \in Nat /\ Len(l) \in Nat
    BY Types DEF LoopInv
  <2>2. i \in 2 .. Len(poll_fds)
    BY <1>1 DEF LoopInv, ListInv
  <2>3. fd \in Fds
    BY <2>2 DEF LoopInv, ListInv
  <2> QED BY <2>1, <2>2, <2>3 DEF LoopInv, TypeOK
<1>3. \/ /\ ToRemove(fd) /\ l' \in Seq(1 .. Len(poll_fds)) /\ Len(l') = Len(l) + 1
         /\ \A j \in 1 .. Len(l) : l'[j] = l[j]
         /\ l'[Len(l) + 1] = i
      \/ ~ToRemove(fd) /\ l' = l
  <2>1. /\ Append(l, i) \in Seq(1 .. Len(poll_fds)) /\ Len(Append(l, i)) = Len(l) + 1
        /\ \A j \in 1 .. Len(l) : Append(l, i)[j] = l[j]
        /\ Append(l, i)[Len(l) + 1] = i
    BY <1>2, AppendProperties
  <2> HIDE DEF l, fd
  <2>2. CASE ToRemove(fd)
    <3>1. l' = Append(l, i)
      BY <1>1, <2>2
    <3> QED BY <2>1, <2>2, <3>1
  <2>3. CASE ~ToRemove(fd)
    BY <1>1, <2>3
  <2> QED BY <2>2, <2>3
<1>4. \A k \in 1 .. Len(poll_fds) : Listed(k)' <=> Listed(k) \/ (ToRemove(fd) /\ k = i)
  <2> TAKE k \in 1 .. Len(poll_fds)
  <2>1. Listed(k)' <=> \E j \in 1 .. Len(l') : l'[j] = k
    BY DEF Listed
  <2>2. Listed(k) <=> \E j \in 1 .. Len(l) : l[j] = k
    BY DEF Listed
  <2> HIDE DEF l, fd
  <2>3. CASE ~ToRemove(fd)
    BY <1>3, <2>1, <2>2, <2>3
  <2>4. CASE ToRemove(fd)
    <3>1. /\ l' \in Seq(1 .. Len(poll_fds)) /\ Len(l') = Len(l) + 1
          /\ \A j \in 1 .. Len(l) : l'[j] = l[j]
          /\ l'[Len(l) + 1] = i
      BY <1>3, <2>4
    <3>2. \A j \in 1 .. Len(l) + 1 : j \in 1 .. Len(l) \/ j = Len(l) + 1
      BY <1>2
    <3>3. Len(l) + 1 \in 1 .. Len(l) + 1 /\ \A j \in 1 .. Len(l) : j \in 1 .. Len(l) + 1
      BY <1>2
    <3> QED BY <2>1, <2>2, <2>4, <3>1, <3>2, <3>3
  <2> QED BY <2>3, <2>4
<1>5. ~Listed(i)
  BY <1>2 DEF Listed, LoopInv, ListInv
<1>6. \A k \in 1 .. Len(poll_fds) : k # i => poll_fds[k].fd # fd
  BY <1>2 DEF LoopInv, ListInv
<1>7. /\ \A j \in 1 .. Len(l) : l[j] \in 2 .. Len(poll_fds) /\ l[j] < i
      /\ \A j, k \in 1 .. Len(l) : j < k => l[j] < l[k]
  BY DEF LoopInv, ListInv
<1>8. TypeOK'
  BY <1>1, <1>2, <1>3 DEF LoopInv, TypeOK
<1> HIDE DEF l
<1>9. ListInv'
  <2>1. /\ \A j \in 1 .. Len(l') : l'[j] \in 2 .. Len(poll_fds) /\ l'[j] < i'
        /\ \A j, k \in 1 .. Len(l') : j < k => l'[j] < l'[k]
    <3>1. CASE ~ToRemove(fd)
      BY <1>1, <1>2, <1>3, <1>7, <3>1
    <3>2. CASE ToRemove(fd)
      <4>1. /\ Len(l') = Len(l) + 1
            /\ \A j \in 1 .. Len(l) : l'[j] = l[j]
            /\ l'[Len(l) + 1] = i
        BY <1>3, <3>2
      <4>2. ASSUME NEW j \in 1 .. Len(l')
            PROVE  l'[j] \in 2 .. Len(poll_fds) /\ l'[j] < i'
        <5>1. CASE j = Len(l) + 1
          BY <1>1, <1>2, <4>1, <5>1
        <5>2. CASE j # Len(l) + 1
          BY <1>1, <1>2, <1>7, <4>1, <4>2, <5>2
        <5> QED BY <5>1, <5>2
      <4>3. ASSUME NEW j \in 1 .. Len(l'), NEW k \in 1 .. Len(l'), j < k
            PROVE  l'[j] < l'[k]
        <5>1. j \in 1 .. Len(l)
          BY <1>2, <4>1, <4>3
        <5>2. CASE k = Len(l) + 1
          BY <1>2, <1>7, <4>1, <5>1, <5>2
        <5>3. CASE k # Len(l) + 1
          <6>1. k \in 1 .. Len(l)
            BY <1>2, <4>1, <5>3
          <6> QED BY <1>7, <4>1, <4>3, <5>1, <6>1
        <5> QED BY <5>2, <5>3
      <4> QED BY <4>2, <4>3
    <3> QED BY <3>1, <3>2
  <2> QED BY <1>1, <2>1 DEF LoopInv, ListInv, l
<1>10. OpenInv'
  <2>1. \A k \in 2 .. Len(poll_fds) :
          /\ owner[poll_fds[k].fd] = None => Listed(k)'
          /\ Listed(k)' => message_buffer[poll_fds[k].fd] = <<>> /\ user[poll_fds[k].fd] = None
    <3> TAKE k \in 2 .. Len(poll_fds)
    <3>0. k \in 1 .. Len(poll_fds)
      BY <1>2
    <3>1. owner[poll_fds[k].fd] = None => Listed(k) \/ k = i
      BY DEF LoopInv, OpenInv
    <3>2. owner[fd] = None => ToRemove(fd)
      BY <1>2 DEF LoopInv, OpenInv, FreeFdIsClean, ToRemove
    <3>3. Listed(k) => message_buffer[poll_fds[k].fd] = <<>> /\ user[poll_fds[k].fd] = None
      BY DEF LoopInv, OpenInv
    <3>4. ToRemove(fd) => message_buffer[fd] = <<>> /\ user[fd] = None
      BY DEF ToRemove
    <3>5. k = i => poll_fds[k].fd = fd
      OBVIOUS
    <3> HIDE DEF fd
    <3> QED BY <1>4, <3>0, <3>1, <3>2, <3>3, <3>4, <3>5
  <2> QED BY <1>1, <2>1 DEF LoopInv, OpenInv, FreeFdIsClean, UserIsConnections
<1>11. ClientInv'
  BY <1>1 DEF LoopInv, ClientInv
<1>12. DropInv'
  <2>1. \A d \in Clients : /\ SendsZero(d)' = SendsZero(d) /\ Quitted(d)' = Quitted(d)
                           /\ ZeroAhead(d)' = ZeroAhead(d)
    BY <1>1 DEF SendsZero, Arrived, Quitted, ZeroAhead
  <2>2. \A k \in 2 .. Len(poll_fds) : Justified(k)'
    <3> TAKE k \in 2 .. Len(poll_fds)
    <3> DEFINE c == owner[poll_fds[k].fd]
    <3>0. /\ k \in 1 .. Len(poll_fds) /\ Justified(k)
          /\ poll_fds[k].fd \in Fds /\ c \in Clients \cup {None}
      BY <1>2 DEF LoopInv, DropInv, ListInv, TypeOK
    <3>1. k > i' \/ k = i' => k > i
      BY <1>1, <1>2
    <3>2. ToRemove(fd) /\ k = i => message_buffer[poll_fds[k].fd] = <<>> /\ user[poll_fds[k].fd] = None
      BY DEF ToRemove
    <3>3. c # None /\ Listed(k)' => Quitted(c)
      BY <1>1, <1>4, <3>0, <3>2 DEF Justified
    <3> QED BY <1>1, <2>1, <3>0, <3>1, <3>3 DEF Justified
  <2> QED BY <1>1, <2>1, <2>2 DEF LoopInv, DropInv
<1>13. DropLaw
  BY <1>1 DEF DropLaw
<1> QED BY <1>8, <1>9, <1>10, <1>11, <1>12, <1>13 DEF LoopInv

\* The sweep takes the last entry listed, so those before it stay where they
\* are; what it closes was listed for a reason and is clean.
LEMMA SweepStep ==
    ASSUME LoopInv, Sweep
    PROVE  LoopInv' /\ DropLaw
<1> DEFINE l == indices_to_remove
           n == Len(l)
           k == l[n]
           fd == poll_fds[k].fd
           len == Len(poll_fds)
           was(j) == IF j < k THEN j ELSE j + 1
<1>1. /\ UNCHANGED <<message_buffer, message, user, pc, i>>
      /\ UNCHANGED <<backlog, inbox, peer, sent, executed>>
      /\ pc = "scan" /\ \A j \in i .. len : ~poll_fds[j].in
      /\ l # <<>> /\ l' = RemoveAt(l, n)
      /\ owner' = [owner EXCEPT ![fd] = None]
      /\ poll_fds' = RemoveAt(poll_fds, k)
  BY DEF Sweep, ScanDone, SweepFrom
<1>2. /\ len \in Nat /\ i \in Nat /\ n \in Nat /\ n # 0
      /\ l \in Seq(1 .. len) /\ poll_fds \in Seq(PollFd)
  <2>1. len \in Nat /\ i \in Nat /\ n \in Nat /\ l \in Seq(1 .. len) /\ poll_fds \in Seq(PollFd)
    BY Types DEF LoopInv, TypeOK
  <2>2. n # 0
    BY <1>1, <2>1, EmptySeq
  <2> QED BY <2>1, <2>2
<1>3. /\ k \in 2 .. len /\ k < i
      /\ \A j \in 1 .. n : l[j] \in 2 .. len /\ (j = n \/ l[j] < k)
  <2>1. /\ \A j \in 1 .. n : l[j] \in 2 .. len /\ l[j] < i
        /\ \A j, m \in 1 .. n : j < m => l[j] < l[m]
    BY DEF LoopInv, ListInv
  <2>2. n \in 1 .. n /\ \A j \in 1 .. n : j = n \/ j < n
    BY <1>2
  <2> HIDE DEF l, n, len
  <2> QED BY <2>1, <2>2
<1>4. /\ Len(l') = n - 1 /\ l' \in Seq(1 .. len)
      /\ \A j \in 1 .. n - 1 : l'[j] = l[j] /\ l'[j] \in 2 .. len /\ l'[j] < k
  <2>1. n \in 1 .. n
    BY <1>2
  <2>2. /\ RemoveAt(l, n) \in Seq(1 .. len) /\ Len(RemoveAt(l, n)) = n - 1
        /\ \A j \in 1 .. n - 1 : RemoveAt(l, n)[j] = IF j < n THEN l[j] ELSE l[j + 1]
    BY <1>2, <2>1, Removed
  <2> HIDE DEF l, len
  <2>3. \A j \in 1 .. n - 1 : j < n /\ j \in 1 .. n /\ j # n
    BY <1>2
  <2> HIDE DEF n
  <2> QED BY <1>1, <1>3, <2>2, <2>3
<1>5. /\ poll_fds' \in Seq(PollFd) /\ Len(poll_fds') = len - 1
      /\ \A j \in 1 .. len - 1 : poll_fds'[j] = poll_fds[was(j)]
  <2>1. k \in 1 .. len
    BY <1>2, <1>3
  <2>2. /\ RemoveAt(poll_fds, k) \in Seq(PollFd) /\ Len(RemoveAt(poll_fds, k)) = len - 1
        /\ \A j \in 1 .. len - 1 :
              RemoveAt(poll_fds, k)[j] = IF j < k THEN poll_fds[j] ELSE poll_fds[j + 1]
    BY <1>2, <2>1, Removed
  <2> HIDE DEF k, len
  <2> QED BY <1>1, <2>2
<1> HIDE DEF k, n, len
<1>6. \A j \in 1 .. len - 1 : /\ was(j) \in 1 .. len /\ was(j) # k
                              /\ (j >= 2 => was(j) \in 2 .. len)
                              /\ (j < k => was(j) = j) /\ (j >= k => was(j) = j + 1)
  BY <1>2, <1>3
<1>7. \A j, m \in 1 .. len - 1 : was(j) = was(m) => j = m
  BY <1>2, <1>3
<1>8. \A j \in 1 .. len : j # k => \E m \in 1 .. len - 1 : was(m) = j /\ (j >= 2 => m >= 2)
  <2> TAKE j \in 1 .. len
  <2> HAVE j # k
  <2>1. CASE j < k
    <3>1. j \in 1 .. len - 1 /\ was(j) = j
      BY <1>2, <1>3, <2>1
    <3> QED BY <3>1
  <2>2. CASE j > k
    <3>1. j - 1 \in 1 .. len - 1 /\ was(j - 1) = j /\ j - 1 >= 2
      BY <1>2, <1>3, <2>2
    <3> QED BY <3>1
  <2> QED BY <1>2, <1>3, <2>1, <2>2
<1> HIDE DEF was
<1>9. /\ \A j \in 1 .. len : Listed(j) <=> \E m \in 1 .. n : l[m] = j
      /\ \A j \in 1 .. len - 1 : Listed(j)' <=> \E m \in 1 .. n - 1 : l'[m] = j
  BY <1>4 DEF Listed, n
<1>10. \A j \in 1 .. len - 1 : Listed(j)' <=> Listed(was(j))
  <2> TAKE j \in 1 .. len - 1
  <2>0. j \in 1 .. len /\ was(j) \in 1 .. len
    BY <1>2, <1>6
  <2>1. ASSUME Listed(j)' PROVE Listed(was(j))
    <3>1. PICK m \in 1 .. n - 1 : l'[m] = j
      BY <1>9, <2>1
    <3>2. l[m] = j /\ j < k /\ m \in 1 .. n
      BY <1>2, <1>4, <3>1
    <3> QED BY <1>6, <1>9, <2>0, <3>2
  <2>2. ASSUME Listed(was(j)) PROVE Listed(j)'
    <3>1. PICK m \in 1 .. n : l[m] = was(j)
      BY <1>9, <2>0, <2>2
    <3>2. m # n /\ was(j) < k
      BY <1>3, <1>6, <3>1 DEF k
    <3>3. m \in 1 .. n - 1
      BY <1>2, <3>2
    <3>4. was(j) = j
      BY <1>2, <1>3, <1>6, <3>2
    <3> QED BY <1>4, <1>9, <3>1, <3>3, <3>4
  <2> QED BY <2>1, <2>2
<1>11. Listed(k) /\ k \in 1 .. len /\ n \in 1 .. n
  <2>1. k \in 1 .. len /\ n \in 1 .. n
    BY <1>2, <1>3
  <2> QED BY <1>9, <2>1 DEF k
<1>12. /\ fd \in Fds /\ message_buffer[fd] = <<>> /\ user[fd] = None
       /\ owner[fd] # None => Quitted(owner[fd])
  <2>1. fd \in Fds
    BY <1>3 DEF LoopInv, ListInv, len
  <2>2. message_buffer[fd] = <<>> /\ user[fd] = None
    BY <1>3, <1>11 DEF LoopInv, OpenInv, len
  <2>3. Justified(k)
    BY <1>3 DEF LoopInv, DropInv, len
  <2> QED BY <1>11, <2>1, <2>2, <2>3 DEF Justified
<1>13. \A f \in Fds : owner'[f] = IF f = fd THEN None ELSE owner[f]
  BY <1>1, <1>12 DEF LoopInv, TypeOK
<1>14. \A j \in 1 .. len : j # k => poll_fds[j].fd # fd
  BY <1>11 DEF LoopInv, ListInv, len
<1>15. \A j \in 2 .. len - 1 :
         /\ j \in 1 .. len - 1 /\ poll_fds'[j] = poll_fds[was(j)]
         /\ poll_fds'[j].fd \in Fds /\ poll_fds'[j].fd # fd
         /\ owner'[poll_fds'[j].fd] = owner[poll_fds'[j].fd]
  <2> SUFFICES ASSUME NEW j \in 2 .. len - 1
               PROVE  /\ j \in 1 .. len - 1 /\ poll_fds'[j] = poll_fds[was(j)]
                      /\ poll_fds'[j].fd \in Fds /\ poll_fds'[j].fd # fd
                      /\ owner'[poll_fds'[j].fd] = owner[poll_fds'[j].fd]
    OBVIOUS
  <2>1. j \in 1 .. len - 1 /\ was(j) \in 2 .. len /\ was(j) \in 1 .. len /\ was(j) # k
    BY <1>2, <1>6
  <2>2. poll_fds[was(j)].fd \in Fds /\ poll_fds[was(j)].fd # fd
    BY <1>14, <2>1 DEF LoopInv, ListInv, len
  <2>3. poll_fds'[j] = poll_fds[was(j)]
    BY <1>5, <2>1
  <2> HIDE DEF fd
  <2> QED BY <1>13, <2>1, <2>2, <2>3
<1> HIDE DEF fd
<1>16. TypeOK'
  <2>1. l' \in Seq(1 .. len - 1)
    <3>1. l' \in [1 .. n - 1 -> 1 .. len]
      BY <1>4, LenProperties
    <3>2. \A j \in 1 .. n - 1 : l'[j] \in 1 .. len - 1
      BY <1>2, <1>3, <1>4
    <3>3. l' \in [1 .. n - 1 -> 1 .. len - 1]
      BY <3>1, <3>2
    <3>4. n - 1 \in Nat
      BY <1>2
    <3> QED BY <3>3, <3>4, SeqDef
  <2>2. owner' \in [Fds -> Clients \cup {None}]
    BY <1>1 DEF LoopInv, TypeOK
  <2>3. poll_fds' \in Seq([fd : Fds \cup {ServerFd}, in : BOOLEAN])
    BY <1>5 DEF PollFd
  <2>4. indices_to_remove' \in Seq(1 .. Len(poll_fds'))
    BY <1>5, <2>1
  <2> HIDE DEF l
  <2> QED BY <1>1, <2>2, <2>3, <2>4 DEF LoopInv, TypeOK
<1>17. ListInv'
  <2>1. poll_fds'[1].fd = ServerFd /\ len - 1 >= 1
    <3>1. 1 \in 1 .. len - 1 /\ 1 < k /\ len - 1 >= 1
      BY <1>2, <1>3
    <3> QED BY <1>5, <1>6, <3>1 DEF LoopInv, ListInv
  <2>2. \A j, m \in 1 .. len - 1 : poll_fds'[j].fd = poll_fds'[m].fd => j = m
    <3>1. \A j, m \in 1 .. len : poll_fds[j].fd = poll_fds[m].fd => j = m
      BY DEF LoopInv, ListInv, len
    <3> QED BY <1>5, <1>6, <1>7, <3>1
  <2>3. \A j \in 1 .. n - 1 : l'[j] \in 2 .. len - 1 /\ l'[j] < i
    BY <1>2, <1>3, <1>4
  <2>4. \A j, m \in 1 .. n - 1 : j < m => l'[j] < l'[m]
    <3>1. \A j, m \in 1 .. n : j < m => l[j] < l[m]
      BY DEF LoopInv, ListInv, n
    <3>2. \A j \in 1 .. n - 1 : j \in 1 .. n /\ l'[j] = l[j]
      BY <1>2, <1>4
    <3> HIDE DEF l
    <3> QED BY <3>1, <3>2
  <2>5. \A j \in 2 .. len - 1 : poll_fds'[j].fd \in Fds
    BY <1>15
  <2> QED BY <1>1, <1>4, <1>5, <2>1, <2>2, <2>3, <2>4, <2>5 DEF ListInv
<1>18. OpenInv'
  <2>1. \A f \in Fds : owner'[f] # None => \E j \in 2 .. len - 1 : poll_fds'[j].fd = f
    <3> SUFFICES ASSUME NEW f \in Fds, owner'[f] # None
                 PROVE  \E j \in 2 .. len - 1 : poll_fds'[j].fd = f
      OBVIOUS
    <3>1. f # fd /\ owner[f] # None
      BY <1>13
    <3>2. PICK j \in 2 .. len : poll_fds[j].fd = f
      BY <3>1 DEF LoopInv, OpenInv, len
    <3>3. j # k /\ j \in 1 .. len /\ j >= 2
      BY <1>2, <3>1, <3>2 DEF fd
    <3>4. PICK m \in 1 .. len - 1 : was(m) = j /\ m >= 2
      BY <1>8, <3>3
    <3>5. m \in 2 .. len - 1
      BY <1>2, <3>4
    <3> QED BY <1>5, <3>2, <3>4, <3>5
  <2>2. \A j \in 2 .. len - 1 :
          /\ owner'[poll_fds'[j].fd] = None => Listed(j)'
          /\ Listed(j)' => message_buffer[poll_fds'[j].fd] = <<>> /\ user[poll_fds'[j].fd] = None
    <3> TAKE j \in 2 .. len - 1
    <3>1. j \in 1 .. len - 1 /\ was(j) \in 2 .. len
      BY <1>2, <1>6
    <3>2. /\ owner[poll_fds[was(j)].fd] = None => Listed(was(j))
          /\ Listed(was(j)) => message_buffer[poll_fds[was(j)].fd] = <<>> /\ user[poll_fds[was(j)].fd] = None
      BY <1>1, <3>1 DEF LoopInv, OpenInv, len
    <3> QED BY <1>10, <1>15, <3>1, <3>2
  <2>3. FreeFdIsClean'
    BY <1>1, <1>12, <1>13 DEF LoopInv, OpenInv, FreeFdIsClean
  <2>4. UserIsConnections'
    BY <1>1, <1>12, <1>13 DEF LoopInv, OpenInv, UserIsConnections
  <2> QED BY <1>1, <1>5, <2>1, <2>2, <2>3, <2>4 DEF OpenInv
<1>19. ClientInv'
  <2>1. \A f \in Fds : owner'[f] = owner[f] \/ owner'[f] = None
    BY <1>13
  <2>2. None \notin backlog /\ None \notin Clients
    BY SocketServerConstants DEF LoopInv, TypeOK
  <2> QED BY <1>1, <2>1, <2>2 DEF LoopInv, ClientInv
<1>20. DropInv'
  <2>1. \A d \in Clients : /\ SendsZero(d)' = SendsZero(d) /\ Quitted(d)' = Quitted(d)
                           /\ ZeroAhead(d)' = ZeroAhead(d)
    BY <1>1 DEF SendsZero, Arrived, Quitted, ZeroAhead
  <2>2. \A j \in 2 .. len - 1 : Justified(j)'
    <3> TAKE j \in 2 .. len - 1
    <3> DEFINE c == owner[poll_fds'[j].fd]
    <3>1. /\ j \in 1 .. len - 1 /\ was(j) \in 2 .. len /\ Justified(was(j))
          /\ poll_fds'[j] = poll_fds[was(j)] /\ owner'[poll_fds'[j].fd] = c
      <4>1. j \in 1 .. len - 1 /\ was(j) \in 2 .. len
        BY <1>2, <1>6
      <4> QED BY <1>15, <4>1 DEF LoopInv, DropInv, len
    <3>2. j > i \/ j = i => ~poll_fds'[j].in
      <4> SUFFICES ASSUME j > i \/ j = i PROVE ~poll_fds'[j].in
        OBVIOUS
      <4>1. was(j) \in i .. len
        BY <1>2, <1>3, <1>6, <3>1
      <4> QED BY <1>1, <3>1, <4>1
    <3>3. c \in Clients \cup {None}
      BY <1>15 DEF LoopInv, TypeOK
    <3>4. c # None /\ Listed(j)' => Quitted(c)
      BY <1>10, <3>1 DEF Justified
    <3> QED BY <1>1, <2>1, <3>1, <3>2, <3>3, <3>4 DEF Justified
  <2> QED BY <1>1, <1>5, <2>1, <2>2 DEF LoopInv, DropInv
<1>21. DropLaw
  BY <1>12, <1>13 DEF DropLaw
<1> QED BY <1>16, <1>17, <1>18, <1>19, <1>20, <1>21 DEF LoopInv

LEMMA LoopStutter ==
    ASSUME LoopInv, UNCHANGED vars
    PROVE  LoopInv' /\ DropLaw
<1>1. /\ UNCHANGED <<poll_fds, message_buffer, message, indices_to_remove, user, pc, i>>
      /\ UNCHANGED <<owner, backlog, inbox, peer, sent, executed>>
  BY DEF vars, serverVars
<1>2. TypeOK' /\ ListInv'
  BY <1>1 DEF LoopInv, TypeOK, ListInv
<1>3. OpenInv'
  BY <1>1 DEF LoopInv, OpenInv, FreeFdIsClean, UserIsConnections, Listed
<1>4. ClientInv'
  BY <1>1 DEF LoopInv, ClientInv
<1>5. DropInv'
  BY <1>1 DEF LoopInv, DropInv, Justified, Listed, Quitted, ZeroAhead, SendsZero, Arrived
<1>6. DropLaw
  BY <1>1 DEF DropLaw
<1> QED BY <1>2, <1>3, <1>4, <1>5, <1>6 DEF LoopInv

LEMMA LoopNext == LoopInv /\ [Next]_vars => LoopInv' /\ DropLaw
<1> SUFFICES ASSUME LoopInv, [Next]_vars PROVE LoopInv' /\ DropLaw
  OBVIOUS
<1>1. CASE Poll
  BY <1>1, PollStep
<1>2. CASE HandleNewConnection
  BY <1>2, HandleNewConnectionStep
<1>3. CASE Receive
  BY <1>3, ReceiveStep
<1>4. CASE ExecuteLine
  BY <1>4, ExecuteLineStep
<1>5. CASE EndOfLines
  BY <1>5, EndOfLinesStep
<1>6. CASE Sweep
  BY <1>6, SweepStep
<1>7. ASSUME NEW c \in Clients, Connect(c) \/ SendByte(c) \/ HangUp(c)
      PROVE  LoopInv' /\ DropLaw
  BY <1>7, ConnectStep, SendByteStep, HangUpStep
<1>8. CASE UNCHANGED vars
  BY <1>8, LoopStutter
<1> QED BY <1>1, <1>2, <1>3, <1>4, <1>5, <1>6, <1>7, <1>8 DEF Next, ServerStep

LEMMA LoopAlways == Spec => []LoopInv
<1>1. LoopInv /\ [Next]_vars => LoopInv'
  BY LoopNext
<1> QED BY <1>1, LoopInit, PTL DEF Spec

-----------------------------------------------------------------------------

\* Every variable keeps its type; the sweep never names an index that is not
\* in the poll list.
THEOREM LoopTyped == Spec => []TypeOK
<1>1. LoopInv => TypeOK
  BY DEF LoopInv
<1> QED BY <1>1, LoopAlways, PTL

\* A descriptor accept may return carries nothing of its last connection.
THEOREM FreeDescriptorsClean == Spec => []FreeFdIsClean
<1>1. LoopInv => FreeFdIsClean
  BY DEF LoopInv, OpenInv
<1> QED BY <1>1, LoopAlways, PTL

\* The user behind a descriptor was made by the connection that has it.
THEOREM UsersAreTheirConnections == Spec => []UserIsConnections
<1>1. LoopInv => UserIsConnections
  BY DEF LoopInv, OpenInv
<1> QED BY <1>1, LoopAlways, PTL

\* The vector given to poll has no descriptor twice, and before each call of
\* poll it has the listening socket and the open connections, no more.
THEOREM PollListIsExact == Spec => []PollListExact
<1>1. LoopInv => PollListExact
  <2> SUFFICES ASSUME LoopInv PROVE PollListExact
    OBVIOUS
  <2>1. /\ DOMAIN poll_fds = 1 .. Len(poll_fds) /\ Len(poll_fds) \in Nat
    BY Types DEF LoopInv
  <2>2. \A j, k \in DOMAIN poll_fds : poll_fds[j].fd = poll_fds[k].fd => j = k
    BY <2>1 DEF LoopInv, ListInv
  <2>3. ASSUME Idle
        PROVE  {poll_fds[k].fd : k \in DOMAIN poll_fds} = {ServerFd} \cup {fd \in Fds : owner[fd] # None}
    <3>1. pc = "scan" /\ Len(indices_to_remove) = 0
      BY <2>3 DEF Idle, ScanDone
    <3>2. \A k \in 2 .. Len(poll_fds) : poll_fds[k].fd \in Fds /\ owner[poll_fds[k].fd] # None
      BY <3>1 DEF LoopInv, ListInv, OpenInv, Listed
    <3>3. \A fd \in Fds : owner[fd] # None => \E k \in 2 .. Len(poll_fds) : poll_fds[k].fd = fd
      BY DEF LoopInv, OpenInv
    <3>4. poll_fds[1].fd = ServerFd /\ 1 \in 1 .. Len(poll_fds)
      BY <2>1 DEF LoopInv, ListInv
    <3>5. \A k \in 1 .. Len(poll_fds) : k = 1 \/ k \in 2 .. Len(poll_fds)
      BY <2>1
    <3>6. \A k \in 2 .. Len(poll_fds) : k \in 1 .. Len(poll_fds)
      BY <2>1
    <3> QED BY <2>1, <3>2, <3>3, <3>4, <3>5, <3>6
  <2> QED BY <2>2, <2>3 DEF PollListExact
<1> QED BY <1>1, LoopAlways, PTL

\* The connection of a client that is still there is closed only after its
\* QUIT or empty line, or when a zero byte of its own hid a whole message.
THEOREM DroppedForAReason == Spec => DroppedOnlyAfterQuit
<1> DEFINE Step == \A fd \in Fds :
              LET c == owner[fd]
              IN  c # None /\ owner'[fd] # c /\ peer[c] = "up" =>
                    \/ executed[c] # <<>> /\ Last(executed[c]) \in {<<"quit">>, <<>>}
                    \/ SendsZero(c)
<1>1. LoopInv /\ [Next]_vars => [Step]_vars
  BY LoopNext DEF DropLaw, Quitted
<1>2. DroppedOnlyAfterQuit <=> [][Step]_vars
  BY DEF DroppedOnlyAfterQuit
<1> HIDE DEF Step
<1>3. Spec => [][Step]_vars
  BY <1>1, LoopAlways, PTL DEF Spec
<1> QED BY <1>2, <1>3

-----------------------------------------------------------------------------
(* The lines of a stream.  LinesOf numbers the newlines by counting; here    *)
(* they are a set N of positions, and the n-th is the one of rank n.         *)

Rank(N, k) == Cardinality({j \in N : j <= k})
Nth(N, n) == CHOOSE k \in N : Rank(N, k) = n
Indexed(N) == \A n \in 1 .. Cardinality(N) : \E k \in N : Rank(N, k) = n

\* No two positions have the same rank.
LEMMA RankIs ==
    ASSUME NEW N \in SUBSET Nat, IsFiniteSet(N)
    PROVE  /\ \A k \in N : Rank(N, k) \in Nat
           /\ \A j, k \in N : Rank(N, j) = Rank(N, k) => j = k
<1> DEFINE upTo(k) == {j \in N : j <= k}
<1>1. \A k \in N : upTo(k) \in SUBSET N /\ IsFiniteSet(upTo(k)) /\ Cardinality(upTo(k)) \in Nat
  <2> TAKE k \in N
  <2>1. upTo(k) \in SUBSET N
    OBVIOUS
  <2> HIDE DEF upTo
  <2>2. IsFiniteSet(upTo(k))
    BY <2>1, FS_Subset
  <2> QED BY <2>1, <2>2, FS_CardinalityType
<1>2. ASSUME NEW j \in N, NEW k \in N, j < k, Cardinality(upTo(j)) = Cardinality(upTo(k))
      PROVE  FALSE
  <2>0. j \in Nat /\ k \in Nat /\ \A x \in N : x \in Nat /\ (x <= j => x <= k)
    BY <1>2
  <2>1. upTo(j) \in SUBSET upTo(k) /\ k \in upTo(k) /\ k \notin upTo(j)
    <3>1. upTo(j) \subseteq upTo(k)
      BY <2>0
    <3>2. k <= k /\ ~(k <= j)
      BY <1>2, <2>0
    <3> QED BY <3>1, <3>2
  <2> HIDE DEF upTo
  <2>2. upTo(j) = upTo(k)
    BY <1>1, <1>2, <2>1, FS_Subset
  <2> QED BY <2>1, <2>2
<1>3. \A j, k \in N : Cardinality(upTo(j)) = Cardinality(upTo(k)) => j = k
  <2> SUFFICES ASSUME NEW j \in N, NEW k \in N, Cardinality(upTo(j)) = Cardinality(upTo(k)), j # k
               PROVE  FALSE
    OBVIOUS
  <2>1. j < k \/ k < j
    OBVIOUS
  <2> HIDE DEF upTo
  <2> QED BY <1>2, <2>1
<1> QED BY <1>1, <1>3 DEF Rank

LEMMA NthIs ==
    ASSUME NEW N \in SUBSET Nat, IsFiniteSet(N), Indexed(N), NEW n \in 1 .. Cardinality(N)
    PROVE  /\ Nth(N, n) \in N
           /\ \A k \in N : Rank(N, k) = n => Nth(N, n) = k
<1>1. \E k \in N : Rank(N, k) = n
  BY DEF Indexed
<1>2. Nth(N, n) \in N /\ Rank(N, Nth(N, n)) = n
  BY <1>1 DEF Nth
<1>3. \A j, k \in N : Rank(N, j) = Rank(N, k) => j = k
  BY RankIs
<1> QED BY <1>2, <1>3

\* A position behind all the others takes the next number.
LEMMA OneMore ==
    ASSUME NEW N \in SUBSET Nat, IsFiniteSet(N), Indexed(N),
           NEW e \in Nat, \A k \in N : k < e
    PROVE  /\ IsFiniteSet(N \cup {e}) /\ Cardinality(N) \in Nat
           /\ Cardinality(N \cup {e}) = Cardinality(N) + 1
           /\ Indexed(N \cup {e})
           /\ \A n \in 1 .. Cardinality(N) : Nth(N \cup {e}, n) = Nth(N, n)
           /\ Nth(N \cup {e}, Cardinality(N) + 1) = e
<1> DEFINE M == N \cup {e}
           m == Cardinality(N)
<1>1. e \notin N /\ M \in SUBSET Nat /\ e \in M /\ N \subseteq M
  OBVIOUS
<1>2. IsFiniteSet(M) /\ m \in Nat /\ Cardinality(M) = m + 1
  BY <1>1, FS_AddElement, FS_CardinalityType
<1>3. \A k \in N : Rank(M, k) = Rank(N, k)
  <2> TAKE k \in N
  <2>1. {j \in M : j <= k} = {j \in N : j <= k}
    OBVIOUS
  <2> QED BY <2>1 DEF Rank
<1>4. Rank(M, e) = m + 1
  <2>1. {j \in M : j <= e} = M
    <3>1. \A j \in M : j <= e
      OBVIOUS
    <3> HIDE DEF M
    <3> QED BY <3>1
  <2> QED BY <1>2, <2>1 DEF Rank
<1> HIDE DEF M, m
<1>5. \A n \in 1 .. m : \E k \in N : Rank(N, k) = n
  BY DEF Indexed, m
<1>6. Indexed(M)
  <2> SUFFICES ASSUME NEW n \in 1 .. m + 1 PROVE \E k \in M : Rank(M, k) = n
    BY <1>2 DEF Indexed
  <2>1. CASE n \in 1 .. m
    BY <1>1, <1>3, <1>5, <2>1
  <2>2. CASE n = m + 1
    BY <1>1, <1>4, <2>2
  <2> QED BY <1>2, <2>1, <2>2
<1>7. \A n \in 1 .. m : Nth(M, n) = Nth(N, n)
  <2> TAKE n \in 1 .. m
  <2>1. PICK k \in N : Rank(N, k) = n
    BY <1>5
  <2>2. n \in 1 .. Cardinality(M) /\ n \in 1 .. Cardinality(N)
    BY <1>2 DEF m
  <2>3. Nth(N, n) = k
    BY <2>1, <2>2, NthIs
  <2>4. k \in M /\ Rank(M, k) = n
    BY <1>1, <1>3, <2>1
  <2>5. Nth(M, n) = k
    BY <1>1, <1>2, <1>6, <2>2, <2>4, NthIs
  <2> QED BY <2>3, <2>5
<1>8. Nth(M, m + 1) = e
  <2>1. m + 1 \in 1 .. Cardinality(M)
    BY <1>2
  <2> QED BY <1>1, <1>2, <1>4, <1>6, <2>1, NthIs
<1> QED BY <1>2, <1>6, <1>7, <1>8 DEF M, m

\* The last of them has the number of all.
LEMMA LastOne ==
    ASSUME NEW N \in SUBSET Nat, IsFiniteSet(N), Indexed(N), NEW b \in N, \A k \in N : k <= b
    PROVE  Cardinality(N) \in Nat /\ Cardinality(N) >= 1 /\ Nth(N, Cardinality(N)) = b
<1>1. Cardinality(N) \in Nat /\ Cardinality(N) # 0
  BY FS_CardinalityType, FS_EmptySet
<1>2. {j \in N : j <= b} = N
  OBVIOUS
<1>3. Rank(N, b) = Cardinality(N)
  BY <1>2 DEF Rank
<1>4. Cardinality(N) \in 1 .. Cardinality(N)
  BY <1>1
<1> QED BY <1>1, <1>3, <1>4, NthIs

NewlinesTo(s, b) == {k \in 1 .. b : s[k] = "nl"}
LinesTo(s, b) == LinesOf(SubSeq(s, 1, b))
StartOf(N, n) == IF n = 1 THEN 1 ELSE Nth(N, n - 1) + 1

LEMMA NewlinesFinite ==
    ASSUME NEW s, NEW b \in Nat
    PROVE  NewlinesTo(s, b) \in SUBSET Nat /\ IsFiniteSet(NewlinesTo(s, b))
<1>1. IsFiniteSet(1 .. b)
  BY FS_Interval
<1>2. NewlinesTo(s, b) \in SUBSET (1 .. b)
  BY DEF NewlinesTo
<1> QED BY <1>1, <1>2, FS_Subset

\* A part of a prefix is a part of the whole.
LEMMA PartOfPrefix ==
    ASSUME NEW S, NEW s \in Seq(S), NEW b \in 0 .. Len(s), NEW x \in Nat, x >= 1, NEW y \in Nat, y <= b
    PROVE  /\ SubSeq(SubSeq(s, 1, b), x, y) = SubSeq(s, x, y)
           /\ SubSeq(s, x, y) \in Seq(S)
<1> DEFINE p == SubSeq(s, 1, b)
<1>1. Len(s) \in Nat /\ b \in Nat /\ b <= Len(s)
  BY LenProperties
<1>2. p \in Seq(S) /\ \A k \in 1 .. b : p[k] = s[k]
  BY Cut
<1>3. \A k \in x .. y : k \in 1 .. b /\ k \in 1 .. Len(s)
  BY <1>1
<1>4. \A k \in x .. y : p[k] = s[k] /\ s[k] \in S /\ p[k] \in S
  BY <1>2, <1>3, ElementOfSeq
<1> HIDE DEF p
<1>5. /\ SubSeq(p, x, y) \in Seq(S) /\ Len(SubSeq(p, x, y)) = IF x <= y THEN y - x + 1 ELSE 0
      /\ \A k \in 1 .. y - x + 1 : SubSeq(p, x, y)[k] = p[x + k - 1]
  BY <1>4, SubSeqProperties
<1>6. /\ SubSeq(s, x, y) \in Seq(S) /\ Len(SubSeq(s, x, y)) = IF x <= y THEN y - x + 1 ELSE 0
      /\ \A k \in 1 .. y - x + 1 : SubSeq(s, x, y)[k] = s[x + k - 1]
  BY <1>4, SubSeqProperties
<1> DEFINE q == SubSeq(p, x, y)
           r == SubSeq(s, x, y)
<1> HIDE DEF q, r
<1>7. \A k \in 1 .. Len(q) : q[k] = r[k]
  <2> TAKE k \in 1 .. Len(q)
  <2>1. k \in 1 .. y - x + 1 /\ x + k - 1 \in x .. y
    BY <1>5 DEF q
  <2> QED BY <1>4, <1>5, <1>6, <2>1 DEF q, r
<1>8. q = r
  <2>1. q \in Seq(S) /\ r \in Seq(S) /\ Len(q) = Len(r)
    BY <1>5, <1>6 DEF q, r
  <2> QED BY <1>7, <2>1, SeqEqual
<1> QED BY <1>6, <1>8 DEF p, q, r

LEMMA WithoutCRType ==
    ASSUME NEW s \in Seq(Bytes)
    PROVE  WithoutCR(s) \in Seq(Bytes) /\ StripCR(s) = WithoutCR(s)
<1>1. Len(s) \in Nat /\ DOMAIN s = 1 .. Len(s) /\ (s = <<>> <=> Len(s) = 0)
  BY LenProperties, EmptySeq
<1>2. CASE s = <<>>
  <2>1. ~(\E k \in DOMAIN s : k = Len(s) /\ s[k] = "cr")
    BY <1>1, <1>2
  <2> QED BY <1>2, <2>1 DEF WithoutCR, StripCR
<1>3. CASE s # <<>>
  <2>1. Len(s) \in DOMAIN s
    BY <1>1, <1>3
  <2>2. (\E k \in DOMAIN s : k = Len(s) /\ s[k] = "cr") <=> s[Len(s)] = "cr"
    BY <2>1
  <2>3. StripCR(s) = WithoutCR(s)
    BY <1>3, <2>2 DEF StripCR, WithoutCR, Last, Front
  <2> QED BY <2>3, StripCRType
<1> QED BY <1>2, <1>3

\* LinesOf of a prefix, without the prefix.
LEMMA LinesToIs ==
    ASSUME NEW s \in Seq(Bytes), NEW b \in 0 .. Len(s), Indexed(NewlinesTo(s, b))
    PROVE  LET N == NewlinesTo(s, b)
           IN  /\ Newlines(SubSeq(s, 1, b)) = N
               /\ LinesTo(s, b) = [n \in 1 .. Cardinality(N) |->
                                      WithoutCR(SubSeq(s, StartOf(N, n), Nth(N, n) - 1))]
               /\ LinesTo(s, b) \in Seq(Seq(Bytes)) /\ Len(LinesTo(s, b)) = Cardinality(N)
               /\ \A n \in 1 .. Cardinality(N) : /\ Nth(N, n) \in 1 .. b /\ StartOf(N, n) \in 1 .. b + 1
<1> DEFINE N == NewlinesTo(s, b)
           p == SubSeq(s, 1, b)
           m == Cardinality(N)
           line(n) == WithoutCR(SubSeq(s, StartOf(N, n), Nth(N, n) - 1))
<1>1. Len(s) \in Nat /\ b \in Nat /\ b <= Len(s)
  BY LenProperties
<1>2. p \in Seq(Bytes) /\ Len(p) = b /\ DOMAIN p = 1 .. b /\ \A k \in 1 .. b : p[k] = s[k]
  <2>1. p \in Seq(Bytes) /\ Len(p) = b /\ \A k \in 1 .. b : p[k] = s[k]
    BY Cut
  <2> QED BY <2>1, LenProperties
<1> HIDE DEF p
<1>3. Newlines(p) = N
  BY <1>2 DEF Newlines, NewlinesTo
<1>4. N \in SUBSET Nat /\ IsFiniteSet(N) /\ m \in Nat /\ N \subseteq 1 .. b
  BY <1>1, NewlinesFinite, FS_CardinalityType DEF NewlinesTo
<1>5. Indexed(N)
  OBVIOUS
<1> HIDE DEF N
<1>6. \A n : NthNewline(p, n) = Nth(N, n) /\ LineStart(p, n) = StartOf(N, n)
  BY <1>3 DEF NthNewline, LineStart, Nth, Rank, StartOf
<1>7. \A n \in 1 .. m : Nth(N, n) \in 1 .. b
  BY <1>4, <1>5, NthIs
<1>8. \A n \in 1 .. m : StartOf(N, n) \in 1 .. b + 1
  <2> TAKE n \in 1 .. m
  <2>1. CASE n = 1
    BY <1>1, <2>1 DEF StartOf
  <2>2. CASE n # 1
    <3>1. n - 1 \in 1 .. m
      BY <1>4, <2>2
    <3>2. Nth(N, n - 1) \in 1 .. b
      BY <1>7, <3>1
    <3> QED BY <1>1, <2>2, <3>2 DEF StartOf
  <2> QED BY <2>1, <2>2
<1>9. \A n \in 1 .. m : /\ SubSeq(p, StartOf(N, n), Nth(N, n) - 1) = SubSeq(s, StartOf(N, n), Nth(N, n) - 1)
                        /\ line(n) \in Seq(Bytes)
  <2> TAKE n \in 1 .. m
  <2> DEFINE x == StartOf(N, n)
             y == Nth(N, n) - 1
  <2>1. x \in Nat /\ x >= 1 /\ y \in Nat /\ y <= b
    BY <1>1, <1>7, <1>8
  <2> HIDE DEF x, y
  <2>2. SubSeq(p, x, y) = SubSeq(s, x, y) /\ SubSeq(s, x, y) \in Seq(Bytes)
    BY <2>1, PartOfPrefix DEF p
  <2> QED BY <2>2, WithoutCRType DEF x, y
<1>10. LinesTo(s, b) = [n \in 1 .. m |-> line(n)]
  <2>1. LinesOf(p) = [n \in 1 .. m |-> WithoutCR(SubSeq(p, StartOf(N, n), Nth(N, n) - 1))]
    BY <1>3, <1>6 DEF LinesOf
  <2> HIDE DEF m
  <2>2. LinesOf(p) = [n \in 1 .. m |-> line(n)]
    BY <1>9, <2>1
  <2> QED BY <2>2 DEF LinesTo, p
<1>11. LinesTo(s, b) \in Seq(Seq(Bytes)) /\ Len(LinesTo(s, b)) = m
  <2> HIDE DEF line, m
  <2>1. LinesTo(s, b) \in [1 .. m -> Seq(Bytes)]
    BY <1>9, <1>10
  <2>2. LinesTo(s, b) \in Seq(Seq(Bytes))
    BY <1>4, <2>1, SeqDef
  <2> QED BY <1>4, <2>1, <2>2, LenProperties
<1> QED BY <1>3, <1>7, <1>8, <1>10, <1>11 DEF N, p

\* A newline more is a line more: what lies behind the newline before it.
LEMMA NextLine ==
    ASSUME NEW s \in Seq(Bytes), NEW b \in 0 .. Len(s), NEW e \in 1 .. Len(s), b < e,
           b = 0 \/ s[b] = "nl", s[e] = "nl", \A k \in 1 .. Len(s) : b < k /\ k < e => s[k] # "nl",
           Indexed(NewlinesTo(s, b))
    PROVE  /\ Indexed(NewlinesTo(s, e))
           /\ LinesTo(s, e) = Append(LinesTo(s, b), WithoutCR(SubSeq(s, b + 1, e - 1)))
<1> DEFINE N == NewlinesTo(s, b)
           M == NewlinesTo(s, e)
           m == Cardinality(N)
           last == WithoutCR(SubSeq(s, b + 1, e - 1))
           A == LinesTo(s, b)
           B == LinesTo(s, e)
<1>1. Len(s) \in Nat /\ b \in Nat /\ e \in Nat /\ e <= Len(s) /\ e \in 0 .. Len(s)
  BY LenProperties
<1>2. M = N \cup {e} /\ \A k \in N : k < e
  BY <1>1 DEF NewlinesTo
<1>3. N \in SUBSET Nat /\ IsFiniteSet(N) /\ Indexed(N)
  BY <1>1, NewlinesFinite
<1>4. /\ IsFiniteSet(M) /\ m \in Nat /\ Cardinality(M) = m + 1 /\ Indexed(M)
      /\ \A n \in 1 .. m : Nth(M, n) = Nth(N, n)
      /\ Nth(M, m + 1) = e
  <2> HIDE DEF N, M
  <2> QED BY <1>1, <1>2, <1>3, OneMore
<1>5. (b = 0 => m = 0) /\ (b # 0 => m >= 1 /\ Nth(N, m) = b)
  <2>1. CASE b = 0
    <3>1. N = {}
      BY <2>1 DEF NewlinesTo
    <3> QED BY <2>1, <3>1, FS_EmptySet
  <2>2. CASE b # 0
    <3>1. b \in N /\ \A k \in N : k <= b
      BY <1>1, <2>2 DEF NewlinesTo
    <3> HIDE DEF N
    <3> QED BY <1>3, <2>2, <3>1, LastOne
  <2> QED BY <2>1, <2>2
<1>6. /\ A = [n \in 1 .. m |-> WithoutCR(SubSeq(s, StartOf(N, n), Nth(N, n) - 1))]
      /\ A \in Seq(Seq(Bytes)) /\ Len(A) = m
  BY <1>3, LinesToIs
<1>7. /\ B = [n \in 1 .. m + 1 |-> WithoutCR(SubSeq(s, StartOf(M, n), Nth(M, n) - 1))]
      /\ B \in Seq(Seq(Bytes)) /\ Len(B) = m + 1
  BY <1>1, <1>4, LinesToIs
<1> HIDE DEF N, M, m, A, B
<1>8. StartOf(M, m + 1) = b + 1
  <2>1. CASE b = 0
    BY <1>1, <1>4, <1>5, <2>1 DEF StartOf
  <2>2. CASE b # 0
    <3>1. m \in 1 .. m /\ m + 1 # 1 /\ (m + 1) - 1 = m
      BY <1>4, <1>5, <2>2
    <3>2. Nth(M, m) = b
      BY <1>4, <1>5, <2>2, <3>1
    <3> QED BY <3>1, <3>2 DEF StartOf
  <2> QED BY <2>1, <2>2
<1>9. \A n \in 1 .. m : StartOf(M, n) = StartOf(N, n)
  <2> TAKE n \in 1 .. m
  <2>1. n # 1 => n - 1 \in 1 .. m
    BY <1>4
  <2> QED BY <1>4, <2>1 DEF StartOf
<1>10. m + 1 \in 1 .. m + 1 /\ \A n \in 1 .. m : n \in 1 .. m + 1
  BY <1>4
<1>11. B[m + 1] = last
  BY <1>4, <1>7, <1>8, <1>10
<1>12. \A n \in 1 .. m : B[n] = A[n]
  BY <1>4, <1>6, <1>7, <1>9, <1>10
<1>13. last \in Seq(Bytes)
  <2>1. b + 1 \in Nat /\ b + 1 >= 1 /\ e - 1 \in Nat /\ e - 1 <= e
    BY <1>1
  <2>2. SubSeq(s, b + 1, e - 1) \in Seq(Bytes)
    BY <1>1, <2>1, PartOfPrefix
  <2> QED BY <2>2, WithoutCRType
<1> HIDE DEF last
<1>14. /\ Append(A, last) \in Seq(Seq(Bytes)) /\ Len(Append(A, last)) = m + 1
       /\ \A n \in 1 .. m : Append(A, last)[n] = A[n]
       /\ Append(A, last)[m + 1] = last
  <2>1. /\ Append(A, last) \in Seq(Seq(Bytes)) /\ Len(Append(A, last)) = Len(A) + 1
        /\ \A n \in 1 .. Len(A) : Append(A, last)[n] = A[n]
        /\ Append(A, last)[Len(A) + 1] = last
    <3>1. A \in Seq(Seq(Bytes))
      BY <1>6
    <3> QED BY <1>13, <3>1, AppendProperties
  <2>2. Len(A) = m
    BY <1>6
  <2> QED BY <2>1, <2>2
<1>15. \A n \in 1 .. m + 1 : B[n] = Append(A, last)[n]
  <2> TAKE n \in 1 .. m + 1
  <2>1. n \in 1 .. m \/ n = m + 1
    BY <1>4
  <2> QED BY <1>11, <1>12, <1>14, <2>1
<1>16. B = Append(A, last)
  BY <1>7, <1>14, <1>15, SeqEqual
<1> QED BY <1>4, <1>16 DEF M, A, B, last

\* Without a newline behind position b, the lines end there.
LEMMA NoMoreLines ==
    ASSUME NEW s \in Seq(Bytes), NEW b \in 0 .. Len(s), NEW t \in b .. Len(s),
           b = 0 \/ s[b] = "nl", \A k \in 1 .. t : b < k => s[k] # "nl",
           Indexed(NewlinesTo(s, b))
    PROVE  /\ LinesOf(SubSeq(s, 1, t)) = LinesTo(s, b)
           /\ RestOf(SubSeq(s, 1, t)) = SubSeq(s, b + 1, t)
<1> DEFINE N == NewlinesTo(s, b)
           m == Cardinality(N)
           p == SubSeq(s, 1, t)
<1>1. Len(s) \in Nat /\ b \in Nat /\ t \in Nat /\ b <= t /\ t <= Len(s) /\ t \in 0 .. Len(s)
  BY LenProperties
<1>2. NewlinesTo(s, t) = N
  BY <1>1 DEF NewlinesTo
<1>3. N \in SUBSET Nat /\ IsFiniteSet(N) /\ Indexed(N) /\ m \in Nat
  BY <1>1, NewlinesFinite, FS_CardinalityType
<1>4. /\ Newlines(p) = N
      /\ LinesTo(s, t) = [n \in 1 .. m |-> WithoutCR(SubSeq(s, StartOf(N, n), Nth(N, n) - 1))]
  BY <1>1, <1>2, <1>3, LinesToIs
<1>5. LinesTo(s, b) = [n \in 1 .. m |-> WithoutCR(SubSeq(s, StartOf(N, n), Nth(N, n) - 1))]
  BY <1>3, LinesToIs
<1>6. LinesOf(p) = LinesTo(s, b)
  BY <1>4, <1>5 DEF LinesTo
<1>7. (b = 0 => m = 0) /\ (b # 0 => m >= 1 /\ Nth(N, m) = b)
  <2>1. CASE b = 0
    <3>1. N = {}
      BY <2>1 DEF NewlinesTo
    <3> QED BY <2>1, <3>1, FS_EmptySet
  <2>2. CASE b # 0
    <3>1. b \in N /\ \A k \in N : k <= b
      BY <1>1, <2>2 DEF NewlinesTo
    <3> HIDE DEF N
    <3> QED BY <1>3, <2>2, <3>1, LastOne
  <2> QED BY <2>1, <2>2
<1>8. Len(p) = t
  BY <1>1, Cut
<1> HIDE DEF p, N, m
<1>9. LineStart(p, m + 1) = b + 1
  <2>1. LineStart(p, m + 1) = StartOf(N, m + 1)
    BY <1>4 DEF LineStart, NthNewline, StartOf, Nth, Rank
  <2>2. CASE b = 0
    BY <1>3, <1>7, <2>1, <2>2 DEF StartOf
  <2>3. CASE b # 0
    <3>1. m + 1 # 1 /\ (m + 1) - 1 = m
      BY <1>3, <1>7, <2>3
    <3> QED BY <1>7, <2>1, <2>3, <3>1 DEF StartOf
  <2> QED BY <2>2, <2>3
<1>10. RestOf(p) = SubSeq(p, b + 1, t)
  BY <1>4, <1>8, <1>9 DEF RestOf, m
<1>11. SubSeq(p, b + 1, t) = SubSeq(s, b + 1, t)
  <2>1. b + 1 \in Nat /\ b + 1 >= 1 /\ t <= t
    BY <1>1
  <2> QED BY <1>1, <2>1, PartOfPrefix DEF p
<1> QED BY <1>6, <1>10, <1>11 DEF p

NoNewline(s) == \A k \in 1 .. Len(s) : s[k] # "nl"

\* Of the stream s, t bytes have been taken: some are lines already, what
\* follows the last newline cut off is in the buffer and then in the message
\* that is being received.
Stream(s, t, buffer, part, lines) ==
    \E b \in 0 .. t :
        /\ b + Len(buffer) + Len(part) = t
        /\ \A k \in 1 .. Len(buffer) : buffer[k] = s[b + k]
        /\ \A k \in 1 .. Len(part) : part[k] = s[b + Len(buffer) + k]
        /\ b = 0 \/ s[b] = "nl"
        /\ Indexed(NewlinesTo(s, b))
        /\ lines = LinesTo(s, b)

\* Newline is the first.
LEMMA NewlineFirst ==
    ASSUME NEW s \in Seq(Bytes)
    PROVE  /\ Newline(s) = 0 => NoNewline(s)
           /\ Newline(s) # 0 => \A k \in 1 .. Len(s) : k < Newline(s) => s[k] # "nl"
<1> DEFINE I == {k \in 1 .. Len(s) : s[k] = "nl"}
<1>1. Newline(s) = IF I # {} THEN Min(I) ELSE 0
  BY DEF Newline, SelectInSeq
<1>2. Len(s) \in Nat /\ I \in SUBSET Nat
  BY LenProperties
<1>3. \A k \in I : k >= 1 /\ k \in Nat
  BY <1>2
<1>4. \A k \in 1 .. Len(s) : s[k] = "nl" => k \in I
  OBVIOUS
<1> HIDE DEF I
<1>5. CASE I = {}
  <2>1. NoNewline(s)
    BY <1>4, <1>5 DEF NoNewline
  <2> QED BY <1>1, <1>5, <2>1
<1>6. CASE I # {}
  <2>1. Min(I) \in I /\ \A j \in I : Min(I) <= j
    BY <1>2, <1>6, MinExists
  <2>2. Newline(s) # 0 /\ \A j \in I : ~(j < Newline(s))
    BY <1>1, <1>3, <1>6, <2>1
  <2> QED BY <1>4, <2>2
<1> QED BY <1>5, <1>6

LEMMA StreamStart ==
    ASSUME NEW s \in Seq(Bytes)
    PROVE  Stream(s, 0, <<>>, <<>>, <<>>)
<1>1. NewlinesTo(s, 0) = {} /\ Len(s) \in Nat /\ 0 \in 0 .. Len(s)
  BY LenProperties DEF NewlinesTo
<1>2. Cardinality({}) = 0
  BY FS_EmptySet
<1>3. Indexed(NewlinesTo(s, 0))
  BY <1>1, <1>2 DEF Indexed
<1>4. LinesTo(s, 0) \in Seq(Seq(Bytes)) /\ Len(LinesTo(s, 0)) = 0
  BY <1>1, <1>2, <1>3, LinesToIs
<1>5. LinesTo(s, 0) = <<>>
  BY <1>4, EmptySeq
<1>6. Len(<<>>) = 0
  OBVIOUS
<1> QED BY <1>3, <1>5, <1>6 DEF Stream

\* A chunk more is received.
LEMMA StreamTakes ==
    ASSUME NEW s \in Seq(Bytes), NEW t \in 0 .. Len(s), NEW buffer \in Seq(Bytes),
           NEW part \in Seq(Bytes), NEW chunk \in Seq(Bytes), NEW lines
    PROVE  (\A k \in 1 .. Len(chunk) : chunk[k] = s[t + k]) /\ Stream(s, t, buffer, part, lines)
              => Stream(s, t + Len(chunk), buffer, part \o chunk, lines)
<1>0. SUFFICES ASSUME \A k \in 1 .. Len(chunk) : chunk[k] = s[t + k], Stream(s, t, buffer, part, lines)
               PROVE  Stream(s, t + Len(chunk), buffer, part \o chunk, lines)
  OBVIOUS
<1>1. PICK b \in 0 .. t :
        /\ b + Len(buffer) + Len(part) = t
        /\ \A k \in 1 .. Len(buffer) : buffer[k] = s[b + k]
        /\ \A k \in 1 .. Len(part) : part[k] = s[b + Len(buffer) + k]
        /\ b = 0 \/ s[b] = "nl"
        /\ Indexed(NewlinesTo(s, b))
        /\ lines = LinesTo(s, b)
  BY <1>0 DEF Stream
<1> DEFINE q == part \o chunk
<1>2. Len(s) \in Nat /\ Len(buffer) \in Nat /\ Len(part) \in Nat /\ Len(chunk) \in Nat
  BY LenProperties
<1>3. /\ Len(q) = Len(part) + Len(chunk)
      /\ \A k \in 1 .. Len(part) + Len(chunk) : q[k] = IF k <= Len(part) THEN part[k] ELSE chunk[k - Len(part)]
  BY ConcatProperties
<1> HIDE DEF q
<1>a. b \in Nat /\ t \in Nat /\ b <= t
  BY <1>2
<1>b. /\ \A k \in 1 .. Len(part) + Len(chunk) :
            k > Len(part) => /\ k - Len(part) \in 1 .. Len(chunk)
                             /\ t + (k - Len(part)) = b + Len(buffer) + k
      /\ b + Len(buffer) + (Len(part) + Len(chunk)) = t + Len(chunk)
  <2> DEFINE a == b + Len(buffer)
             p == Len(part)
             c == Len(chunk)
  <2>1. a \in Nat /\ a + p = t /\ p \in Nat /\ c \in Nat
    BY <1>1, <1>a, <1>2
  <2> HIDE DEF a, p, c
  <2>2. a + (p + c) = t + c
    BY <1>a, <2>1
  <2>3. ASSUME NEW k \in 1 .. p + c, k > p
        PROVE  k - p \in 1 .. c /\ t + (k - p) = a + k
    BY <1>a, <2>1, <2>3
  <2> QED BY <2>2, <2>3 DEF a, p, c
<1>4. \A k \in 1 .. Len(q) : q[k] = s[b + Len(buffer) + k]
  <2> TAKE k \in 1 .. Len(q)
  <2>1. CASE k <= Len(part)
    BY <1>1, <1>2, <1>3, <2>1
  <2>2. CASE k > Len(part)
    <3> DEFINE j == k - Len(part)
    <3>1. j \in 1 .. Len(chunk) /\ t + j = b + Len(buffer) + k
      BY <1>b, <1>3, <2>2
    <3>2. q[k] = chunk[j]
      BY <1>2, <1>3, <2>2
    <3> HIDE DEF j
    <3>3. chunk[j] = s[t + j]
      BY <1>0, <3>1
    <3> QED BY <3>1, <3>2, <3>3
  <2> QED BY <1>2, <1>3, <2>1, <2>2
<1>5. b \in 0 .. (t + Len(chunk)) /\ b + Len(buffer) + Len(q) = t + Len(chunk)
  <2>1. Len(q) = Len(part) + Len(chunk)
    BY <1>3
  <2>2. b + Len(buffer) + Len(q) = t + Len(chunk)
    BY <1>b, <2>1
  <2>3. b \in 0 .. (t + Len(chunk))
    BY <1>a, <1>2
  <2> QED BY <2>2, <2>3
<1> QED BY <1>1, <1>4, <1>5 DEF Stream, q

\* What was received goes into the buffer.
LEMMA StreamKept ==
    ASSUME NEW s \in Seq(Bytes), NEW t \in 0 .. Len(s), NEW buffer \in Seq(Bytes),
           NEW part \in Seq(Bytes), NEW lines
    PROVE  Stream(s, t, buffer, part, lines) => Stream(s, t, buffer \o part, <<>>, lines)
<1>0. SUFFICES ASSUME Stream(s, t, buffer, part, lines) PROVE Stream(s, t, buffer \o part, <<>>, lines)
  OBVIOUS
<1>1. PICK b \in 0 .. t :
        /\ b + Len(buffer) + Len(part) = t
        /\ \A k \in 1 .. Len(buffer) : buffer[k] = s[b + k]
        /\ \A k \in 1 .. Len(part) : part[k] = s[b + Len(buffer) + k]
        /\ b = 0 \/ s[b] = "nl"
        /\ Indexed(NewlinesTo(s, b))
        /\ lines = LinesTo(s, b)
  BY <1>0 DEF Stream
<1> DEFINE q == buffer \o part
<1>2. Len(s) \in Nat /\ Len(buffer) \in Nat /\ Len(part) \in Nat /\ Len(<<>>) = 0
  BY LenProperties
<1>3. /\ Len(q) = Len(buffer) + Len(part)
      /\ \A k \in 1 .. Len(buffer) + Len(part) :
             q[k] = IF k <= Len(buffer) THEN buffer[k] ELSE part[k - Len(buffer)]
  BY ConcatProperties
<1> HIDE DEF q
<1>4. \A k \in 1 .. Len(q) : q[k] = s[b + k]
  <2> TAKE k \in 1 .. Len(q)
  <2>1. CASE k <= Len(buffer)
    BY <1>1, <1>2, <1>3, <2>1
  <2>2. CASE k > Len(buffer)
    <3> DEFINE j == k - Len(buffer)
    <3>1. j \in 1 .. Len(part) /\ b + Len(buffer) + j = b + k
      BY <1>1, <1>2, <1>3, <2>2
    <3>2. q[k] = part[j]
      BY <1>2, <1>3, <2>2
    <3> HIDE DEF j
    <3>3. part[j] = s[b + Len(buffer) + j]
      BY <1>1, <3>1
    <3> QED BY <3>1, <3>2, <3>3
  <2> QED BY <1>2, <1>3, <2>1, <2>2
<1>5. b + Len(q) + Len(<<>>) = t
  <2>1. b \in Nat /\ t \in Nat /\ b + Len(buffer) + Len(part) = t
    BY <1>1
  <2>2. Len(q) = Len(buffer) + Len(part)
    BY <1>3
  <2>3. b + Len(q) = t
    BY <1>2, <2>1, <2>2
  <2>4. t + Len(<<>>) = t
    BY <1>2, <2>1
  <2> QED BY <2>3, <2>4
<1> QED BY <1>1, <1>2, <1>4, <1>5 DEF Stream, q

\* A line is cut off the buffer and executed.
LEMMA StreamLine ==
    ASSUME NEW s \in Seq(Bytes), NEW t \in 0 .. Len(s), NEW buffer \in Seq(Bytes), NEW lines,
           Stream(s, t, buffer, <<>>, lines), Newline(buffer) # 0
    PROVE  Stream(s, t, SubSeq(buffer, Newline(buffer) + 1, Len(buffer)), <<>>,
                  Append(lines, StripCR(SubSeq(buffer, 1, Newline(buffer) - 1))))
<1>1. PICK b \in 0 .. t :
        /\ b + Len(buffer) + Len(<<>>) = t
        /\ \A k \in 1 .. Len(buffer) : buffer[k] = s[b + k]
        /\ b = 0 \/ s[b] = "nl"
        /\ Indexed(NewlinesTo(s, b))
        /\ lines = LinesTo(s, b)
  BY DEF Stream
<1> DEFINE n == Newline(buffer)
           e == b + n
           rest == SubSeq(buffer, n + 1, Len(buffer))
           line == SubSeq(buffer, 1, n - 1)
           whole == SubSeq(s, b + 1, e - 1)
<1>2. Len(s) \in Nat /\ Len(buffer) \in Nat /\ Len(<<>>) = 0 /\ b \in Nat /\ t \in Nat /\ t <= Len(s)
  BY LenProperties
<1>3. n \in 0 .. Len(buffer) /\ n # 0 /\ buffer[n] = "nl" /\ \A k \in 1 .. Len(buffer) : k < n => buffer[k] # "nl"
  BY NewlineIs, NewlineFirst
<1>4. /\ rest \in Seq(Bytes) /\ Len(rest) = Len(buffer) - n
      /\ \A k \in 1 .. Len(buffer) - n : rest[k] = buffer[n + k]
  BY <1>3, Cut
<1>5. /\ line \in Seq(Bytes) /\ Len(line) = n - 1 /\ \A k \in 1 .. n - 1 : line[k] = buffer[k]
  <2>1. n - 1 \in 0 .. Len(buffer)
    BY <1>2, <1>3
  <2> QED BY <2>1, Cut
<1> HIDE DEF n, rest, line
<1>6. /\ b \in 0 .. Len(s) /\ e \in 1 .. Len(s) /\ e \in 0 .. t /\ b < e /\ n \in 1 .. Len(buffer)
      /\ n \in Nat /\ b + Len(buffer) = t
  BY <1>1, <1>2, <1>3
<1>7. s[e] = "nl"
  BY <1>1, <1>3, <1>6
<1>8. \A k \in 1 .. Len(s) : b < k /\ k < e => s[k] # "nl"
  <2> SUFFICES ASSUME NEW k \in 1 .. Len(s), b < k, k < e PROVE s[k] # "nl"
    OBVIOUS
  <2> DEFINE j == k - b
  <2>1. j \in 1 .. Len(buffer) /\ j < n /\ b + j = k
    BY <1>2, <1>6
  <2> HIDE DEF j
  <2>2. buffer[j] = s[b + j] /\ buffer[j] # "nl"
    BY <1>1, <1>3, <2>1
  <2> QED BY <2>1, <2>2
<1>9. /\ Indexed(NewlinesTo(s, e))
      /\ LinesTo(s, e) = Append(lines, WithoutCR(whole))
  <2> HIDE DEF e
  <2>1. /\ Indexed(NewlinesTo(s, e))
        /\ LinesTo(s, e) = Append(LinesTo(s, b), WithoutCR(SubSeq(s, b + 1, e - 1)))
    BY <1>1, <1>6, <1>7, <1>8, NextLine
  <2> QED BY <1>1, <2>1
<1>10. whole = line
  <2> DEFINE y == e - 1
  <2>1. b + 1 \in Int /\ y \in Int /\ y - (b + 1) + 1 = n - 1 /\ (b + 1 <= y <=> n - 1 >= 1)
        /\ (~(b + 1 <= y) => n - 1 = 0)
    BY <1>2, <1>6
  <2>2. \A k \in (b + 1) .. y : s[k] \in Bytes
    <3>1. \A k \in (b + 1) .. y : k \in 1 .. Len(s)
      BY <1>2, <1>6
    <3> QED BY <3>1, ElementOfSeq
  <2> HIDE DEF y
  <2>3. /\ SubSeq(s, b + 1, y) \in Seq(Bytes)
        /\ Len(SubSeq(s, b + 1, y)) = IF b + 1 <= y THEN y - (b + 1) + 1 ELSE 0
        /\ \A k \in 1 .. y - (b + 1) + 1 : SubSeq(s, b + 1, y)[k] = s[(b + 1) + k - 1]
    BY <2>1, <2>2, SubSeqProperties
  <2>4. whole \in Seq(Bytes) /\ Len(whole) = n - 1 /\ \A k \in 1 .. n - 1 : whole[k] = s[(b + 1) + k - 1]
    BY <2>1, <2>3 DEF y
  <2> HIDE DEF whole
  <2>5. \A k \in 1 .. n - 1 : whole[k] = line[k]
    <3> TAKE k \in 1 .. n - 1
    <3>1. k \in 1 .. Len(buffer) /\ (b + 1) + k - 1 = b + k
      BY <1>2, <1>6
    <3> QED BY <1>1, <1>5, <2>4, <3>1
  <2>6. \A k \in 1 .. Len(whole) : whole[k] = line[k]
    BY <2>4, <2>5
  <2> QED BY <1>5, <2>4, <2>6, SeqEqual
<1>11. StripCR(line) = WithoutCR(line)
  BY <1>5, WithoutCRType
<1>12. \A k \in 1 .. Len(rest) : rest[k] = s[e + k]
  <2> TAKE k \in 1 .. Len(rest)
  <2>1. k \in 1 .. Len(buffer) - n
    BY <1>4
  <2>2. n + k \in 1 .. Len(buffer) /\ b + (n + k) = e + k
    BY <1>2, <1>6, <2>1
  <2>3. buffer[n + k] = s[b + (n + k)]
    BY <1>1, <2>2
  <2> QED BY <1>4, <2>1, <2>2, <2>3
<1>13. e + Len(rest) + Len(<<>>) = t
  <2>1. Len(rest) = Len(buffer) - n
    BY <1>4
  <2>2. e + Len(rest) = t
    BY <1>2, <1>6, <2>1
  <2>3. e + Len(rest) \in Nat
    BY <1>2, <2>2
  <2> QED BY <1>2, <2>2, <2>3
<1>14. Stream(s, t, rest, <<>>, Append(lines, StripCR(line)))
  <2> HIDE DEF e, whole
  <2>1. e \in 0 .. t /\ s[e] = "nl"
    BY <1>6, <1>7
  <2>2. \A k \in 1 .. Len(<<>>) : <<>>[k] = s[e + Len(rest) + k]
    BY <1>2
  <2>3. Append(lines, StripCR(line)) = LinesTo(s, e)
    BY <1>9, <1>10, <1>11
  <2>4. Indexed(NewlinesTo(s, e))
    BY <1>9
  <2> HIDE DEF e
  <2> QED BY <1>12, <1>13, <2>1, <2>2, <2>3, <2>4 DEF Stream
<1> QED BY <1>14 DEF n, rest, line

\* Without a newline in the buffer, the lines are those of all that was taken.
LEMMA StreamDone ==
    ASSUME NEW s \in Seq(Bytes), NEW t \in 0 .. Len(s), NEW buffer \in Seq(Bytes), NEW lines,
           Stream(s, t, buffer, <<>>, lines), NoNewline(buffer)
    PROVE  lines = LinesOf(SubSeq(s, 1, t)) /\ buffer = RestOf(SubSeq(s, 1, t))
<1>1. PICK b \in 0 .. t :
        /\ b + Len(buffer) + Len(<<>>) = t
        /\ \A k \in 1 .. Len(buffer) : buffer[k] = s[b + k]
        /\ b = 0 \/ s[b] = "nl"
        /\ Indexed(NewlinesTo(s, b))
        /\ lines = LinesTo(s, b)
  BY DEF Stream
<1>2. Len(s) \in Nat /\ Len(buffer) \in Nat /\ Len(<<>>) = 0 /\ b \in Nat /\ t \in Nat /\ t <= Len(s)
  BY LenProperties
<1>3. b + Len(buffer) = t /\ b \in 0 .. Len(s) /\ t \in b .. Len(s)
  BY <1>1, <1>2
<1>4. \A k \in 1 .. t : b < k => s[k] # "nl"
  <2> SUFFICES ASSUME NEW k \in 1 .. t, b < k PROVE s[k] # "nl"
    OBVIOUS
  <2> DEFINE j == k - b
  <2>1. j \in 1 .. Len(buffer) /\ b + j = k
    BY <1>2, <1>3
  <2> HIDE DEF j
  <2> QED BY <1>1, <2>1 DEF NoNewline
<1>5. LinesOf(SubSeq(s, 1, t)) = LinesTo(s, b) /\ RestOf(SubSeq(s, 1, t)) = SubSeq(s, b + 1, t)
  BY <1>1, <1>3, <1>4, NoMoreLines
<1>6. SubSeq(s, b + 1, t) = buffer
  <2> DEFINE q == SubSeq(s, b + 1, t)
  <2>1. \A k \in (b + 1) .. t : s[k] \in Bytes
    <3>1. \A k \in (b + 1) .. t : k \in 1 .. Len(s)
      BY <1>2
    <3> QED BY <3>1, ElementOfSeq
  <2>2. /\ q \in Seq(Bytes) /\ Len(q) = IF b + 1 <= t THEN t - (b + 1) + 1 ELSE 0
        /\ \A k \in 1 .. t - (b + 1) + 1 : q[k] = s[(b + 1) + k - 1]
    BY <1>2, <2>1, SubSeqProperties
  <2> HIDE DEF q
  <2>3. Len(q) = Len(buffer)
    BY <1>2, <1>3, <2>2
  <2>4. \A k \in 1 .. Len(q) : q[k] = buffer[k]
    <3> TAKE k \in 1 .. Len(q)
    <3>1. k \in 1 .. Len(buffer) /\ k \in 1 .. t - (b + 1) + 1 /\ (b + 1) + k - 1 = b + k
      BY <1>2, <1>3, <2>3
    <3> QED BY <1>1, <2>2, <3>1
  <2>5. q = buffer
    BY <2>2, <2>3, <2>4, SeqEqual
  <2> QED BY <2>5 DEF q
<1> QED BY <1>1, <1>5, <1>6

-----------------------------------------------------------------------------
(* The lines of each client.  Taken(c) grows in Receive, executed in         *)
(* ExecuteLine, and a client's bytes pass through the message of a recv      *)
(* loop and the buffer of its descriptor in between.                         *)

Read(c) == sent[c] - Len(inbox[c])
ZeroTaken(c) == \E k \in 1 .. Read(c) : Script[c][k] = "nul"
Part(fd) == IF pc = "recv" /\ poll_fds[i].fd = fd THEN message ELSE <<>>
InLines(fd) == pc = "lines" /\ poll_fds[i].fd = fd

InboxIs(c) == \A k \in 1 .. Len(inbox[c]) : inbox[c][k] = Script[c][Read(c) + k]

Followed(fd, c) ==
    ~ZeroTaken(c) =>
        /\ Stream(Script[c], Read(c), message_buffer[fd], Part(fd), executed[c])
        /\ NoNewline(Part(fd))
        /\ (~InLines(fd) => NoNewline(message_buffer[fd]))

StreamInv ==
    /\ pc # "recv" => message = <<>>
    /\ \A c \in Clients : InboxIs(c)
    /\ \A c \in Clients : peer[c] = "new" \/ c \in backlog => Read(c) = 0 /\ executed[c] = <<>>
    /\ \A fd \in Fds, c \in Clients : owner[fd] = c => Followed(fd, c)

LEMMA ReadIs ==
    ASSUME LoopInv, NEW c \in Clients
    PROVE  /\ Script[c] \in Seq(Bytes) /\ Len(Script[c]) \in Nat
           /\ inbox[c] \in Seq(Bytes) /\ Len(inbox[c]) \in Nat
           /\ sent[c] \in Nat /\ sent[c] <= Len(Script[c])
           /\ Read(c) \in Nat /\ Read(c) <= sent[c] /\ Read(c) \in 0 .. Len(Script[c])
           /\ Read(c) + Len(inbox[c]) = sent[c]
<1>1. /\ Script[c] \in Seq(Bytes) /\ inbox[c] \in Seq(Bytes) /\ sent[c] \in Nat
      /\ sent[c] \in 0 .. Len(Script[c]) /\ Len(inbox[c]) <= sent[c]
  BY ScriptType DEF LoopInv, TypeOK, ClientInv
<1>2. Len(Script[c]) \in Nat /\ Len(inbox[c]) \in Nat
  BY <1>1, LenProperties
<1> QED BY <1>1, <1>2 DEF Read

LEMMA ZeroIsSent ==
    ASSUME LoopInv, NEW c \in Clients, ~SendsZero(c)
    PROVE  ~ZeroTaken(c)
<1>1. sent[c] \in 0 .. Len(Script[c]) /\ sent[c] \in Nat /\ Read(c) \in Nat /\ Read(c) <= sent[c]
  BY ReadIs
<1>2. /\ Arrived(c) \in Seq(Bytes) /\ Len(Arrived(c)) = sent[c]
      /\ \A k \in 1 .. sent[c] : Arrived(c)[k] = Script[c][k]
  BY <1>1, ReadIs, Cut DEF Arrived
<1>3. DOMAIN Arrived(c) = 1 .. sent[c]
  BY <1>2, LenProperties
<1>4. \A k \in 1 .. Read(c) : k \in 1 .. sent[c]
  BY <1>1
<1> QED BY <1>2, <1>3, <1>4 DEF ZeroTaken, SendsZero

\* A step that leaves a connection's bytes where they are.
LEMMA FollowedSame ==
    ASSUME NEW fd, NEW c, Followed(fd, c), Read(c)' = Read(c),
           message_buffer'[fd] = message_buffer[fd], executed'[c] = executed[c],
           Part(fd)' = Part(fd), InLines(fd) => InLines(fd)' \/ NoNewline(message_buffer[fd])
    PROVE  Followed(fd, c)'
<1>1. ZeroTaken(c)' = ZeroTaken(c)
  BY DEF ZeroTaken
<1>2. /\ Stream(Script[c], Read(c), message_buffer[fd], Part(fd), executed[c])'
           = Stream(Script[c], Read(c), message_buffer[fd], Part(fd), executed[c])
      /\ NoNewline(Part(fd))' = NoNewline(Part(fd))
      /\ NoNewline(message_buffer[fd])' = NoNewline(message_buffer[fd])
  BY DEF Stream, NoNewline
<1> QED BY <1>1, <1>2 DEF Followed

LEMMA CStringWhole ==
    ASSUME NEW s \in Seq(Bytes), \A k \in 1 .. Len(s) : s[k] # "nul"
    PROVE  CString(s) = s
<1> DEFINE I == {k \in 1 .. Len(s) : s[k] = "nul"}
<1>1. I = {}
  OBVIOUS
<1>2. SelectInSeq(s, LAMBDA x : x = "nul") = IF I # {} THEN Min(I) ELSE 0
  BY DEF SelectInSeq
<1>3. SelectInSeq(s, LAMBDA x : x = "nul") = 0
  BY <1>1, <1>2
<1> QED BY <1>3 DEF CString

LEMMA NothingHere == NoNewline(<<>>)
<1>1. Len(<<>>) = 0
  OBVIOUS
<1> QED BY <1>1 DEF NoNewline

LEMMA StreamInit == Init => StreamInv
<1> SUFFICES ASSUME Init PROVE StreamInv
  OBVIOUS
<1>1. /\ \A c \in Clients : inbox[c] = <<>> /\ sent[c] = 0 /\ executed[c] = <<>>
      /\ \A fd \in Fds : owner[fd] = None
      /\ message = <<>>
  BY DEF Init
<1>2. Len(<<>>) = 0
  OBVIOUS
<1>3. \A c \in Clients : Len(inbox[c]) = 0 /\ Read(c) = 0
  BY <1>1, <1>2 DEF Read
<1>4. \A c \in Clients : InboxIs(c)
  BY <1>3 DEF InboxIs
<1> QED BY <1>1, <1>3, <1>4, SocketServerConstants DEF StreamInv

\* What the clients do moves no byte the server has read.
LEMMA ClientStream ==
    ASSUME LoopInv, StreamInv, NEW c \in Clients, Connect(c) \/ SendByte(c) \/ HangUp(c)
    PROVE  StreamInv' /\ \A d \in Clients : Read(d)' = Read(d)
<1>1. /\ UNCHANGED <<poll_fds, message_buffer, message, pc, i>>
      /\ UNCHANGED <<owner, executed>>
  BY DEF Connect, SendByte, HangUp, serverVars
<1>2. \A d \in Clients : Read(d)' = Read(d) /\ InboxIs(d)'
  <2> TAKE d \in Clients
  <2>0. Read(d) \in Nat /\ Len(inbox[d]) \in Nat /\ sent[d] \in Nat /\ Read(d) + Len(inbox[d]) = sent[d]
    BY ReadIs
  <2>1. InboxIs(d)
    BY DEF StreamInv
  <2>2. Len(<<>>) = 0
    OBVIOUS
  <2>3. CASE inbox'[d] = inbox[d] /\ sent'[d] = sent[d]
    BY <2>1, <2>3 DEF Read, InboxIs
  <2>4. CASE inbox'[d] = <<>> /\ sent'[d] = sent[d] - Len(inbox[d])
    <3>1. Read(d)' = Read(d)
      BY <2>0, <2>2, <2>4 DEF Read
    <3> QED BY <2>2, <2>4, <3>1 DEF InboxIs
  <2>5. CASE inbox'[d] = Append(inbox[d], Script[d][sent[d] + 1]) /\ sent'[d] = sent[d] + 1
             /\ sent[d] < Len(Script[d])
    <3> DEFINE x == Script[d][sent[d] + 1]
               b == inbox[d]
    <3>1. x \in Bytes /\ b \in Seq(Bytes)
      <4>1. Script[d] \in Seq(Bytes) /\ b \in Seq(Bytes) /\ Len(Script[d]) \in Nat /\ sent[d] \in Nat
        BY ReadIs
      <4>2. sent[d] < Len(Script[d])
        BY <2>5
      <4>3. sent[d] + 1 \in 1 .. Len(Script[d])
        BY <4>1, <4>2
      <4> QED BY <4>1, <4>3, ElementOfSeq
    <3>2. inbox'[d] = Append(b, x)
      BY <2>5
    <3> HIDE DEF x, b
    <3>3. /\ Len(inbox'[d]) = Len(b) + 1 /\ inbox'[d][Len(b) + 1] = x
          /\ \A k \in 1 .. Len(b) : inbox'[d][k] = b[k]
      BY <3>1, <3>2, AppendProperties
    <3>4. Read(d)' = Read(d)
      <4>1. Len(inbox'[d]) = Len(inbox[d]) + 1 /\ sent'[d] = sent[d] + 1
        BY <2>5, <3>3 DEF b
      <4> QED BY <2>0, <4>1 DEF Read
    <3>5. ASSUME NEW k \in 1 .. Len(b) + 1
          PROVE  inbox'[d][k] = Script[d][Read(d) + k]
      <4>1. k \in 1 .. Len(b) \/ k = Len(b) + 1
        BY <2>0 DEF b
      <4>2. CASE k \in 1 .. Len(b)
        BY <2>1, <3>3, <4>2 DEF InboxIs, b
      <4>3. CASE k = Len(b) + 1
        <5>1. Read(d) + k = sent[d] + 1
          BY <2>0, <4>3 DEF b
        <5> QED BY <3>3, <4>3, <5>1 DEF x
      <4> QED BY <4>1, <4>2, <4>3
    <3> QED BY <3>3, <3>4, <3>5 DEF InboxIs
  <2>6. CASE Connect(c)
    BY <2>3, <2>6 DEF Connect
  <2>7. inbox \in [Clients -> Seq(Bytes)] /\ sent \in [Clients -> Nat]
    BY DEF LoopInv, TypeOK, ClientInv
  <2>8. CASE SendByte(c)
    <3>1. /\ inbox' = [inbox EXCEPT ![c] = Append(inbox[c], Script[c][sent[c] + 1])]
          /\ sent' = [sent EXCEPT ![c] = sent[c] + 1] /\ sent[c] < Len(Script[c])
      BY <2>8 DEF SendByte
    <3>2. CASE d = c
      <4>1. /\ inbox'[d] = Append(inbox[d], Script[d][sent[d] + 1])
            /\ sent'[d] = sent[d] + 1 /\ sent[d] < Len(Script[d])
        BY <2>7, <3>1, <3>2
      <4> QED BY <2>5, <4>1
    <3>3. CASE d # c
      BY <2>3, <2>7, <3>1, <3>3
    <3> QED BY <3>2, <3>3
  <2>9. CASE HangUp(c)
    <3>1. \/ UNCHANGED <<inbox, sent>>
          \/ /\ inbox' = [inbox EXCEPT ![c] = <<>>]
             /\ sent' = [sent EXCEPT ![c] = sent[c] - Len(inbox[c])]
      BY <2>9 DEF HangUp
    <3>2. CASE UNCHANGED <<inbox, sent>>
      BY <2>3, <3>2
    <3>3. CASE /\ inbox' = [inbox EXCEPT ![c] = <<>>]
               /\ sent' = [sent EXCEPT ![c] = sent[c] - Len(inbox[c])]
      <4>1. CASE d = c
        <5>1. inbox'[d] = <<>> /\ sent'[d] = sent[d] - Len(inbox[d])
          BY <2>7, <3>3, <4>1
        <5> QED BY <2>4, <5>1
      <4>2. CASE d # c
        BY <2>3, <2>7, <3>3, <4>2
      <4> QED BY <4>1, <4>2
    <3> QED BY <3>1, <3>2, <3>3
  <2> QED BY <2>6, <2>8, <2>9
<1>3. \A d \in Clients : peer'[d] = "new" \/ d \in backlog' => peer[d] = "new" \/ d \in backlog
  BY DEF Connect, SendByte, HangUp, LoopInv, TypeOK
<1>4. \A fd \in Fds, d \in Clients : owner'[fd] = d => Followed(fd, d)'
  <2> SUFFICES ASSUME NEW fd \in Fds, NEW d \in Clients, owner'[fd] = d PROVE Followed(fd, d)'
    OBVIOUS
  <2>1. Followed(fd, d)
    BY <1>1 DEF StreamInv
  <2>2. Part(fd)' = Part(fd) /\ InLines(fd)' = InLines(fd) /\ message_buffer'[fd] = message_buffer[fd]
        /\ executed'[d] = executed[d]
    BY <1>1 DEF Part, InLines
  <2> QED BY <1>2, <2>1, <2>2, FollowedSame
<1> QED BY <1>1, <1>2, <1>3, <1>4 DEF StreamInv

\* A step of the server outside the recv loop and the loop over the lines that
\* reads no byte and opens no connection.
LEMMA QuietStream ==
    ASSUME LoopInv, StreamInv, pc # "recv", pc' # "recv", UNCHANGED message,
           UNCHANGED <<message_buffer, backlog, inbox, peer, sent, executed>>,
           \A fd \in Fds : owner'[fd] = owner[fd] \/ owner'[fd] = None,
           \A fd \in Fds : InLines(fd) => InLines(fd)' \/ NoNewline(message_buffer[fd])
    PROVE  StreamInv'
<1>1. \A d \in Clients : Read(d)' = Read(d) /\ InboxIs(d)'
  BY DEF StreamInv, Read, InboxIs
<1>2. \A fd \in Fds : Part(fd) = <<>> /\ Part(fd)' = <<>>
  BY DEF Part
<1>3. \A fd \in Fds, d \in Clients : owner'[fd] = d => Followed(fd, d)'
  <2> SUFFICES ASSUME NEW fd \in Fds, NEW d \in Clients, owner'[fd] = d PROVE Followed(fd, d)'
    OBVIOUS
  <2>1. owner[fd] = d
    BY SocketServerConstants
  <2>2. Followed(fd, d)
    BY <2>1 DEF StreamInv
  <2> QED BY <1>1, <1>2, <2>2, FollowedSame
<1>4. message' = <<>>
  BY DEF StreamInv
<1> QED BY <1>1, <1>3, <1>4 DEF StreamInv

\* A client is accepted with nothing read of it, on a clean descriptor.
LEMMA AcceptStream ==
    ASSUME LoopInv, StreamInv, HandleNewConnection
    PROVE  StreamInv'
<1>1. /\ UNCHANGED <<message_buffer, message, pc, inbox, peer, sent, executed>>
      /\ pc = "scan"
  BY DEF HandleNewConnection, NextEvent
<1>2. \A d \in Clients : Read(d)' = Read(d) /\ InboxIs(d)'
  BY <1>1 DEF StreamInv, Read, InboxIs
<1>3. \A fd \in Fds : Part(fd) = <<>> /\ Part(fd)' = <<>> /\ ~InLines(fd)
  BY <1>1 DEF Part, InLines
<1>4. /\ \A d \in backlog' : d \in backlog
      /\ \A fd \in Fds : \/ owner'[fd] = owner[fd]
                         \/ owner[fd] = None /\ owner'[fd] \in backlog
  BY DEF HandleNewConnection, LoopInv, TypeOK
<1>5. \A fd \in Fds, d \in Clients : owner'[fd] = d => Followed(fd, d)'
  <2> SUFFICES ASSUME NEW fd \in Fds, NEW d \in Clients, owner'[fd] = d PROVE Followed(fd, d)'
    OBVIOUS
  <2>1. CASE owner'[fd] = owner[fd]
    <3>1. Followed(fd, d)
      BY <2>1 DEF StreamInv
    <3> QED BY <1>1, <1>2, <1>3, <3>1, FollowedSame
  <2>2. CASE owner[fd] = None /\ owner'[fd] \in backlog
    <3>1. Read(d) = 0 /\ executed[d] = <<>>
      BY <2>2 DEF StreamInv
    <3>2. message_buffer[fd] = <<>>
      BY <2>2 DEF LoopInv, OpenInv, FreeFdIsClean
    <3>3. Stream(Script[d], 0, <<>>, <<>>, <<>>)
      BY ReadIs, StreamStart
    <3>4. /\ Read(d)' = 0 /\ executed'[d] = <<>> /\ message_buffer'[fd] = <<>> /\ Part(fd)' = <<>>
      BY <1>1, <1>2, <1>3, <3>1, <3>2
    <3> QED BY <3>3, <3>4, NothingHere DEF Followed
  <2> QED BY <1>4, <2>1, <2>2
<1> QED BY <1>1, <1>2, <1>4, <1>5 DEF StreamInv

\* A line is executed for the client whose buffer it was in.
LEMMA ExecuteStream ==
    ASSUME LoopInv, StreamInv, ExecuteLine
    PROVE  StreamInv'
<1> DEFINE fd == poll_fds[i].fd
           c == owner[fd]
           buf == message_buffer[fd]
           n == Newline(buf)
           line == StripCR(SubSeq(buf, 1, n - 1))
           next == SubSeq(buf, n + 1, Len(buf))
<1>1. /\ UNCHANGED <<poll_fds, message, pc, i>>
      /\ UNCHANGED <<owner, backlog, inbox, peer, sent>>
      /\ pc = "lines" /\ n # 0
      /\ message_buffer' = [message_buffer EXCEPT ![fd] = next]
      /\ executed' = [executed EXCEPT ![c] = Append(executed[c], line)]
  BY DEF ExecuteLine
<1>2. fd \in Fds
  <2>1. i \in 2 .. Len(poll_fds)
    BY <1>1 DEF LoopInv, ListInv
  <2> QED BY <2>1 DEF LoopInv, ListInv
<1>3. buf \in Seq(Bytes) /\ buf # <<>>
  <2>1. buf \in Seq(Bytes)
    BY <1>2 DEF LoopInv, TypeOK
  <2>2. buf = <<>> => n = 0
    BY <2>1, NewlineIs
  <2> QED BY <1>1, <2>1, <2>2
<1>4. c \in Clients /\ c # None
  BY <1>2, <1>3 DEF LoopInv, OpenInv, FreeFdIsClean, TypeOK
<1>5. \A d \in Clients : Read(d)' = Read(d) /\ InboxIs(d)'
  BY <1>1 DEF StreamInv, Read, InboxIs
<1>6. \A f \in Fds : Part(f) = <<>> /\ Part(f)' = <<>> /\ InLines(f)' = InLines(f)
  BY <1>1 DEF Part, InLines
<1>7. /\ message_buffer'[fd] = next /\ \A f \in Fds : f # fd => message_buffer'[f] = message_buffer[f]
      /\ executed'[c] = Append(executed[c], line) /\ \A d \in Clients : d # c => executed'[d] = executed[d]
  <2> HIDE DEF next, line, c, fd
  <2> QED BY <1>1, <1>2, <1>4 DEF LoopInv, TypeOK, ClientInv
<1>8. \A d \in Clients : peer[d] = "new" \/ d \in backlog => d # c
  BY <1>2 DEF LoopInv, ClientInv
<1>9. ASSUME NEW f \in Fds, NEW d \in Clients, f = fd, d = c
      PROVE  Followed(f, d)'
  <2>1. Followed(f, d) /\ Part(f) = <<>>
    BY <1>6, <1>9 DEF StreamInv
  <2>2. ZeroTaken(d)' = ZeroTaken(d)
    BY <1>5 DEF ZeroTaken
  <2>3. Script[d] \in Seq(Bytes) /\ Read(d) \in 0 .. Len(Script[d])
    BY ReadIs
  <2>4. ASSUME ~ZeroTaken(d)
        PROVE  Stream(Script[d], Read(d), next, <<>>, Append(executed[d], line))
    <3>1. Stream(Script[d], Read(d), buf, <<>>, executed[d])
      BY <1>9, <2>1, <2>4 DEF Followed
    <3> QED BY <1>1, <1>3, <2>3, <3>1, StreamLine
  <2>5. InLines(f)'
    BY <1>1, <1>9 DEF InLines
  <2>6. message_buffer'[f] = next /\ executed'[d] = Append(executed[d], line) /\ Part(f)' = <<>>
    BY <1>6, <1>7, <1>9
  <2> HIDE DEF next, line
  <2> QED BY <1>5, <2>2, <2>4, <2>5, <2>6, NothingHere DEF Followed
<1>10. \A f \in Fds, d \in Clients : owner'[f] = d => Followed(f, d)'
  <2> SUFFICES ASSUME NEW f \in Fds, NEW d \in Clients, owner'[f] = d PROVE Followed(f, d)'
    OBVIOUS
  <2>0. owner[f] = d /\ Followed(f, d)
    BY <1>1 DEF StreamInv
  <2>1. CASE f = fd
    <3>1. d = c
      BY <2>0, <2>1
    <3> QED BY <1>9, <2>1, <3>1
  <2>2. CASE f # fd
    <3>1. d # c
      BY <1>2, <1>4, <2>0, <2>2 DEF LoopInv, ClientInv
    <3> QED BY <1>5, <1>6, <1>7, <2>0, <2>2, <3>1, FollowedSame
  <2> QED BY <2>1, <2>2
<1> QED BY <1>1, <1>5, <1>7, <1>8, <1>10 DEF StreamInv

\* A round of the recv loop takes the next bytes of its client's script, and
\* nothing of them is lost or out of place unless one of them is zero.
LEMMA ReceiveStream ==
    ASSUME LoopInv, StreamInv, Receive
    PROVE  StreamInv' /\ \A d \in Clients : Read(d)' >= Read(d)
<1>1. UNCHANGED <<poll_fds, backlog, peer, sent, executed>>
  BY DEF Receive
<1>2. /\ Len(poll_fds) \in Nat /\ DOMAIN poll_fds = 1 .. Len(poll_fds) /\ i \in Nat
  BY Types DEF LoopInv
<1>3. PICK k \in 1 .. Len(poll_fds) :
        /\ NextEvent(k) \/ (pc = "recv" /\ k = i)
        /\ poll_fds[k].fd # ServerFd
        /\ i' = k
        /\ LET fd    == poll_fds[k].fd
               c     == owner[fd]
               chunk == Chunk(inbox[c])
               m     == message \o CString(chunk)
               ends  == chunk = <<>> \/ Newline(m) # 0
           IN  /\ inbox' = [inbox EXCEPT ![c] = SubSeq(@, Len(chunk) + 1, Len(@))]
               /\ message' = IF ends THEN <<>> ELSE m
               /\ pc' = IF ends THEN "lines" ELSE "recv"
               /\ IF ends THEN Received(fd, m) ELSE UNCHANGED <<message_buffer, owner, user>>
  BY <1>2 DEF Receive
<1>4. PICK fd \in Fds, c \in Clients : fd = poll_fds[k].fd /\ c = owner[fd]
  <2>1. k # 1
    BY <1>3 DEF LoopInv, ListInv
  <2>2. k \in 2 .. Len(poll_fds)
    BY <1>2, <2>1
  <2>3. poll_fds[k].fd \in Fds
    BY <2>2 DEF LoopInv, ListInv
  <2>4. ~Listed(k)
    <3>1. NextEvent(k) => k >= i
      BY <1>2 DEF NextEvent
    <3>2. k >= i /\ k \in Nat
      BY <1>2, <1>3, <3>1
    <3> QED BY <1>2, <3>2 DEF Listed, LoopInv, ListInv
  <2>5. pc # "lines"
    BY <1>3 DEF NextEvent
  <2>6. owner[poll_fds[k].fd] \in Clients
    BY <2>2, <2>3, <2>4, <2>5 DEF LoopInv, OpenInv, TypeOK
  <2> QED BY <2>3, <2>6
<1> DEFINE b == inbox[c]
           chunk == Chunk(b)
           m == message \o CString(chunk)
           ends == chunk = <<>> \/ Newline(m) # 0
           rest == SubSeq(b, Len(chunk) + 1, Len(b))
<1>5. /\ inbox' = [inbox EXCEPT ![c] = rest]
      /\ message' = IF ends THEN <<>> ELSE m
      /\ pc' = IF ends THEN "lines" ELSE "recv"
      /\ IF ends THEN Received(fd, m) ELSE UNCHANGED <<message_buffer, owner, user>>
  BY <1>3, <1>4
<1>6. /\ b \in Seq(Bytes) /\ Len(b) \in Nat
      /\ chunk \in Seq(Bytes) /\ Len(chunk) \in 0 .. Len(b)
      /\ \A j \in 1 .. Len(chunk) : chunk[j] = b[j]
      /\ rest \in Seq(Bytes) /\ Len(rest) = Len(b) - Len(chunk)
      /\ \A j \in 1 .. Len(b) - Len(chunk) : rest[j] = b[Len(chunk) + j]
  <2> DEFINE n == IF Len(b) < BUFFER_SIZE THEN Len(b) ELSE BUFFER_SIZE
  <2>1. b \in Seq(Bytes) /\ Len(b) \in Nat
    BY ReadIs
  <2>2. n \in 0 .. Len(b)
    BY <2>1, SocketServerConstants
  <2>3. chunk = SubSeq(b, 1, n)
    BY DEF Chunk
  <2> HIDE DEF b, n, chunk
  <2>4. chunk \in Seq(Bytes) /\ Len(chunk) = n /\ \A j \in 1 .. n : chunk[j] = b[j]
    BY <2>1, <2>2, <2>3, Cut
  <2>5. /\ SubSeq(b, n + 1, Len(b)) \in Seq(Bytes)
        /\ Len(SubSeq(b, n + 1, Len(b))) = Len(b) - n
        /\ \A j \in 1 .. Len(b) - n : SubSeq(b, n + 1, Len(b))[j] = b[n + j]
    BY <2>1, <2>2, Cut
  <2> QED BY <2>1, <2>2, <2>4, <2>5
<1> DEFINE r == Read(c)
           s == Script[c]
           w == Len(chunk)
<1>7. /\ s \in Seq(Bytes) /\ Len(s) \in Nat /\ r \in Nat /\ r \in 0 .. Len(s) /\ w \in Nat
      /\ r + Len(b) = sent[c] /\ sent[c] \in Nat /\ sent[c] <= Len(s)
      /\ r + w \in 0 .. Len(s)
  <2>1. /\ s \in Seq(Bytes) /\ Len(s) \in Nat /\ r \in Nat /\ r \in 0 .. Len(s)
        /\ r + Len(b) = sent[c] /\ sent[c] \in Nat /\ sent[c] <= Len(s)
    BY ReadIs
  <2> HIDE DEF r, s, w, b, chunk
  <2>2. w \in Nat /\ w <= Len(b)
    BY <1>6 DEF w
  <2> QED BY <1>6, <2>1, <2>2
<1>8. inbox'[c] = rest /\ \A d \in Clients : d # c => inbox'[d] = inbox[d]
  <2> HIDE DEF rest
  <2> QED BY <1>5 DEF LoopInv, TypeOK
<1>9. Read(c)' = r + w
  <2>1. Read(c)' = sent[c] - Len(rest)
    BY <1>1, <1>8 DEF Read
  <2> HIDE DEF r, s, w, b, chunk, rest
  <2>2. Len(rest) = Len(b) - w
    BY <1>6 DEF w
  <2>3. Len(b) \in Nat /\ w \in Nat /\ r \in Nat /\ sent[c] \in Nat /\ r + Len(b) = sent[c]
    BY <1>6, <1>7
  <2>4. sent[c] - (Len(b) - w) = r + w
    BY <2>3
  <2> QED BY <2>1, <2>2, <2>4
<1>10. \A d \in Clients : d # c => Read(d)' = Read(d)
  BY <1>1, <1>8 DEF Read
<1>11. \A j \in 1 .. Len(b) : b[j] = s[r + j]
  BY DEF StreamInv, InboxIs
<1>12. \A d \in Clients : InboxIs(d)'
  <2> SUFFICES ASSUME NEW d \in Clients PROVE InboxIs(d)'
    OBVIOUS
  <2>1. CASE d # c
    BY <1>8, <1>10, <2>1 DEF StreamInv, InboxIs
  <2>2. CASE d = c
    <3> HIDE DEF r, s, w, b, chunk, rest
    <3>1. ASSUME NEW j \in 1 .. Len(rest)
          PROVE  rest[j] = s[(r + w) + j]
      <4>1. j \in 1 .. Len(b) - w /\ w + j \in 1 .. Len(b) /\ r + (w + j) = (r + w) + j
        BY <1>6, <1>7 DEF w
      <4>2. rest[j] = b[w + j]
        BY <1>6, <4>1 DEF w
      <4> QED BY <1>11, <4>1, <4>2
    <3> QED BY <1>8, <1>9, <2>2, <3>1 DEF InboxIs, s
  <2> QED BY <2>1, <2>2
<1>13. Part(fd) = message /\ ~InLines(fd)
  <2>1. pc = "recv" => k = i
    BY <1>3 DEF NextEvent
  <2>2. pc = "scan" \/ pc = "recv"
    BY <1>3 DEF NextEvent
  <2> QED BY <1>4, <2>1, <2>2 DEF Part, InLines, StreamInv
<1>14. i' = k /\ poll_fds'[i'].fd = fd /\ pc' = IF ends THEN "lines" ELSE "recv"
  BY <1>1, <1>3, <1>4, <1>5
<1>15. message \in Seq(Bytes) /\ message_buffer[fd] \in Seq(Bytes) /\ CString(chunk) \in Seq(Bytes)
       /\ m \in Seq(Bytes)
  <2>1. message \in Seq(Bytes) /\ message_buffer[fd] \in Seq(Bytes) /\ CString(chunk) \in Seq(Bytes)
    BY <1>6, CStringIs DEF LoopInv, TypeOK
  <2> QED BY <2>1, ConcatProperties
<1>16. ASSUME ~ZeroTaken(c)'
       PROVE  ~ZeroTaken(c) /\ m = message \o chunk /\ \A j \in 1 .. w : chunk[j] = s[r + j]
  <2>1. \A j \in 1 .. r + w : s[j] # "nul"
    BY <1>9, <1>16 DEF ZeroTaken
  <2> HIDE DEF r, s, w, b, chunk
  <2>2. \A j \in 1 .. r : j \in 1 .. r + w
    BY <1>7
  <2>3. ~ZeroTaken(c)
    BY <2>1, <2>2 DEF ZeroTaken, r, s
  <2>4. \A j \in 1 .. w : j \in 1 .. Len(b) /\ r + j \in 1 .. r + w
    BY <1>6, <1>7 DEF w
  <2>5. \A j \in 1 .. w : chunk[j] = s[r + j]
    BY <1>6, <1>11, <2>4 DEF w
  <2>6. \A j \in 1 .. w : chunk[j] # "nul"
    BY <2>1, <2>4, <2>5
  <2>7. CString(chunk) = chunk
    BY <1>6, <2>6, CStringWhole DEF w
  <2> QED BY <2>3, <2>5, <2>7
<1> HIDE DEF rest, b, ends, m, chunk, w, s, r
<1>17. ASSUME ~ZeroTaken(c)'
       PROVE  Stream(s, r + w, message_buffer[fd], m, executed[c]) /\ NoNewline(message_buffer[fd])
  <2>1. Followed(fd, c)
    BY <1>4 DEF StreamInv
  <2>2. /\ Stream(s, r, message_buffer[fd], message, executed[c])
        /\ NoNewline(message_buffer[fd])
    BY <1>13, <1>16, <1>17, <2>1 DEF Followed, s, r
  <2>3. m = message \o chunk /\ \A j \in 1 .. Len(chunk) : chunk[j] = s[r + j]
    BY <1>16, <1>17 DEF w
  <2>4. Stream(s, r + Len(chunk), message_buffer[fd], message \o chunk, executed[c])
    BY <1>6, <1>7, <1>15, <2>2, <2>3, StreamTakes
  <2> QED BY <2>2, <2>3, <2>4 DEF w
<1>18. /\ \A f \in Fds : f # fd => owner'[f] = owner[f] /\ message_buffer'[f] = message_buffer[f]
       /\ owner'[fd] = c => message_buffer'[fd] = IF ends THEN message_buffer[fd] \o m ELSE message_buffer[fd]
       /\ owner'[fd] \in {c, None}
  <2>1. CASE ~ends
    BY <1>4, <1>5, <2>1
  <2>2. CASE ends /\ m # <<>>
    <3>1. message_buffer' = [message_buffer EXCEPT ![fd] = message_buffer[fd] \o m] /\ UNCHANGED owner
      BY <1>5, <2>2 DEF Received
    <3> QED BY <1>4, <2>2, <3>1 DEF LoopInv, TypeOK
  <2>3. CASE ends /\ m = <<>>
    <3>1. /\ owner' = [owner EXCEPT ![fd] = None]
          /\ message_buffer' = [message_buffer EXCEPT ![fd] = <<>>]
      BY <1>5, <2>3 DEF Received, CloseClient
    <3> QED BY <3>1, SocketServerConstants DEF LoopInv, TypeOK
  <2> QED BY <2>1, <2>2, <2>3
<1>19. owner'[fd] = c => Followed(fd, c)'
  <2> SUFFICES ASSUME owner'[fd] = c, ~ZeroTaken(c)'
               PROVE  /\ Stream(s, r + w, message_buffer'[fd], Part(fd)', executed[c])
                      /\ NoNewline(Part(fd)')
                      /\ (~InLines(fd)' => NoNewline(message_buffer'[fd]))
    <3>1. Script[c] = s /\ Read(c)' = r + w /\ executed'[c] = executed[c]
      BY <1>1, <1>9 DEF s
    <3> QED BY <3>1 DEF Followed, NoNewline
  <2>1. Stream(s, r + w, message_buffer[fd], m, executed[c]) /\ NoNewline(message_buffer[fd])
    BY <1>17
  <2>2. CASE ~ends
    <3>1. Part(fd)' = m /\ message_buffer'[fd] = message_buffer[fd]
      BY <1>5, <1>14, <1>18, <2>2 DEF Part
    <3>2. NoNewline(m)
      BY <1>15, <2>2, NewlineFirst DEF ends
    <3> QED BY <2>1, <3>1, <3>2
  <2>3. CASE ends
    <3>1. Part(fd)' = <<>> /\ message_buffer'[fd] = message_buffer[fd] \o m /\ InLines(fd)'
      BY <1>14, <1>18, <2>3 DEF Part, InLines
    <3>2. Stream(s, r + w, message_buffer[fd] \o m, <<>>, executed[c])
      BY <1>7, <1>15, <2>1, StreamKept
    <3> QED BY <3>1, <3>2, NothingHere
  <2> QED BY <2>2, <2>3
<1>20. \A f \in Fds, d \in Clients : owner'[f] = d => Followed(f, d)'
  <2> SUFFICES ASSUME NEW f \in Fds, NEW d \in Clients, owner'[f] = d PROVE Followed(f, d)'
    OBVIOUS
  <2>1. CASE f = fd
    BY <1>18, <1>19, <2>1, SocketServerConstants
  <2>2. CASE f # fd
    <3>1. owner[f] = d /\ message_buffer'[f] = message_buffer[f]
      BY <1>18, <2>2
    <3>2. d # c
      BY <1>4, <2>2, <3>1, SocketServerConstants DEF LoopInv, ClientInv
    <3>3. Part(f)' = <<>>
      BY <1>14, <2>2 DEF Part
    <3>4. Part(f) = <<>> /\ ~InLines(f)
      BY <1>3, <1>4, <2>2 DEF Part, InLines, NextEvent
    <3>5. Followed(f, d)
      BY <3>1 DEF StreamInv
    <3> QED BY <1>1, <1>10, <3>1, <3>2, <3>3, <3>4, <3>5, FollowedSame
  <2> QED BY <2>1, <2>2
<1>21. pc' # "recv" => message' = <<>>
  BY <1>5
<1>22. \A d \in Clients : peer[d] = "new" \/ d \in backlog => d # c
  BY <1>4 DEF LoopInv, ClientInv
<1>23. \A d \in Clients : Read(d)' >= Read(d)
  <2> TAKE d \in Clients
  <2>1. Read(d) \in Nat
    BY ReadIs
  <2>2. CASE d = c
    BY <1>7, <1>9, <2>2 DEF r
  <2>3. CASE d # c
    BY <1>10, <2>1, <2>3
  <2> QED BY <2>2, <2>3
<1>24. StreamInv'
  BY <1>1, <1>10, <1>12, <1>20, <1>21, <1>22 DEF StreamInv
<1> QED BY <1>23, <1>24

LEMMA StreamNext == LoopInv /\ StreamInv /\ [Next]_vars => StreamInv'
<1> SUFFICES ASSUME LoopInv, StreamInv, [Next]_vars PROVE StreamInv'
  OBVIOUS
<1>1. CASE Poll
  <2>1. /\ pc = "scan" /\ pc' = "scan"
        /\ UNCHANGED <<message, message_buffer, owner, backlog, inbox, peer, sent, executed>>
    BY <1>1 DEF Poll, Idle, ScanDone
  <2>2. \A fd \in Fds : ~InLines(fd)
    BY <2>1 DEF InLines
  <2> QED BY <2>1, <2>2, QuietStream
<1>2. CASE HandleNewConnection
  BY <1>2, AcceptStream
<1>3. CASE Receive
  BY <1>3, ReceiveStream
<1>4. CASE ExecuteLine
  BY <1>4, ExecuteStream
<1>5. CASE EndOfLines
  <2>1. /\ pc = "lines" /\ pc' = "scan"
        /\ UNCHANGED <<message, message_buffer, owner, backlog, inbox, peer, sent, executed>>
        /\ Newline(message_buffer[poll_fds[i].fd]) = 0
    BY <1>5 DEF EndOfLines
  <2>2. \A fd \in Fds : InLines(fd) => NoNewline(message_buffer[fd])
    BY <2>1, NewlineFirst DEF InLines, LoopInv, TypeOK
  <2> QED BY <2>1, <2>2, QuietStream
<1>6. CASE Sweep
  <2>1. /\ pc = "scan" /\ pc' = "scan"
        /\ UNCHANGED <<message, message_buffer, backlog, inbox, peer, sent, executed>>
    BY <1>6 DEF Sweep, ScanDone
  <2>2. \A fd \in Fds : owner'[fd] = owner[fd] \/ owner'[fd] = None
    BY <1>6 DEF Sweep, LoopInv, TypeOK
  <2>3. \A fd \in Fds : ~InLines(fd)
    BY <2>1 DEF InLines
  <2> QED BY <2>1, <2>2, <2>3, QuietStream
<1>7. ASSUME NEW c \in Clients, Connect(c) \/ SendByte(c) \/ HangUp(c)
      PROVE  StreamInv'
  BY <1>7, ClientStream
<1>8. CASE UNCHANGED vars
  <2>1. /\ UNCHANGED <<poll_fds, message_buffer, message, pc, i>>
        /\ UNCHANGED <<owner, backlog, inbox, peer, sent, executed>>
    BY <1>8 DEF vars, serverVars
  <2>2. \A d \in Clients : Read(d)' = Read(d) /\ InboxIs(d)'
    BY <2>1 DEF StreamInv, Read, InboxIs
  <2>3. \A fd \in Fds, d \in Clients : owner'[fd] = d => Followed(fd, d)'
    <3> SUFFICES ASSUME NEW fd \in Fds, NEW d \in Clients, owner'[fd] = d PROVE Followed(fd, d)'
      OBVIOUS
    <3>1. Followed(fd, d)
      BY <2>1 DEF StreamInv
    <3>2. Part(fd)' = Part(fd) /\ InLines(fd)' = InLines(fd)
      BY <2>1 DEF Part, InLines
    <3> QED BY <2>1, <2>2, <3>1, <3>2, FollowedSame
  <2> QED BY <2>1, <2>2, <2>3 DEF StreamInv
<1> QED BY <1>1, <1>2, <1>3, <1>4, <1>5, <1>6, <1>7, <1>8 DEF Next, ServerStep

LEMMA StreamAlways == Spec => []StreamInv
<1>1. LoopInv /\ StreamInv /\ [Next]_vars => StreamInv'
  BY StreamNext
<1> QED BY <1>1, LoopAlways, StreamInit, PTL DEF Spec

\* However the bytes were cut into packets and chunks, and whoever had the
\* descriptor before: the lines executed for a client are exactly the lines of
\* what was read from it, each once and in order, and its buffer is what
\* follows the last one, unless the client sent a zero byte.
THEOREM LinesAreFaithful == Spec => []LinesFaithful
<1>1. LoopInv /\ StreamInv => LinesFaithful
  <2> SUFFICES ASSUME LoopInv, StreamInv, NEW fd \in Fds,
                      owner[fd] # None, ~InLoop(fd), ~SendsZero(owner[fd])
               PROVE  /\ executed[owner[fd]] = LinesOf(Taken(owner[fd]))
                      /\ message_buffer[fd] = RestOf(Taken(owner[fd]))
    BY DEF LinesFaithful
  <2>1. PICK c \in Clients : c = owner[fd]
    BY DEF LoopInv, TypeOK
  <2>2. /\ Script[c] \in Seq(Bytes) /\ sent[c] \in 0 .. Len(Script[c]) /\ sent[c] \in Nat
        /\ Read(c) \in 0 .. Len(Script[c]) /\ Read(c) \in Nat /\ Read(c) <= sent[c]
    BY ReadIs
  <2>3. ~ZeroTaken(c)
    BY <2>1, ZeroIsSent
  <2>4. Part(fd) = <<>> /\ ~InLines(fd)
    BY DEF Part, InLines, InLoop
  <2>5. Followed(fd, c)
    BY <2>1 DEF StreamInv
  <2>6. Stream(Script[c], Read(c), message_buffer[fd], <<>>, executed[c]) /\ NoNewline(message_buffer[fd])
    BY <2>3, <2>4, <2>5 DEF Followed
  <2>7. message_buffer[fd] \in Seq(Bytes)
    BY DEF LoopInv, TypeOK
  <2>8. Taken(c) = SubSeq(Script[c], 1, Read(c))
    BY DEF Taken, Read
  <2>9. /\ executed[c] = LinesOf(SubSeq(Script[c], 1, Read(c)))
        /\ message_buffer[fd] = RestOf(SubSeq(Script[c], 1, Read(c)))
    BY <2>2, <2>6, <2>7, StreamDone
  <2> QED BY <2>1, <2>8, <2>9
<1> QED BY <1>1, StreamAlways, LoopAlways, PTL

-----------------------------------------------------------------------------
(* What was executed, whatever became of the connection since. *)

\* Nothing is ever executed for a client but the lines of what it sent, from
\* the first, in their order, none twice: not in the middle of a pass, not
\* after its connection was closed or reset, not by who has its descriptor now.
ExecutedWasSent ==
    \A c \in Clients : ~SendsZero(c) =>
        \E b \in 0 .. sent[c] : executed[c] = LinesOf(SubSeq(Script[c], 1, b))

ExecutedFrom(c) == \E b \in 0 .. Read(c) : executed[c] = LinesTo(Script[c], b)
ExecutedInv == \A c \in Clients : ~ZeroTaken(c) => ExecutedFrom(c)

\* Reading on takes back nothing; only ExecuteLine adds a line, and it does so
\* for a client that still has its connection.
LEMMA ReadGrows ==
    ASSUME LoopInv, StreamInv, [Next]_vars
    PROVE  \A c \in Clients : /\ Read(c)' >= Read(c)
                              /\ executed'[c] = executed[c] \/ \E fd \in Fds : owner'[fd] = c
<1>1. ASSUME UNCHANGED <<inbox, sent>> PROVE \A c \in Clients : Read(c)' >= Read(c)
  BY <1>1, ReadIs DEF Read
<1>2. CASE ExecuteLine
  <2> DEFINE fd == poll_fds[i].fd
             c == owner[fd]
  <2>1. /\ UNCHANGED <<owner, inbox, sent>> /\ pc = "lines"
        /\ \E line : executed' = [executed EXCEPT ![c] = Append(@, line)]
    BY <1>2 DEF ExecuteLine
  <2>2. fd \in Fds
    <3>1. i \in 2 .. Len(poll_fds)
      BY <2>1 DEF LoopInv, ListInv
    <3> QED BY <3>1 DEF LoopInv, ListInv
  <2>3. \A d \in Clients : d # c => executed'[d] = executed[d]
    <3> HIDE DEF c
    <3> QED BY <2>1 DEF LoopInv, ClientInv
  <2>4. owner'[fd] = c
    BY <2>1
  <2> QED BY <1>1, <2>1, <2>2, <2>3, <2>4
<1>3. CASE Receive
  BY <1>3, ReceiveStream DEF Receive
<1>4. ASSUME NEW c \in Clients, Connect(c) \/ SendByte(c) \/ HangUp(c)
      PROVE  \A d \in Clients : Read(d)' >= Read(d) /\ executed'[d] = executed[d]
  <2>1. UNCHANGED executed /\ \A d \in Clients : Read(d)' = Read(d)
    BY <1>4, ClientStream DEF Connect, SendByte, HangUp
  <2> QED BY <2>1, ReadIs
<1>5. CASE Poll \/ HandleNewConnection \/ EndOfLines \/ Sweep \/ UNCHANGED vars
  <2>1. UNCHANGED <<inbox, sent, executed>>
    BY <1>5 DEF Poll, HandleNewConnection, EndOfLines, Sweep, vars
  <2> QED BY <1>1, <2>1
<1> QED BY <1>2, <1>3, <1>4, <1>5 DEF Next, ServerStep

LEMMA ExecutedNext ==
    LoopInv /\ LoopInv' /\ StreamInv /\ StreamInv' /\ ExecutedInv /\ [Next]_vars => ExecutedInv'
<1> SUFFICES ASSUME LoopInv, LoopInv', StreamInv, StreamInv', ExecutedInv, [Next]_vars,
                    NEW c \in Clients, ~ZeroTaken(c)'
             PROVE  ExecutedFrom(c)'
  BY DEF ExecutedInv
<1>1. /\ Read(c) \in Nat /\ Read(c)' \in Nat /\ Read(c)' >= Read(c)
      /\ executed'[c] = executed[c] \/ \E fd \in Fds : owner'[fd] = c
  <2>1. Read(c) \in Nat /\ Read(c)' >= Read(c)
        /\ (executed'[c] = executed[c] \/ \E fd \in Fds : owner'[fd] = c)
    BY ReadIs, ReadGrows
  <2>2. sent'[c] \in Nat /\ inbox'[c] \in Seq(Bytes)
    BY DEF LoopInv, TypeOK, ClientInv
  <2>3. Len(inbox'[c]) \in Nat
    BY <2>2, LenProperties
  <2>4. Read(c)' = sent'[c] - Len(inbox'[c])
    BY DEF Read
  <2> QED BY <2>1, <2>2, <2>3, <2>4
<1>2. CASE executed'[c] = executed[c]
  <2>1. ~ZeroTaken(c)
    BY <1>1 DEF ZeroTaken
  <2>2. PICK b \in 0 .. Read(c) : executed[c] = LinesTo(Script[c], b)
    BY <2>1 DEF ExecutedInv, ExecutedFrom
  <2>3. b \in 0 .. Read(c)'
    BY <1>1
  <2> QED BY <1>2, <2>2, <2>3 DEF ExecutedFrom
<1>3. ASSUME NEW fd \in Fds, owner'[fd] = c PROVE ExecutedFrom(c)'
  <2>1. Followed(fd, c)'
    BY <1>3 DEF StreamInv
  <2>2. Stream(Script[c], Read(c), message_buffer[fd], Part(fd), executed[c])'
    BY <2>1 DEF Followed
  <2>3. \E b \in 0 .. Read(c)' : executed'[c] = LinesTo(Script[c], b)
    BY <2>2 DEF Stream
  <2> QED BY <2>3 DEF ExecutedFrom
<1> QED BY <1>1, <1>2, <1>3

\* Lines are executed in the order they were sent, from the first, at most
\* once, and none is made up, whatever happened to the connection.
THEOREM ExecutedIsSent == Spec => []ExecutedWasSent
<1>1. Init => ExecutedInv
  <2> SUFFICES ASSUME Init, NEW c \in Clients PROVE ExecutedFrom(c)
    BY DEF ExecutedInv
  <2>1. executed[c] = <<>>
    BY DEF Init
  <2>2. Read(c) = 0
    <3>1. Len(<<>>) = 0
      OBVIOUS
    <3>2. \A d \in Clients : sent[d] = 0 /\ inbox[d] = <<>>
      BY DEF Init
    <3>3. \A d \in Clients : Len(inbox[d]) = 0 /\ Read(d) = 0
      BY <3>1, <3>2 DEF Read
    <3> QED BY <3>3
  <2>3. Script[c] \in Seq(Bytes)
    BY ScriptType
  <2>4. PICK b \in 0 .. 0 : <<>> = LinesTo(Script[c], b)
    BY <2>3, StreamStart DEF Stream
  <2> QED BY <2>1, <2>2, <2>4 DEF ExecutedFrom
<1>2. LoopInv /\ ExecutedInv => ExecutedWasSent
  <2> SUFFICES ASSUME LoopInv, ExecutedInv, NEW c \in Clients, ~SendsZero(c)
               PROVE  \E b \in 0 .. sent[c] : executed[c] = LinesOf(SubSeq(Script[c], 1, b))
    BY DEF ExecutedWasSent
  <2>1. /\ Script[c] \in Seq(Bytes) /\ sent[c] \in 0 .. Len(Script[c]) /\ sent[c] \in Nat
        /\ Read(c) \in Nat /\ Read(c) <= sent[c]
    BY ReadIs
  <2>2. ~ZeroTaken(c)
    BY <2>1, ZeroIsSent
  <2>3. PICK b \in 0 .. Read(c) : executed[c] = LinesTo(Script[c], b)
    BY <2>2 DEF ExecutedInv, ExecutedFrom
  <2>4. b \in 0 .. sent[c]
    BY <2>1
  <2> QED BY <2>3, <2>4 DEF LinesTo
<1>3. Spec => []ExecutedInv
  BY <1>1, StreamAlways, LoopAlways, ExecutedNext, PTL DEF Spec
<1> QED BY <1>2, <1>3, LoopAlways, PTL

=============================================================================
