------------------------- MODULE SampleServerProofs -------------------------
(***************************************************************************)
(* The prototype's event loop, for any number of clients, descriptors and  *)
(* nicknames.  It erases list entries in the middle of the scan, and what  *)
(* it does next it does at the index of the erased one; whom this costs    *)
(* what rests on which slots of the vector's memory still count: the list, *)
(* and one slot behind its end.                                            *)
(***************************************************************************)
EXTENDS SampleServer, SequenceTheorems, TLAPS

\* The slot behind the end counts while the loop serves it or has it listed.
Behind == \/ pc = "lines" /\ i = size + 1
          \/ \E j \in 1 .. Len(indices_to_remove) : indices_to_remove[j] = size + 1
Reach == IF Behind THEN size + 1 ELSE size

\* The slots that count are of different descriptors; those of the list are
\* open; what is listed lies behind the scan, in ascending order, and has no
\* entry in the Parser.
ListInv ==
    /\ i \in Nat
    /\ Len(slots) >= 1 /\ slots[1].fd = ServerFd
    /\ \A k \in 2 .. Len(slots) : slots[k].fd \in Fds
    /\ Reach <= Len(slots)
    /\ \A j, k \in 1 .. Reach : slots[j].fd = slots[k].fd => j = k
    /\ \A k \in 2 .. size : owner[slots[k].fd] # None
    /\ pc = "lines" => i \in 2 .. size + 1
    /\ pc = "scan" => todo = <<>>
    /\ \A j \in 1 .. Len(indices_to_remove) :
          /\ indices_to_remove[j] \in 2 .. size + 1 /\ indices_to_remove[j] < i
          /\ ~isExist(slots[indices_to_remove[j]].fd)
    /\ \A j, k \in 1 .. Len(indices_to_remove) : j < k => indices_to_remove[j] < indices_to_remove[k]

\* A connection is in one place, and what poll reported of a client that is
\* there is still unread where the scan has not been.
ClientInv ==
    /\ \A f, g \in Fds : owner[f] # None /\ owner[f] = owner[g] => f = g
    /\ \A f \in Fds : owner[f] \notin backlog
    /\ \A c \in Clients : peer[c] = "new" => c \notin backlog /\ \A f \in Fds : owner[f] # c
    /\ \A k \in 2 .. size :
          (k > i \/ (k = i /\ pc = "scan")) /\ slots[k].in /\ peer[owner[slots[k].fd]] = "up"
              => inbox[owner[slots[k].fd]] # <<>>

SampleInv == TypeOK /\ UniqueNicks /\ ListInv /\ ClientInv

-----------------------------------------------------------------------------
(* The vector *)

\* What erase leaves in the memory of the vector.
LEMMA WithoutIs ==
    ASSUME TypeOK, NEW k \in 1 .. Len(slots)
    PROVE  /\ Without(k) \in Seq(Slot)
           /\ Len(Without(k)) = Len(slots)
           /\ \A j \in 1 .. Len(slots) :
                 Without(k)[j] = IF j \in k .. (size - 1) THEN slots[j + 1] ELSE slots[j]
<1>1. /\ slots \in Seq(Slot) /\ size \in 0 .. Len(slots) /\ Len(slots) \in Nat
      /\ DOMAIN slots = 1 .. Len(slots)
  BY LenProperties DEF TypeOK
<1>2. \A j \in 1 .. Len(slots) : slots[j] \in Slot
  BY <1>1, ElementOfSeq
<1>3. Without(k) = [j \in 1 .. Len(slots) |-> IF j \in k .. (size - 1) THEN slots[j + 1] ELSE slots[j]]
  BY <1>1 DEF Without
<1>4. \A j \in 1 .. Len(slots) : j \in k .. (size - 1) => j + 1 \in 1 .. Len(slots)
  BY <1>1
<1>5. Without(k) \in [1 .. Len(slots) -> Slot]
  BY <1>2, <1>3, <1>4
<1>6. Without(k) \in Seq(Slot)
  BY <1>1, <1>5, SeqDef
<1>7. Len(Without(k)) = Len(slots)
  BY <1>1, <1>5, <1>6, LenProperties
<1> QED BY <1>3, <1>6, <1>7

LEMMA Glue ==
    ASSUME NEW S, NEW a \in Seq(S), NEW e \in Seq(S), NEW b \in Seq(S)
    PROVE  /\ a \o e \o b \in Seq(S) /\ Len(a \o e \o b) = Len(a) + Len(e) + Len(b)
           /\ \A j \in 1 .. Len(a) : (a \o e \o b)[j] = a[j]
           /\ \A j \in 1 .. Len(e) : (a \o e \o b)[Len(a) + j] = e[j]
           /\ \A j \in 1 .. Len(b) : (a \o e \o b)[Len(a) + Len(e) + j] = b[j]
<1> DEFINE p == a \o e
           s == p \o b
<1>1. Len(a) \in Nat /\ Len(e) \in Nat /\ Len(b) \in Nat
  BY LenProperties
<1>2. /\ p \in Seq(S) /\ Len(p) = Len(a) + Len(e)
      /\ \A j \in 1 .. Len(a) + Len(e) : p[j] = IF j <= Len(a) THEN a[j] ELSE e[j - Len(a)]
  BY ConcatProperties
<1> HIDE DEF p
<1>3. /\ s \in Seq(S) /\ Len(s) = Len(p) + Len(b)
      /\ \A j \in 1 .. Len(p) + Len(b) : s[j] = IF j <= Len(p) THEN p[j] ELSE b[j - Len(p)]
  <2>1. p \in Seq(S)
    BY <1>2
  <2> QED BY <2>1, ConcatProperties
<1> HIDE DEF s
<1>4. \A j \in 1 .. Len(a) : s[j] = a[j]
  BY <1>1, <1>2, <1>3
<1>5. \A j \in 1 .. Len(e) : s[Len(a) + j] = e[j]
  <2> TAKE j \in 1 .. Len(e)
  <2>1. Len(a) + j \in 1 .. Len(a) + Len(e) /\ ~(Len(a) + j <= Len(a)) /\ (Len(a) + j) - Len(a) = j
    BY <1>1
  <2>2. s[Len(a) + j] = p[Len(a) + j]
    BY <1>1, <1>2, <1>3, <2>1
  <2>3. p[Len(a) + j] = e[(Len(a) + j) - Len(a)]
    BY <1>2, <2>1
  <2> QED BY <2>1, <2>2, <2>3
<1>6. \A j \in 1 .. Len(b) : s[Len(a) + Len(e) + j] = b[j]
  <2> TAKE j \in 1 .. Len(b)
  <2> DEFINE m == Len(a) + Len(e) + j
  <2>1. m \in 1 .. Len(p) + Len(b) /\ ~(m <= Len(p)) /\ m - Len(p) = j
    BY <1>1, <1>2
  <2>2. s[m] = b[m - Len(p)]
    BY <1>3, <2>1
  <2> QED BY <2>1, <2>2
<1> QED BY <1>1, <1>2, <1>3, <1>4, <1>5, <1>6 DEF p, s

\* The vector after a push_back: it writes behind the end of the list.
Pushed(x) == SubSeq(slots, 1, size) \o <<x>> \o SubSeq(slots, size + 2, Len(slots))

LEMMA PushedIs ==
    ASSUME TypeOK, NEW x \in Slot
    PROVE  /\ Pushed(x) \in Seq(Slot)
           /\ Len(Pushed(x)) >= size + 1 /\ Len(Pushed(x)) >= Len(slots)
           /\ Len(Pushed(x)) <= size + 1 \/ Len(Pushed(x)) <= Len(slots)
           /\ \A j \in 1 .. Len(Pushed(x)) : Pushed(x)[j] = IF j = size + 1 THEN x ELSE slots[j]
<1> DEFINE a == SubSeq(slots, 1, size)
           e == <<x>>
           b == SubSeq(slots, size + 2, Len(slots))
           s == Pushed(x)
<1>1. /\ slots \in Seq(Slot) /\ size \in Nat /\ size <= Len(slots) /\ Len(slots) \in Nat
  BY LenProperties DEF TypeOK
<1>2. /\ a \in Seq(Slot) /\ Len(a) = size
      /\ \A j \in 1 .. size : a[j] = slots[j]
  BY <1>1, SubSeqProperties
<1>3. /\ b \in Seq(Slot)
      /\ Len(b) = IF size + 2 <= Len(slots) THEN Len(slots) - size - 1 ELSE 0
      /\ \A j \in 1 .. Len(b) : b[j] = slots[size + 1 + j]
  <2>1. CASE size + 1 <= Len(slots)
    BY <1>1, <2>1, SubSeqProperties
  <2>2. CASE size = Len(slots)
    <3>1. b = <<>>
      BY <1>1, <2>2
    <3> QED BY <1>1, <2>2, <3>1
  <2> QED BY <1>1, <2>1, <2>2
<1>4. e \in Seq(Slot) /\ Len(e) = 1 /\ e[1] = x
  OBVIOUS
<1>5. s = a \o e \o b
  BY DEF Pushed
<1> HIDE DEF a, b, e, s
<1>6. /\ s \in Seq(Slot) /\ Len(s) = size + 1 + Len(b)
      /\ \A j \in 1 .. size : s[j] = slots[j]
      /\ s[size + 1] = x
      /\ \A j \in 1 .. Len(b) : s[size + 1 + j] = slots[size + 1 + j]
  <2>1. /\ s \in Seq(Slot) /\ Len(s) = Len(a) + Len(e) + Len(b)
        /\ \A j \in 1 .. Len(a) : s[j] = a[j]
        /\ \A j \in 1 .. Len(e) : s[Len(a) + j] = e[j]
        /\ \A j \in 1 .. Len(b) : s[Len(a) + Len(e) + j] = b[j]
    <3>1. a \in Seq(Slot) /\ e \in Seq(Slot) /\ b \in Seq(Slot)
      BY <1>2, <1>3, <1>4
    <3>2. /\ a \o e \o b \in Seq(Slot) /\ Len(a \o e \o b) = Len(a) + Len(e) + Len(b)
          /\ \A j \in 1 .. Len(a) : (a \o e \o b)[j] = a[j]
          /\ \A j \in 1 .. Len(e) : (a \o e \o b)[Len(a) + j] = e[j]
          /\ \A j \in 1 .. Len(b) : (a \o e \o b)[Len(a) + Len(e) + j] = b[j]
      BY <3>1, Glue
    <3> QED BY <1>5, <3>2
  <2>2. 1 \in 1 .. Len(e)
    BY <1>4
  <2>3. s[size + 1] = x
    BY <1>2, <1>4, <2>1, <2>2
  <2> QED BY <1>2, <1>3, <1>4, <2>1, <2>3
<1>7. Len(b) \in Nat
  BY <1>3, LenProperties
<1>8. \A j \in 1 .. Len(s) : s[j] = IF j = size + 1 THEN x ELSE slots[j]
  <2> TAKE j \in 1 .. Len(s)
  <2>1. CASE j <= size
    BY <1>1, <1>6, <2>1
  <2>2. CASE j = size + 1
    BY <1>6, <2>2
  <2>3. CASE j > size + 1
    <3> DEFINE n == j - (size + 1)
    <3>1. n \in 1 .. Len(b) /\ size + 1 + n = j
      BY <1>1, <1>6, <1>7, <2>3
    <3> HIDE DEF n
    <3>2. s[size + 1 + n] = slots[size + 1 + n]
      BY <1>6, <3>1
    <3> QED BY <1>1, <2>3, <3>1, <3>2
  <2> QED BY <1>1, <2>1, <2>2, <2>3
<1>9. /\ Len(s) >= size + 1 /\ Len(s) >= Len(slots)
      /\ Len(s) <= size + 1 \/ Len(s) <= Len(slots)
  <2>1. /\ Len(s) = size + 1 + Len(b)
        /\ Len(b) = IF size + 2 <= Len(slots) THEN Len(slots) - size - 1 ELSE 0
    BY <1>3, <1>6
  <2>2. CASE size + 2 <= Len(slots)
    BY <1>1, <1>7, <2>1, <2>2
  <2>3. CASE ~(size + 2 <= Len(slots))
    BY <1>1, <1>7, <2>1, <2>3
  <2> QED BY <2>2, <2>3
<1> QED BY <1>6, <1>8, <1>9, Zenon DEF s

\* What the type invariant says of the places the loop looks at.
LEMMA Types ==
    ASSUME TypeOK, ListInv
    PROVE  /\ slots \in Seq(Slot) /\ Len(slots) \in Nat /\ size \in Nat /\ size <= Len(slots)
           /\ DOMAIN slots = 1 .. Len(slots)
           /\ indices_to_remove \in Seq(1 .. Len(slots)) /\ Len(indices_to_remove) \in Nat
           /\ Reach \in {size, size + 1}
           /\ \A k \in 1 .. Len(slots) : slots[k] \in Slot
           /\ \A k \in 1 .. Len(slots) : slots[k].fd # ServerFd <=> k >= 2
           /\ \A k \in 2 .. Len(slots) : slots[k].fd \in Fds
<1>1. /\ slots \in Seq(Slot) /\ Len(slots) \in Nat /\ size \in Nat /\ size <= Len(slots)
      /\ DOMAIN slots = 1 .. Len(slots)
  BY LenProperties DEF TypeOK
<1>2. indices_to_remove \in Seq(1 .. Len(slots)) /\ Len(indices_to_remove) \in Nat
  BY <1>1, LenProperties DEF TypeOK
<1>3. \A k \in 1 .. Len(slots) : slots[k] \in Slot
  BY <1>1, ElementOfSeq
<1>4. \A k \in 2 .. Len(slots) : slots[k].fd \in Fds
  BY DEF ListInv
<1>5. slots[1].fd = ServerFd /\ ServerFd \notin Fds
  BY SampleConstants DEF ListInv
<1>6. \A k \in 1 .. Len(slots) : slots[k].fd # ServerFd <=> k >= 2
  <2> TAKE k \in 1 .. Len(slots)
  <2>1. CASE k = 1
    BY <1>5, <2>1
  <2>2. CASE k >= 2
    <3>1. k \in 2 .. Len(slots)
      BY <1>1, <2>2
    <3> QED BY <1>4, <1>5, <2>2, <3>1
  <2> QED BY <1>1, <2>1, <2>2
<1> QED BY <1>1, <1>2, <1>3, <1>4, <1>6 DEF Reach

-----------------------------------------------------------------------------
(* Every step keeps the invariant *)

LEMMA InitOK == Init => SampleInv
<1> SUFFICES ASSUME Init PROVE SampleInv
  OBVIOUS
<1>1. /\ slots = << [fd |-> ServerFd, in |-> FALSE] >> /\ size = 1
      /\ i = 1 /\ pc = "scan" /\ todo = <<>> /\ unfinished = {}
      /\ indices_to_remove = <<>> /\ clients_ = [fd \in Fds |-> None] /\ alive = TRUE
      /\ owner = [fd \in Fds |-> None] /\ backlog = {}
      /\ inbox = [c \in Clients |-> <<>>] /\ peer = [c \in Clients |-> "new"]
      /\ lines_left = MaxLines /\ MaxLines \in Nat
  BY SampleConstants DEF Init
<1>2. /\ slots \in Seq(Slot) /\ Len(slots) = 1 /\ slots[1].fd = ServerFd
      /\ indices_to_remove \in Seq(DOMAIN slots) /\ Len(indices_to_remove) = 0
  <2>1. [fd |-> ServerFd, in |-> FALSE] \in Slot
    BY DEF Slot
  <2> QED BY <1>1, <2>1
<1>3. TypeOK
  BY <1>1, <1>2 DEF TypeOK, isExist
<1>4. UniqueNicks
  BY <1>1 DEF UniqueNicks, isExist
<1>5. ListInv
  <2>1. ~Behind
    BY <1>1, <1>2 DEF Behind
  <2> QED BY <1>1, <1>2, <2>1 DEF ListInv, Reach
<1>6. ClientInv
  BY <1>1, SampleConstants DEF ClientInv
<1> QED BY <1>3, <1>4, <1>5, <1>6 DEF SampleInv

LEMMA ConnectStep ==
    ASSUME SampleInv, NEW c \in Clients, Connect(c)
    PROVE  SampleInv'
<1>1. TypeOK /\ UniqueNicks /\ ListInv /\ ClientInv
  BY DEF SampleInv
<1>2. /\ peer[c] = "new" /\ peer' = [peer EXCEPT ![c] = "up"] /\ backlog' = backlog \cup {c}
      /\ UNCHANGED <<slots, size, i, pc, indices_to_remove, todo, unfinished, clients_, alive,
                     owner, inbox, lines_left>>
  BY DEF Connect, loopVars
<1>3. peer \in [Clients -> {"new", "up", "gone"}]
  BY <1>1 DEF TypeOK
<1>4. \A d \in Clients : peer'[d] = IF d = c THEN "up" ELSE peer[d]
  BY <1>2, <1>3
<1>5. \A f \in Fds : owner[f] # c
  BY <1>1, <1>2 DEF ClientInv
<1>6. TypeOK'
  <2>1. peer' \in [Clients -> {"new", "up", "gone"}]
    BY <1>2, <1>3
  <2> QED BY <1>1, <1>2, <2>1 DEF TypeOK, isExist
<1>7. UniqueNicks'
  BY <1>1, <1>2 DEF UniqueNicks, isExist
<1>8. ListInv'
  BY <1>1, <1>2 DEF ListInv, Reach, Behind, isExist
<1>9. ClientInv'
  <2>1. \A f \in Fds : owner[f] \in Clients \cup {None} /\ owner[f] \notin backlog
    BY <1>1 DEF TypeOK, ClientInv
  <2>2. \A f \in Fds : owner'[f] \notin backlog'
    BY <1>2, <1>5, <2>1
  <2>3. \A d \in Clients : peer'[d] = "new" => d \notin backlog' /\ \A f \in Fds : owner'[f] # d
    BY <1>1, <1>2, <1>4 DEF ClientInv
  <2>4. \A k \in 2 .. size : peer'[owner[slots[k].fd]] = peer[owner[slots[k].fd]]
    <3> TAKE k \in 2 .. size
    <3>1. owner[slots[k].fd] # None /\ slots[k].fd \in Fds
      BY <1>1, Types DEF ListInv
    <3> QED BY <1>4, <1>5, <2>1, <3>1
  <2>5. \A k \in 2 .. size' :
          (k > i' \/ (k = i' /\ pc' = "scan")) /\ slots'[k].in /\ peer'[owner'[slots'[k].fd]] = "up"
              => inbox'[owner'[slots'[k].fd]] # <<>>
    BY <1>1, <1>2, <2>4 DEF ClientInv
  <2> QED BY <1>1, <1>2, <2>2, <2>3, <2>5 DEF ClientInv
<1> QED BY <1>6, <1>7, <1>8, <1>9 DEF SampleInv

LEMMA SendStep ==
    ASSUME SampleInv, NEW c \in Clients, SendLine(c)
    PROVE  SampleInv'
<1>1. TypeOK /\ UniqueNicks /\ ListInv /\ ClientInv
  BY DEF SampleInv
<1>2. /\ lines_left > 0 /\ lines_left' = lines_left - 1
      /\ \E line \in Lines : inbox' = [inbox EXCEPT ![c] = Append(@, line)]
      /\ UNCHANGED <<slots, size, i, pc, indices_to_remove, todo, unfinished, clients_, alive,
                     owner, backlog, peer>>
  BY DEF SendLine, loopVars
<1>3. PICK line \in Lines : inbox' = [inbox EXCEPT ![c] = Append(@, line)]
  BY <1>2
<1>4. inbox \in [Clients -> Seq(Lines)] /\ lines_left \in 0 .. MaxLines /\ MaxLines \in Nat
  BY <1>1, SampleConstants DEF TypeOK
<1>5. Append(inbox[c], line) \in Seq(Lines) /\ Append(inbox[c], line) # <<>>
  BY <1>4
<1>6. \A d \in Clients : inbox'[d] = IF d = c THEN Append(inbox[c], line) ELSE inbox[d]
  BY <1>3, <1>4
<1>7. TypeOK'
  <2>1. inbox' \in [Clients -> Seq(Lines)]
    BY <1>3, <1>4, <1>5
  <2>2. lines_left' \in 0 .. MaxLines
    BY <1>2, <1>4
  <2> QED BY <1>1, <1>2, <2>1, <2>2 DEF TypeOK, isExist
<1>8. UniqueNicks'
  BY <1>1, <1>2 DEF UniqueNicks, isExist
<1>9. ListInv'
  BY <1>1, <1>2 DEF ListInv, Reach, Behind, isExist
<1>10. ClientInv'
  <2>1. \A k \in 2 .. size :
          (k > i \/ (k = i /\ pc = "scan")) /\ slots[k].in /\ peer[owner[slots[k].fd]] = "up"
              => inbox'[owner[slots[k].fd]] # <<>>
    <3> TAKE k \in 2 .. size
    <3>1. owner[slots[k].fd] # None /\ slots[k].fd \in Fds
      BY <1>1, Types DEF ListInv
    <3>2. owner[slots[k].fd] \in Clients
      BY <1>1, <3>1 DEF TypeOK
    <3> QED BY <1>1, <1>5, <1>6, <3>2 DEF ClientInv
  <2> QED BY <1>1, <1>2, <2>1 DEF ClientInv
<1> QED BY <1>7, <1>8, <1>9, <1>10 DEF SampleInv

LEMMA HangUpStep ==
    ASSUME SampleInv, NEW c \in Clients, HangUp(c)
    PROVE  SampleInv'
<1>1. TypeOK /\ UniqueNicks /\ ListInv /\ ClientInv
  BY DEF SampleInv
<1>2. /\ peer' = [peer EXCEPT ![c] = "gone"]
      /\ inbox' \in {inbox, [inbox EXCEPT ![c] = <<>>]}
      /\ UNCHANGED <<slots, size, i, pc, indices_to_remove, todo, unfinished, clients_, alive,
                     owner, backlog, lines_left>>
  BY DEF HangUp, loopVars
<1>3. inbox \in [Clients -> Seq(Lines)] /\ peer \in [Clients -> {"new", "up", "gone"}]
  BY <1>1 DEF TypeOK
<1>4. \A d \in Clients : peer'[d] = IF d = c THEN "gone" ELSE peer[d]
  BY <1>2, <1>3
<1>5. \A d \in Clients : d # c => inbox'[d] = inbox[d]
  BY <1>2, <1>3
<1>6. TypeOK'
  <2>1. inbox' \in [Clients -> Seq(Lines)]
    <3>1. <<>> \in Seq(Lines)
      OBVIOUS
    <3>2. [inbox EXCEPT ![c] = <<>>] \in [Clients -> Seq(Lines)]
      BY <1>3, <3>1
    <3> QED BY <1>2, <1>3, <3>2
  <2>2. peer' \in [Clients -> {"new", "up", "gone"}]
    BY <1>2, <1>3
  <2> QED BY <1>1, <1>2, <2>1, <2>2 DEF TypeOK, isExist
<1>7. UniqueNicks'
  BY <1>1, <1>2 DEF UniqueNicks, isExist
<1>8. ListInv'
  BY <1>1, <1>2 DEF ListInv, Reach, Behind, isExist
<1>9. ClientInv'
  <2>1. \A k \in 2 .. size : peer'[owner[slots[k].fd]] = "up" =>
            /\ peer[owner[slots[k].fd]] = "up"
            /\ inbox'[owner[slots[k].fd]] = inbox[owner[slots[k].fd]]
    <3> TAKE k \in 2 .. size
    <3>1. owner[slots[k].fd] # None /\ slots[k].fd \in Fds
      BY <1>1, Types DEF ListInv
    <3>2. owner[slots[k].fd] \in Clients
      BY <1>1, <3>1 DEF TypeOK
    <3> QED BY <1>4, <1>5, <3>2
  <2>2. \A k \in 2 .. size :
          (k > i \/ (k = i /\ pc = "scan")) /\ slots[k].in /\ peer'[owner[slots[k].fd]] = "up"
              => inbox'[owner[slots[k].fd]] # <<>>
    BY <1>1, <2>1 DEF ClientInv
  <2>3. \A d \in Clients : peer'[d] = "new" => d \notin backlog /\ \A f \in Fds : owner[f] # d
    BY <1>1, <1>4 DEF ClientInv
  <2> QED BY <1>1, <1>2, <2>2, <2>3 DEF ClientInv
<1> QED BY <1>6, <1>7, <1>8, <1>9 DEF SampleInv

LEMMA PollStep ==
    ASSUME SampleInv, Poll
    PROVE  SampleInv'
<1>1. TypeOK /\ UniqueNicks /\ ListInv /\ ClientInv
  BY DEF SampleInv
<1> DEFINE s == [k \in DOMAIN slots |->
                   IF k <= size THEN [slots[k] EXCEPT !.in = Readable(slots[k].fd)] ELSE slots[k]]
<1>2. /\ pc = "scan" /\ indices_to_remove = <<>>
      /\ slots' = s /\ i' = 1
      /\ UNCHANGED <<size, pc, todo, unfinished, indices_to_remove, clients_, alive, owner, backlog,
                     inbox, peer, lines_left>>
  BY DEF Poll, Idle, ScanDone, kernelVars
<1>3. /\ Len(slots) \in Nat /\ size \in Nat /\ size <= Len(slots) /\ DOMAIN slots = 1 .. Len(slots)
      /\ \A k \in 1 .. Len(slots) : slots[k] \in Slot
      /\ \A k \in 2 .. Len(slots) : slots[k].fd \in Fds
      /\ Reach \in {size, size + 1}
  BY <1>1, Types
<1>4. \A fd : Readable(fd) \in BOOLEAN
  BY DEF Readable
<1>5. \A k \in 1 .. Len(slots) :
          /\ s[k] \in Slot /\ s[k].fd = slots[k].fd
          /\ k <= size => s[k].in = Readable(slots[k].fd)
  BY <1>3, <1>4 DEF Slot
<1>6. s \in Seq(Slot) /\ Len(s) = Len(slots)
  <2>1. s \in [1 .. Len(slots) -> Slot]
    BY <1>3, <1>5
  <2> QED BY <1>3, <2>1, SeqDef, LenProperties
<1> HIDE DEF s
<1>7. TypeOK'
  <2>1. DOMAIN s = DOMAIN slots
    BY <1>3, <1>6, LenProperties
  <2> QED BY <1>1, <1>2, <1>6, <2>1 DEF TypeOK, isExist
<1>8. UniqueNicks'
  BY <1>1, <1>2 DEF UniqueNicks, isExist
<1>9. Reach' = size /\ Reach' <= Reach
  <2>1. ~Behind'
    BY <1>2 DEF Behind
  <2> QED BY <1>2, <1>3, <2>1 DEF Reach
<1>10. ListInv'
  <2>1. \A j, k \in 1 .. size : s[j].fd = s[k].fd => j = k
    BY <1>1, <1>3, <1>5 DEF ListInv
  <2>2. Len(slots) >= 1 /\ s[1].fd = ServerFd
    BY <1>1, <1>3, <1>5 DEF ListInv
  <2>3. \A k \in 2 .. Len(s) : s[k].fd \in Fds
    BY <1>3, <1>5, <1>6
  <2>4. \A k \in 2 .. size : owner[s[k].fd] # None
    BY <1>1, <1>3, <1>5 DEF ListInv
  <2>5. todo = <<>>
    BY <1>1, <1>2 DEF ListInv
  <2> QED BY <1>2, <1>3, <1>6, <1>9, <2>1, <2>2, <2>3, <2>4, <2>5 DEF ListInv
<1>11. ClientInv'
  <2>1. \A k \in 2 .. size : s[k].in /\ peer[owner[s[k].fd]] = "up" => inbox[owner[s[k].fd]] # <<>>
    <3> TAKE k \in 2 .. size
    <3>1. slots[k].fd # ServerFd
      BY <1>3, SampleConstants
    <3>2. s[k].in = Readable(slots[k].fd) /\ s[k].fd = slots[k].fd
      BY <1>3, <1>5
    <3> QED BY <3>1, <3>2 DEF Readable
  <2> QED BY <1>1, <1>2, <2>1 DEF ClientInv
<1> QED BY <1>7, <1>8, <1>10, <1>11 DEF SampleInv

LEMMA NewConnectionStep ==
    ASSUME SampleInv, HandleNewConnection
    PROVE  SampleInv'
<1>1. TypeOK /\ UniqueNicks /\ ListInv /\ ClientInv
  BY DEF SampleInv
<1>2. PICK k \in 1 .. size : NextEvent(k) /\ slots[k].fd = ServerFd /\ i' = k + 1
  BY DEF HandleNewConnection
<1>3. UNCHANGED <<pc, todo, unfinished, indices_to_remove, clients_, alive, inbox, peer, lines_left>>
  BY DEF HandleNewConnection
<1>4. /\ Len(slots) \in Nat /\ size \in Nat /\ size <= Len(slots) /\ DOMAIN slots = 1 .. Len(slots)
      /\ \A m \in 1 .. Len(slots) : slots[m] \in Slot
      /\ \A m \in 1 .. Len(slots) : slots[m].fd # ServerFd <=> m >= 2
      /\ \A m \in 2 .. Len(slots) : slots[m].fd \in Fds
      /\ Len(indices_to_remove) \in Nat
      /\ Reach \in {size, size + 1}
  BY <1>1, Types
<1>5. k = 1 /\ i' = 2 /\ size >= 1
  BY <1>2, <1>4
<1>6. i \in Nat /\ i <= 1 /\ pc = "scan"
  BY <1>1, <1>2, <1>5 DEF NextEvent, ListInv
<1>7. Len(indices_to_remove) = 0 /\ indices_to_remove = <<>>
  <2>1. \A j \in 1 .. Len(indices_to_remove) : FALSE
    BY <1>1, <1>4, <1>6 DEF ListInv
  <2>2. Len(indices_to_remove) = 0
    BY <1>4, <2>1
  <2> QED BY <2>2, <1>1, EmptySeq DEF TypeOK
<1>8. ~Behind' /\ Reach' = size' /\ todo' = <<>>
  <2>1. ~Behind'
    BY <1>3, <1>6, <1>7 DEF Behind
  <2> QED BY <1>1, <1>3, <1>6, <2>1 DEF Reach, ListInv
<1>9. UniqueNicks'
  BY <1>1, <1>3 DEF UniqueNicks, isExist
<1>10. CASE UNCHANGED <<slots, size, owner, backlog>>
  <2>1. TypeOK'
    BY <1>1, <1>3, <1>6, <1>10 DEF TypeOK, isExist
  <2>2. ListInv'
    BY <1>1, <1>3, <1>4, <1>5, <1>6, <1>7, <1>8, <1>10 DEF ListInv
  <2>3. ClientInv'
    <3>1. \A m \in 2 .. size : m > i
      BY <1>4, <1>6
    <3> QED BY <1>1, <1>3, <1>10, <3>1 DEF ClientInv
  <2> QED BY <1>9, <2>1, <2>2, <2>3 DEF SampleInv
<1>11. ASSUME NEW fd \in Fds, NEW c \in backlog, owner[fd] = None,
              owner' = [owner EXCEPT ![fd] = c], backlog' = backlog \ {c},
              slots' = Pushed([fd |-> fd, in |-> FALSE]), size' = size + 1
       PROVE  SampleInv'
  <2> DEFINE x == [fd |-> fd, in |-> FALSE]
  <2>1. x \in Slot /\ x.fd = fd /\ x.in = FALSE
    BY DEF Slot
  <2>2. /\ slots' \in Seq(Slot)
        /\ Len(slots') >= size + 1 /\ Len(slots') >= Len(slots)
        /\ \A j \in 1 .. Len(slots') : slots'[j] = IF j = size + 1 THEN x ELSE slots[j]
    BY <1>1, <1>11, <2>1, PushedIs
  <2>3. /\ Len(slots') \in Nat
        /\ DOMAIN slots' = 1 .. Len(slots')
        /\ Len(slots') <= size + 1 \/ Len(slots') <= Len(slots)
    <3>1. Len(slots') <= size + 1 \/ Len(slots') <= Len(slots)
      BY <1>1, <1>11, <2>1, PushedIs
    <3> QED BY <2>2, <3>1, LenProperties
  <2> HIDE DEF x
  <2>4. c \in Clients /\ backlog' \subseteq Clients /\ owner \in [Fds -> Clients \cup {None}]
        /\ c # None
    BY <1>1, <1>11, SampleConstants DEF TypeOK
  <2>5. /\ owner' \in [Fds -> Clients \cup {None}]
        /\ \A f \in Fds : owner'[f] = IF f = fd THEN c ELSE owner[f]
    BY <1>11, <2>4
  <2>6. slots'[size + 1].fd = fd /\ slots'[size + 1].in = FALSE
    BY <1>4, <2>1, <2>2, <2>3
  <2>7. \A m \in 1 .. size : slots'[m] = slots[m]
    BY <1>4, <2>2, <2>3
  <2>8. \A m \in 2 .. size : slots[m].fd \in Fds /\ slots[m].fd # fd
    BY <1>1, <1>4, <1>11 DEF ListInv
  <2>9. TypeOK'
    <3>1. size' \in 0 .. Len(slots')
      BY <1>4, <1>11, <2>2, <2>3
    <3>2. indices_to_remove' \in Seq(DOMAIN slots')
      BY <1>3, <1>7
    <3> QED BY <1>1, <1>3, <1>6, <2>2, <2>4, <2>5, <3>1, <3>2 DEF TypeOK, isExist
  <2>10. ListInv'
    <3>1. Len(slots') >= 1 /\ slots'[1].fd = ServerFd
      BY <1>1, <1>4, <1>5, <2>3, <2>2, <2>7 DEF ListInv
    <3>2. \A m \in 2 .. Len(slots') : slots'[m].fd \in Fds
      <4> TAKE m \in 2 .. Len(slots')
      <4>1. CASE m = size + 1
        BY <2>6, <4>1
      <4>2. CASE m # size + 1
        <5>1. slots'[m] = slots[m] /\ m \in 2 .. Len(slots)
          BY <1>4, <2>2, <2>3, <4>2
        <5> QED BY <1>4, <5>1
      <4> QED BY <4>1, <4>2
    <3>3. \A j, m \in 1 .. size + 1 : slots'[j].fd = slots'[m].fd => j = m
      <4>1. \A m \in 1 .. size : slots'[m].fd # fd
        <5> TAKE m \in 1 .. size
        <5>1. CASE m = 1
          BY <2>7, <5>1, <1>1, SampleConstants DEF ListInv
        <5>2. CASE m >= 2
          BY <2>7, <2>8, <5>2
        <5> QED BY <1>4, <5>1, <5>2
      <4>2. \A j, m \in 1 .. size : slots'[j].fd = slots'[m].fd => j = m
        BY <1>1, <1>4, <2>7 DEF ListInv
      <4> TAKE j, m \in 1 .. size + 1
      <4>3. CASE j \in 1 .. size /\ m \in 1 .. size
        BY <4>2, <4>3
      <4>4. CASE j = size + 1 /\ m \in 1 .. size
        BY <2>6, <4>1, <4>4
      <4>5. CASE j \in 1 .. size /\ m = size + 1
        BY <2>6, <4>1, <4>5
      <4>6. j \in 1 .. size \/ j = size + 1
        BY <1>4
      <4>7. m \in 1 .. size \/ m = size + 1
        BY <1>4
      <4> QED BY <4>3, <4>4, <4>5, <4>6, <4>7
    <3>4. \A m \in 2 .. size + 1 : owner'[slots'[m].fd] # None
      <4> TAKE m \in 2 .. size + 1
      <4>1. CASE m = size + 1
        BY <2>4, <2>5, <2>6, <4>1
      <4>2. CASE m \in 2 .. size
        BY <1>1, <2>5, <2>7, <2>8, <4>2 DEF ListInv
      <4> QED BY <1>4, <4>1, <4>2
    <3>5. /\ i' = 2 /\ size' = size + 1 /\ Reach' = size + 1 /\ Reach' <= Len(slots')
          /\ pc' = "scan" /\ todo' = <<>>
      BY <1>3, <1>5, <1>6, <1>8, <1>11, <2>2
    <3>6. Len(indices_to_remove') = 0
      BY <1>3, <1>7
    <3>7. \A j, m \in 1 .. Reach' : slots'[j].fd = slots'[m].fd => j = m
      BY <3>3, <3>5
    <3>8. \A m \in 2 .. size' : owner'[slots'[m].fd] # None
      BY <3>4, <3>5
    <3>9. \A j \in 1 .. Len(indices_to_remove') : FALSE
      BY <3>6
    <3> QED BY <3>1, <3>2, <3>5, <3>7, <3>8, <3>9 DEF ListInv
  <2>11. ClientInv'
    <3>1. \A f \in Fds : owner[f] # c
      BY <1>1, <1>11 DEF ClientInv
    <3>2. \A f, g \in Fds : owner'[f] # None /\ owner'[f] = owner'[g] => f = g
      BY <1>1, <2>5, <3>1 DEF ClientInv
    <3>3. \A f \in Fds : owner'[f] \notin backlog'
      BY <1>1, <1>11, <2>5 DEF ClientInv
    <3>4. peer[c] # "new"
      BY <1>1, <1>11, <2>4 DEF ClientInv
    <3>5. \A d \in Clients : peer'[d] = "new" => d \notin backlog' /\ \A f \in Fds : owner'[f] # d
      BY <1>1, <1>3, <1>11, <2>5, <3>4 DEF ClientInv
    <3>6. \A m \in 2 .. size + 1 :
              slots'[m].in /\ peer[owner'[slots'[m].fd]] = "up" => inbox[owner'[slots'[m].fd]] # <<>>
      <4> TAKE m \in 2 .. size + 1
      <4>1. CASE m = size + 1
        BY <2>6, <4>1
      <4>2. CASE m \in 2 .. size
        <5>1. m > i /\ slots'[m] = slots[m] /\ owner'[slots[m].fd] = owner[slots[m].fd]
          BY <1>4, <1>6, <2>5, <2>7, <2>8, <4>2
        <5> QED BY <1>1, <4>2, <5>1 DEF ClientInv
      <4> QED BY <1>4, <4>1, <4>2
    <3> QED BY <1>3, <1>11, <3>2, <3>3, <3>5, <3>6 DEF ClientInv
  <2> QED BY <1>9, <2>9, <2>10, <2>11 DEF SampleInv
<1> QED
  <2>1. \/ UNCHANGED <<slots, size, owner, backlog>>
        \/ \E fd \in Fds, c \in backlog :
              /\ owner[fd] = None
              /\ owner' = [owner EXCEPT ![fd] = c] /\ backlog' = backlog \ {c}
              /\ slots' = Pushed([fd |-> fd, in |-> FALSE]) /\ size' = size + 1
    BY DEF HandleNewConnection, Pushed
  <2> QED BY <1>10, <1>11, <2>1

LEMMA ExecuteStep ==
    ASSUME SampleInv, ExecuteLine
    PROVE  SampleInv'
<1>1. TypeOK /\ UniqueNicks /\ ListInv /\ ClientInv
  BY DEF SampleInv
<1> DEFINE fd == slots[i].fd
           line == Complete(fd, Head(todo))
<1>2. /\ alive /\ pc = "lines" /\ todo # <<>> /\ todo' = Tail(todo)
      /\ UNCHANGED <<slots, size, i, pc, indices_to_remove, owner, backlog, inbox, peer, lines_left>>
      /\ \/ unfinished' = unfinished \cup {fd} /\ UNCHANGED <<clients_, alive>>
         \/ alive' = FALSE /\ UNCHANGED <<unfinished, clients_>>
         \/ /\ line.cmd # "part" /\ line.cmd # "short"
            /\ unfinished' = unfinished \ {fd} /\ UNCHANGED alive
            /\ clients_' = [clients_ EXCEPT ![fd] = Action(fd, line)]
  <2>1. Head(todo).cmd # "part" => line.cmd # "part"
    BY DEF Complete
  <2> QED BY <2>1 DEF ExecuteLine, loopVars, kernelVars
<1>3. /\ Len(slots) \in Nat /\ size \in Nat /\ size <= Len(slots) /\ DOMAIN slots = 1 .. Len(slots)
      /\ \A m \in 2 .. Len(slots) : slots[m].fd \in Fds
      /\ Reach \in {size, size + 1} /\ indices_to_remove \in Seq(1 .. Len(slots))
      /\ Len(indices_to_remove) \in Nat
  BY <1>1, Types
<1>4. i \in 2 .. Reach /\ i \in 2 .. Len(slots) /\ fd \in Fds /\ i \in Nat
  <2>1. i \in 2 .. size + 1 /\ Reach <= Len(slots)
    BY <1>1, <1>2 DEF ListInv
  <2>2. i \in 2 .. Reach
    BY <1>2, <1>3, <2>1 DEF Reach, Behind
  <2> QED BY <1>3, <2>1, <2>2
<1>5. Head(todo) \in Lines /\ Tail(todo) \in Seq(Lines)
  BY <1>1, <1>2 DEF TypeOK
<1>6. line \in Lines
  <2>1. [cmd |-> "other", arg |-> Empty] \in Lines
    BY DEF Lines
  <2> QED BY <1>5, <2>1 DEF Complete
<1> DEFINE new == Action(fd, line)
<1>7. CASE clients_' = clients_
  <2>1. TypeOK'
    <3>1. unfinished' \subseteq Fds /\ alive' \in BOOLEAN
      BY <1>1, <1>2, <1>4 DEF TypeOK
    <3> QED BY <1>1, <1>2, <1>5, <1>7, <3>1 DEF TypeOK, isExist
  <2>2. UniqueNicks'
    BY <1>1, <1>7 DEF UniqueNicks, isExist
  <2>3. ListInv'
    BY <1>1, <1>2, <1>7 DEF ListInv, Reach, Behind, isExist
  <2>4. ClientInv'
    BY <1>1, <1>2 DEF ClientInv
  <2> QED BY <2>1, <2>2, <2>3, <2>4 DEF SampleInv
<1>8. CASE /\ line.cmd # "part" /\ line.cmd # "short"
           /\ unfinished' = unfinished \ {fd} /\ UNCHANGED alive
           /\ clients_' = [clients_ EXCEPT ![fd] = new]
  <2> DEFINE old == IF isExist(fd) THEN clients_[fd] ELSE NewInfo
             Sound(info) == info.registered => info.hasNick /\ info.hasUser
  <2>1. clients_ \in [Fds -> ClientInfo \cup {None}]
    BY <1>1 DEF TypeOK
  <2>2. old \in ClientInfo /\ Sound(old) /\ (old.hasNick => isExist(fd) /\ old = clients_[fd])
    <3>1. CASE isExist(fd)
      BY <1>1, <1>4, <2>1, <3>1 DEF TypeOK, isExist
    <3>2. CASE ~isExist(fd)
      BY <3>2 DEF NewInfo, ClientInfo
    <3> QED BY <3>1, <3>2
  <2>3. /\ \/ new = None
           \/ /\ new \in ClientInfo /\ Sound(new)
              /\ \/ new.hasNick = old.hasNick /\ new.nick = old.nick
                 \/ ~nick_in_use(fd, new.nick)
    <3> HIDE DEF old, fd, line
    <3>1. new = CASE line.cmd = "NICK" ->
                       IF nick_in_use(fd, line.arg) THEN old
                       ELSE registerClient([old EXCEPT !.nick = line.arg, !.hasNick = TRUE])
                  [] line.cmd = "USER"  -> registerClient([old EXCEPT !.hasUser = TRUE])
                  [] line.cmd = "QUIT"  -> None
                  [] line.cmd = "other" -> old
      BY DEF Action, old
    <3>2. line.cmd \in {"NICK", "USER", "QUIT", "other"} /\ line.arg \in Nicks \cup {Empty}
      BY <1>6, <1>8 DEF Lines
    <3>3. CASE line.cmd = "NICK"
      <4>1. CASE nick_in_use(fd, line.arg)
        BY <2>2, <3>1, <3>3, <4>1
      <4>2. CASE ~nick_in_use(fd, line.arg)
        <5> DEFINE a == [old EXCEPT !.nick = line.arg, !.hasNick = TRUE]
        <5>1. a \in ClientInfo /\ a.nick = line.arg /\ a.hasNick = TRUE /\ Sound(a)
          BY <2>2, <3>2 DEF ClientInfo
        <5>2. new = registerClient(a)
          BY <3>1, <3>3, <4>2
        <5> HIDE DEF a
        <5>3. new \in ClientInfo /\ Sound(new) /\ new.nick = a.nick
          BY <5>1, <5>2 DEF registerClient, ClientInfo
        <5> QED BY <4>2, <5>1, <5>3
      <4> QED BY <4>1, <4>2
    <3>4. CASE line.cmd = "USER"
      <4> DEFINE a == [old EXCEPT !.hasUser = TRUE]
      <4>1. a \in ClientInfo /\ a.nick = old.nick /\ a.hasNick = old.hasNick /\ Sound(a)
        BY <2>2 DEF ClientInfo
      <4>2. new = registerClient(a)
        BY <3>1, <3>4
      <4> HIDE DEF a
      <4>3. new \in ClientInfo /\ Sound(new) /\ new.nick = a.nick /\ new.hasNick = a.hasNick
        BY <4>1, <4>2 DEF registerClient, ClientInfo
      <4> QED BY <4>1, <4>3
    <3>5. CASE line.cmd = "QUIT"
      BY <3>1, <3>5
    <3>6. CASE line.cmd = "other"
      BY <2>2, <3>1, <3>6
    <3> QED BY <3>2, <3>3, <3>4, <3>5, <3>6
  <2>4. \A f \in Fds : clients_'[f] = IF f = fd THEN new ELSE clients_[f]
    BY <1>8, <2>1
  <2> HIDE DEF new, fd, line
  <2>5. TypeOK'
    <3>1. new \in ClientInfo \cup {None}
      BY <2>3
    <3>2. clients_' \in [Fds -> ClientInfo \cup {None}]
      BY <1>8, <2>1, <3>1
    <3>3. \A f \in Fds : clients_'[f] # None /\ clients_'[f].registered
                            => clients_'[f].hasNick /\ clients_'[f].hasUser
      BY <1>1, <2>3, <2>4 DEF TypeOK, isExist
    <3>4. unfinished' \subseteq Fds
      BY <1>1, <1>8 DEF TypeOK
    <3> QED BY <1>1, <1>2, <1>5, <1>8, <3>2, <3>3, <3>4 DEF TypeOK, isExist
  <2>6. UniqueNicks'
    <3>1. \A g \in Fds :
             g # fd /\ clients_[g] # None /\ clients_[g].hasNick /\ new # None /\ new.hasNick
                 => clients_[g].nick # new.nick
      <4> SUFFICES ASSUME NEW g \in Fds, g # fd, clients_[g] # None, clients_[g].hasNick,
                          new # None, new.hasNick
                   PROVE  clients_[g].nick # new.nick
        OBVIOUS
      <4>1. CASE new.hasNick = old.hasNick /\ new.nick = old.nick
        <5>1. clients_[fd] # None /\ clients_[fd].hasNick /\ new.nick = clients_[fd].nick
          BY <2>2, <4>1 DEF isExist
        <5> QED BY <1>1, <1>4, <5>1 DEF UniqueNicks, isExist
      <4>2. CASE ~nick_in_use(fd, new.nick)
        BY <4>2 DEF nick_in_use, isExist
      <4> QED BY <2>3, <4>1, <4>2
    <3> SUFFICES ASSUME NEW f \in Fds, NEW g \in Fds, clients_'[f] # None, clients_'[g] # None,
                        clients_'[f].hasNick, clients_'[g].hasNick, f # g
                 PROVE  clients_'[f].nick # clients_'[g].nick
      BY DEF UniqueNicks, isExist
    <3>2. CASE f = fd
      BY <2>4, <3>1, <3>2
    <3>3. CASE g = fd
      BY <2>4, <3>1, <3>3
    <3>4. CASE f # fd /\ g # fd
      BY <1>1, <2>4, <3>4 DEF UniqueNicks, isExist
    <3> QED BY <3>2, <3>3, <3>4
  <2>7. ListInv'
    <3>1. \A j \in 1 .. Len(indices_to_remove) : clients_'[slots[indices_to_remove[j]].fd] = None
      <4> TAKE j \in 1 .. Len(indices_to_remove)
      <4> DEFINE m == indices_to_remove[j]
      <4>1. m \in 2 .. size + 1 /\ m < i /\ clients_[slots[m].fd] = None
        BY <1>1 DEF ListInv, isExist
      <4>2. m \in 2 .. Reach /\ m \in 2 .. Len(slots) /\ m # i
        BY <1>3, <1>4, <4>1
      <4> HIDE DEF m
      <4>3. slots[m].fd # fd
        BY <1>1, <1>3, <1>4, <4>2 DEF ListInv, fd
      <4> QED BY <1>3, <2>4, <4>1, <4>2, <4>3 DEF m
    <3> QED BY <1>1, <1>2, <3>1 DEF ListInv, Reach, Behind, isExist
  <2>8. ClientInv'
    BY <1>1, <1>2 DEF ClientInv
  <2> QED BY <2>5, <2>6, <2>7, <2>8 DEF SampleInv
<1> QED BY <1>2, <1>7, <1>8

LEMMA EndOfLinesStep ==
    ASSUME SampleInv, EndOfLines
    PROVE  SampleInv'
<1>1. TypeOK /\ UniqueNicks /\ ListInv /\ ClientInv
  BY DEF SampleInv
<1>2. /\ pc = "lines" /\ todo = <<>> /\ i' = i + 1 /\ pc' = "scan"
      /\ indices_to_remove' = IF ToRemove(slots[i].fd) THEN Append(indices_to_remove, i)
                              ELSE indices_to_remove
      /\ UNCHANGED <<slots, size, todo, unfinished, clients_, alive, owner, backlog, inbox, peer,
                     lines_left>>
  BY DEF EndOfLines, kernelVars
<1> DEFINE r == indices_to_remove
           s == indices_to_remove'
<1>3. /\ Len(slots) \in Nat /\ size \in Nat /\ size <= Len(slots) /\ DOMAIN slots = 1 .. Len(slots)
      /\ Reach \in {size, size + 1} /\ r \in Seq(1 .. Len(slots)) /\ Len(r) \in Nat
  BY <1>1, Types
<1>4. /\ i \in 2 .. size + 1 /\ i \in 1 .. Len(slots) /\ i \in Nat /\ Reach <= Len(slots)
      /\ i = size + 1 => Reach = size + 1
  BY <1>1, <1>2, <1>3 DEF ListInv, TypeOK, Reach, Behind
<1>5. /\ s \in Seq(1 .. Len(slots)) /\ Len(s) \in {Len(r), Len(r) + 1}
      /\ \A j \in 1 .. Len(r) : s[j] = r[j]
      /\ Len(s) = Len(r) + 1 => s[Len(s)] = i /\ ~isExist(slots[i].fd)
  <2>1. CASE ToRemove(slots[i].fd)
    <3>1. s = Append(r, i)
      BY <1>2, <2>1
    <3>2. /\ s \in Seq(1 .. Len(slots)) /\ Len(s) = Len(r) + 1 /\ s[Len(r) + 1] = i
          /\ \A j \in 1 .. Len(r) : s[j] = r[j]
      BY <1>3, <1>4, <3>1, AppendProperties
    <3> QED BY <2>1, <3>2 DEF ToRemove
  <2>2. CASE ~ToRemove(slots[i].fd)
    <3>1. s = r
      BY <1>2, <2>2
    <3> QED BY <1>3, <3>1
  <2> QED BY <2>1, <2>2
<1> HIDE DEF r, s
<1>6. Len(s) \in Nat
  BY <1>3, <1>5
<1>7. \A j \in 1 .. Len(r) : r[j] \in 2 .. size + 1 /\ r[j] < i /\ ~isExist(slots[r[j]].fd)
  BY <1>1 DEF ListInv, r
<1>8. \A j \in 1 .. Len(s) : s[j] \in 2 .. size + 1 /\ s[j] < i + 1 /\ ~isExist(slots[s[j]].fd)
  <2> TAKE j \in 1 .. Len(s)
  <2>1. CASE j \in 1 .. Len(r)
    <3>1. s[j] = r[j] /\ r[j] \in 2 .. size + 1 /\ r[j] < i /\ ~isExist(slots[r[j]].fd)
      BY <1>5, <1>7, <2>1
    <3> QED BY <1>3, <1>4, <3>1
  <2>2. CASE j = Len(r) + 1
    <3>1. s[j] = i /\ ~isExist(slots[i].fd)
      BY <1>3, <1>5, <1>6, <2>2
    <3> QED BY <1>3, <1>4, <3>1
  <2> QED BY <1>3, <1>5, <2>1, <2>2
<1>9. \A j, k \in 1 .. Len(s) : j < k => s[j] < s[k]
  <2> TAKE j, k \in 1 .. Len(s)
  <2>1. CASE k \in 1 .. Len(r)
    <3>1. \A a, b \in 1 .. Len(r) : a < b => r[a] < r[b]
      BY <1>1 DEF ListInv, r
    <3> QED BY <1>3, <1>5, <1>6, <2>1, <3>1
  <2>2. CASE k = Len(r) + 1
    <3>1. s[k] = i
      BY <1>3, <1>5, <1>6, <2>2
    <3>2. j < k => j \in 1 .. Len(r)
      BY <1>3, <1>6, <2>2
    <3> QED BY <1>5, <1>7, <3>1, <3>2
  <2> QED BY <1>3, <1>5, <2>1, <2>2
<1>10. Reach' \in {size, size + 1} /\ Reach' <= Reach
  <2>1. Behind' => Reach = size + 1
    <3> SUFFICES ASSUME NEW j \in 1 .. Len(s), s[j] = size + 1 PROVE Reach = size + 1
      BY <1>2, <1>3 DEF Behind, s, Reach
    <3>1. CASE j \in 1 .. Len(r)
      BY <1>5, <3>1 DEF Reach, Behind, r
    <3>2. CASE j = Len(r) + 1
      <4>1. i = size + 1
        BY <1>3, <1>5, <1>6, <3>2
      <4> QED BY <1>4, <4>1
    <3> QED BY <1>3, <1>5, <3>1, <3>2
  <2> QED BY <1>2, <1>3, <2>1 DEF Reach
<1>11. TypeOK'
  BY <1>1, <1>2, <1>3, <1>5 DEF TypeOK, isExist, s
<1>12. UniqueNicks'
  BY <1>1, <1>2 DEF UniqueNicks, isExist
<1>13. ListInv'
  <2>1. \A j, k \in 1 .. Reach' : slots[j].fd = slots[k].fd => j = k
    <3>1. 1 .. Reach' \subseteq 1 .. Reach
      BY <1>3, <1>10
    <3> QED BY <1>1, <3>1 DEF ListInv
  <2>2. Reach' <= Len(slots) /\ i + 1 \in Nat
    BY <1>3, <1>4, <1>10
  <2>3. \A j \in 1 .. Len(s) : clients_[slots[s[j]].fd] = None
    BY <1>8 DEF isExist
  <2> QED BY <1>1, <1>2, <1>8, <1>9, <2>1, <2>2, <2>3 DEF ListInv, isExist, s
<1>14. ClientInv'
  <2>1. \A k \in 2 .. size : k > i + 1 \/ k = i + 1 => k > i
    BY <1>4
  <2> QED BY <1>1, <1>2, <2>1 DEF ClientInv
<1> QED BY <1>11, <1>12, <1>13, <1>14 DEF SampleInv

\* Closing an entry of the list: what is behind it moves down, and the list
\* is as sound as before; the last slot keeps its value.
LEMMA Closed ==
    ASSUME TypeOK, ListInv, ClientInv, NEW k \in 2 .. size, CloseClient(k)
    PROVE  /\ slots' \in Seq(Slot) /\ Len(slots') = Len(slots) /\ size' = size - 1
           /\ \A m \in 1 .. Len(slots) :
                  slots'[m] = IF m \in k .. (size - 1) THEN slots[m + 1] ELSE slots[m]
           /\ slots'[1].fd = ServerFd
           /\ \A m \in 2 .. Len(slots) : slots'[m].fd \in Fds
           /\ \A j, m \in 1 .. size - 1 : slots'[j].fd = slots'[m].fd => j = m
           /\ k = size => \A j, m \in 1 .. size : slots'[j].fd = slots'[m].fd => j = m
           /\ owner' \in [Fds -> Clients \cup {None}]
           /\ \A f \in Fds : owner'[f] \in {owner[f], None}
           /\ \A m \in 2 .. size - 1 : /\ owner'[slots'[m].fd] # None
                                       /\ owner'[slots'[m].fd] = owner[slots'[m].fd]
<1>1. /\ owner' = [owner EXCEPT ![slots[k].fd] = None]
      /\ slots' = Without(k) /\ size' = size - 1
  BY DEF CloseClient
<1>2. /\ slots \in Seq(Slot) /\ Len(slots) \in Nat /\ size \in Nat /\ size <= Len(slots)
      /\ \A m \in 2 .. Len(slots) : slots[m].fd \in Fds
      /\ Reach \in {size, size + 1}
  BY Types
<1>3. k \in 1 .. Len(slots) /\ k \in Nat
  BY <1>2
<1>4. /\ slots' \in Seq(Slot) /\ Len(slots') = Len(slots)
      /\ \A m \in 1 .. Len(slots) :
             slots'[m] = IF m \in k .. (size - 1) THEN slots[m + 1] ELSE slots[m]
  BY <1>1, <1>3, WithoutIs
<1>5. slots[1].fd = ServerFd /\ Len(slots) >= 1 /\ slots[k].fd \in Fds
  BY <1>2 DEF ListInv
<1>6. slots'[1].fd = ServerFd
  <2>1. 1 \in 1 .. Len(slots) /\ 1 \notin k .. (size - 1)
    BY <1>2, <1>5
  <2> QED BY <1>4, <1>5, <2>1
<1>7. \A m \in 2 .. Len(slots) : slots'[m].fd \in Fds
  <2> TAKE m \in 2 .. Len(slots)
  <2>1. CASE m \in k .. (size - 1)
    <3>1. m + 1 \in 2 .. Len(slots)
      BY <1>2, <1>3, <2>1
    <3> QED BY <1>2, <1>4, <2>1, <3>1
  <2>2. CASE m \notin k .. (size - 1)
    BY <1>2, <1>4, <2>2
  <2> QED BY <2>1, <2>2
<1>8. \A j, m \in 1 .. size : slots[j].fd = slots[m].fd => j = m
  BY <1>2 DEF ListInv
<1> DEFINE at(m) == IF m >= k THEN m + 1 ELSE m
<1>9. \A m \in 1 .. size - 1 : at(m) \in 1 .. size /\ at(m) # k /\ slots'[m] = slots[at(m)]
                               /\ (m >= 2 => at(m) \in 2 .. size)
  BY <1>2, <1>3, <1>4
<1>10. \A j, m \in 1 .. size - 1 : at(j) = at(m) => j = m
  BY <1>2, <1>3
<1>11. \A j, m \in 1 .. size - 1 : slots'[j].fd = slots'[m].fd => j = m
  <2> HIDE DEF at
  <2> QED BY <1>8, <1>9, <1>10
<1>12. k = size => \A j, m \in 1 .. size : slots'[j].fd = slots'[m].fd => j = m
  <2> SUFFICES ASSUME k = size PROVE \A j, m \in 1 .. size : slots'[j].fd = slots'[m].fd => j = m
    OBVIOUS
  <2>1. \A m \in 1 .. size : slots'[m] = slots[m]
    BY <1>2, <1>4
  <2> QED BY <1>8, <2>1
<1>13. owner \in [Fds -> Clients \cup {None}]
  BY DEF TypeOK
<1>14. /\ owner' \in [Fds -> Clients \cup {None}]
       /\ \A f \in Fds : owner'[f] = IF f = slots[k].fd THEN None ELSE owner[f]
  BY <1>1, <1>13
<1>15. \A m \in 2 .. size - 1 : owner'[slots'[m].fd] # None /\ owner'[slots'[m].fd] = owner[slots'[m].fd]
  <2> TAKE m \in 2 .. size - 1
  <2>1. m \in 1 .. size - 1 /\ m >= 2 /\ k \in 1 .. size
    BY <1>2, <1>3
  <2> HIDE DEF at
  <2>2. at(m) \in 2 .. size /\ at(m) # k /\ slots'[m] = slots[at(m)] /\ at(m) \in 1 .. size
    BY <1>9, <2>1
  <2>3. slots[at(m)].fd # slots[k].fd
    BY <1>8, <2>1, <2>2
  <2>4. owner[slots[at(m)].fd] # None
    BY <2>2 DEF ListInv
  <2>5. slots[at(m)].fd \in Fds
    BY <1>2, <2>2
  <2> QED BY <1>14, <2>2, <2>3, <2>4, <2>5
<1> HIDE DEF at
<1> QED BY <1>1, <1>4, <1>6, <1>7, <1>11, <1>12, <1>14, <1>15

\* A descriptor that is closed leaves a connection in one place still.
LEMMA OwnersLeft ==
    ASSUME ClientInv, \A f \in Fds : owner'[f] \in {owner[f], None}, owner' \in [Fds -> Clients \cup {None}],
           backlog' = backlog, peer' = peer, backlog \subseteq Clients
    PROVE  /\ \A f, g \in Fds : owner'[f] # None /\ owner'[f] = owner'[g] => f = g
           /\ \A f \in Fds : owner'[f] \notin backlog'
           /\ \A c \in Clients : peer'[c] = "new" => c \notin backlog' /\ \A f \in Fds : owner'[f] # c
<1>1. None \notin Clients
  BY SampleConstants
<1>2. \A f, g \in Fds : owner'[f] # None /\ owner'[f] = owner'[g] => f = g
  BY DEF ClientInv
<1>3. \A f \in Fds : owner'[f] \notin backlog'
  BY <1>1 DEF ClientInv
<1>4. \A c \in Clients : peer'[c] = "new" => c \notin backlog' /\ \A f \in Fds : owner'[f] # c
  BY <1>1 DEF ClientInv
<1> QED BY <1>2, <1>3, <1>4

LEMMA ReceiveStep ==
    ASSUME SampleInv, Receive
    PROVE  SampleInv'
<1>1. TypeOK /\ UniqueNicks /\ ListInv /\ ClientInv
  BY DEF SampleInv
<1>2. PICK k \in 1 .. size :
          /\ NextEvent(k) /\ slots[k].fd # ServerFd /\ i' = k
          /\ LET fd == slots[k].fd
                 c  == owner[fd]
             IN  \/ /\ c = None \/ inbox[c] = <<>>
                    /\ CloseClient(k)
                    /\ unfinished' = unfinished \ {fd}
                    /\ UNCHANGED <<todo, inbox>>
                 \/ /\ c # None
                    /\ \E n \in 1 .. Len(inbox[c]) :
                          /\ n = Len(inbox[c]) \/ Newline(SubSeq(inbox[c], 1, n))
                          /\ todo' = SubSeq(inbox[c], 1, n)
                          /\ inbox' = [inbox EXCEPT ![c] = SubSeq(@, n + 1, Len(@))]
                    /\ UNCHANGED <<slots, size, owner, unfinished>>
  BY DEF Receive
<1>3. /\ pc = "scan" /\ pc' = "lines"
      /\ UNCHANGED <<indices_to_remove, clients_, alive, backlog, peer, lines_left>>
  BY <1>2 DEF Receive, NextEvent
<1>4. /\ slots \in Seq(Slot) /\ Len(slots) \in Nat /\ size \in Nat /\ size <= Len(slots)
      /\ DOMAIN slots = 1 .. Len(slots)
      /\ \A m \in 1 .. Len(slots) : slots[m].fd # ServerFd <=> m >= 2
      /\ \A m \in 2 .. Len(slots) : slots[m].fd \in Fds
      /\ Reach \in {size, size + 1} /\ indices_to_remove \in Seq(1 .. Len(slots))
      /\ Len(indices_to_remove) \in Nat
  BY <1>1, Types
<1>5. k \in i .. size /\ i \in Nat /\ k \in Nat /\ i <= k
  BY <1>1, <1>2 DEF NextEvent, ListInv
<1>6. k \in 2 .. size /\ slots[k].fd \in Fds
  BY <1>2, <1>4, <1>5
<1>7. \A j \in 1 .. Len(indices_to_remove) :
          /\ indices_to_remove[j] \in 2 .. size /\ indices_to_remove[j] < k
          /\ clients_[slots[indices_to_remove[j]].fd] = None
  <2> TAKE j \in 1 .. Len(indices_to_remove)
  <2>1. /\ indices_to_remove[j] \in 2 .. size + 1 /\ indices_to_remove[j] < i
        /\ clients_[slots[indices_to_remove[j]].fd] = None
    BY <1>1 DEF ListInv, isExist
  <2> QED BY <1>4, <1>5, <2>1
<1>8. UniqueNicks'
  BY <1>1, <1>3 DEF UniqueNicks, isExist
<1>9. \A j, m \in 1 .. Len(indices_to_remove) : j < m => indices_to_remove[j] < indices_to_remove[m]
  BY <1>1 DEF ListInv
<1>10. CASE CloseClient(k) /\ unfinished' = unfinished \ {slots[k].fd} /\ UNCHANGED <<todo, inbox>>
  <2>1. /\ slots' \in Seq(Slot) /\ Len(slots') = Len(slots) /\ size' = size - 1
        /\ \A m \in 1 .. Len(slots) :
               slots'[m] = IF m \in k .. (size - 1) THEN slots[m + 1] ELSE slots[m]
        /\ slots'[1].fd = ServerFd
        /\ \A m \in 2 .. Len(slots) : slots'[m].fd \in Fds
        /\ \A j, m \in 1 .. size - 1 : slots'[j].fd = slots'[m].fd => j = m
        /\ k = size => \A j, m \in 1 .. size : slots'[j].fd = slots'[m].fd => j = m
        /\ owner' \in [Fds -> Clients \cup {None}]
        /\ \A f \in Fds : owner'[f] \in {owner[f], None}
        /\ \A m \in 2 .. size - 1 : /\ owner'[slots'[m].fd] # None
                                    /\ owner'[slots'[m].fd] = owner[slots'[m].fd]
    BY <1>1, <1>6, <1>10, Closed
  <2>2. DOMAIN slots' = DOMAIN slots
    BY <1>4, <2>1, LenProperties
  <2>3. TypeOK'
    <3>1. size' \in 0 .. Len(slots')
      BY <1>4, <1>5, <2>1
    <3>2. i' \in DOMAIN slots' /\ slots'[i'].fd # ServerFd
      <4>1. k \in 2 .. Len(slots)
        BY <1>4, <1>6
      <4> QED BY <1>2, <1>4, <2>1, <2>2, <4>1, SampleConstants
    <3>3. unfinished' \subseteq Fds
      BY <1>1, <1>10 DEF TypeOK
    <3> QED BY <1>1, <1>3, <1>10, <2>1, <2>2, <3>1, <3>2, <3>3 DEF TypeOK, isExist
  <2>4. ListInv'
    <3>1. \A j \in 1 .. Len(indices_to_remove) :
              /\ indices_to_remove[j] \in 2 .. size /\ indices_to_remove[j] < k
              /\ clients_[slots'[indices_to_remove[j]].fd] = None
      <4> TAKE j \in 1 .. Len(indices_to_remove)
      <4> DEFINE m == indices_to_remove[j]
      <4>1. m \in 2 .. size /\ m < k /\ clients_[slots[m].fd] = None
        BY <1>7
      <4>2. m \in 1 .. Len(slots) /\ m \notin k .. (size - 1)
        BY <1>4, <1>5, <4>1
      <4>3. slots'[m] = slots[m]
        BY <2>1, <4>2
      <4> QED BY <4>1, <4>3
    <3>2. Reach' = IF k = size THEN size ELSE size - 1
      <4>1. \A j \in 1 .. Len(indices_to_remove) : indices_to_remove[j] # size
        BY <1>4, <1>6, <3>1
      <4>2. Behind' <=> k = size
        BY <1>2, <1>3, <1>4, <2>1, <4>1 DEF Behind
      <4> QED BY <1>4, <2>1, <4>2 DEF Reach
    <3>3. Reach' <= Len(slots') /\ \A j, m \in 1 .. Reach' : slots'[j].fd = slots'[m].fd => j = m
      <4>1. CASE k = size
        <5>1. Reach' = size
          BY <3>2, <4>1
        <5>2. Reach' <= Len(slots')
          BY <1>4, <2>1, <5>1
        <5> QED BY <2>1, <4>1, <5>1, <5>2
      <4>2. CASE k # size
        <5>1. Reach' = size - 1
          BY <3>2, <4>2
        <5>2. Reach' <= Len(slots')
          BY <1>4, <2>1, <5>1
        <5> QED BY <2>1, <5>1, <5>2
      <4> QED BY <4>1, <4>2
    <3>4. /\ i' \in Nat /\ i' \in 2 .. size' + 1
          /\ Len(slots') >= 1
          /\ \A j \in 1 .. Len(indices_to_remove) :
                 indices_to_remove[j] \in 2 .. size' + 1 /\ indices_to_remove[j] < i'
      <4>1. i' = k /\ size' + 1 = size /\ Len(slots') >= 1 /\ size' \in Nat
        BY <1>2, <1>4, <1>6, <2>1
      <4>2. k \in 2 .. size
        BY <1>6
      <4> QED BY <1>5, <3>1, <4>1, <4>2
    <3>5. /\ \A m \in 2 .. Len(slots') : slots'[m].fd \in Fds
          /\ \A m \in 2 .. size' : owner'[slots'[m].fd] # None
      BY <2>1
    <3>6. pc' = "lines" /\ indices_to_remove' = indices_to_remove /\ clients_' = clients_
          /\ slots'[1].fd = ServerFd
      BY <1>3, <2>1
    <3> QED BY <1>9, <3>1, <3>3, <3>4, <3>5, <3>6 DEF ListInv, isExist
  <2>5. ClientInv'
    <3>1. \A m \in 2 .. size - 1 :
              m > k /\ slots'[m].in /\ peer[owner'[slots'[m].fd]] = "up" => inbox[owner'[slots'[m].fd]] # <<>>
      <4> SUFFICES ASSUME NEW m \in 2 .. size - 1, m > k, slots'[m].in, peer[owner[slots'[m].fd]] = "up"
                   PROVE  inbox[owner[slots'[m].fd]] # <<>>
        BY <2>1
      <4>1. m + 1 \in 2 .. size /\ m + 1 > i /\ m \in k .. (size - 1) /\ m \in 1 .. Len(slots)
        BY <1>4, <1>5
      <4>2. slots'[m] = slots[m + 1]
        BY <2>1, <4>1
      <4> QED BY <1>1, <4>1, <4>2 DEF ClientInv
    <3>2. backlog \subseteq Clients
      BY <1>1 DEF TypeOK
    <3>3. /\ \A f, g \in Fds : owner'[f] # None /\ owner'[f] = owner'[g] => f = g
          /\ \A f \in Fds : owner'[f] \notin backlog'
          /\ \A c \in Clients : peer'[c] = "new" => c \notin backlog' /\ \A f \in Fds : owner'[f] # c
      BY <1>1, <1>3, <2>1, <3>2, OwnersLeft
    <3> QED BY <1>2, <1>3, <1>10, <2>1, <3>1, <3>3 DEF ClientInv
  <2> QED BY <1>8, <2>3, <2>4, <2>5 DEF SampleInv
<1>11. ASSUME owner[slots[k].fd] # None, NEW n \in 1 .. Len(inbox[owner[slots[k].fd]]),
              todo' = SubSeq(inbox[owner[slots[k].fd]], 1, n),
              inbox' = [inbox EXCEPT ![owner[slots[k].fd]] = SubSeq(@, n + 1, Len(@))],
              UNCHANGED <<slots, size, owner, unfinished>>
       PROVE  SampleInv'
  <2> DEFINE c == owner[slots[k].fd]
  <2>1. c \in Clients /\ inbox \in [Clients -> Seq(Lines)] /\ inbox[c] \in Seq(Lines)
    BY <1>1, <1>6, <1>11 DEF TypeOK
  <2>2. todo' \in Seq(Lines) /\ SubSeq(inbox[c], n + 1, Len(inbox[c])) \in Seq(Lines)
    <3> DEFINE q == inbox[c]
    <3>1. q \in Seq(Lines) /\ n \in 1 .. Len(q) /\ todo' = SubSeq(q, 1, n) /\ Len(q) \in Nat
      BY <1>11, <2>1, LenProperties
    <3> HIDE DEF q
    <3>2. SubSeq(q, 1, n) \in Seq(Lines) /\ SubSeq(q, n + 1, Len(q)) \in Seq(Lines)
      BY <3>1, SubSeqProperties
    <3> QED BY <3>1, <3>2 DEF q
  <2>3. \A d \in Clients : d # c => inbox'[d] = inbox[d]
    BY <1>11, <2>1
  <2>4. inbox' \in [Clients -> Seq(Lines)]
    BY <1>11, <2>1, <2>2
  <2>5. i' \in DOMAIN slots /\ slots[i'].fd # ServerFd
    BY <1>2, <1>4
  <2>6. TypeOK'
    BY <1>1, <1>3, <1>11, <2>2, <2>4, <2>5 DEF TypeOK, isExist
  <2>7. ListInv'
    <3>1. ~Behind'
      <4>1. \A j \in 1 .. Len(indices_to_remove) : indices_to_remove[j] # size + 1
        BY <1>4, <1>7
      <4>2. k # size + 1
        BY <1>4, <1>6
      <4> QED BY <1>2, <1>3, <1>11, <4>1, <4>2 DEF Behind
    <3>2. Reach' = size /\ Reach' <= Len(slots)
      BY <1>4, <1>11, <3>1 DEF Reach
    <3>3. \A j, m \in 1 .. size : slots[j].fd = slots[m].fd => j = m
      BY <1>1, <1>4 DEF ListInv
    <3>4. /\ i' \in Nat /\ i' \in 2 .. size + 1
          /\ \A j \in 1 .. Len(indices_to_remove) :
                 /\ indices_to_remove[j] \in 2 .. size + 1 /\ indices_to_remove[j] < i'
                 /\ clients_[slots[indices_to_remove[j]].fd] = None
      <4>1. i' = k /\ k \in Nat /\ k \in 2 .. size + 1
        BY <1>2, <1>4, <1>6
      <4>2. \A m \in 2 .. size : m \in 2 .. size + 1
        BY <1>4
      <4> QED BY <1>7, <4>1, <4>2
    <3>5. /\ Len(slots) >= 1 /\ slots[1].fd = ServerFd
          /\ \A m \in 2 .. Len(slots) : slots[m].fd \in Fds
          /\ \A m \in 2 .. size : owner[slots[m].fd] # None
      BY <1>1 DEF ListInv
    <3>6. /\ pc' = "lines" /\ indices_to_remove' = indices_to_remove /\ clients_' = clients_
          /\ slots' = slots /\ size' = size /\ owner' = owner
      BY <1>3, <1>11
    <3> QED BY <1>9, <3>2, <3>3, <3>4, <3>5, <3>6 DEF ListInv, isExist
  <2>8. ClientInv'
    <3>1. \A m \in 2 .. size :
              m > k /\ slots[m].in /\ peer[owner[slots[m].fd]] = "up" => inbox'[owner[slots[m].fd]] # <<>>
      <4> SUFFICES ASSUME NEW m \in 2 .. size, m > k, slots[m].in, peer[owner[slots[m].fd]] = "up"
                   PROVE  inbox'[owner[slots[m].fd]] # <<>>
        OBVIOUS
      <4>1. m > i /\ slots[m].fd \in Fds /\ m \in 1 .. Reach /\ k \in 1 .. Reach /\ m # k
        BY <1>4, <1>5, <1>6
      <4>2. owner[slots[m].fd] # None /\ inbox[owner[slots[m].fd]] # <<>>
        BY <1>1, <4>1 DEF ListInv, ClientInv
      <4>3. slots[m].fd # slots[k].fd
        BY <1>1, <4>1 DEF ListInv
      <4>4. owner[slots[m].fd] # c /\ owner[slots[m].fd] \in Clients
        BY <1>1, <1>6, <4>1, <4>2, <4>3 DEF ClientInv, TypeOK
      <4> QED BY <2>3, <4>2, <4>4
    <3> QED BY <1>1, <1>2, <1>3, <1>11, <3>1 DEF ClientInv
  <2> QED BY <1>8, <2>6, <2>7, <2>8 DEF SampleInv
<1> QED BY <1>2, <1>10, <1>11

LEMMA SweepStep ==
    ASSUME SampleInv, Sweep
    PROVE  SampleInv'
<1>1. TypeOK /\ UniqueNicks /\ ListInv /\ ClientInv
  BY DEF SampleInv
<1> DEFINE r == indices_to_remove
           s == indices_to_remove'
           k == r[Len(r)]
<1>2. /\ alive /\ pc = "scan" /\ \A j \in i .. size : ~slots[j].in
      /\ r # <<>> /\ s = SubSeq(r, 1, Len(r) - 1)
      /\ owner' = [owner EXCEPT ![slots[k].fd] = None]
      /\ slots' = Without(k)
      /\ \/ k <= size /\ size' = size - 1 /\ UNCHANGED alive
         \/ k > size /\ size > 0 /\ size' = size - 1 /\ UNCHANGED alive
         \/ k > size /\ alive' = FALSE /\ UNCHANGED size
      /\ UNCHANGED <<i, pc, todo, unfinished, clients_, backlog, inbox, peer, lines_left>>
  BY DEF Sweep, ScanDone
<1>3. /\ slots \in Seq(Slot) /\ Len(slots) \in Nat /\ size \in Nat /\ size <= Len(slots)
      /\ DOMAIN slots = 1 .. Len(slots)
      /\ \A m \in 2 .. Len(slots) : slots[m].fd \in Fds
      /\ Reach \in {size, size + 1} /\ r \in Seq(1 .. Len(slots)) /\ Len(r) \in Nat
  BY <1>1, Types
<1>4. /\ i \in Nat /\ Reach <= Len(slots) /\ todo = <<>> /\ backlog \subseteq Clients
      /\ \A j \in 1 .. Len(r) :
             r[j] \in 2 .. size + 1 /\ r[j] < i /\ clients_[slots[r[j]].fd] = None
      /\ \A j, m \in 1 .. Len(r) : j < m => r[j] < r[m]
  BY <1>1, <1>2 DEF ListInv, TypeOK, isExist
<1>5. /\ Len(r) >= 1 /\ s \in Seq(1 .. Len(slots)) /\ Len(s) = Len(r) - 1
      /\ \A j \in 1 .. Len(s) : s[j] = r[j]
  <2> HIDE DEF r, s, k
  <2>1. Len(r) # 0
    BY <1>2, <1>3, EmptySeq
  <2>2. Len(r) >= 1 /\ Len(r) - 1 \in 0 .. Len(r)
    BY <1>3, <2>1
  <2>3. s = SubSeq(r, 1, Len(r) - 1)
    BY <1>2
  <2>4. /\ s \in Seq(1 .. Len(slots)) /\ Len(s) = Len(r) - 1
        /\ \A j \in 1 .. Len(r) - 1 : s[j] = r[j]
    <3>1. r \in Seq(1 .. Len(slots)) /\ 1 \in 1 .. Len(r) + 1 /\ Len(r) - 1 \in Nat
          /\ 1 <= (Len(r) - 1) + 1 /\ ((Len(r) - 1) - 1) + 1 = Len(r) - 1
      BY <1>3, <2>2
    <3> QED BY <2>2, <2>3, <3>1, SubSeqProperties
  <2> QED BY <2>2, <2>4
<1> HIDE DEF r, s
<1>6. k \in 2 .. size + 1 /\ k < i /\ k \in Nat
  <2>1. Len(r) \in 1 .. Len(r)
    BY <1>3, <1>5
  <2> QED BY <1>3, <1>4, <2>1
<1>7. \A j \in 1 .. Len(s) : /\ s[j] \in 2 .. size + 1 /\ s[j] < i /\ s[j] < k
                             /\ clients_[slots[s[j]].fd] = None
  <2> TAKE j \in 1 .. Len(s)
  <2>1. j \in 1 .. Len(r) /\ Len(r) \in 1 .. Len(r) /\ j < Len(r) /\ s[j] = r[j]
    BY <1>3, <1>5
  <2> QED BY <1>4, <2>1
<1>8. \A j, m \in 1 .. Len(s) : j < m => s[j] < s[m]
  <2> TAKE j, m \in 1 .. Len(s)
  <2>1. j \in 1 .. Len(r) /\ m \in 1 .. Len(r) /\ s[j] = r[j] /\ s[m] = r[m]
    BY <1>3, <1>5
  <2> QED BY <1>4, <2>1
<1>9. UniqueNicks'
  BY <1>1, <1>2 DEF UniqueNicks, isExist
<1>10. k \in 1 .. Len(slots) /\ (k = size + 1 => Reach = size + 1)
  <2>1. k = size + 1 => Reach = size + 1
    <3>1. Len(r) \in 1 .. Len(r)
      BY <1>3, <1>5
    <3> QED BY <3>1 DEF Reach, Behind, r, k
  <2> HIDE DEF k
  <2> QED BY <1>3, <1>4, <1>6, <2>1
<1>11. alive' \in BOOLEAN
  BY <1>1, <1>2 DEF TypeOK
<1>12. CASE k <= size /\ size' = size - 1
  <2>1. k \in 2 .. size /\ CloseClient(k)
    BY <1>2, <1>3, <1>6, <1>12 DEF CloseClient
  <2> HIDE DEF k
  <2>2. /\ slots' \in Seq(Slot) /\ Len(slots') = Len(slots)
        /\ \A m \in 1 .. Len(slots) :
               slots'[m] = IF m \in k .. (size - 1) THEN slots[m + 1] ELSE slots[m]
        /\ slots'[1].fd = ServerFd
        /\ \A m \in 2 .. Len(slots) : slots'[m].fd \in Fds
        /\ \A j, m \in 1 .. size - 1 : slots'[j].fd = slots'[m].fd => j = m
        /\ owner' \in [Fds -> Clients \cup {None}]
        /\ \A f \in Fds : owner'[f] \in {owner[f], None}
        /\ \A m \in 2 .. size - 1 : /\ owner'[slots'[m].fd] # None
                                    /\ owner'[slots'[m].fd] = owner[slots'[m].fd]
    BY <1>1, <2>1, Closed
  <2>3. DOMAIN slots' = DOMAIN slots
    BY <1>3, <2>2, LenProperties
  <2>4. TypeOK'
    <3>1. size' \in 0 .. Len(slots')
      BY <1>3, <1>12, <2>1, <2>2
    <3>2. s \in Seq(DOMAIN slots')
      BY <1>3, <1>5, <2>3
    <3> QED BY <1>1, <1>2, <1>11, <2>2, <3>1, <3>2 DEF TypeOK, isExist, s
  <2>5. \A j \in 1 .. Len(s) : /\ s[j] \in 2 .. size /\ s[j] # size /\ s[j] < i
                               /\ clients_[slots'[s[j]].fd] = None
    <3> TAKE j \in 1 .. Len(s)
    <3>1. /\ s[j] \in 2 .. size + 1 /\ s[j] < i /\ s[j] < k
          /\ clients_[slots[s[j]].fd] = None
      BY <1>7
    <3>2. s[j] \in 1 .. Len(slots) /\ s[j] \notin k .. (size - 1) /\ s[j] \in 2 .. size /\ s[j] # size
      BY <1>3, <1>6, <2>1, <3>1
    <3> QED BY <2>2, <3>1, <3>2
  <2>6. Reach' = size - 1
    <3>1. ~Behind'
      BY <1>2, <1>3, <1>12, <2>5 DEF Behind, s
    <3> QED BY <1>12, <3>1 DEF Reach
  <2>7. ListInv'
    <3>1. /\ Len(slots') >= 1 /\ Reach' <= Len(slots') /\ size' + 1 = size /\ i' \in Nat
          /\ pc' = "scan" /\ todo' = <<>>
      BY <1>2, <1>3, <1>4, <1>12, <2>1, <2>2, <2>6
    <3> QED BY <1>8, <1>12, <2>2, <2>5, <2>6, <3>1, <1>2 DEF ListInv, isExist, s
  <2>8. ClientInv'
    <3>1. \A m \in 2 .. size - 1 : m > i \/ m = i => ~slots'[m].in
      <4> SUFFICES ASSUME NEW m \in 2 .. size - 1, m >= i PROVE ~slots'[m].in
        BY <1>4
      <4>1. m \in k .. (size - 1) /\ m \in 1 .. Len(slots) /\ m + 1 \in i .. size
        BY <1>3, <1>4, <1>6
      <4> QED BY <1>2, <2>2, <4>1
    <3>2. /\ \A f, g \in Fds : owner'[f] # None /\ owner'[f] = owner'[g] => f = g
          /\ \A f \in Fds : owner'[f] \notin backlog'
          /\ \A c \in Clients : peer'[c] = "new" => c \notin backlog' /\ \A f \in Fds : owner'[f] # c
      BY <1>1, <1>2, <1>4, <2>2, OwnersLeft
    <3> QED BY <1>2, <1>12, <3>1, <3>2 DEF ClientInv
  <2> QED BY <1>9, <2>4, <2>7, <2>8 DEF SampleInv
<1>13. CASE k > size /\ size' \in {size, size - 1} /\ size' \in Nat
  <2>1. k = size + 1 /\ Reach = size + 1
    <3> HIDE DEF k
    <3> QED BY <1>3, <1>6, <1>10, <1>13
  <2>2. /\ slots' \in Seq(Slot) /\ Len(slots') = Len(slots)
        /\ \A m \in 1 .. Len(slots) : slots'[m] = slots[m]
    <3> HIDE DEF k
    <3>1. \A m \in 1 .. Len(slots) : m \notin k .. (size - 1)
      BY <1>3, <2>1
    <3>2. k \in 1 .. Len(slots) /\ slots' = Without(k)
      BY <1>2, <1>10 DEF k
    <3>3. /\ Without(k) \in Seq(Slot) /\ Len(Without(k)) = Len(slots)
          /\ \A j \in 1 .. Len(slots) :
                 Without(k)[j] = IF j \in k .. (size - 1) THEN slots[j + 1] ELSE slots[j]
      BY <1>1, <3>2, WithoutIs
    <3> QED BY <3>1, <3>2, <3>3
  <2>3. DOMAIN slots' = DOMAIN slots
    BY <1>3, <2>2, LenProperties
  <2>4. /\ \A j, m \in 1 .. size + 1 : slots'[j].fd = slots'[m].fd => j = m
        /\ size + 1 <= Len(slots)
    <3>1. \A j, m \in 1 .. size + 1 : slots[j].fd = slots[m].fd => j = m
      BY <1>1, <2>1 DEF ListInv
    <3> QED BY <1>3, <1>4, <2>1, <2>2, <3>1
  <2>5. slots[k].fd \in Fds
    <3> HIDE DEF k
    <3> QED BY <1>3, <1>6, <1>10
  <2>6. /\ owner' \in [Fds -> Clients \cup {None}]
        /\ \A f \in Fds : owner'[f] = IF f = slots[k].fd THEN None ELSE owner[f]
    BY <1>1, <1>2 DEF TypeOK
  <2>7. \A m \in 2 .. size : /\ slots'[m].fd \in Fds /\ slots'[m] = slots[m]
                             /\ owner'[slots'[m].fd] # None
                             /\ owner'[slots'[m].fd] = owner[slots[m].fd]
    <3> TAKE m \in 2 .. size
    <3>1. m \in 1 .. size + 1 /\ m # k /\ m \in 2 .. Len(slots) /\ k \in 1 .. size + 1
      BY <1>3, <2>1
    <3>2. slots'[m] = slots[m] /\ slots[m].fd \in Fds /\ slots'[k] = slots[k]
      BY <1>3, <1>10, <2>2, <3>1
    <3>3. slots[m].fd # slots[k].fd
      BY <2>4, <3>1, <3>2
    <3>4. owner[slots[m].fd] # None
      BY <1>1 DEF ListInv
    <3> QED BY <2>6, <3>2, <3>3, <3>4
  <2> HIDE DEF k
  <2>8. TypeOK'
    <3>1. size' \in 0 .. Len(slots')
      BY <1>3, <1>13, <2>2
    <3>2. s \in Seq(DOMAIN slots')
      BY <1>3, <1>5, <2>3
    <3> QED BY <1>1, <1>2, <1>11, <2>2, <2>6, <3>1, <3>2 DEF TypeOK, isExist, s
  <2>9. \A j \in 1 .. Len(s) : /\ s[j] \in 2 .. size /\ s[j] < i
                               /\ clients_[slots'[s[j]].fd] = None
    <3> TAKE j \in 1 .. Len(s)
    <3>1. /\ s[j] \in 2 .. size + 1 /\ s[j] < i /\ s[j] < k
          /\ clients_[slots[s[j]].fd] = None
      BY <1>7
    <3>2. s[j] \in 1 .. Len(slots) /\ s[j] \in 2 .. size
      BY <1>3, <2>1, <3>1
    <3> QED BY <2>2, <3>1, <3>2
  <2>10. Reach' <= size + 1 /\ Reach' \in Nat /\ size' <= size
    <3>1. Reach' = size' \/ Reach' = size' + 1
      BY DEF Reach
    <3>2. size \in Nat /\ size' \in Nat /\ size' <= size
      BY <1>3, <1>13
    <3>3. CASE Reach' = size'
      BY <3>2, <3>3
    <3>4. CASE Reach' = size' + 1
      <4>1. \A a, b \in Nat : a <= b => a + 1 <= b + 1 /\ a + 1 \in Nat
        OBVIOUS
      <4> QED BY <3>2, <3>4, <4>1
    <3> QED BY <3>1, <3>3, <3>4
  <2>11. ListInv'
    <3>1. Len(slots') >= 1 /\ slots'[1].fd = ServerFd
      BY <1>1, <1>3, <2>2 DEF ListInv
    <3>2. \A m \in 2 .. Len(slots') : slots'[m].fd \in Fds
      BY <1>3, <2>2
    <3>3. Reach' <= Len(slots') /\ \A j, m \in 1 .. Reach' : slots'[j].fd = slots'[m].fd => j = m
      <4>1. Reach' <= Len(slots')
        BY <1>3, <2>2, <2>4, <2>10
      <4>2. 1 .. Reach' \subseteq 1 .. size + 1
        BY <1>3, <2>10
      <4> QED BY <2>4, <4>1, <4>2
    <3>4. \A m \in 2 .. size' : owner'[slots'[m].fd] # None
      BY <1>3, <1>13, <2>7, <2>10
    <3>5. \A j \in 1 .. Len(s) : s[j] \in 2 .. size' + 1
      BY <1>3, <1>13, <2>9
    <3>6. i' \in Nat /\ i' = i /\ pc' = "scan" /\ todo' = <<>> /\ clients_' = clients_
      BY <1>2, <1>4
    <3> QED BY <1>8, <2>9, <3>1, <3>2, <3>3, <3>4, <3>5, <3>6 DEF ListInv, isExist, s
  <2>12. ClientInv'
    <3>1. \A m \in 2 .. size' : m > i \/ m = i => ~slots'[m].in
      <4> SUFFICES ASSUME NEW m \in 2 .. size', m >= i PROVE ~slots'[m].in
        BY <1>4, <1>13
      <4>1. m \in i .. size /\ m \in 2 .. size
        BY <1>3, <1>4, <1>13, <2>10
      <4> QED BY <1>2, <2>7, <4>1
    <3>2. \A f \in Fds : owner'[f] \in {owner[f], None}
      BY <2>6
    <3>3. /\ \A f, g \in Fds : owner'[f] # None /\ owner'[f] = owner'[g] => f = g
          /\ \A f \in Fds : owner'[f] \notin backlog'
          /\ \A c \in Clients : peer'[c] = "new" => c \notin backlog' /\ \A f \in Fds : owner'[f] # c
      BY <1>1, <1>2, <1>4, <2>6, <3>2, OwnersLeft
    <3> QED BY <1>2, <3>1, <3>3 DEF ClientInv
  <2> QED BY <1>9, <2>8, <2>11, <2>12 DEF SampleInv
<1> QED
  <2> HIDE DEF k
  <2>1. size > 0 => size - 1 \in Nat
    BY <1>3
  <2> QED BY <1>2, <1>3, <1>12, <1>13, <2>1

LEMMA SampleStep == SampleInv /\ [Next]_vars => SampleInv'
<1> SUFFICES ASSUME SampleInv, [Next]_vars PROVE SampleInv'
  OBVIOUS
<1>1. CASE Poll
  BY <1>1, PollStep
<1>2. CASE HandleNewConnection
  BY <1>2, NewConnectionStep
<1>3. CASE Receive
  BY <1>3, ReceiveStep
<1>4. CASE ExecuteLine
  BY <1>4, ExecuteStep
<1>5. CASE EndOfLines
  BY <1>5, EndOfLinesStep
<1>6. CASE Sweep
  BY <1>6, SweepStep
<1>7. CASE \E c \in Clients : Connect(c) \/ SendLine(c) \/ HangUp(c)
  BY <1>7, ConnectStep, SendStep, HangUpStep
<1>8. CASE UNCHANGED vars
  <2>1. UNCHANGED <<slots, size, i, pc, indices_to_remove, todo, unfinished, clients_, alive,
                    owner, backlog, inbox, peer, lines_left>>
    BY <1>8 DEF vars, loopVars, kernelVars
  <2>2. SampleInv
    OBVIOUS
  <2>3. TypeOK'
    BY <2>1, <2>2 DEF SampleInv, TypeOK, isExist
  <2>4. UniqueNicks'
    BY <2>1, <2>2 DEF SampleInv, UniqueNicks, isExist
  <2>5. ListInv'
    BY <2>1, <2>2 DEF SampleInv, ListInv, Reach, Behind, isExist
  <2>6. ClientInv'
    BY <2>1, <2>2 DEF SampleInv, ClientInv
  <2> QED BY <2>3, <2>4, <2>5, <2>6 DEF SampleInv
<1> QED BY <1>1, <1>2, <1>3, <1>4, <1>5, <1>6, <1>7, <1>8 DEF Next

LEMMA SampleAlways == Spec => []SampleInv
<1> QED BY InitOK, SampleStep, PTL DEF Spec

-----------------------------------------------------------------------------
(* What the runs check *)

\* No index ever leaves the memory of the vector: whatever is erased under the
\* scan, start() reads an old value at worst, never garbage.
THEOREM SampleTyped == Spec => []TypeOK
<1>1. SampleInv => TypeOK
  BY DEF SampleInv
<1> QED BY <1>1, SampleAlways, PTL

\* nick_in_use keeps the nicknames that were taken apart, the entries included
\* that nobody's connection has any more.
THEOREM NicksStayUnique == Spec => []UniqueNicks
<1>1. SampleInv => UniqueNicks
  BY DEF SampleInv
<1> QED BY <1>1, SampleAlways, PTL

\* When start() calls poll() the list is sound: open descriptors, none twice.
THEOREM PollSeesOpen == Spec => []WatchedAreOpen
<1>1. SampleInv => WatchedAreOpen
  <2> SUFFICES ASSUME SampleInv PROVE WatchedAreOpen
    OBVIOUS
  <2>1. TypeOK /\ ListInv
    BY DEF SampleInv
  <2>2. /\ size \in Nat /\ size <= Len(slots) /\ Len(slots) \in Nat
        /\ Reach \in {size, size + 1}
        /\ \A k \in 1 .. Len(slots) : slots[k].fd # ServerFd <=> k >= 2
    BY <2>1, Types
  <2>3. \A k \in 1 .. size : slots[k].fd # ServerFd => owner[slots[k].fd] # None
    BY <2>1, <2>2 DEF ListInv
  <2>4. \A j, k \in 1 .. size : slots[j].fd = slots[k].fd => j = k
    BY <2>1, <2>2 DEF ListInv
  <2> QED BY <2>3, <2>4 DEF WatchedAreOpen
<1> QED BY <1>1, SampleAlways, PTL

LEMMA DropStep == SampleInv /\ [Next]_vars => ClosedNameless
<1> SUFFICES ASSUME SampleInv, [Next]_vars, NEW fd \in Fds,
                    owner[fd] # None, owner'[fd] # owner[fd], peer[owner[fd]] = "up"
             PROVE  clients_[fd] = None
  BY DEF ClosedNameless, isExist
<1>1. TypeOK /\ ListInv /\ ClientInv
  BY DEF SampleInv
<1>2. owner \in [Fds -> Clients \cup {None}]
  BY <1>1 DEF TypeOK
<1>3. CASE HandleNewConnection
  <2>1. owner' = owner \/ \E f \in Fds, c \in backlog : owner[f] = None /\ owner' = [owner EXCEPT ![f] = c]
    BY <1>3 DEF HandleNewConnection
  <2> QED BY <1>2, <2>1
<1>4. CASE Receive
  <2>1. PICK k \in 1 .. size : /\ NextEvent(k) /\ slots[k].fd # ServerFd
                               /\ owner[slots[k].fd] = None \/ inbox[owner[slots[k].fd]] = <<>>
                               /\ CloseClient(k)
    BY <1>4 DEF Receive
  <2>2. slots[k].fd = fd
    BY <1>2, <2>1 DEF CloseClient
  <2>3. k \in 2 .. size
    <3>1. size \in Nat /\ size <= Len(slots) /\ Len(slots) \in Nat
          /\ \A m \in 1 .. Len(slots) : slots[m].fd # ServerFd <=> m >= 2
      BY <1>1, Types
    <3> QED BY <2>1, <3>1
  <2>4. (k > i \/ (k = i /\ pc = "scan")) /\ slots[k].in
    <3>1. k \in i .. size /\ i \in Nat /\ pc = "scan" /\ slots[k].in
      BY <1>1, <2>1 DEF NextEvent, ListInv
    <3> QED BY <2>3, <3>1
  <2>5. inbox[owner[fd]] # <<>>
    BY <1>1, <2>2, <2>3, <2>4 DEF ClientInv
  <2> QED BY <2>1, <2>2, <2>5
<1>5. CASE Sweep
  <2> DEFINE n == Len(indices_to_remove)
             k == indices_to_remove[n]
  <2>1. owner' = [owner EXCEPT ![slots[k].fd] = None] /\ indices_to_remove # <<>>
    BY <1>5 DEF Sweep
  <2>2. slots[k].fd = fd
    BY <1>2, <2>1
  <2>3. n \in 1 .. n
    <3>1. n \in Nat /\ indices_to_remove \in Seq(1 .. Len(slots))
      BY <1>1, Types
    <3>2. n # 0
      BY <2>1, <3>1, EmptySeq
    <3> QED BY <3>1, <3>2
  <2>4. ~isExist(slots[indices_to_remove[n]].fd)
    BY <1>1, <2>3 DEF ListInv
  <2> QED BY <2>2, <2>4 DEF isExist
<1>6. CASE Poll \/ ExecuteLine \/ EndOfLines \/ UNCHANGED vars
           \/ \E c \in Clients : Connect(c) \/ SendLine(c) \/ HangUp(c)
  BY <1>6 DEF Poll, ExecuteLine, EndOfLines, Connect, SendLine, HangUp, vars, loopVars, kernelVars
<1> QED BY <1>3, <1>4, <1>5, <1>6 DEF Next

\* Erasing at k takes the descriptor at k off the list, behind the end the last.
LEMMA ErasedIs ==
    ASSUME TypeOK, ListInv, NEW k \in 1 .. Len(slots), slots' = Without(k),
           size > 0, size' = size - 1, NEW fd \in Watched \ Watched'
    PROVE  fd = slots[IF k <= size THEN k ELSE size].fd
<1>1. /\ size \in Nat /\ size <= Len(slots) /\ Len(slots) \in Nat
      /\ \A j \in 1 .. Len(slots) :
            slots'[j] = IF j \in k .. (size - 1) THEN slots[j + 1] ELSE slots[j]
  BY Types, WithoutIs
<1>2. PICK m \in 1 .. size : fd = slots[m].fd
  BY DEF Watched
<1>3. \A j \in 1 .. size - 1 : slots'[j].fd # fd
  BY DEF Watched
<1>4. CASE m < k /\ m < size
  <2>1. m \in 1 .. size - 1 /\ m \in 1 .. Len(slots) /\ m \notin k .. (size - 1)
    BY <1>1, <1>4
  <2>2. slots'[m] = slots[m]
    BY <1>1, <2>1
  <2> QED BY <1>2, <1>3, <2>1, <2>2
<1>5. CASE m > k
  <2>1. m - 1 \in 1 .. size - 1 /\ m - 1 \in 1 .. Len(slots) /\ m - 1 \in k .. (size - 1)
        /\ (m - 1) + 1 = m
    BY <1>1, <1>5
  <2>2. slots'[m - 1] = slots[m]
    BY <1>1, <2>1
  <2> QED BY <1>2, <1>3, <2>1, <2>2
<1>6. CASE m = k \/ (m = size /\ m < k)
  BY <1>1, <1>2, <1>6
<1> QED BY <1>1, <1>4, <1>5, <1>6

LEMMA LostStep == SampleInv /\ [Next]_vars => LostBehindTheEnd
<1> SUFFICES ASSUME SampleInv, [Next]_vars, NEW fd \in Watched \ Watched',
                    fd = ServerFd \/ owner'[fd] # None
             PROVE  /\ fd = slots[size].fd
                    /\ indices_to_remove # <<>>
                    /\ indices_to_remove[Len(indices_to_remove)] = size + 1
                    /\ slots[size + 1].fd \notin Watched /\ ~isExist(slots[size + 1].fd)
  BY DEF LostBehindTheEnd
<1>1. TypeOK /\ ListInv
  BY DEF SampleInv
<1>2. /\ size \in Nat /\ size <= Len(slots) /\ Len(slots) \in Nat
      /\ indices_to_remove \in Seq(1 .. Len(slots)) /\ Len(indices_to_remove) \in Nat
      /\ \A m \in 2 .. Len(slots) : slots[m].fd \in Fds
      /\ \A m \in 1 .. Len(slots) : slots[m].fd # ServerFd <=> m >= 2
  BY <1>1, Types
<1>3. owner \in [Fds -> Clients \cup {None}]
  BY <1>1 DEF TypeOK
<1>4. PICK m \in 1 .. size : fd = slots[m].fd
  BY DEF Watched
<1>5. ~\E j \in 1 .. size' : slots'[j].fd = fd
  BY DEF Watched
<1>6. CASE Poll
  <2>1. size' = size /\ slots'[m].fd = slots[m].fd
    BY <1>1, <1>2, <1>6, Types DEF Poll
  <2> QED BY <1>4, <1>5, <2>1
<1>7. CASE HandleNewConnection
  <2>1. \/ slots' = slots /\ size' = size
        \/ \E g \in Fds : slots' = Pushed([fd |-> g, in |-> FALSE]) /\ size' = size + 1
    BY <1>7 DEF HandleNewConnection, Pushed
  <2>2. CASE slots' = slots /\ size' = size
    BY <1>4, <1>5, <2>2
  <2>3. CASE \E g \in Fds : slots' = Pushed([fd |-> g, in |-> FALSE]) /\ size' = size + 1
    <3>1. PICK g \in Fds : slots' = Pushed([fd |-> g, in |-> FALSE]) /\ size' = size + 1
      BY <2>3
    <3>2. [fd |-> g, in |-> FALSE] \in Slot
      BY DEF Slot
    <3>3. \A j \in 1 .. Len(slots') : j # size + 1 => slots'[j] = slots[j]
      BY <1>1, <3>1, <3>2, PushedIs
    <3>4. Len(slots') >= size + 1 /\ Len(slots') \in Nat
      BY <1>1, <3>1, <3>2, PushedIs, LenProperties
    <3>5. m \in 1 .. Len(slots') /\ m # size + 1 /\ m \in 1 .. size'
      BY <1>2, <3>1, <3>4
    <3> QED BY <1>4, <1>5, <3>3, <3>5
  <2> QED BY <2>1, <2>2, <2>3
<1>8. CASE Receive
  <2>1. \/ slots' = slots /\ size' = size
        \/ \E k \in 1 .. size : slots[k].fd # ServerFd /\ CloseClient(k)
    BY <1>8 DEF Receive
  <2>2. CASE slots' = slots /\ size' = size
    BY <1>4, <1>5, <2>2
  <2>3. CASE \E k \in 1 .. size : slots[k].fd # ServerFd /\ CloseClient(k)
    <3>1. PICK k \in 1 .. size : slots[k].fd # ServerFd /\ CloseClient(k)
      BY <2>3
    <3>2. /\ slots' = Without(k) /\ size' = size - 1 /\ size > 0 /\ k <= size /\ k \in 1 .. Len(slots)
          /\ owner' = [owner EXCEPT ![slots[k].fd] = None]
      BY <1>2, <3>1 DEF CloseClient
    <3>3. fd = slots[k].fd
      BY <1>1, <3>2, ErasedIs
    <3>4. k >= 2 /\ slots[k].fd \in Fds
      BY <1>2, <3>1, <3>2
    <3>5. owner'[fd] = None
      BY <1>3, <3>2, <3>3, <3>4
    <3> QED BY <3>1, <3>3, <3>5
  <2> QED BY <2>1, <2>2, <2>3
<1>9. CASE Sweep
  <2> DEFINE n == Len(indices_to_remove)
             k == indices_to_remove[n]
  <2>1. /\ indices_to_remove # <<>> /\ pc = "scan"
        /\ owner' = [owner EXCEPT ![slots[k].fd] = None] /\ slots' = Without(k)
        /\ \/ size' = size - 1 /\ (k <= size \/ size > 0)
           \/ k > size /\ size' = size
    BY <1>9 DEF Sweep, ScanDone
  <2>2. n \in 1 .. n
    <3>1. n # 0
      BY <1>2, <2>1, EmptySeq
    <3> QED BY <1>2, <3>1
  <2>3. k \in 2 .. size + 1 /\ ~isExist(slots[k].fd)
    BY <1>1, <2>2 DEF ListInv
  <2>4. Behind => Reach = size + 1
    BY DEF Reach
  <2>5. k = size + 1 => Reach = size + 1
    BY <2>2, <2>4 DEF Behind
  <2>6. k \in 1 .. Len(slots)
    <3>1. Reach <= Len(slots)
      BY <1>1 DEF ListInv
    <3> HIDE DEF k
    <3> QED BY <1>2, <2>3, <2>5, <3>1
  <2>7. CASE size' = size
    <3>1. k > size
      <4> HIDE DEF k
      <4> QED BY <1>2, <2>1, <2>7
    <3>2. slots'[m] = slots[m]
      <4>1. \A j \in 1 .. Len(slots) :
               slots'[j] = IF j \in k .. (size - 1) THEN slots[j + 1] ELSE slots[j]
        BY <1>1, <2>1, <2>6, WithoutIs
      <4> HIDE DEF k
      <4>2. m \in 1 .. Len(slots) /\ m \notin k .. (size - 1)
        BY <1>2, <2>3, <3>1
      <4> QED BY <4>1, <4>2
    <3> QED BY <1>4, <1>5, <2>7, <3>2
  <2>8. CASE size' = size - 1 /\ size > 0
    <3>1. fd = slots[IF k <= size THEN k ELSE size].fd
      BY <1>1, <2>1, <2>6, <2>8, ErasedIs
    <3>2. k > size
      <4>1. SUFFICES ASSUME k <= size PROVE FALSE
        <5> HIDE DEF k
        <5> QED BY <1>2, <2>3, <4>1
      <4>2. fd = slots[k].fd
        BY <3>1, <4>1
      <4>3. slots[k].fd \in Fds /\ slots[k].fd # ServerFd
        <5> HIDE DEF k
        <5> QED BY <1>2, <2>3, <2>6
      <4>4. owner'[fd] = None
        BY <1>3, <2>1, <4>2, <4>3
      <4> QED BY <4>2, <4>3, <4>4
    <3>3. k = size + 1
      <4> HIDE DEF k
      <4> QED BY <1>2, <2>3, <3>2
    <3>4. fd = slots[size].fd
      <4> HIDE DEF k
      <4> QED BY <1>2, <3>1, <3>3
    <3>5. slots[size + 1].fd \notin Watched
      <4>1. \A j \in 1 .. size : slots[j].fd = slots[size + 1].fd => j = size + 1
        <5>1. \A j, h \in 1 .. Reach : slots[j].fd = slots[h].fd => j = h
          BY <1>1 DEF ListInv
        <5>2. Reach = size + 1
          BY <2>5, <3>3
        <5> HIDE DEF k
        <5> QED BY <1>2, <5>1, <5>2
      <4> QED BY <1>2, <4>1 DEF Watched
    <3> QED BY <2>1, <2>3, <3>3, <3>4, <3>5
  <2>9. size' = size - 1 => size > 0
    <3> HIDE DEF k
    <3> QED BY <1>2, <2>1, <2>3
  <2> QED BY <2>1, <2>7, <2>8, <2>9
<1>10. CASE ExecuteLine \/ EndOfLines \/ UNCHANGED vars
            \/ \E c \in Clients : Connect(c) \/ SendLine(c) \/ HangUp(c)
  <2>1. slots' = slots /\ size' = size
    BY <1>10 DEF ExecuteLine, EndOfLines, Connect, SendLine, HangUp, vars, loopVars, kernelVars
  <2> QED BY <1>4, <1>5, <2>1
<1> QED BY <1>6, <1>7, <1>8, <1>9, <1>10 DEF Next

\* The loop's wrong indices close no connection that has an entry in the Parser
\* and whose peer is there; but they take the last pollfd off the list, whosever
\* it is, for each nameless connection that closed as the last of the list.
THEOREM WrongIndicesCost == Spec => WrongIndexCost
<1> QED BY DropStep, LostStep, SampleAlways, PTL DEF Spec, WrongIndexCost

=============================================================================
