---------------------------- MODULE SenderProofs ----------------------------
(***************************************************************************)
(* What every client sees of what it is sent, for any number of clients    *)
(* and messages of any length, however much room the sockets have.         *)
(*                                                                         *)
(* The invariant ties the call under way to the socket it writes to: the   *)
(* last byte there is the last one bytes_sent counts, and the room has not *)
(* become less than what the call found less what it has used.  A client   *)
(* that is gone is let go of: bytes_sent goes on, its stream does not.     *)
(***************************************************************************)
EXTENDS Sender, SequenceTheorems, TLAPS

Ended(s)     == s[Len(s)]
LastBefore(s, m) == s = <<>> \/ (s # <<>> /\ Ended(s).msg < m)

\* What the call under way has written so far.
Under ==
    /\ call \in Call
    /\ call.msg = handed
    /\ call.bytes_sent < call.len
    /\ peer[call.to] = "up" =>
          LET s == stream[call.to]
          IN  /\ Free(call.to) >= call.free - call.bytes_sent
              /\ \/ call.bytes_sent = 0 /\ LastBefore(s, call.msg)
                 \/ /\ s # <<>>
                    /\ Ended(s).msg = call.msg
                    /\ Ended(s).pos = call.bytes_sent

SenderInv ==
    /\ TypeOK
    /\ call # None => Under
    /\ \A c \in Clients : LastBefore(stream[c], handed + 1)

LEMMA SenderInit == Init => SenderInv
<1> SUFFICES ASSUME Init PROVE SenderInv
  OBVIOUS
<1>1. \A c \in Clients : stream[c] = <<>> /\ read[c] = 0 /\ Len(stream[c]) = 0
  BY DEF Init
<1>2. stream \in [Clients -> Seq(Byte)] /\ read \in [Clients -> Nat]
  BY DEF Init
<1>3. TypeOK
  BY <1>1, <1>2, SenderConstants DEF Init, TypeOK
<1> QED BY <1>1, <1>3 DEF Init, SenderInv, LastBefore

\* Appending a piece: what the stream is made of, and where it ends.
LEMMA Appended ==
    ASSUME NEW s \in Seq(Byte), NEW t \in Seq(Byte), t # <<>>
    PROVE  /\ s \o t \in Seq(Byte)
           /\ s \o t # <<>>
           /\ Len(s \o t) = Len(s) + Len(t)
           /\ Ended(s \o t) = Ended(t)
           /\ \A k \in 1 .. Len(s \o t) :
                 (s \o t)[k] = IF k <= Len(s) THEN s[k] ELSE t[k - Len(s)]
<1>1. /\ s \o t \in Seq(Byte)
      /\ Len(s \o t) = Len(s) + Len(t)
      /\ \A k \in 1 .. Len(s \o t) :
            (s \o t)[k] = IF k <= Len(s) THEN s[k] ELSE t[k - Len(s)]
  BY ConcatProperties
<1>2. Len(s) \in Nat /\ Len(t) \in Nat /\ Len(t) # 0
  BY LenProperties, EmptySeq
<1> QED BY <1>1, <1>2 DEF Ended

\* The piece itself, while a call is under way.
LEMMA PieceIs ==
    ASSUME call \in Call, handed \in 0 .. MaxMessages, call.bytes_sent < call.len,
           NEW n \in 1 .. Remaining
    PROVE  /\ Piece(n) \in Seq(Byte)
           /\ Piece(n) # <<>>
           /\ Len(Piece(n)) = n
           /\ \A k \in 1 .. n : /\ Piece(n)[k].msg = call.msg
                                /\ Piece(n)[k].pos = call.bytes_sent + k
                                /\ Piece(n)[k].of = call.len
                                /\ Piece(n)[k].pos <= call.len
           /\ Ended(Piece(n)).msg = call.msg
           /\ Ended(Piece(n)).pos = call.bytes_sent + n
           /\ Piece(n) = Clean!Segment(call.msg, call.len, call.bytes_sent + 1, call.bytes_sent + n)
<1>1. /\ call.msg \in 1 .. MaxMessages /\ call.len \in Lengths /\ call.len \in Nat \ {0}
      /\ call.bytes_sent \in Nat /\ n \in Nat /\ n >= 1 /\ n <= call.len - call.bytes_sent
  <2>1. call.msg \in 1 .. MaxMessages /\ call.len \in Lengths /\ call.bytes_sent \in Nat
    BY DEF Call
  <2>2. call.len \in Nat \ {0}
    BY <2>1, SenderConstants
  <2>3. Remaining \in Nat
    BY <2>1, <2>2 DEF Remaining
  <2>4. n \in Nat /\ n >= 1 /\ n <= Remaining
    BY <2>3
  <2> QED BY <2>1, <2>2, <2>4 DEF Remaining
<1> DEFINE b(k) == [msg |-> call.msg, pos |-> call.bytes_sent + k, of |-> call.len]
<1>2. \A k \in 1 .. n : b(k) \in Byte
  BY <1>1 DEF Byte
<1>3. Piece(n) = [k \in 1 .. n |-> b(k)]
  BY DEF Piece
<1>4. Piece(n) \in Seq(Byte) /\ Len(Piece(n)) = n
  <2> HIDE DEF b
  <2>1. Piece(n) \in [1 .. n -> Byte]
    BY <1>2, <1>3
  <2> QED BY <1>1, <2>1, SeqDef, LenProperties
<1>5. \A k \in 1 .. n : Piece(n)[k] = b(k)
  BY <1>3
<1>6. \A k \in 1 .. n : /\ Piece(n)[k].msg = call.msg
                        /\ Piece(n)[k].pos = call.bytes_sent + k
                        /\ Piece(n)[k].of = call.len
                        /\ Piece(n)[k].pos <= call.len
  <2> TAKE k \in 1 .. n
  <2>1. Piece(n)[k] = b(k)
    BY <1>5
  <2>2. k \in Nat /\ call.bytes_sent + k <= call.len
    BY <1>1
  <2> QED BY <2>1, <2>2
<1>7. Piece(n) # <<>>
  BY <1>1, <1>4, EmptySeq
<1>8. Ended(Piece(n)).msg = call.msg /\ Ended(Piece(n)).pos = call.bytes_sent + n
  BY <1>1, <1>4, <1>6 DEF Ended
<1>9. Piece(n) = Clean!Segment(call.msg, call.len, call.bytes_sent + 1, call.bytes_sent + n)
  <2>1. (call.bytes_sent + n) - (call.bytes_sent + 1) + 1 = n
    BY <1>1
  <2>2. \A k \in 1 .. n : call.bytes_sent + 1 + k - 1 = call.bytes_sent + k
    BY <1>1
  <2> QED BY <2>1, <2>2 DEF Piece, Clean!Segment
<1> QED BY <1>4, <1>6, <1>7, <1>8, <1>9

-----------------------------------------------------------------------------
(* The steps *)

\* What the types say of a client's socket.
LEMMA SocketTypes ==
    ASSUME TypeOK, NEW c \in Clients
    PROVE  /\ stream[c] \in Seq(Byte)
           /\ Len(stream[c]) \in Nat
           /\ read[c] \in Nat
           /\ Free(c) \in Nat
           /\ Free(c) = Room - (Len(stream[c]) - read[c])
<1>1. stream[c] \in Seq(Byte) /\ read[c] \in Nat
  BY DEF TypeOK
<1>2. Len(stream[c]) \in Nat
  BY <1>1, LenProperties
<1>3. Len(stream[c]) - read[c] <= Room
  BY DEF TypeOK
<1>5. Free(c) = Room - (Len(stream[c]) - read[c])
  BY DEF Free
<1>6. read[c] <= Len(stream[c])
  BY DEF TypeOK
<1>4. Free(c) \in Nat
  BY <1>1, <1>2, <1>3, <1>5, <1>6, SenderConstants
<1> QED BY <1>1, <1>2, <1>4, <1>5

LEMMA SendMessageStep ==
    ASSUME SenderInv, NEW c \in Clients, SendMessage(c)
    PROVE  SenderInv'
<1>1. PICK len \in Lengths :
        call' = [to |-> c, msg |-> handed + 1, len |-> len, bytes_sent |-> 0, free |-> Free(c)]
  BY DEF SendMessage
<1>2. handed \in Nat /\ handed' = handed + 1 /\ handed' \in 1 .. MaxMessages /\ len > 0 /\ len \in Nat
  BY SenderConstants DEF SendMessage, SenderInv, TypeOK
<1>3. Free(c) \in Nat
  BY SocketTypes DEF SenderInv
<1>4. call' \in Call
  BY <1>1, <1>2, <1>3 DEF Call
<1>5. UNCHANGED <<stream, read, peer, alive>>
  BY DEF SendMessage
<1>6. TypeOK'
  BY <1>2, <1>4, <1>5 DEF SenderInv, TypeOK
<1>7. \A d \in Clients : LastBefore(stream[d], handed + 1)
  BY DEF SenderInv
<1>8. \A d \in Clients : LastBefore(stream[d], handed' + 1)
  <2> TAKE d \in Clients
  <2>1. CASE stream[d] = <<>>
    BY <2>1 DEF LastBefore
  <2>2. CASE stream[d] # <<>>
    <3>1. Len(stream[d]) \in 1 .. Len(stream[d]) /\ stream[d] \in Seq(Byte)
      BY <2>2, SocketTypes, EmptySeq DEF SenderInv
    <3>2. Ended(stream[d]).msg \in Nat
      <4>1. Ended(stream[d]) \in Byte
        BY <3>1, ElementOfSeq DEF Ended
      <4>2. Ended(stream[d]).msg \in 1 .. MaxMessages
        BY <4>1 DEF Byte
      <4> QED BY <4>2, SenderConstants
    <3> QED BY <1>2, <1>7, <3>2 DEF LastBefore
  <2> QED BY <2>1, <2>2
<1>9. Under'
  <2>1. /\ call'.msg = handed' /\ call'.bytes_sent = 0 /\ call'.len > 0 /\ call'.to = c
        /\ call'.free = Free(c)
    BY <1>1, <1>2
  <2>2. Free(c)' = Free(c)
    BY <1>5 DEF Free
  <2>3. LastBefore(stream[c]', call'.msg)
    BY <1>5, <1>7, <1>2, <2>1
  <2> QED BY <1>3, <1>4, <2>1, <2>2, <2>3 DEF Under
<1> QED BY <1>5, <1>6, <1>8, <1>9 DEF SenderInv

\* A client that reads makes room.
LEMMA ReadStep ==
    ASSUME SenderInv, NEW c \in Clients, Read(c)
    PROVE  SenderInv'
<1>1. PICK n \in (read[c] + 1) .. Len(stream[c]) : read' = [read EXCEPT ![c] = n]
  BY DEF Read
<1>2. UNCHANGED <<call, handed, stream, peer, alive>>
  BY DEF Read
<1>3. n \in Nat /\ n <= Len(stream[c]) /\ read[c] < n
  BY SocketTypes DEF SenderInv
<1>4. read' \in [Clients -> Nat]
  BY <1>1, <1>3 DEF SenderInv, TypeOK
<1>5. \A d \in Clients : read'[d] = IF d = c THEN n ELSE read[d]
  BY <1>1 DEF SenderInv, TypeOK
<1>6. \A d \in Clients : read'[d] <= Len(stream[d]) /\ Len(stream[d]) - read'[d] <= Room
  <2> TAKE d \in Clients
  <2>1. CASE d = c
    <3>1. Len(stream[c]) - read[c] <= Room /\ Len(stream[c]) \in Nat /\ read[c] \in Nat
      BY SocketTypes DEF SenderInv, TypeOK
    <3> QED BY <1>3, <1>5, <2>1, <3>1, SenderConstants
  <2>2. CASE d # c
    BY <1>5, <2>2 DEF SenderInv, TypeOK
  <2> QED BY <2>1, <2>2
<1>7. TypeOK'
  BY <1>2, <1>4, <1>6 DEF SenderInv, TypeOK
<1>8. \A d \in Clients : Free(d)' >= Free(d) /\ Free(d)' \in Nat /\ Free(d) \in Nat
  <2> TAKE d \in Clients
  <2>1. Free(d)' = Room - (Len(stream[d]) - read'[d])
    BY <1>2 DEF Free
  <2>2. Free(d) = Room - (Len(stream[d]) - read[d]) /\ Len(stream[d]) \in Nat /\ read[d] \in Nat
    BY SocketTypes DEF SenderInv
  <2>3. read'[d] >= read[d] /\ read'[d] \in Nat
    BY <1>3, <1>5, <2>2
  <2>4. Free(d) \in Nat
    BY SocketTypes DEF SenderInv
  <2>5. Room \in Nat
    BY SenderConstants
  <2>6. Len(stream[d]) - read'[d] <= Room
    BY <1>6
  <2> HIDE DEF Free
  <2> QED BY <2>1, <2>2, <2>3, <2>4, <2>5, <2>6
<1>9. call # None => Under'
  <2> SUFFICES ASSUME call # None PROVE Under'
    OBVIOUS
  <2>1. Under /\ call \in Call
    BY DEF SenderInv, Under
  <2>2. call.to \in Clients /\ call.free \in Nat /\ call.bytes_sent \in Nat
    BY <2>1 DEF Call
  <2>3. Free(call.to) \in Nat /\ Free(call.to)' >= Free(call.to) /\ Free(call.to)' \in Nat
    <3>1. Free(call.to)' = Room - (Len(stream'[call.to]) - read'[call.to])
      BY <1>2 DEF Free
    <3>2. \A e \in Clients : Free(e)' = Room - (Len(stream'[e]) - read'[e])
      BY DEF Free
    <3> QED BY <1>8, <2>2, <3>1, <3>2
  <2>4. Free(call.to) >= call.free - call.bytes_sent => Free(call.to)' >= call.free - call.bytes_sent
    BY <2>2, <2>3
  <2> QED BY <1>2, <2>1, <2>4 DEF Under
<1> QED BY <1>2, <1>7, <1>9 DEF SenderInv

LEMMA HangUpStep ==
    ASSUME SenderInv, NEW c \in Clients, HangUp(c)
    PROVE  SenderInv'
<1>1. /\ peer' = [peer EXCEPT ![c] = "gone"]
      /\ UNCHANGED <<call, handed, stream, read, alive>>
  BY DEF HangUp
<1>2. TypeOK'
  BY <1>1 DEF SenderInv, TypeOK
<1>3. \A d \in Clients : peer'[d] = "up" => peer[d] = "up"
  BY <1>1 DEF SenderInv, TypeOK
<1>4. call # None => Under'
  <2> SUFFICES ASSUME call # None PROVE Under'
    OBVIOUS
  <2>1. Under /\ call.to \in Clients
    BY DEF SenderInv, Under, Call
  <2>2. Free(call.to)' = Free(call.to)
    BY <1>1 DEF Free
  <2> QED BY <1>1, <1>3, <2>1, <2>2 DEF Under
<1> QED BY <1>1, <1>2, <1>4 DEF SenderInv

\* A call that is cut short is cut short by a full socket.
FitsLaw ==
    call # None /\ call' = None /\ peer[call.to] = "up" /\ call.len <= call.free =>
        LET s == stream'[call.to]
        IN  s # <<>> /\ s[Len(s)].msg = call.msg /\ s[Len(s)].pos = call.len

\* After send has taken n bytes: the call is over, or n bytes further.
LEMMA AfterSendIs ==
    ASSUME call \in Call, call.bytes_sent < call.len, NEW n \in 1 .. Remaining,
           call' = AfterSend(n)
    PROVE  /\ n \in Nat /\ n >= 1 /\ call.bytes_sent + n <= call.len
           /\ call.len \in Nat /\ call.bytes_sent \in Nat
           /\ call' = None => call.bytes_sent + n = call.len
           /\ call' # None =>
                 /\ call' \in Call
                 /\ call'.bytes_sent = call.bytes_sent + n
                 /\ call'.bytes_sent < call.len
                 /\ call'.to = call.to /\ call'.msg = call.msg
                 /\ call'.len = call.len /\ call'.free = call.free
<1>1. call.len \in Lengths /\ call.bytes_sent \in Nat
  BY DEF Call
<1>2. call.len \in Nat
  BY <1>1, SenderConstants
<1>3. Remaining \in Nat /\ Remaining = call.len - call.bytes_sent
  BY <1>1, <1>2 DEF Remaining
<1>4. n \in Nat /\ n >= 1 /\ n <= Remaining
  BY <1>3
<1>5. CASE n >= Remaining
  <2>1. call' = None /\ n = Remaining
    BY <1>3, <1>4, <1>5 DEF AfterSend
  <2> QED BY <1>1, <1>2, <1>3, <1>4, <2>1
<1>6. CASE ~(n >= Remaining)
  <2>1. call' = [call EXCEPT !.bytes_sent = call.bytes_sent + n]
    BY <1>6 DEF AfterSend
  <2>2. call.bytes_sent + n < call.len /\ call.bytes_sent + n \in Nat
    BY <1>1, <1>2, <1>3, <1>4, <1>6
  <2>3. /\ call' \in Call
        /\ call'.bytes_sent = call.bytes_sent + n
        /\ call'.to = call.to /\ call'.msg = call.msg
        /\ call'.len = call.len /\ call'.free = call.free
    BY <2>1, <2>2 DEF Call
  <2>5. call' # None
    BY <2>3, SenderConstants
  <2> QED BY <1>1, <1>2, <1>4, <2>2, <2>3, <2>5
<1> QED BY <1>5, <1>6

LEMMA SendPieceStep ==
    ASSUME SenderInv, SendPiece
    PROVE  SenderInv' /\ (\E c \in Clients : Clean!Arrive(c)) /\ FitsLaw
<1> DEFINE c == call.to
           s == stream[c]
<1>1. /\ call # None /\ call \in Call /\ call.msg = handed /\ call.bytes_sent < call.len
      /\ c \in Clients /\ peer[c] = "up"
      /\ call.bytes_sent \in Nat /\ call.free \in Nat
      /\ call.msg \in 1 .. MaxMessages /\ call.len \in Lengths
  BY DEF SendPiece, SenderInv, Under, Call
<1>2. /\ Free(c) >= call.free - call.bytes_sent
      /\ \/ call.bytes_sent = 0 /\ LastBefore(s, call.msg)
         \/ s # <<>> /\ Ended(s).msg = call.msg /\ Ended(s).pos = call.bytes_sent
  BY <1>1 DEF SenderInv, Under
<1>3. PICK n \in 1 .. Remaining : /\ n <= Free(c)
                                 /\ stream' = [stream EXCEPT ![c] = s \o Piece(n)]
                                 /\ call' = AfterSend(n)
  BY DEF SendPiece
<1>4. UNCHANGED <<handed, read, peer, alive>>
  BY DEF SendPiece
<1>5. /\ s \in Seq(Byte) /\ Len(s) \in Nat /\ read[c] \in Nat /\ Free(c) \in Nat
      /\ Free(c) = Room - (Len(s) - read[c])
  BY <1>1, SocketTypes DEF SenderInv
<1>6. /\ Piece(n) \in Seq(Byte) /\ Piece(n) # <<>> /\ Len(Piece(n)) = n
      /\ \A k \in 1 .. n : Piece(n)[k].pos <= call.len /\ Piece(n)[k].of = call.len
      /\ Ended(Piece(n)).msg = call.msg /\ Ended(Piece(n)).pos = call.bytes_sent + n
      /\ Piece(n) = Clean!Segment(call.msg, call.len, call.bytes_sent + 1, call.bytes_sent + n)
  BY <1>1, PieceIs DEF SenderInv, TypeOK
<1>7. /\ n \in Nat /\ n >= 1 /\ call.bytes_sent + n <= call.len /\ call.len \in Nat
      /\ call' = None => call.bytes_sent + n = call.len
      /\ call' # None => /\ call' \in Call
                         /\ call'.bytes_sent = call.bytes_sent + n
                         /\ call'.bytes_sent < call.len
                         /\ call'.to = call.to /\ call'.msg = call.msg
                         /\ call'.len = call.len /\ call'.free = call.free
  BY <1>1, <1>3, AfterSendIs
<1> DEFINE t == s \o Piece(n)
<1>8. /\ t \in Seq(Byte) /\ t # <<>> /\ Len(t) = Len(s) + n
      /\ Ended(t).msg = call.msg /\ Ended(t).pos = call.bytes_sent + n
      /\ \A k \in 1 .. Len(t) : t[k] = IF k <= Len(s) THEN s[k] ELSE Piece(n)[k - Len(s)]
  BY <1>5, <1>6, Appended
<1>9. \A d \in Clients : stream'[d] = IF d = c THEN t ELSE stream[d]
  BY <1>3 DEF SenderInv, TypeOK
<1>10. stream' \in [Clients -> Seq(Byte)]
  BY <1>3, <1>8 DEF SenderInv, TypeOK
<1>11. Clean!Arrive(c)
  <2> DEFINE from == call.bytes_sent + 1
             to == call.bytes_sent + n
  <2>1. from \in 1 .. call.len /\ to \in from .. call.len
    BY <1>1, <1>7
  <2>2. Clean!Follows(s, call.msg, from)
    BY <1>1, <1>2 DEF Clean!Follows, LastBefore, Ended
  <2>3. stream' = [stream EXCEPT ![c] = s \o Clean!Segment(call.msg, call.len, from, to)]
    BY <1>3, <1>6
  <2> HIDE DEF from, to
  <2> QED BY <1>1, <2>1, <2>2, <2>3 DEF Clean!Arrive
<1> HIDE DEF s, t, c
<1>12. FitsLaw
  BY <1>1, <1>7, <1>8, <1>9 DEF FitsLaw, Ended, c
<1>13. \A k \in 1 .. Len(t) : t[k].pos <= t[k].of
  <2> TAKE k \in 1 .. Len(t)
  <2>0. \A j \in 1 .. Len(s) : s[j].pos <= s[j].of
    BY <1>1, <1>5, LenProperties DEF SenderInv, TypeOK, s
  <2>1. CASE k <= Len(s)
    BY <1>5, <1>8, <2>0, <2>1
  <2>2. CASE ~(k <= Len(s))
    <3>1. k - Len(s) \in 1 .. n
      BY <1>5, <1>7, <1>8, <2>2
    <3> QED BY <1>6, <1>8, <2>2, <3>1
  <2> QED BY <2>1, <2>2
<1>14. read[c] <= Len(t) /\ Len(t) - read[c] <= Room
  <2>1. read[c] <= Len(s)
    BY <1>1 DEF SenderInv, TypeOK, s
  <2> QED BY <2>1, <1>3, <1>5, <1>7, <1>8, SenderConstants
<1>15. TypeOK'
  <2>1. call' \in Call \cup {None}
    BY <1>7
  <2>2. \A d \in Clients : \A k \in DOMAIN stream'[d] : stream'[d][k].pos <= stream'[d][k].of
    <3>1. DOMAIN t = 1 .. Len(t)
      BY <1>8, LenProperties
    <3> QED BY <1>9, <1>13, <3>1 DEF SenderInv, TypeOK
  <2>3. \A d \in Clients : read[d] <= Len(stream'[d]) /\ Len(stream'[d]) - read[d] <= Room
    BY <1>9, <1>14 DEF SenderInv, TypeOK
  <2> QED BY <1>4, <1>10, <2>1, <2>2, <2>3 DEF SenderInv, TypeOK
<1>16. \A d \in Clients : LastBefore(stream'[d], handed' + 1)
  <2>1. handed \in Nat /\ call.msg < handed + 1
    BY <1>1, SenderConstants DEF SenderInv, TypeOK
  <2> QED BY <2>1, <1>4, <1>8, <1>9 DEF SenderInv, LastBefore
<1>17. call' # None => Under'
  <2> SUFFICES ASSUME call' # None PROVE Under'
    OBVIOUS
  <2>1. call'.to = c /\ stream'[c] = t
    BY <1>1, <1>7, <1>9 DEF c
  <2>2. Free(call.to)' = Room - (Len(t) - read[c])
    BY <1>4, <2>1 DEF Free
  <2>3. Room - (Len(t) - read[c]) >= call.free - (call.bytes_sent + n)
    <3>1. /\ Room \in Nat /\ Len(s) \in Nat /\ read[c] \in Nat /\ n \in Nat
          /\ call.free \in Nat /\ call.bytes_sent \in Nat
      BY <1>1, <1>5, <1>7, SenderConstants
    <3>2. Room - (Len(s) - read[c]) >= call.free - call.bytes_sent
      BY <1>2, <1>5
    <3>3. Len(t) = Len(s) + n
      BY <1>8
    <3> QED BY <3>1, <3>2, <3>3
  <2>4. Free(call.to)' >= call'.free - call'.bytes_sent
    BY <1>7, <2>2, <2>3
  <2> QED BY <1>1, <1>4, <1>7, <1>8, <2>1, <2>4 DEF Under
<1> QED BY <1>1, <1>11, <1>12, <1>15, <1>16, <1>17 DEF SenderInv

\* The socket is full, or the client gone: the call ends.
LEMMA SendRefusedStep ==
    ASSUME SenderInv, SendRefused
    PROVE  SenderInv' /\ UNCHANGED stream /\ FitsLaw
<1>1. call' = None /\ UNCHANGED <<handed, stream, read, peer, alive>> /\ call # None
  BY DEF SendRefused, GiveUp
<1>2. SenderInv'
  BY <1>1 DEF SenderInv, TypeOK
<1>3. FitsLaw
  <2> SUFFICES ASSUME peer[call.to] = "up", call.len <= call.free PROVE FALSE
    BY DEF FitsLaw
  <2>1. Free(call.to) = 0 /\ Under
    BY <1>1 DEF SendRefused, SenderInv
  <2>2. /\ call.free \in Nat /\ call.bytes_sent \in Nat /\ call.len \in Nat
        /\ call.bytes_sent < call.len
    BY <2>1, SenderConstants DEF Under, Call
  <2>3. 0 >= call.free - call.bytes_sent
    BY <2>1 DEF Under
  <2> QED BY <2>2, <2>3
<1> QED BY <1>1, <1>2, <1>3

\* The client is gone: bytes into nowhere, or the end of the process.
LEMMA SendInVainStep ==
    ASSUME SenderInv, SendInVain
    PROVE  SenderInv' /\ UNCHANGED stream /\ FitsLaw
<1>1. UNCHANGED <<handed, stream, read, peer>> /\ peer[call.to] = "gone" /\ call # None
  BY DEF SendInVain
<1>2. FitsLaw
  BY <1>1 DEF FitsLaw
<1>3. Under /\ call \in Call /\ call.bytes_sent < call.len
  BY <1>1 DEF SenderInv, Under
<1>4. CASE UNCHANGED call /\ alive' = FALSE
  <2>1. TypeOK'
    BY <1>1, <1>4 DEF SenderInv, TypeOK
  <2>2. Under'
    BY <1>1, <1>3, <1>4 DEF Under
  <2> QED BY <1>1, <1>2, <2>1, <2>2 DEF SenderInv
<1>5. CASE UNCHANGED alive /\ \E n \in 1 .. Remaining : call' = AfterSend(n)
  <2> PICK n \in 1 .. Remaining : call' = AfterSend(n)
    BY <1>5
  <2>1. call' # None => /\ call' \in Call
                        /\ call'.bytes_sent < call.len
                        /\ call'.to = call.to /\ call'.msg = call.msg
                        /\ call'.len = call.len
    BY <1>3, AfterSendIs
  <2>2. TypeOK'
    BY <1>1, <1>5, <2>1 DEF SenderInv, TypeOK
  <2>3. call' # None => Under'
    BY <1>1, <1>3, <2>1 DEF Under
  <2> QED BY <1>1, <1>2, <2>2, <2>3 DEF SenderInv
<1> QED BY <1>4, <1>5 DEF SendInVain

-----------------------------------------------------------------------------
(* Putting it together *)

LEMMA SenderNext ==
    ASSUME SenderInv, [Next]_vars
    PROVE  /\ SenderInv'
           /\ (\E c \in Clients : Clean!Arrive(c)) \/ UNCHANGED stream
           /\ [FitsLaw]_vars
<1>1. ASSUME NEW c \in Clients, SendMessage(c) PROVE SenderInv' /\ UNCHANGED stream /\ FitsLaw
  BY <1>1, SendMessageStep DEF SendMessage, FitsLaw
<1>2. ASSUME NEW c \in Clients, Read(c) PROVE SenderInv' /\ UNCHANGED stream /\ FitsLaw
  BY <1>2, ReadStep DEF Read, FitsLaw
<1>3. ASSUME NEW c \in Clients, HangUp(c) PROVE SenderInv' /\ UNCHANGED stream /\ FitsLaw
  BY <1>3, HangUpStep DEF HangUp, FitsLaw
<1>4. CASE UNCHANGED vars
  <2>1. Free(call.to)' = Free(call.to)
    BY <1>4 DEF vars, Free
  <2>2. call # None => Under'
    BY <1>4, <2>1 DEF SenderInv, Under, vars
  <2>3. TypeOK'
    BY <1>4 DEF SenderInv, TypeOK, vars
  <2> QED BY <1>4, <2>2, <2>3 DEF SenderInv, vars
<1> QED BY <1>1, <1>2, <1>3, <1>4, SendPieceStep, SendRefusedStep, SendInVainStep DEF Next, Send

\* In every reachable state.
LEMMA SenderCorrect == Spec => []SenderInv
<1>1. SenderInv /\ [Next]_vars => SenderInv'
  BY SenderNext
<1> QED BY <1>1, SenderInit, PTL DEF Spec

\* No socket ever holds more than it has room for, and no byte is made up.
THEOREM SenderTyped == Spec => []TypeOK
<1>1. SenderInv => TypeOK
  BY DEF SenderInv
<1> QED BY <1>1, SenderCorrect, PTL

\* sendResponse delivers messages in order, without holes and repetitions.
THEOREM StreamsAreClean == Spec => StreamContract
<1>1. Init => Clean!Nothing
  BY DEF Init, Clean!Nothing
<1>2. SenderInv /\ [Next]_vars => [Clean!SomeoneHears]_stream
  BY SenderNext DEF Clean!SomeoneHears
<1> QED BY <1>1, <1>2, SenderCorrect, PTL DEF Spec, StreamContract, Clean!Contract

\* A message that fits is not cut, in however many pieces it is taken.
THEOREM WholeIfItFits == Spec => FitsThenWhole
<1> DEFINE Step ==
        call # None /\ call' = None /\ peer[call.to] = "up" /\ call.len <= call.free =>
            LET s == stream'[call.to]
            IN  s # <<>> /\ s[Len(s)].msg = call.msg /\ s[Len(s)].pos = call.len
<1>1. ASSUME SenderInv, [Next]_vars PROVE [Step]_vars
  BY <1>1, SenderNext DEF FitsLaw
<1>2. Spec => [][Step]_vars
  BY <1>1, SenderCorrect, PTL DEF Spec
<1> QED BY <1>2 DEF FitsThenWhole

-----------------------------------------------------------------------------
(* Why sendResponse returns. *)

\* Every send ends the call, or the process, or takes bytes of what is left:
\* Remaining becomes less and never zero, so that a call of a message of len
\* bytes makes len sends at the most.  With the fairness of the thread this is
\* what SendReturns rests on; nothing the clients do adds to what is left.
SendsDecrease ==
    [][call # None =>
            IF Send
            THEN \/ call' = None \/ ~alive'
                 \/ /\ Remaining' \in 1 .. Remaining - 1
                    /\ call'.to = call.to /\ call'.msg = call.msg /\ call'.len = call.len
            ELSE UNCHANGED call]_vars

THEOREM EverySendCounts == Spec => SendsDecrease
<1> DEFINE Step ==
        call # None =>
            IF Send
            THEN \/ call' = None \/ ~alive'
                 \/ /\ Remaining' \in 1 .. Remaining - 1
                    /\ call'.to = call.to /\ call'.msg = call.msg /\ call'.len = call.len
            ELSE UNCHANGED call
<1>1. ASSUME SenderInv, [Next]_vars PROVE [Step]_vars
  <2> SUFFICES ASSUME Next, call # None PROVE Step
    BY <1>1
  <2>0. call \in Call /\ call.bytes_sent < call.len
    BY <1>1 DEF SenderInv, Under
  <2>1. ASSUME NEW n \in 1 .. Remaining, call' = AfterSend(n), Send PROVE Step
    <3>1. /\ n \in Nat /\ n >= 1 /\ call.bytes_sent + n <= call.len
          /\ call.len \in Nat /\ call.bytes_sent \in Nat
      BY <2>0, <2>1, AfterSendIs
    <3>2. CASE call' = None
      BY <2>1, <3>2
    <3>3. CASE call' # None
      <4>1. /\ call'.bytes_sent = call.bytes_sent + n
            /\ call'.bytes_sent < call.len
            /\ call'.to = call.to /\ call'.msg = call.msg /\ call'.len = call.len
        BY <2>0, <2>1, <3>3, AfterSendIs
      <4>2. Remaining' = call.len - (call.bytes_sent + n) /\ Remaining = call.len - call.bytes_sent
        BY <4>1 DEF Remaining
      <4>3. Remaining' \in 1 .. Remaining - 1
        <5>1. call.bytes_sent + n < call.len
          BY <4>1
        <5> QED BY <3>1, <4>2, <5>1
      <4> QED BY <2>1, <4>1, <4>3
    <3> QED BY <3>2, <3>3
  <2>2. CASE SendPiece
    <3>1. PICK n \in 1 .. Remaining : call' = AfterSend(n)
      BY <2>2 DEF SendPiece
    <3> QED BY <2>1, <2>2, <3>1 DEF Send
  <2>3. CASE SendRefused
    BY <2>3 DEF SendRefused, GiveUp, Send
  <2>4. CASE SendInVain
    <3>1. CASE alive' = FALSE
      BY <2>4, <3>1 DEF Send
    <3>2. CASE \E n \in 1 .. Remaining : call' = AfterSend(n)
      BY <2>1, <2>4, <3>2 DEF Send
    <3> QED BY <2>4, <3>1, <3>2 DEF SendInVain
  <2>5. CASE ~Send
    <3>1. PICK c \in Clients : SendMessage(c) \/ Read(c) \/ HangUp(c)
      BY <2>5 DEF Next
    <3>2. UNCHANGED call
      BY <3>1 DEF SendMessage, Read, HangUp
    <3> QED BY <2>5, <3>2
  <2> QED BY <2>2, <2>3, <2>4, <2>5 DEF Send
<1>2. Spec => [][Step]_vars
  BY <1>1, SenderCorrect, PTL DEF Spec
<1> QED BY <1>2 DEF SendsDecrease

=============================================================================
