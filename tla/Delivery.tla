------------------------------ MODULE Delivery ------------------------------
(***************************************************************************)
(* What a client may rely on in the bytes it gets: the messages come one   *)
(* after the other, the bytes of each in order and without a hole, none    *)
(* twice.  A message may end too early; the next one then follows at once. *)
(***************************************************************************)
EXTENDS Naturals, Sequences

CONSTANTS
    Receivers,
    Names,          \* of messages: numbers, in the order they were sent
    MessageLengths

VARIABLE stream     \* per receiver, the bytes it got

Nothing == stream = [r \in Receivers |-> <<>>]

\* Bytes from .. to of message m, which is len bytes long.
Segment(m, len, from, to) ==
    [k \in 1 .. (to - from + 1) |-> [msg |-> m, pos |-> from + k - 1, of |-> len]]

\* Where the next segment may start: a later message, or where the last ended.
Follows(s, m, from) ==
    \/ from = 1 /\ (s = <<>> \/ s[Len(s)].msg < m)
    \/ s # <<>> /\ s[Len(s)].msg = m /\ s[Len(s)].pos + 1 = from

Arrive(r) ==
    \E len \in MessageLengths, m \in Names :
        \E from \in 1 .. len : \E to \in from .. len :
            /\ Follows(stream[r], m, from)
            /\ stream' = [stream EXCEPT ![r] = @ \o Segment(m, len, from, to)]

SomeoneHears == \E r \in Receivers : Arrive(r)

Contract == Nothing /\ [][SomeoneHears]_stream

=============================================================================
