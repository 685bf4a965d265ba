---------------------------- MODULE MCTranslator ----------------------------
(***************************************************************************)
(* The server with a few clients.  Each .cfg picks the commands the        *)
(* clients use: the questions asked of the model are about one part of the *)
(* protocol at a time, and the state space of all commands together is out *)
(* of reach.                                                               *)
(***************************************************************************)
EXTENDS MessageTranslator, TLC

CONSTANTS f1, f2, f3, al, bo, cy, none, ch, ch2, ill, big

Two == {f1, f2}
Three == {f1, f2, f3}
OneChannel == {ch}
TwoChannelsAndIllegal == {ch, ch2, ill}
OneChannelAndTooLong == {ch, big}

\* Clients are interchangeable, and so are well-formed nicknames.
SwapAll2 == Permutations(Two) \cup Permutations({al, bo})
SwapAll3 == Permutations(Three) \cup Permutations({al, bo, cy})

=============================================================================
