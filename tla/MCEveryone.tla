----------------------------- MODULE MCEveryone -----------------------------
(* Three connections competing for three nicknames, and a malformed one. *)
EXTENDS Everyone, TLC

CONSTANTS f1, f2, f3, al, bo, cy, bad, ch

MCFds == {f1, f2, f3}
MCNicks == {al, bo, cy, bad}
MCBadNicks == {bad}
MCChans == {ch}

\* Connections are interchangeable, and so are the well-formed nicknames.
MCSymmetry == Permutations(MCFds) \cup Permutations({al, bo, cy})

=============================================================================
