--------------------------- MODULE MCSampleServer ---------------------------
(* Three connections for two descriptors, competing for one nickname. *)
EXTENDS SampleServer, TLC

CONSTANTS c1, c2, c3, fd1, fd2, al

Swap == Permutations({c1, c2, c3}) \cup Permutations({fd1, fd2})

=============================================================================
