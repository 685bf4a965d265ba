--------------------------- MODULE MCIntrusivePtr ---------------------------
(* Two members and three locals for three objects. *)
EXTENDS IntrusivePtr

CONSTANTS o1, o2, o3, e1, e2, e3, m1, m2

Objs == {o1, o2, o3}
Eves == {e1, e2, e3}
Mems == {m1, m2}

=============================================================================
