------------------------------ MODULE MCSender ------------------------------
(* Two clients, messages shorter and longer than the room in a socket. *)
EXTENDS Sender, TLC

CONSTANTS c1, c2

=============================================================================
