--------------------------- MODULE MCSocketServer ---------------------------
(* Three connections for two descriptors, fixed scripts. *)
EXTENDS SocketServer, TLC

CONSTANTS c1, c2, c3, fd1, fd2

\* A zero byte before an empty line; a line that ends in carriage return and
\* newline, then QUIT with an unfinished line behind it; a client that only
\* connects and hangs up.
MCScript == c1 :> <<"nul", "nl">>
         @@ c2 :> <<"skip", "cr", "nl", "quit", "nl", "x">>
         @@ c3 :> <<>>

=============================================================================
