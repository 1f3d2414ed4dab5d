------------------------------ MODULE MCDnsTcp ------------------------------
(* A small instance of the TCP server: the message may have two bytes, as   *)
(* many as the query that is answered; a third one is too many.             *)
EXTENDS DnsTcp, TLC

=============================================================================
