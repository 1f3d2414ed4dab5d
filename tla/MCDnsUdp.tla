------------------------------ MODULE MCDnsUdp ------------------------------
(* A small instance of the UDP server. *)
EXTENDS DnsUdp, TLC

(* Shorter than a header, and a message of another kind. *)
MCNoise == {[from |-> "other", bytes |-> 5], [from |-> "other", bytes |-> 30]}
=============================================================================
