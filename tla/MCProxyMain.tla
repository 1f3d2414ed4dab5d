---------------------------- MODULE MCProxyMain ----------------------------
(* Two processes started on one address. *)
EXTENDS ProxyMain
=============================================================================
