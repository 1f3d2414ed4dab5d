-------------------------- MODULE MCProxySessions --------------------------
(* Small instances of the proxy's connections. *)
EXTENDS ProxySessions, TLC

Pipelined == Request \o <<"more">>
Tls == Handshake \o Request

(* Plain, plain with a second request, TLS with more to come, TLS without  *)
(* a certificate, not HTTP, and the beginning of a handshake that turns    *)
(* out to be none.                                                         *)
MCScripts == {Pipelined, Tls \o <<"more">>, Bare \o <<"finished">>, <<"hel", "junk">>, <<"head", "junk">>}
PlainOnly == {Request}

MCOutcomes == {[status |-> 200, total |-> 1], [status |-> 0, total |-> 0]}
MCOneOutcome == {[status |-> 200, total |-> 1]}

Symmetry == Permutations(Conns)
=============================================================================
