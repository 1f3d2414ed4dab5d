---------------------------- MODULE MCCertStore ----------------------------
(* Small instances of the certificate store. *)
EXTENDS CertStore, TLC

Symmetry == Permutations(Cas) \cup Permutations(Hosts)
=============================================================================
