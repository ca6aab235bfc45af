----------------------------- MODULE MCOtaAuth ------------------------------
(* Two hosts, of which each may make two calls, and one reset.             *)
EXTENDS OtaAuth, TLC

HostsAlike == Permutations(Hosts)
=============================================================================
