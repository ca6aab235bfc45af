-------------------------- MODULE MCProvisioning ---------------------------
(* Two probes and two boards.                                              *)
EXTENDS Provisioning, TLC

MCLeavings == {{}, {"access"}}
MCSymmetry == Permutations(Boards) \cup Permutations(Probes)
=============================================================================
