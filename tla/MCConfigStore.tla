---------------------------- MODULE MCConfigStore ----------------------------
(* A short and two long contents in banks of two sectors, and seven        *)
(* sequence numbers, so that the last is reached.                          *)
EXTENDS ConfigStore, TLC

CONSTANTS short, long, other

MCLength == (short :> 1) @@ (long :> 2) @@ (other :> 2)
=============================================================================
