---------------------------- MODULE MCHttpPool -----------------------------
(* Three clients on the two slots.                                         *)
EXTENDS HttpPool
=============================================================================
