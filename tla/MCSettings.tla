----------------------------- MODULE MCSettings ------------------------------
(* One static address beside DHCP, and one request that comes late.        *)
EXTENDS Settings
=============================================================================
