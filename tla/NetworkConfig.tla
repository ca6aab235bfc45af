---------------------------- MODULE NetworkConfig ----------------------------
(***************************************************************************)
(* The management address of the board (network_config.c): a static one, a *)
(* leased one, or the fallback for a direct cable.  LwIP reports a change  *)
(* of the link or of the lease in the same turn of the main loop as        *)
(* g100_network_process acts on it, so the two are one step.               *)
(***************************************************************************)
EXTENDS Naturals

CONSTANTS
  Statics,       \* addresses that may be configured by hand
  Lease,         \* the address a DHCP server gives
  Fallback,      \* 192.168.2.x
  NoAddress,     \* 0.0.0.0
  Dhcp           \* "mode": "dhcp" in the settings

ASSUME NetworkAssumption ==
  /\ {Lease, Fallback, NoAddress, Dhcp} \cap Statics = {}
  /\ Lease # Fallback /\ Lease # NoAddress /\ Fallback # NoAddress
  /\ Dhcp \notin {Lease, Fallback, NoAddress}

VARIABLES
  link,   \* netif_is_link_up
  conf,   \* what is configured: Dhcp, or a static address (manual_static)
  mode,   \* as g100_network_mode reports it
  addr,   \* the address of the interface
  dhcp    \* LwIP's DHCP client

network == <<link, conf, mode, addr, dhcp>>

Configurations == Statics \cup {Dhcp}

NetworkTypeOK ==
  /\ link \in BOOLEAN
  /\ conf \in Configurations
  /\ mode \in {"waiting-for-link", "dhcp-waiting", "dhcp", "static-fallback", "static"}
  /\ addr \in Statics \cup {Lease, Fallback, NoAddress}
  /\ dhcp \in {"off", "asking", "bound"}

-----------------------------------------------------------------------------

(* No memory, or no socket. *)
StartFails ==
  /\ mode' = "waiting-for-link" /\ addr' = NoAddress /\ dhcp' = "off"

(* start_dhcp under the configuration c.                                   *)
Start(c) ==
  \/ /\ c # Dhcp
     /\ mode' = "static" /\ addr' = c /\ dhcp' = "off"
  \/ /\ c = Dhcp
     /\ \/ mode' = "dhcp-waiting" /\ addr' = NoAddress /\ dhcp' = "asking"
        \/ StartFails

(* g100_network_configure                                                  *)
Configure(c) ==
  /\ conf' = c
  /\ IF link THEN Start(c) ELSE UNCHANGED <<mode, addr, dhcp>>
  /\ UNCHANGED link

LinkUp ==
  /\ ~link /\ link' = TRUE
  /\ Start(conf)
  /\ UNCHANGED conf

LinkDown ==
  /\ link /\ link' = FALSE
  /\ mode' = "waiting-for-link" /\ addr' = NoAddress /\ dhcp' = "off"
  /\ UNCHANGED conf

(* A server has acknowledged the lease, the first one or a later one.      *)
Bound ==
  /\ link /\ dhcp = "asking"
  /\ dhcp' = "bound" /\ addr' = Lease
  /\ mode' = IF mode = "dhcp-waiting" THEN "dhcp" ELSE mode
  /\ UNCHANGED <<link, conf>>

(* G100_DHCP_TIMEOUT_MS have passed without a lease.                       *)
FallBack ==
  /\ link /\ mode = "dhcp-waiting" /\ dhcp = "asking"
  /\ mode' = "static-fallback" /\ addr' = Fallback /\ dhcp' = "off"
  /\ UNCHANGED <<link, conf>>

(* LwIP's client gives the address up and asks again.                      *)
Lapse ==
  /\ link /\ dhcp = "bound"
  /\ addr' = NoAddress
  /\ dhcp' \in {"asking", "off"}
  /\ UNCHANGED <<link, conf, mode>>

-----------------------------------------------------------------------------

(* After a reset: g100_network_init with the saved configuration c.        *)
Boot(c) ==
  /\ conf' = c
  /\ link' \in BOOLEAN
  /\ IF link' THEN Start(c)
     ELSE mode' = "waiting-for-link" /\ addr' = NoAddress /\ dhcp' = "off"

Environment == LinkUp \/ LinkDown \/ Bound \/ FallBack \/ Lapse

NetworkInit ==
  /\ link = FALSE /\ conf \in Configurations
  /\ mode = "waiting-for-link" /\ addr = NoAddress /\ dhcp = "off"

-----------------------------------------------------------------------------
(* What runs agrees with what is configured and with what the mode tells   *)
(* the companion: no lease and no DHCP client under a static               *)
(* configuration or beside the fallback, and no address without a link.    *)
AddressAsConfigured ==
  /\ addr \in Statics => conf = addr /\ mode = "static"
  /\ conf # Dhcp /\ link => addr = conf
  /\ addr = Lease <=> dhcp = "bound"
  /\ dhcp # "off" => link /\ conf = Dhcp /\ mode \in {"dhcp-waiting", "dhcp"}
  /\ addr = Fallback <=> mode = "static-fallback"
  /\ ~link => addr = NoAddress
=============================================================================
