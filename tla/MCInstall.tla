----------------------------- MODULE MCInstall -----------------------------
EXTENDS Install, TLC

CONSTANTS h1, h2, i1, i2

(* Two hosts, each with an image of its own. *)
MCPayload == h1 :> i1 @@ h2 :> i2
=============================================================================
