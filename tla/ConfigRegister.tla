--------------------------- MODULE ConfigRegister ---------------------------
(***************************************************************************)
(* What the configuration store promises: the atomic register of           *)
(* MetaRegister, whose writer also answers at once when the content is     *)
(* already there (nothing is written and no number used) and when the      *)
(* sequence numbers are used up.  ConfigStore refines this.                *)
(***************************************************************************)
EXTENDS MetaRegister

(* Saving what is stored reports success.                                  *)
Keep(d) ==
  /\ pending = Empty
  /\ reg # Empty /\ reg.data = d
  /\ result' = "ok"
  /\ UNCHANGED <<reg, pending>>

Refuse ==
  /\ pending = Empty
  /\ NextSeq = SeqLimit
  /\ result' = "failed"
  /\ UNCHANGED <<reg, pending>>

(* A number is used for a new content only.                                *)
Replace(d) == (reg # Empty => reg.data # d) /\ Invoke(d)

ConfigNext ==
  \/ \E d \in Data : Keep(d) \/ Replace(d)
  \/ Refuse
  \/ TakeEffect
  \/ ReportSuccess
  \/ ReportFailure

ConfigSpec == Init /\ [][ConfigNext]_vars
=============================================================================
