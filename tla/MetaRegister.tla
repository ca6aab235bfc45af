---------------------------- MODULE MetaRegister ----------------------------
(***************************************************************************)
(* What the boot-metadata store promises its callers: one record that a    *)
(* write replaces atomically or leaves alone.  A write that reports        *)
(* success has taken effect; a write that reports failure, or that a power *)
(* cut ends, may have taken effect or not, and nothing in between can ever *)
(* be read.  MetaStore, the two-sector implementation, refines this.       *)
(***************************************************************************)
EXTENDS Integers

CONSTANTS
  Data,       \* everything in a record but its sequence number
  HalfRange,  \* sequence numbers are 1 .. 2 * HalfRange - 1; 2^31 in the code
  Empty       \* what a reader gets when there is no record

SeqLimit == 2 * HalfRange
Record   == [seq : 1 .. SeqLimit - 1, data : Data]

VARIABLES
  reg,      \* the record a reader would get now, or Empty
  pending,  \* the record of the write in progress, or Empty
  result    \* what the last write reported: "ok", "failed", or "none"

vars == <<reg, pending, result>>

NextSeq == IF reg = Empty THEN 1 ELSE reg.seq + 1

Init == reg \in Record \cup {Empty} /\ pending = Empty /\ result = "none"

(* A write begins with the successor of the sequence number it read.       *)
Invoke(d) ==
  /\ pending = Empty
  /\ NextSeq < SeqLimit
  /\ pending' = [seq |-> NextSeq, data |-> d]
  /\ result' = "none"
  /\ UNCHANGED reg

(* The one instant at which readers start to see the new record.           *)
TakeEffect ==
  /\ pending # Empty
  /\ reg # pending
  /\ reg' = pending
  /\ UNCHANGED <<pending, result>>

ReportSuccess ==
  /\ pending # Empty
  /\ reg = pending
  /\ pending' = Empty
  /\ result' = "ok"
  /\ UNCHANGED reg

(* A failed or interrupted write: whether it took effect stays open.       *)
ReportFailure ==
  /\ pending # Empty
  /\ pending' = Empty
  /\ result' \in {"failed", "none"}
  /\ UNCHANGED reg

Next ==
  \/ \E d \in Data : Invoke(d)
  \/ TakeEffect
  \/ ReportSuccess
  \/ ReportFailure

Spec == Init /\ [][Next]_vars
=============================================================================
