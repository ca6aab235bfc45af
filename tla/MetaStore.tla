------------------------------ MODULE MetaStore ------------------------------
(***************************************************************************)
(* The two-sector boot metadata of firmware/memory-platform/boot_state.c.  *)
(* A write goes to the sector that does not hold the latest record: erase, *)
(* program everything behind the commit magic, verify, program the magic,  *)
(* verify.  Every NOR operation may fail, with or without having taken     *)
(* effect (program_page returns failure when only the remapping after it   *)
(* failed), may leave a sector no record can be read from, and power may   *)
(* go at any step.                                                         *)
(***************************************************************************)
EXTENDS Integers

CONSTANTS
  Data,       \* slots, generations, attempts and floor of a record
  HalfRange,  \* 2^31 in the code: sequence numbers are uint32_t
  Empty       \* no record

ASSUME RangeAssumption == HalfRange \in Nat /\ HalfRange > 1

SeqLimit == 2 * HalfRange
Record   == [seq : 1 .. SeqLimit - 1, data : Data]

ASSUME EmptyAssumption == Empty \notin Record

Sectors == {0, 1}

(* A sector: whether its commit magic is programmed, and the record whose  *)
(* CRC verifies behind it, Empty if none does.                             *)
Sector == [magic : BOOLEAN, body : Record \cup {Empty}]

VARIABLES
  nor,  \* the two metadata sectors
  rec,  \* the record g100_meta_write is writing, Empty when it is not running
  pc,   \* where it stands
  result \* what its last call returned; "none" when it runs or power went

vars == <<nor, rec, pc, result>>

TypeOK ==
  /\ nor \in [Sectors -> Sector]
  /\ rec \in Record \cup {Empty}
  /\ pc \in {"idle", "erase", "body", "magic", "verify", "failed"}
  /\ result \in {"ok", "failed", "none"}

-----------------------------------------------------------------------------
(* Reading the sectors n.                                                  *)

Valid(n, i) == n[i].magic /\ n[i].body # Empty

(* (int32_t) of a difference, on words of 2 * HalfRange values.            *)
Signed(d) ==
  IF d >= HalfRange THEN d - SeqLimit
  ELSE IF d < -HalfRange THEN d + SeqLimit ELSE d

(* Mutation: the older of two records wins. *)
Mut_Newer(b, a) == Signed(b.seq - a.seq) < 0

Newer(b, a) == Signed(b.seq - a.seq) > 0

(* The sector meta_latest selects, -1 when neither holds a record.         *)
Latest(n) ==
  IF ~Valid(n, 0) /\ ~Valid(n, 1) THEN -1
  ELSE IF Valid(n, 1) /\ (~Valid(n, 0) \/ Newer(n[1].body, n[0].body)) THEN 1
  ELSE 0

Current(n) == IF Latest(n) = -1 THEN Empty ELSE n[Latest(n)].body

-----------------------------------------------------------------------------
(* Writing.                                                                *)

Target(n)  == IF Latest(n) = 0 THEN 1 ELSE 0

(* Mutation: the number is taken from the sector that is overwritten. *)
Mut_NextSeq(n) == IF n[Target(n)].body = Empty THEN 1 ELSE n[Target(n)].body.seq + 1

NextSeq(n) == IF Current(n) = Empty THEN 1 ELSE Current(n).seq + 1

(* One NOR operation: what it leaves in the target sector, and the step    *)
(* the writer goes to.                                                     *)
Operation(from, sector, to) ==
  /\ pc = from
  /\ nor' = [nor EXCEPT ![Target(nor)] = sector]
  /\ pc' = to
  /\ UNCHANGED <<rec, result>>

(* g100_meta_write reads the latest record, takes the next sequence number *)
(* and refuses to wrap.                                                    *)
Start(d) ==
  /\ pc = "idle"
  /\ NextSeq(nor) < SeqLimit
  /\ rec' = [seq |-> NextSeq(nor), data |-> d]
  /\ pc' = "erase" /\ result' = "none"
  /\ UNCHANGED nor

Erase == Operation("erase", [magic |-> FALSE, body |-> Empty], "body")

(* A failed erase leaves any mixture of old and erased cells.              *)
EraseFails ==
  LET old == nor[Target(nor)] IN
    \E m \in {old.magic, FALSE}, b \in {old.body, Empty} :
      Operation("erase", [magic |-> m, body |-> b], "failed")

(* Mutation: the record is programmed together with its magic. *)
Mut_ProgramBody == Operation("body", [magic |-> TRUE, body |-> rec], "magic")

ProgramBody == Operation("body", [magic |-> FALSE, body |-> rec], "magic")

ProgramBodyFails ==
  \E b \in {Empty, rec} :
    Operation("body", [magic |-> FALSE, body |-> b], "failed")

(* The commit point: the sector becomes readable, and becomes the latest.  *)
ProgramMagic == Operation("magic", [magic |-> TRUE, body |-> rec], "verify")

ProgramMagicFails ==
  \E m \in BOOLEAN : Operation("magic", [magic |-> m, body |-> rec], "failed")

Return(from, value) ==
  /\ pc = from
  /\ pc' = "idle"
  /\ rec' = Empty
  /\ result' = value
  /\ UNCHANGED nor

Succeed == Return("verify", "ok")      \* the final readback equals the record
Fail    == Return("failed", "failed")

(* Power goes: the cells stay as they are, the writer is forgotten.  A cut *)
(* in the middle of an operation is that operation's failure, then this.   *)
PowerCut == \E from \in {"erase", "body", "magic", "verify"} : Return(from, "none")

-----------------------------------------------------------------------------
(* A board leaves the installer with equal records numbered 1 and 2, or    *)
(* was erased and never provisioned.                                       *)
Init ==
  /\ pc = "idle"
  /\ rec = Empty /\ result = "none"
  /\ \/ nor = [i \in Sectors |-> [magic |-> FALSE, body |-> Empty]]
     \/ \E d \in Data :
          nor = [i \in Sectors |->
                   [magic |-> TRUE, body |-> [seq |-> i + 1, data |-> d]]]

Next ==
  \/ \E d \in Data : Start(d)
  \/ Erase \/ EraseFails
  \/ ProgramBody \/ ProgramBodyFails
  \/ ProgramMagic \/ ProgramMagicFails
  \/ Succeed \/ Fail
  \/ PowerCut

Spec == Init /\ [][Next]_vars

-----------------------------------------------------------------------------
Consecutive(n) ==
  Valid(n, 0) /\ Valid(n, 1) =>
    \/ n[1].body.seq = n[0].body.seq + 1
    \/ n[0].body.seq = n[1].body.seq + 1

(* Two readable records have consecutive sequence numbers, so the signed   *)
(* 32-bit comparison of meta_latest orders them and they never tie.        *)
ReadableConsecutive == Consecutive(nor)

(* How far g100_meta_write is: until the magic is programmed readers see   *)
(* the record it started from, afterwards the one it writes; a failed      *)
(* write leaves them with either.                                          *)
WriterState ==
  /\ pc = "idle" <=> rec = Empty
  /\ pc \in {"erase", "body", "magic"} => rec.seq = NextSeq(nor)
  /\ pc \in {"body", "magic"} => ~nor[Target(nor)].magic
  /\ pc = "verify" => Current(nor) = rec
  /\ pc = "failed" => Current(nor) = rec \/ rec.seq = NextSeq(nor)

IndInv == TypeOK /\ ReadableConsecutive /\ WriterState

(* The two-sector store is an atomic register: whatever fails and whenever *)
(* power goes, a reader gets the old record or the new one, and the new    *)
(* one once g100_meta_write has returned success.                          *)
Register == INSTANCE MetaRegister WITH reg <- Current(nor), pending <- rec
AtomicRegister == Register!Spec
=============================================================================
