----------------------------- MODULE ConfigStore -----------------------------
(***************************************************************************)
(* The configuration records of firmware/memory-platform/config_store.c:   *)
(* two banks of several sectors.  g100_config_save returns at once if the  *)
(* latest record already holds the content; otherwise it erases as many    *)
(* sectors of the other bank as the new record needs, programs the         *)
(* contents, the header behind its magic, and the magic.  A shorter record *)
(* leaves sectors of a longer one behind it.  Every NOR operation may fail *)
(* with or without effect, and power may go between any two of them.       *)
(***************************************************************************)
EXTENDS Integers

CONSTANTS
  Data,       \* settings and instances together
  MaxParts,   \* sectors of a bank
  Length,     \* how many sectors the record of a content takes
  HalfRange,  \* 2^31 in the code: sequence numbers are uint32_t
  Empty       \* nothing a record can be made of

Parts    == 1 .. MaxParts
SeqLimit == 2 * HalfRange
Record   == [seq : 1 .. SeqLimit - 1, data : Data]

ASSUME ConfigAssumption ==
  /\ MaxParts \in Nat \ {0}
  /\ Length \in [Data -> Parts]
  /\ HalfRange \in Nat /\ HalfRange > 1
  /\ Empty \notin Record \cup Data

Banks == {0, 1}

(* A bank: its magic, the header behind it (sequence number, lengths and   *)
(* CRC of the content), and of which content each sector holds its part.   *)
Bank == [magic : BOOLEAN,
         head  : Record \cup {Empty},
         part  : [Parts -> Data \cup {Empty}]]

VARIABLES
  nor,   \* the two banks
  rec,   \* the record g100_config_save is writing, Empty when it is not
  at,    \* the sector it erases or programs next
  pc,    \* where it stands
  result \* what its last call returned; "none" while it runs or power went

vars == <<nor, rec, at, pc, result>>

TypeOK ==
  /\ nor \in [Banks -> Bank]
  /\ rec \in Record \cup {Empty}
  /\ at \in Parts
  /\ pc \in {"idle", "erase", "payload", "head", "magic", "verify", "failed"}
  /\ result \in {"ok", "failed", "none"}

-----------------------------------------------------------------------------
(* Reading the banks n.                                                    *)

(* A committed header, and the content its CRC is of.                      *)
Readable(b) ==
  /\ b.magic
  /\ b.head # Empty
  /\ \A s \in 1 .. Length[b.head.data] : b.part[s] = b.head.data

Valid(n, i) == Readable(n[i])

Signed(d) ==
  IF d >= HalfRange THEN d - SeqLimit
  ELSE IF d < -HalfRange THEN d + SeqLimit ELSE d

Newer(b, a) == Signed(b.seq - a.seq) > 0

(* The bank latest() selects, -1 when neither holds a record.              *)
Latest(n) ==
  IF ~Valid(n, 0) /\ ~Valid(n, 1) THEN -1
  ELSE IF Valid(n, 1) /\ (~Valid(n, 0) \/ Newer(n[1].head, n[0].head)) THEN 1
  ELSE 0

Current(n) == IF Latest(n) = -1 THEN Empty ELSE n[Latest(n)].head

Holds(d) == Current(nor) # Empty /\ Current(nor).data = d

-----------------------------------------------------------------------------
(* Saving.                                                                 *)

(* Mutation: the record is written over the latest one. *)
Mut_Target(n) == IF Latest(n) = 1 THEN 1 ELSE 0

Target(n)  == IF Latest(n) = 0 THEN 1 ELSE 0

NextSeq(n) == IF Current(n) = Empty THEN 1 ELSE Current(n).seq + 1

(* The content is the stored one: nothing is written.                      *)
Same(d) ==
  /\ pc = "idle"
  /\ Holds(d)
  /\ result' = "ok"
  /\ UNCHANGED <<nor, rec, at, pc>>

(* Sequence numbers are used up.                                           *)
Refuse ==
  /\ pc = "idle"
  /\ NextSeq(nor) = SeqLimit
  /\ \E d \in Data : ~Holds(d)
  /\ result' = "failed"
  /\ UNCHANGED <<nor, rec, at, pc>>

Start(d) ==
  /\ pc = "idle"
  /\ ~Holds(d)
  /\ NextSeq(nor) < SeqLimit
  /\ rec' = [seq |-> NextSeq(nor), data |-> d]
  /\ at' = 1
  /\ pc' = "erase" /\ result' = "none"
  /\ UNCHANGED nor

(* One NOR operation: what it leaves in the target bank, and where the     *)
(* writer goes.                                                            *)
Operation(bank, to, next) ==
  /\ nor' = [nor EXCEPT ![Target(nor)] = bank]
  /\ pc' = to /\ at' = next
  /\ UNCHANGED <<rec, result>>

(* Whether sector `at` is the last one the record takes.                   *)
Last == at = Length[rec.data]

(* Mutation: the magic survives the erase of the first sector. *)
Mut_Sector(m, h, p) == [nor[Target(nor)] EXCEPT !.head = IF at = 1 THEN h ELSE @,
                                                !.part[at] = p]

(* A sector of the target with the contents m, h and p; magic and header   *)
(* are in the first.                                                       *)
Sector(m, h, p) ==
  LET b == nor[Target(nor)] IN
    [magic |-> IF at = 1 THEN m ELSE b.magic,
     head  |-> IF at = 1 THEN h ELSE b.head,
     part  |-> [b.part EXCEPT ![at] = p]]

Erase ==
  /\ pc = "erase"
  /\ Operation(Sector(FALSE, Empty, Empty),
               IF Last THEN "payload" ELSE "erase", IF Last THEN 1 ELSE at + 1)

EraseFails ==
  LET old == nor[Target(nor)] IN
    /\ pc = "erase"
    /\ \E m \in {old.magic, FALSE}, h \in {old.head, Empty}, p \in {old.part[at], Empty} :
         Operation(Sector(m, h, p), "failed", at)

WithPart(p) == [nor[Target(nor)] EXCEPT !.part[at] = p]

ProgramPart ==
  /\ pc = "payload"
  /\ Operation(WithPart(rec.data),
               IF Last THEN "head" ELSE "payload", IF Last THEN 1 ELSE at + 1)

(* Between two pages of a sector, or at its last.                          *)
ProgramPartFails ==
  /\ pc = "payload"
  /\ \E p \in {Empty, rec.data} : Operation(WithPart(p), "failed", at)

WithHead(h)  == [nor[Target(nor)] EXCEPT !.head = h]
WithMagic(m) == [nor[Target(nor)] EXCEPT !.magic = m]

(* The header is programmed behind its magic ...                           *)
ProgramHead ==
  /\ pc = "head"
  /\ Operation(WithHead(rec), "magic", at)

ProgramHeadFails ==
  /\ pc = "head"
  /\ \E h \in {Empty, rec} : Operation(WithHead(h), "failed", at)

(* ... and the magic last: the commit point.                               *)
ProgramMagic ==
  /\ pc = "magic"
  /\ Operation(WithMagic(TRUE), "verify", at)

ProgramMagicFails ==
  /\ pc = "magic"
  /\ \E m \in BOOLEAN : Operation(WithMagic(m), "failed", at)

Return(from, value) ==
  /\ pc = from
  /\ pc' = "idle" /\ at' = 1
  /\ rec' = Empty
  /\ result' = value
  /\ UNCHANGED nor

Succeed == Return("verify", "ok")   \* record() reads the new record back
Fail    == Return("failed", "failed")

PowerCut ==
  \E from \in {"erase", "payload", "head", "magic", "verify"} : Return(from, "none")

-----------------------------------------------------------------------------
(* The installer leaves both banks erased.                                 *)
Init ==
  /\ nor = [i \in Banks |->
              [magic |-> FALSE, head |-> Empty, part |-> [s \in Parts |-> Empty]]]
  /\ rec = Empty /\ at = 1 /\ pc = "idle" /\ result = "none"

Next ==
  \/ \E d \in Data : Same(d) \/ Start(d)
  \/ Refuse
  \/ Erase \/ EraseFails
  \/ ProgramPart \/ ProgramPartFails
  \/ ProgramHead \/ ProgramHeadFails
  \/ ProgramMagic \/ ProgramMagicFails
  \/ Succeed \/ Fail
  \/ PowerCut

Spec == Init /\ [][Next]_vars

-----------------------------------------------------------------------------
Consecutive(n) ==
  Valid(n, 0) /\ Valid(n, 1) =>
    \/ n[1].head.seq = n[0].head.seq + 1
    \/ n[0].head.seq = n[1].head.seq + 1

(* However saves failed, two readable configurations have consecutive      *)
(* numbers, so latest() never takes the older one.                         *)
ConfigurationsConsecutive == Consecutive(nor)

(* Which sectors of the target are done at each stage of a save.  The      *)
(* magic is programmed only over a header and contents that are complete.  *)
SaveProgress ==
  LET t == nor[Target(nor)] IN
    /\ pc = "idle" <=> rec = Empty
    /\ rec # Empty => at <= Length[rec.data]
    /\ pc \in {"erase", "payload", "head", "magic"} => rec.seq = NextSeq(nor)
    /\ pc = "erase" /\ at > 1 => ~t.magic
    /\ pc \in {"payload", "head", "magic"} => ~t.magic
    /\ pc = "payload" => \A s \in 1 .. at - 1 : t.part[s] = rec.data
    /\ pc \in {"head", "magic"} =>
         \A s \in 1 .. Length[rec.data] : t.part[s] = rec.data
    /\ pc = "magic" => t.head = rec
    /\ pc = "verify" => Current(nor) = rec
    /\ pc = "failed" => Current(nor) = rec \/ rec.seq = NextSeq(nor)

IndInv == TypeOK /\ ConfigurationsConsecutive /\ SaveProgress

(* The banks are an atomic register: whatever fails and whenever power     *)
(* goes, g100_config_load gets the old configuration or the new one, whole *)
(* and never mixed with what a longer record left behind, and the new one  *)
(* once g100_config_save has returned success.                             *)
Register == INSTANCE ConfigRegister WITH reg <- Current(nor), pending <- rec
AtomicConfiguration == Register!ConfigSpec
=============================================================================
