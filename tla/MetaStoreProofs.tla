-------------------------- MODULE MetaStoreProofs ---------------------------
(***************************************************************************)
(* The two-sector store implements the atomic register, for any contents   *)
(* and any width of sequence number.                                       *)
(***************************************************************************)
EXTENDS MetaStore, TLAPS

(* Between consecutive numbers the signed difference has the right sign,   *)
(* whatever the width: the comparison of meta_latest cannot be fooled.     *)
LEMMA SignedConsecutive ==
  /\ Signed(1) > 0
  /\ ~(Signed(-1) > 0)
BY RangeAssumption DEF Signed, SeqLimit

(* What meta_latest selects when the readable records are consecutive.     *)
LEMMA LatestSelects ==
  ASSUME NEW n \in [Sectors -> Sector], Consecutive(n)
  PROVE  /\ ~Valid(n, 0) /\ ~Valid(n, 1) => Latest(n) = -1
         /\ Valid(n, 0) /\ ~Valid(n, 1) => Latest(n) = 0
         /\ ~Valid(n, 0) /\ Valid(n, 1) => Latest(n) = 1
         /\ Valid(n, 0) /\ Valid(n, 1) /\ n[1].body.seq = n[0].body.seq + 1
              => Latest(n) = 1
         /\ Valid(n, 0) /\ Valid(n, 1) /\ n[0].body.seq = n[1].body.seq + 1
              => Latest(n) = 0
<1>1. Valid(n, 0) /\ Valid(n, 1) => n[0].body.seq \in Int /\ n[1].body.seq \in Int
  BY RangeAssumption, EmptyAssumption DEF Valid, Record, SeqLimit, Sectors, Sector
<1>2. Valid(n, 0) /\ Valid(n, 1) /\ n[1].body.seq = n[0].body.seq + 1
        => Newer(n[1].body, n[0].body)
  BY <1>1, SignedConsecutive DEF Newer
<1>3. Valid(n, 0) /\ Valid(n, 1) /\ n[0].body.seq = n[1].body.seq + 1
        => ~Newer(n[1].body, n[0].body)
  BY <1>1, SignedConsecutive DEF Newer
<1> QED BY <1>2, <1>3 DEF Latest

(* The sector the writer works on is never the one readers use.            *)
LEMMA TargetNotLatest ==
  ASSUME NEW n \in [Sectors -> Sector], Consecutive(n)
  PROVE  /\ Target(n) \in Sectors /\ 1 - Target(n) \in Sectors
         /\ Valid(n, 1 - Target(n)) => Latest(n) = 1 - Target(n)
         /\ ~Valid(n, 1 - Target(n)) => Latest(n) = -1
BY LatestSelects DEF Target, Latest, Sectors, Consecutive

(* An operation that leaves the target unreadable, or as it was, does not  *)
(* change what a reader gets.                                              *)
LEMMA TargetInvisible ==
  ASSUME NEW n \in [Sectors -> Sector], Consecutive(n),
         NEW s \in Sector, s = n[Target(n)] \/ ~(s.magic /\ s.body # Empty),
         NEW p, p = [n EXCEPT ![Target(n)] = s]
  PROVE  /\ p \in [Sectors -> Sector]
         /\ Consecutive(p)
         /\ Latest(p) = Latest(n)
         /\ Current(p) = Current(n)
<1>1. p \in [Sectors -> Sector]
  BY TargetNotLatest
<1>2. CASE s = n[Target(n)]
  <2>1. p = n
    BY <1>2
  <2> QED BY <2>1
<1>3. CASE ~(s.magic /\ s.body # Empty)
  <2>1. Consecutive(p)
    BY <1>3, TargetNotLatest DEF Consecutive, Valid, Sectors
  <2>2. Latest(p) = Latest(n)
    BY <1>3, TargetNotLatest DEF Latest, Valid, Sectors
  <2>3. Current(p) = Current(n)
    BY <2>2, TargetNotLatest DEF Current, Sectors
  <2> QED BY <1>1, <2>1, <2>2, <2>3
<1> QED BY <1>1, <1>2, <1>3
(* Programming the magic over a finished body makes the target the latest. *)
LEMMA TargetCommits ==
  ASSUME NEW n \in [Sectors -> Sector], Consecutive(n),
         NEW r \in Record, r.seq = NextSeq(n),
         NEW p, p = [n EXCEPT ![Target(n)] = [magic |-> TRUE, body |-> r]]
  PROVE  /\ p \in [Sectors -> Sector]
         /\ Consecutive(p)
         /\ Current(p) = r
<1>1. p \in [Sectors -> Sector] /\ r # Empty
  BY TargetNotLatest, EmptyAssumption DEF Sector
<1>2. Valid(p, Target(n)) /\ p[Target(n)].body = r
  BY <1>1, TargetNotLatest DEF Valid
<1>3. /\ Valid(p, 1 - Target(n)) <=> Valid(n, 1 - Target(n))
      /\ p[1 - Target(n)] = n[1 - Target(n)]
  BY TargetNotLatest DEF Valid, Sectors
<1>4. Valid(n, 1 - Target(n)) => r.seq = n[1 - Target(n)].body.seq + 1
  BY TargetNotLatest DEF Current, NextSeq, Valid, Sectors
<1>5. Consecutive(p)
  BY <1>2, <1>3, <1>4, TargetNotLatest DEF Consecutive, Sectors
<1>6. Latest(p) = Target(n)
  BY <1>1, <1>2, <1>3, <1>4, <1>5, LatestSelects, TargetNotLatest DEF Sectors
<1> QED BY <1>1, <1>2, <1>5, <1>6, TargetNotLatest DEF Current, Sectors

(* A successor is never the number it succeeds.                            *)
LEMMA SuccessorDiffers ==
  ASSUME NEW n \in [Sectors -> Sector], NEW r \in Record, r.seq = NextSeq(n)
  PROVE  Current(n) # r
BY EmptyAssumption DEF NextSeq, Record

-----------------------------------------------------------------------------

LEMMA InitIndInv == Init => IndInv
<1> SUFFICES ASSUME Init PROVE IndInv
  OBVIOUS
<1>1. CASE nor = [i \in Sectors |-> [magic |-> FALSE, body |-> Empty]]
  BY <1>1 DEF Init, IndInv, TypeOK, Sector, ReadableConsecutive, Consecutive,
              Valid, WriterState, Sectors
<1>2. ASSUME NEW d \in Data,
             nor = [i \in Sectors |->
                      [magic |-> TRUE, body |-> [seq |-> i + 1, data |-> d]]]
      PROVE  IndInv
  <2>1. \A i \in Sectors : [seq |-> i + 1, data |-> d] \in Record
    BY RangeAssumption DEF Record, SeqLimit, Sectors
  <2>2. TypeOK
    BY <1>2, <2>1 DEF Init, TypeOK, Sector
  <2>3. ReadableConsecutive
    BY <1>2 DEF ReadableConsecutive, Consecutive, Sectors
  <2> QED BY <2>2, <2>3 DEF IndInv, WriterState, Init
<1> QED BY <1>1, <1>2 DEF Init

(* What one step must do: keep the invariant, and be a step of the         *)
(* register or leave it alone.                                             *)
Simulates == IndInv' /\ [Register!Next]_(Register!vars)

LEMMA StartSimulates ==
  ASSUME IndInv, NEW d \in Data, Start(d)
  PROVE  Simulates
<1>1. rec' \in Record
  <2>1. NextSeq(nor) \in 1 .. SeqLimit - 1
    <3>1. Current(nor) \in Record \cup {Empty}
      BY LatestSelects DEF IndInv, TypeOK, ReadableConsecutive, Current, Latest,
                           Sector, Sectors
    <3> QED BY <3>1, RangeAssumption DEF Start, NextSeq, Record, SeqLimit
  <2> QED BY <2>1 DEF Start, Record
<1>2. IndInv'
  BY <1>1, EmptyAssumption
     DEF Start, IndInv, TypeOK, ReadableConsecutive, WriterState
<1>3. Register!Invoke(d)
  BY DEF Start, IndInv, WriterState, Register!Invoke, Register!NextSeq, NextSeq,
         Register!SeqLimit, SeqLimit
<1> QED BY <1>2, <1>3 DEF Simulates, Register!Next

(* Everything the writer does to its target before the magic is programmed *)
(* is invisible to readers.                                                *)
LEMMA InvisibleSimulates ==
  ASSUME IndInv, NEW from \in {"erase", "body", "magic"}, NEW s \in Sector,
         NEW to \in {"body", "magic", "failed"}, Operation(from, s, to),
         s = nor[Target(nor)] \/ ~(s.magic /\ s.body # Empty),
         to # "failed" => ~s.magic
  PROVE  Simulates
<1> USE DEF IndInv, ReadableConsecutive
<1>1. /\ nor' \in [Sectors -> Sector]
      /\ Consecutive(nor')
      /\ Latest(nor') = Latest(nor)
      /\ Current(nor') = Current(nor)
  BY TargetInvisible DEF Operation, TypeOK
<1>2. Target(nor') = Target(nor) /\ NextSeq(nor') = NextSeq(nor)
  BY <1>1 DEF Target, NextSeq
<1>3. nor'[Target(nor)] = s
  BY TargetNotLatest DEF Operation, TypeOK
<1>4. IndInv'
  BY <1>1, <1>2, <1>3 DEF Operation, TypeOK, WriterState
<1>5. UNCHANGED Register!vars
  BY <1>1 DEF Operation, Register!vars
<1> QED BY <1>4, <1>5 DEF Simulates

(* Programming the magic is the instant the register takes its new value.  *)
LEMMA CommitSimulates ==
  ASSUME IndInv, NEW to \in {"verify", "failed"},
         Operation("magic", [magic |-> TRUE, body |-> rec], to)
  PROVE  Simulates
<1> USE DEF IndInv, ReadableConsecutive
<1>1. rec \in Record /\ rec.seq = NextSeq(nor)
  BY DEF Operation, TypeOK, WriterState
<1>2. /\ nor' \in [Sectors -> Sector]
      /\ Consecutive(nor')
      /\ Current(nor') = rec
  BY <1>1, TargetCommits DEF Operation, TypeOK
<1>3. IndInv'
  BY <1>1, <1>2, EmptyAssumption DEF Operation, TypeOK, WriterState
<1>4. Register!TakeEffect
  BY <1>1, <1>2, SuccessorDiffers, EmptyAssumption
     DEF Operation, TypeOK, Register!TakeEffect
<1> QED BY <1>3, <1>4 DEF Simulates, Register!Next

(* Returning, with either result, or losing power ends the write.          *)
LEMMA ReturnSimulates ==
  ASSUME IndInv, NEW from \in {"erase", "body", "magic", "verify", "failed"},
         NEW value \in {"ok", "failed", "none"}, Return(from, value),
         value = "ok" => from = "verify"
  PROVE  Simulates
<1>1. IndInv'
  BY DEF IndInv, TypeOK, ReadableConsecutive, WriterState, Return
<1>2. CASE value = "ok"
  <2>1. Register!ReportSuccess
    BY <1>2 DEF IndInv, WriterState, Return, Register!ReportSuccess
  <2> QED BY <1>1, <2>1 DEF Simulates, Register!Next
<1>3. CASE value # "ok"
  <2>1. Register!ReportFailure
    BY <1>3 DEF IndInv, WriterState, Return, Register!ReportFailure
  <2> QED BY <1>1, <2>1 DEF Simulates, Register!Next
<1> QED BY <1>2, <1>3

LEMMA NextSimulates == IndInv /\ [Next]_vars => Simulates
<1> SUFFICES ASSUME IndInv, [Next]_vars PROVE Simulates
  OBVIOUS
<1>t. nor[Target(nor)] \in Sector /\ (rec # Empty => rec \in Record)
  BY TargetNotLatest DEF IndInv, TypeOK, ReadableConsecutive
<1>r. rec \in Record \cup {Empty}
  BY DEF IndInv, TypeOK
<1>1. ASSUME NEW d \in Data, Start(d) PROVE Simulates
  BY <1>1, StartSimulates
<1>2. CASE Erase
  BY <1>2, InvisibleSimulates DEF Erase, Sector
<1>3. CASE EraseFails
  <2> PICK m \in {nor[Target(nor)].magic, FALSE},
           b \in {nor[Target(nor)].body, Empty} :
         Operation("erase", [magic |-> m, body |-> b], "failed")
    BY <1>3 DEF EraseFails
  <2>1. [magic |-> m, body |-> b] \in Sector
    BY <1>t DEF Sector
  <2>2. \/ [magic |-> m, body |-> b] = nor[Target(nor)]
        \/ ~(m /\ b # Empty)
    BY <1>t DEF Sector
  <2> QED BY <2>1, <2>2, InvisibleSimulates
<1>4. CASE ProgramBody
  BY <1>4, <1>r, InvisibleSimulates DEF ProgramBody, Sector
<1>5. CASE ProgramBodyFails
  BY <1>5, <1>r, InvisibleSimulates DEF ProgramBodyFails, Sector
<1>6. CASE ProgramMagic
  BY <1>6, CommitSimulates DEF ProgramMagic
<1>7. CASE ProgramMagicFails
  <2> PICK m \in BOOLEAN : Operation("magic", [magic |-> m, body |-> rec], "failed")
    BY <1>7 DEF ProgramMagicFails
  <2>1. CASE m
    BY <2>1, CommitSimulates
  <2>2. CASE ~m
    BY <2>2, <1>r, InvisibleSimulates DEF Sector
  <2> QED BY <2>1, <2>2
<1>8. CASE Succeed \/ Fail \/ PowerCut
  BY <1>8, ReturnSimulates DEF Succeed, Fail, PowerCut
<1>9. CASE UNCHANGED vars
  BY <1>9 DEF vars, IndInv, TypeOK, ReadableConsecutive, WriterState, Simulates,
              Register!vars
<1> QED BY <1>1, <1>2, <1>3, <1>4, <1>5, <1>6, <1>7, <1>8, <1>9 DEF Next

-----------------------------------------------------------------------------

(* Sectors hold records of the metadata's type, or nothing readable.       *)
THEOREM StoreTypeCorrect == Spec => []TypeOK
<1>1. IndInv /\ [Next]_vars => IndInv'
  BY NextSimulates DEF Simulates
<1>2. IndInv => TypeOK
  BY DEF IndInv
<1> QED BY <1>1, <1>2, InitIndInv, PTL DEF Spec

(* At every step of g100_meta_write it is known which record readers see.  *)
THEOREM WriterKnowsRecord == Spec => []WriterState
<1>1. IndInv /\ [Next]_vars => IndInv'
  BY NextSimulates DEF Simulates
<1>2. IndInv => WriterState
  BY DEF IndInv
<1> QED BY <1>1, <1>2, InitIndInv, PTL DEF Spec

(* However the NOR operations fail and power goes, the two readable        *)
(* metadata records are consecutive: meta_latest never ties or misorders.  *)
THEOREM StoreOrdered == Spec => []ReadableConsecutive
<1>1. IndInv /\ [Next]_vars => IndInv'
  BY NextSimulates DEF Simulates
<1>2. IndInv => ReadableConsecutive
  BY DEF IndInv
<1> QED BY <1>1, <1>2, InitIndInv, PTL DEF Spec

(* g100_meta_write over two sectors is an atomic register: a reader, at    *)
(* any moment and after any power cut, gets the old record or the new one, *)
(* and the new one if the write reported success.                          *)
THEOREM StoreImplementsRegister == Spec => AtomicRegister
<1>1. Init => Register!Init
  <2> SUFFICES ASSUME Init PROVE Register!Init
    OBVIOUS
  <2>1. IndInv
    BY InitIndInv
  <2>2. Current(nor) \in Record \cup {Empty}
    BY <2>1 DEF IndInv, TypeOK, Current, Latest, Sector, Sectors
  <2> QED BY <2>2 DEF Init, Register!Init, Register!Record, Record,
                      Register!SeqLimit, SeqLimit
<1>2. IndInv /\ [Next]_vars => IndInv' /\ [Register!Next]_(Register!vars)
  BY NextSimulates DEF Simulates
<1> QED BY <1>1, <1>2, InitIndInv, PTL DEF Spec, AtomicRegister, Register!Spec
=============================================================================
