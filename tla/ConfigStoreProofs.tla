------------------------- MODULE ConfigStoreProofs --------------------------
(***************************************************************************)
(* The configuration banks implement an atomic register, for any contents  *)
(* of any lengths, any bank size and any width of sequence number.         *)
(***************************************************************************)
EXTENDS ConfigStore, TLAPS

LEMMA SignedConsecutive ==
  /\ Signed(1) > 0
  /\ ~(Signed(-1) > 0)
BY ConfigAssumption DEF Signed, SeqLimit

LEMMA LatestSelects ==
  ASSUME NEW n \in [Banks -> Bank], Consecutive(n)
  PROVE  /\ ~Valid(n, 0) /\ ~Valid(n, 1) => Latest(n) = -1
         /\ Valid(n, 0) /\ ~Valid(n, 1) => Latest(n) = 0
         /\ ~Valid(n, 0) /\ Valid(n, 1) => Latest(n) = 1
         /\ Valid(n, 0) /\ Valid(n, 1) /\ n[1].head.seq = n[0].head.seq + 1
              => Latest(n) = 1
         /\ Valid(n, 0) /\ Valid(n, 1) /\ n[0].head.seq = n[1].head.seq + 1
              => Latest(n) = 0
<1>1. Valid(n, 0) /\ Valid(n, 1) => n[0].head.seq \in Int /\ n[1].head.seq \in Int
  BY ConfigAssumption DEF Valid, Readable, Record, SeqLimit, Banks, Bank
<1>2. Valid(n, 0) /\ Valid(n, 1) /\ n[1].head.seq = n[0].head.seq + 1
        => Newer(n[1].head, n[0].head)
  BY <1>1, SignedConsecutive DEF Newer
<1>3. Valid(n, 0) /\ Valid(n, 1) /\ n[0].head.seq = n[1].head.seq + 1
        => ~Newer(n[1].head, n[0].head)
  BY <1>1, SignedConsecutive DEF Newer
<1> QED BY <1>2, <1>3 DEF Latest

(* A save never works on the bank that is read.                            *)
LEMMA TargetNotLatest ==
  ASSUME NEW n \in [Banks -> Bank], Consecutive(n)
  PROVE  /\ Target(n) \in Banks /\ 1 - Target(n) \in Banks
         /\ Valid(n, 1 - Target(n)) => Latest(n) = 1 - Target(n)
         /\ ~Valid(n, 1 - Target(n)) => Latest(n) = -1
BY LatestSelects DEF Target, Latest, Banks, Consecutive

LEMMA CurrentType ==
  ASSUME NEW n \in [Banks -> Bank], Consecutive(n)
  PROVE  /\ Current(n) \in Record \cup {Empty}
         /\ NextSeq(n) \in 1 .. SeqLimit
<1>1. Current(n) \in Record \cup {Empty}
  BY LatestSelects DEF Current, Latest, Bank, Banks
<1> QED BY <1>1, ConfigAssumption DEF NextSeq, Record, SeqLimit

(* What leaves the target unreadable, or as it was, is not noticed.        *)
LEMMA TargetInvisible ==
  ASSUME NEW n \in [Banks -> Bank], Consecutive(n),
         NEW b \in Bank, b = n[Target(n)] \/ ~Readable(b),
         NEW p, p = [n EXCEPT ![Target(n)] = b]
  PROVE  /\ p \in [Banks -> Bank]
         /\ Consecutive(p)
         /\ Latest(p) = Latest(n)
         /\ Current(p) = Current(n)
<1>1. p \in [Banks -> Bank]
  BY TargetNotLatest
<1>2. CASE b = n[Target(n)]
  <2>1. p = n
    BY <1>2
  <2> QED BY <2>1
<1>3. CASE ~Readable(b)
  <2>0. p[Target(n)] = b /\ p[1 - Target(n)] = n[1 - Target(n)]
    BY TargetNotLatest DEF Banks
  <2>1. Consecutive(p)
    BY <1>3, <2>0, TargetNotLatest DEF Consecutive, Valid, Banks
  <2>2. Latest(p) = Latest(n)
    BY <1>3, <2>0, TargetNotLatest DEF Latest, Valid, Banks
  <2>3. Current(p) = Current(n)
    BY <2>0, <2>2, TargetNotLatest DEF Current, Banks
  <2> QED BY <1>1, <2>1, <2>2, <2>3
<1> QED BY <1>1, <1>2, <1>3

(* The magic over a finished header and content makes the target the       *)
(* latest configuration.                                                   *)
LEMMA TargetCommits ==
  ASSUME NEW n \in [Banks -> Bank], Consecutive(n),
         NEW r \in Record, r.seq = NextSeq(n),
         NEW b \in Bank, Readable(b), b.head = r,
         NEW p, p = [n EXCEPT ![Target(n)] = b]
  PROVE  /\ p \in [Banks -> Bank]
         /\ Consecutive(p)
         /\ Current(p) = r
<1>1. p \in [Banks -> Bank]
  BY TargetNotLatest
<1>2. Valid(p, Target(n)) /\ p[Target(n)].head = r
  BY <1>1, TargetNotLatest DEF Valid
<1>3. /\ Valid(p, 1 - Target(n)) <=> Valid(n, 1 - Target(n))
      /\ p[1 - Target(n)] = n[1 - Target(n)]
  BY TargetNotLatest DEF Valid, Banks
<1>4. Valid(n, 1 - Target(n)) => r.seq = n[1 - Target(n)].head.seq + 1
  BY TargetNotLatest DEF Current, NextSeq, Valid, Readable, Banks
<1>5. Consecutive(p)
  BY <1>2, <1>3, <1>4, TargetNotLatest DEF Consecutive, Banks
<1>6. Latest(p) = Target(n)
  BY <1>1, <1>2, <1>3, <1>4, <1>5, LatestSelects, TargetNotLatest DEF Banks
<1> QED BY <1>1, <1>2, <1>5, <1>6, TargetNotLatest DEF Current, Banks

LEMMA SuccessorDiffers ==
  ASSUME NEW n \in [Banks -> Bank], NEW r \in Record, r.seq = NextSeq(n)
  PROVE  Current(n) # r
BY ConfigAssumption DEF NextSeq, Record

-----------------------------------------------------------------------------

LEMMA InitIndInv == Init => IndInv
<1> SUFFICES ASSUME Init PROVE IndInv
  OBVIOUS
<1>1. TypeOK
  BY ConfigAssumption DEF Init, TypeOK, Bank, Banks, Parts
<1>2. ConfigurationsConsecutive
  BY DEF Init, ConfigurationsConsecutive, Consecutive, Valid, Readable, Banks
<1>3. SaveProgress
  BY DEF Init, SaveProgress
<1> QED BY <1>1, <1>2, <1>3 DEF IndInv

(* What one step must do: keep the invariant, and be a step of the         *)
(* register or leave it alone.                                             *)
Simulates == IndInv' /\ [Register!ConfigNext]_(Register!vars)

LEMMA StartSimulates ==
  ASSUME IndInv, NEW d \in Data, Start(d)
  PROVE  Simulates
<1>1. rec' \in Record /\ rec' # Empty
  BY CurrentType, ConfigAssumption
     DEF Start, IndInv, TypeOK, ConfigurationsConsecutive, Record, SeqLimit
<1>2. 1 \in Parts /\ \A e \in Data : 1 <= Length[e]
  BY ConfigAssumption DEF Parts
<1>3. IndInv'
  <2>1. TypeOK'
    BY <1>1, <1>2 DEF Start, IndInv, TypeOK
  <2>2. ConfigurationsConsecutive'
    BY DEF Start, IndInv, ConfigurationsConsecutive
  <2>3. SaveProgress'
    BY <1>1, <1>2 DEF Start, SaveProgress, Record
  <2> QED BY <2>1, <2>2, <2>3 DEF IndInv
<1>4. Register!Replace(d)
  BY DEF Start, Holds, IndInv, SaveProgress, Register!Replace, Register!Invoke,
         Register!NextSeq, NextSeq, Register!SeqLimit, SeqLimit
<1> QED BY <1>3, <1>4 DEF Simulates, Register!ConfigNext

(* Answers that write nothing.                                             *)
LEMMA AnswerSimulates ==
  ASSUME IndInv, Refuse \/ \E d \in Data : Same(d)
  PROVE  Simulates
<1>1. IndInv'
  BY DEF Refuse, Same, IndInv, TypeOK, ConfigurationsConsecutive, SaveProgress
<1>2. Refuse => Register!Refuse
  BY DEF Refuse, Register!Refuse, Register!NextSeq, NextSeq, Register!SeqLimit,
         SeqLimit, IndInv, SaveProgress
<1>3. ASSUME NEW d \in Data, Same(d) PROVE Register!Keep(d)
  BY <1>3 DEF Same, Holds, Register!Keep, IndInv, SaveProgress
<1> QED BY <1>1, <1>2, <1>3 DEF Simulates, Register!ConfigNext

(* Everything a save does to its target before the commit is invisible.    *)
LEMMA InvisibleSimulates ==
  ASSUME IndInv, NEW b \in Bank, NEW next \in Parts,
         NEW to \in {"erase", "payload", "head", "magic", "failed"},
         Operation(b, to, next),
         pc \in {"erase", "payload", "head", "magic"},
         b = nor[Target(nor)] \/ ~Readable(b),
         next <= Length[rec.data],
         to # "failed" => ~b.magic,
         to = "payload" => \A s \in 1 .. next - 1 : b.part[s] = rec.data,
         to \in {"head", "magic"} =>
           \A s \in 1 .. Length[rec.data] : b.part[s] = rec.data,
         to = "magic" => b.head = rec
  PROVE  Simulates
<1> USE DEF IndInv, ConfigurationsConsecutive
<1>1. /\ nor' \in [Banks -> Bank]
      /\ Consecutive(nor')
      /\ Latest(nor') = Latest(nor)
      /\ Current(nor') = Current(nor)
  BY TargetInvisible DEF Operation, TypeOK
<1>2. Target(nor') = Target(nor) /\ NextSeq(nor') = NextSeq(nor)
  BY <1>1 DEF Target, NextSeq
<1>3. nor'[Target(nor)] = b
  BY TargetNotLatest DEF Operation, TypeOK
<1>4. TypeOK'
  BY <1>1 DEF Operation, TypeOK
<1>5. SaveProgress'
  BY <1>1, <1>2, <1>3 DEF Operation, SaveProgress
<1>6. UNCHANGED Register!vars
  BY <1>1 DEF Operation, Register!vars
<1> QED BY <1>1, <1>4, <1>5, <1>6 DEF Simulates

(* Programming the magic is the instant the register takes its new value.  *)
LEMMA CommitSimulates ==
  ASSUME IndInv, pc = "magic", NEW to \in {"verify", "failed"},
         Operation(WithMagic(TRUE), to, at)
  PROVE  Simulates
<1> USE DEF IndInv, ConfigurationsConsecutive
<1> DEFINE b == WithMagic(TRUE)
<1>1. rec \in Record /\ rec.seq = NextSeq(nor) /\ rec # Empty
  BY ConfigAssumption DEF TypeOK, SaveProgress
<1>2. nor[Target(nor)] \in Bank
  BY TargetNotLatest DEF TypeOK
<1>3. b \in Bank /\ b.head = rec /\ Readable(b)
  BY <1>1, <1>2 DEF WithMagic, Bank, Readable, SaveProgress
<1>4. /\ nor' \in [Banks -> Bank]
      /\ Consecutive(nor')
      /\ Current(nor') = rec
  BY <1>1, <1>3, TargetCommits DEF Operation, TypeOK
<1>5. TypeOK'
  BY <1>4 DEF Operation, TypeOK
<1>6. SaveProgress'
  BY <1>1, <1>4 DEF Operation, SaveProgress
<1>7. Register!TakeEffect
  BY <1>1, <1>4, SuccessorDiffers DEF Operation, TypeOK, Register!TakeEffect
<1> QED BY <1>4, <1>5, <1>6, <1>7 DEF Simulates, Register!ConfigNext

LEMMA ReturnSimulates ==
  ASSUME IndInv,
         NEW from \in {"erase", "payload", "head", "magic", "verify", "failed"},
         NEW value \in {"ok", "failed", "none"}, Return(from, value),
         value = "ok" => from = "verify"
  PROVE  Simulates
<1>1. IndInv'
  <2>1. 1 \in Parts
    BY ConfigAssumption DEF Parts
  <2> QED BY <2>1 DEF IndInv, TypeOK, ConfigurationsConsecutive, SaveProgress, Return
<1>2. CASE value = "ok"
  <2>1. Register!ReportSuccess
    BY <1>2 DEF IndInv, SaveProgress, Return, Register!ReportSuccess
  <2> QED BY <1>1, <2>1 DEF Simulates, Register!ConfigNext
<1>3. CASE value # "ok"
  <2>1. Register!ReportFailure
    BY <1>3 DEF IndInv, SaveProgress, Return, Register!ReportFailure
  <2> QED BY <1>1, <2>1 DEF Simulates, Register!ConfigNext
<1> QED BY <1>2, <1>3

-----------------------------------------------------------------------------
(* Where a save that runs stands.                                          *)
LEMMA Running ==
  ASSUME IndInv, pc \in {"erase", "payload", "head", "magic"}
  PROVE  /\ rec \in Record /\ rec # Empty /\ rec.data \in Data
         /\ at \in Parts /\ at \in Nat /\ 1 <= at
         /\ Length[rec.data] \in Parts /\ Length[rec.data] \in Nat
         /\ 1 <= Length[rec.data] /\ 1 \in Parts
         /\ at <= Length[rec.data]
         /\ ~Last => at + 1 \in Parts /\ at + 1 <= Length[rec.data]
         /\ nor[Target(nor)] \in Bank
<1>1. rec \in Record /\ rec # Empty /\ rec.data \in Data
  BY ConfigAssumption DEF IndInv, TypeOK, SaveProgress, Record
<1>2. Length[rec.data] \in Parts /\ at \in Parts /\ MaxParts \in Nat /\ 1 <= MaxParts
  BY <1>1, ConfigAssumption DEF IndInv, TypeOK
<1>3. nor[Target(nor)] \in Bank
  BY TargetNotLatest DEF IndInv, TypeOK, ConfigurationsConsecutive
<1>4. at <= Length[rec.data]
  BY <1>1 DEF IndInv, SaveProgress
<1> QED BY <1>1, <1>2, <1>3, <1>4 DEF Parts, Last

LEMMA EraseSimulates ==
  ASSUME IndInv, Erase \/ EraseFails
  PROVE  Simulates
<1> DEFINE old == nor[Target(nor)]
<1>0. pc = "erase"
  BY DEF Erase, EraseFails
<1>r. /\ rec \in Record /\ rec # Empty /\ rec.data \in Data
      /\ at \in Parts /\ at \in Nat /\ 1 <= at /\ at <= Length[rec.data]
      /\ Length[rec.data] \in Nat /\ 1 <= Length[rec.data] /\ 1 \in Parts
      /\ ~Last => at + 1 \in Parts /\ at + 1 <= Length[rec.data]
      /\ old \in Bank
  BY <1>0, Running
<1>t. at # 1 => ~old.magic
  BY <1>0, <1>r DEF IndInv, SaveProgress
<1>1. CASE Erase
  <2> DEFINE b == Sector(FALSE, Empty, Empty)
  <2>1. b \in Bank /\ ~b.magic
    BY <1>r, <1>t DEF Sector, Bank
  <2>2. ~Readable(b)
    BY <2>1 DEF Readable
  <2> DEFINE to == IF Last THEN "payload" ELSE "erase"
             next == IF Last THEN 1 ELSE at + 1
  <2>3. next \in Parts /\ next <= Length[rec.data] /\ to \in {"payload", "erase"}
    BY <1>r
  <2>4. to = "payload" => next = 1
    OBVIOUS
  <2>5. Operation(b, to, next)
    BY <1>1 DEF Erase
  <2>6. to = "payload" => \A s \in 1 .. next - 1 : b.part[s] = rec.data
    BY <2>4
  <2> HIDE DEF b, to, next
  <2> QED BY <1>0, <2>1, <2>2, <2>3, <2>5, <2>6, InvisibleSimulates
<1>2. CASE EraseFails
  <2> PICK m \in {old.magic, FALSE}, h \in {old.head, Empty}, p \in {old.part[at], Empty} :
         Operation(Sector(m, h, p), "failed", at)
    BY <1>2 DEF EraseFails
  <2> DEFINE b == Sector(m, h, p)
  <2>1. b \in Bank
    BY <1>r DEF Sector, Bank
  <2>2. b = old \/ ~Readable(b)
    <3>1. CASE ~b.magic
      BY <3>1 DEF Readable
    <3>2. CASE b.magic
      <4>1. at = 1 /\ m = old.magic
        BY <1>r, <1>t, <3>2 DEF Sector, Bank
      <4>2. CASE h = Empty
        BY <4>1, <4>2 DEF Readable, Sector
      <4>3. CASE h = old.head /\ h # Empty /\ p = Empty
        <5>1. b.head \in Record /\ b.head.data \in Data /\ b.part[1] = Empty
          BY <1>r, <4>1, <4>3 DEF Sector, Bank, Record
        <5>2. 1 \in 1 .. Length[b.head.data] /\ Empty # b.head.data
          BY <5>1, ConfigAssumption DEF Parts
        <5> QED BY <5>1, <5>2 DEF Readable
      <4>4. CASE h = old.head /\ p = old.part[at]
        <5>1. b = old
          BY <1>r, <4>1, <4>4 DEF Sector, Bank
        <5> QED BY <5>1
      <4> QED BY <4>2, <4>3, <4>4
    <3> QED BY <3>1, <3>2
  <2> HIDE DEF b
  <2> QED BY <1>0, <1>r, <2>1, <2>2, InvisibleSimulates DEF b
<1> QED BY <1>1, <1>2

LEMMA PayloadSimulates ==
  ASSUME IndInv, ProgramPart \/ ProgramPartFails
  PROVE  Simulates
<1> DEFINE old == nor[Target(nor)]
<1>0. pc = "payload"
  BY DEF ProgramPart, ProgramPartFails
<1>r. /\ rec \in Record /\ rec # Empty /\ rec.data \in Data
      /\ at \in Parts /\ at \in Nat /\ 1 <= at /\ at <= Length[rec.data]
      /\ Length[rec.data] \in Nat /\ 1 <= Length[rec.data] /\ 1 \in Parts
      /\ ~Last => at + 1 \in Parts /\ at + 1 <= Length[rec.data]
      /\ old \in Bank
  BY <1>0, Running
<1>t. ~old.magic /\ \A s \in 1 .. at - 1 : old.part[s] = rec.data
  BY <1>0 DEF IndInv, SaveProgress
<1>p. \A p \in {Empty, rec.data} :
        WithPart(p) \in Bank /\ ~WithPart(p).magic /\ ~Readable(WithPart(p))
  BY <1>r, <1>t DEF WithPart, Bank, Readable
<1>1. CASE ProgramPart
  <2> DEFINE b == WithPart(rec.data)
             to == IF Last THEN "head" ELSE "payload"
             next == IF Last THEN 1 ELSE at + 1
  <2>1. b \in Bank /\ ~b.magic /\ ~Readable(b)
    BY <1>p
  <2>2. \A s \in 1 .. at : b.part[s] = rec.data
    <3>1. b.part = [old.part EXCEPT ![at] = rec.data] /\ old.part \in [Parts -> Data \cup {Empty}]
      BY <1>r DEF WithPart, Bank
    <3>2. \A s \in 1 .. at : s \in Parts
      BY <1>r, ConfigAssumption DEF Parts
    <3>3. \A s \in 1 .. at : s # at => s \in 1 .. at - 1
      BY <1>r
    <3> QED BY <1>t, <3>1, <3>2, <3>3
  <2>3. to = "payload" => \A s \in 1 .. next - 1 : b.part[s] = rec.data
    BY <1>r, <2>2
  <2>4. to = "head" => \A s \in 1 .. Length[rec.data] : b.part[s] = rec.data
    BY <2>2 DEF Last
  <2>5. next \in Parts /\ next <= Length[rec.data] /\ to \in {"head", "payload"}
    BY <1>r
  <2>6. Operation(b, to, next)
    BY <1>1 DEF ProgramPart
  <2> HIDE DEF b, to, next
  <2> QED BY <1>0, <2>1, <2>3, <2>4, <2>5, <2>6, InvisibleSimulates
<1>2. CASE ProgramPartFails
  <2> PICK p \in {Empty, rec.data} : Operation(WithPart(p), "failed", at)
    BY <1>2 DEF ProgramPartFails
  <2> QED BY <1>0, <1>r, <1>p, InvisibleSimulates
<1> QED BY <1>1, <1>2

LEMMA HeadSimulates ==
  ASSUME IndInv, ProgramHead \/ ProgramHeadFails
  PROVE  Simulates
<1> DEFINE old == nor[Target(nor)]
<1>0. pc = "head"
  BY DEF ProgramHead, ProgramHeadFails
<1>r. /\ rec \in Record /\ at \in Parts /\ at <= Length[rec.data]
      /\ old \in Bank
  BY <1>0, Running
<1>t. ~old.magic /\ \A s \in 1 .. Length[rec.data] : old.part[s] = rec.data
  BY <1>0 DEF IndInv, SaveProgress
<1>p. \A h \in {Empty, rec} :
        /\ WithHead(h) \in Bank /\ ~WithHead(h).magic /\ ~Readable(WithHead(h))
        /\ WithHead(h).head = h /\ WithHead(h).part = old.part
  BY <1>r, <1>t DEF WithHead, Bank, Readable
<1>1. CASE ProgramHead
  <2> DEFINE b == WithHead(rec)
  <2>1. Operation(b, "magic", at)
    BY <1>1 DEF ProgramHead
  <2>2. b \in Bank /\ ~b.magic /\ ~Readable(b) /\ b.head = rec /\ b.part = old.part
    BY <1>p
  <2> HIDE DEF b
  <2> QED BY <1>0, <1>r, <1>t, <2>1, <2>2, InvisibleSimulates
<1>2. CASE ProgramHeadFails
  <2> PICK h \in {Empty, rec} : Operation(WithHead(h), "failed", at)
    BY <1>2 DEF ProgramHeadFails
  <2> QED BY <1>0, <1>r, <1>p, InvisibleSimulates
<1> QED BY <1>1, <1>2

LEMMA MagicSimulates ==
  ASSUME IndInv, ProgramMagic \/ ProgramMagicFails
  PROVE  Simulates
<1>0. pc = "magic"
  BY DEF ProgramMagic, ProgramMagicFails
<1>r. at \in Parts /\ at <= Length[rec.data] /\ nor[Target(nor)] \in Bank
  BY <1>0, Running
<1>1. CASE ProgramMagic
  BY <1>0, <1>1, CommitSimulates DEF ProgramMagic
<1>2. CASE ProgramMagicFails
  <2> PICK m \in BOOLEAN : Operation(WithMagic(m), "failed", at)
    BY <1>2 DEF ProgramMagicFails
  <2>1. CASE m
    BY <1>0, <2>1, CommitSimulates
  <2>2. CASE ~m
    <3>1. WithMagic(m) \in Bank /\ ~Readable(WithMagic(m))
      BY <1>r, <2>2 DEF WithMagic, Bank, Readable
    <3> QED BY <1>0, <1>r, <3>1, InvisibleSimulates
  <2> QED BY <2>1, <2>2
<1> QED BY <1>1, <1>2

LEMMA NextSimulates == IndInv /\ [Next]_vars => Simulates
<1> SUFFICES ASSUME IndInv, [Next]_vars PROVE Simulates
  OBVIOUS
<1>1. ASSUME NEW d \in Data, Start(d) PROVE Simulates
  BY <1>1, StartSimulates
<1>2. CASE Refuse \/ \E d \in Data : Same(d)
  BY <1>2, AnswerSimulates
<1>3. CASE Erase \/ EraseFails
  BY <1>3, EraseSimulates
<1>4. CASE ProgramPart \/ ProgramPartFails
  BY <1>4, PayloadSimulates
<1>5. CASE ProgramHead \/ ProgramHeadFails
  BY <1>5, HeadSimulates
<1>6. CASE ProgramMagic \/ ProgramMagicFails
  BY <1>6, MagicSimulates
<1>7. CASE Succeed \/ Fail \/ PowerCut
  BY <1>7, ReturnSimulates DEF Succeed, Fail, PowerCut
<1>8. CASE UNCHANGED vars
  BY <1>8 DEF vars, IndInv, TypeOK, ConfigurationsConsecutive, SaveProgress,
              Simulates, Register!vars
<1> QED BY <1>1, <1>2, <1>3, <1>4, <1>5, <1>6, <1>7, <1>8 DEF Next

-----------------------------------------------------------------------------

(* Banks hold headers and contents, and a save stays within its bank.      *)
THEOREM ConfigTypeCorrect == Spec => []TypeOK
<1>1. IndInv /\ [Next]_vars => IndInv'
  BY NextSimulates DEF Simulates
<1>2. IndInv => TypeOK
  BY DEF IndInv
<1> QED BY <1>1, <1>2, InitIndInv, PTL DEF Spec

(* latest() never ties and never takes the older of two configurations,    *)
(* however saves fail and power goes.                                      *)
THEOREM ConfigurationsOrdered == Spec => []ConfigurationsConsecutive
<1>1. IndInv /\ [Next]_vars => IndInv'
  BY NextSimulates DEF Simulates
<1>2. IndInv => ConfigurationsConsecutive
  BY DEF IndInv
<1> QED BY <1>1, <1>2, InitIndInv, PTL DEF Spec

(* At every step of g100_config_save it is known what is done and what is  *)
(* read.                                                                   *)
THEOREM SavesProgress == Spec => []SaveProgress
<1>1. IndInv /\ [Next]_vars => IndInv'
  BY NextSimulates DEF Simulates
<1>2. IndInv => SaveProgress
  BY DEF IndInv
<1> QED BY <1>1, <1>2, InitIndInv, PTL DEF Spec

(* The banks are an atomic register: g100_config_load gets the old         *)
(* configuration or the new one, whole, and the new one once               *)
(* g100_config_save has returned success.                                  *)
THEOREM ConfigImplementsRegister == Spec => AtomicConfiguration
<1>1. Init => Register!Init
  <2> SUFFICES ASSUME Init PROVE Register!Init
    OBVIOUS
  <2>1. IndInv
    BY InitIndInv
  <2>2. Current(nor) \in Record \cup {Empty}
    BY <2>1, CurrentType DEF IndInv, TypeOK, ConfigurationsConsecutive
  <2> QED BY <2>2 DEF Init, Register!Init, Register!Record, Record,
                      Register!SeqLimit, SeqLimit
<1>2. IndInv /\ [Next]_vars => IndInv' /\ [Register!ConfigNext]_(Register!vars)
  BY NextSimulates DEF Simulates
<1> QED BY <1>1, <1>2, InitIndInv, PTL DEF Spec, AtomicConfiguration,
           Register!ConfigSpec
=============================================================================
