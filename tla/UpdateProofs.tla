---------------------------- MODULE UpdateProofs ----------------------------
(***************************************************************************)
(* The update of one board, for any number of generations, images, blocks, *)
(* hosts and faults.  First the board under any hosts: IndInv of           *)
(* BootUpdate is inductive, its safety properties follow, and the board    *)
(* keeps the promise of UpdatePromise.  Then the board under hosts that    *)
(* run install(): those runs are runs of BootUpdate, InstallInv is         *)
(* inductive as well, and the properties of Install follow.                *)
(***************************************************************************)
EXTENDS Install, TLAPS

-----------------------------------------------------------------------------
(* The metadata register.                                                  *)

(* A metadata write leaves the old record or the new one with the next     *)
(* sequence number, and the new one if it reports success.                 *)
LEMMA MetaWriteOutcome ==
  ASSUME NEW old \in Meta, NEW m \in Meta, NEW w \in MetaWrite(old, m)
  PROVE  /\ w.meta = old \/ w.meta = [m EXCEPT !.seq = old.seq + 1]
         /\ w.ok => w.meta = [m EXCEPT !.seq = old.seq + 1]
         /\ w.cost \in 0 .. 1
         /\ w.meta \in Meta
         /\ w.meta # old => w.meta.seq = old.seq + 1
<1>1. CASE old.seq + 1 = SeqLimit
  BY <1>1 DEF MetaWrite
<1>2. CASE old.seq + 1 # SeqLimit
  <2>1. old.seq + 1 \in 0 .. SeqLimit - 1
    BY <1>2, ConstantsAssumption DEF Meta
  <2>2. [m EXCEPT !.seq = old.seq + 1] \in Meta
    BY <2>1 DEF Meta
  <2>3. [m EXCEPT !.seq = old.seq + 1].seq = old.seq + 1
    BY DEF Meta
  <2>4. \/ w = [ok |-> TRUE, meta |-> [m EXCEPT !.seq = old.seq + 1], cost |-> 0]
        \/ w = [ok |-> FALSE, meta |-> [m EXCEPT !.seq = old.seq + 1], cost |-> 1]
        \/ w = [ok |-> FALSE, meta |-> old, cost |-> 1]
    BY <1>2 DEF MetaWrite
  <2>5. w.meta = old \/ w.meta = [m EXCEPT !.seq = old.seq + 1]
    BY <2>4
  <2>6. w.ok => w.meta = [m EXCEPT !.seq = old.seq + 1]
    BY <2>4
  <2>7. w.cost \in 0 .. 1
    BY <2>4
  <2>8. w.meta \in Meta
    BY <2>2, <2>5
  <2>9. w.meta # old => w.meta.seq = old.seq + 1
    BY <2>3, <2>5
  <2> QED BY <2>5, <2>6, <2>7, <2>8, <2>9
<1> QED BY <1>1, <1>2

(* What a record's fields are.                                             *)
LEMMA MetaFields ==
  ASSUME NEW m \in Meta
  PROVE  /\ m = [seq |-> m.seq, cslot |-> m.cslot, cgen |-> m.cgen, tslot |-> m.tslot,
                 tgen |-> m.tgen, tatt |-> m.tatt, floor |-> m.floor]
         /\ m.seq \in 0 .. SeqLimit - 1
         /\ m.cslot \in AppSlots \cup {NoSlot} /\ m.tslot \in AppSlots \cup {NoSlot}
         /\ m.cgen \in 0 .. MaxGen /\ m.tgen \in 0 .. MaxGen /\ m.floor \in 0 .. MaxGen
         /\ m.tatt \in 0 .. MaxTrialAttempts
BY DEF Meta

(* Spending faults keeps the budget a budget.                              *)
LEMMA SpendType ==
  ASSUME faults \in 0 .. MaxFaults, NEW n \in Nat, Spend(n)
  PROVE  faults' \in 0 .. MaxFaults
BY ConstantsAssumption DEF Spend

-----------------------------------------------------------------------------
(* Init.                                                                   *)

LEMMA ResetValues == IdleUpload \in Upload /\ NotRunning \in BootInfo
BY ConstantsAssumption
   DEF IdleUpload, NotRunning, Upload, BootInfo, Slots, AppSlots, NoSlot, Header, NoHeader

LEMMA InitIndInv == Init => IndInv
<1> SUFFICES ASSUME Init PROVE IndInv
  OBVIOUS
<1> USE DEF AppSlots, NoSlot, EmptyMeta, Readable
<1>a. ASSUME meta \in Meta, flash \in [AppSlots -> Slot], accepted \subseteq Gens
      PROVE  TypeOK
  <2>1. factory_ok \in BOOLEAN /\ marker \in BOOLEAN /\ checked \in BOOLEAN
        /\ host_active \in BOOLEAN
    BY DEF Init
  <2>2. run \in BootInfo /\ upload \in Upload
    BY ResetValues DEF Init
  <2>3. faults \in 0 .. MaxFaults /\ last_activated \in 0 .. MaxGen /\ trial_boots \in Nat
    BY ConstantsAssumption DEF Init
  <2> QED BY <1>a, <2>1, <2>2, <2>3 DEF Init, TypeOK
<1>b. /\ StoppedIsIdle /\ UploadTargetUnreferenced /\ VerifiedInPlace /\ UploadIsNewer
      /\ run.slot = -1 /\ trial_boots = 0 /\ last_activated = 0
  BY DEF Init, IdleUpload, NotRunning, Uploading, StoppedIsIdle, UploadTargetUnreferenced,
         VerifiedInPlace, UploadIsNewer
<1>1. CASE meta = [EmptyMeta EXCEPT !.seq = 2]
  <2>1. /\ meta \in Meta /\ meta.cslot = -1 /\ meta.tslot = -1 /\ meta.seq = 2
        /\ meta.cgen = 0
    BY <1>1, ConstantsAssumption DEF Meta, MaxTrialAttempts
  <2>2. flash \in [AppSlots -> Slot] /\ accepted = {}
    <3>1. [hdr |-> NoHeader, body |-> [c \in 1 .. Chunks |-> Blank]] \in Slot
      BY DEF Slot
    <3>2. meta.cslot # 0
      BY <2>1
    <3> QED BY <3>1, <3>2 DEF Init
  <2>3. TypeOK
    BY <1>a, <2>1, <2>2
  <2>4. ReferencedImagesIntact /\ OnlyAcceptedConfirmed
    BY <1>b, <2>1 DEF ReferencedImagesIntact, OnlyAcceptedConfirmed
  <2>5. AttemptsCharged /\ ActivationsRemembered
    BY <1>b, <2>1 DEF AttemptsCharged, ActivationsRemembered, MaxTrialAttempts
  <2> QED BY <1>b, <2>3, <2>4, <2>5 DEF IndInv
<1>2. ASSUME NEW i \in Images \ BadVectors, 1 \in Gens,
             meta = [EmptyMeta EXCEPT !.seq = 2, !.cslot = 0, !.cgen = 1],
             flash = [s \in AppSlots |-> [hdr |-> [gen |-> 1, img |-> i],
                                         body |-> [c \in 1 .. Chunks |-> i]]],
             accepted = {1}
      PROVE  IndInv
  <2>1. /\ meta \in Meta /\ meta.cslot = 0 /\ meta.tslot = -1 /\ meta.seq = 2
        /\ meta.cgen = 1 /\ meta.tgen = 0 /\ meta.floor = 0
    <3>1. meta = [seq |-> 2, cslot |-> 0, cgen |-> 1, tslot |-> -1, tgen |-> 0,
                  tatt |-> 0, floor |-> 0]
      BY <1>2
    <3>2. 2 \in 0 .. SeqLimit - 1 /\ 1 \in 0 .. MaxGen /\ 0 \in 0 .. MaxGen
          /\ 0 \in 0 .. MaxTrialAttempts
      BY <1>2, ConstantsAssumption DEF Gens, MaxTrialAttempts
    <3>3. meta \in Meta
      BY <3>1, <3>2 DEF Meta
    <3> QED BY <3>1, <3>3
  <2>2. flash \in [AppSlots -> Slot]
    <3>1. [hdr |-> [gen |-> 1, img |-> i], body |-> [c \in 1 .. Chunks |-> i]] \in Slot
      BY <1>2 DEF Slot, Header
    <3> QED BY <3>1, <1>2
  <2>3. ImageValid(0) /\ flash[0].hdr.gen = 1
    BY <1>2, ConstantsAssumption DEF ImageValid, NoHeader
  <2>4. TypeOK
    BY <1>a, <1>2, <2>1, <2>2
  <2>5. ReferencedImagesIntact
    BY <2>1, <2>3 DEF ReferencedImagesIntact, Intact
  <2>6. OnlyAcceptedConfirmed
    BY <1>b, <1>2, <2>1 DEF OnlyAcceptedConfirmed
  <2>7. AttemptsCharged /\ ActivationsRemembered
    BY <1>b, <2>1 DEF AttemptsCharged, ActivationsRemembered, MaxTrialAttempts
  <2> QED BY <1>b, <2>4, <2>5, <2>6, <2>7 DEF IndInv
<1> QED BY <1>1, <1>2 DEF Init

-----------------------------------------------------------------------------
(* Steps that touch neither NOR nor history.                               *)

(* They keep everything said about metadata and images.                    *)
LEMMA NorKept ==
  ASSUME IndInv, UNCHANGED <<meta, flash, history>>
  PROVE  /\ ReferencedImagesIntact' /\ AttemptsCharged' /\ ActivationsRemembered'
         /\ Readable(meta') /\ meta'.cslot \in AppSlots => meta'.cgen \in accepted'
BY DEF IndInv, history, ReferencedImagesIntact, Intact, ImageValid, AttemptsCharged,
       ActivationsRemembered, OnlyAcceptedConfirmed, Readable

(* A reset forgets the upload and whatever ran.                            *)
LEMMA RestartKeepsIndInv ==
  ASSUME IndInv, NEW why \in {"software", "power", "watchdog"}, Restart(why),
         UNCHANGED <<nor, host_active, history>>,
         marker' \in BOOLEAN, faults' \in 0 .. MaxFaults
  PROVE  IndInv'
<1> USE DEF Restart, nor, history, IndInv
<1>1. TypeOK'
  BY ResetValues DEF TypeOK
<1>2. StoppedIsIdle' /\ UploadTargetUnreferenced' /\ VerifiedInPlace' /\ UploadIsNewer'
  BY DEF StoppedIsIdle, UploadTargetUnreferenced, VerifiedInPlace, UploadIsNewer,
         Uploading, IdleUpload, NotRunning, NoSlot, AppSlots
<1>3. OnlyAcceptedConfirmed'
  BY NorKept DEF OnlyAcceptedConfirmed, NotRunning, NoSlot, AppSlots, Readable
<1> QED BY <1>1, <1>2, <1>3, NorKept

(* So does a step that at most ends the upload.                            *)
LEMMA QuietKeepsIndInv ==
  ASSUME IndInv, Running, phase' = phase,
         UNCHANGED <<nor, marker, cause, history>>,
         run' \in {run, [run EXCEPT !.confirmed = TRUE]},
         health' \in {"starting", "ready", "fault"},
         upload' = upload \/ (upload' \in Upload /\ ~Uploading'),
         checked' \in BOOLEAN, faults' \in 0 .. MaxFaults, host_active' \in BOOLEAN
  PROVE  IndInv'
<1> USE DEF nor, history, IndInv, Running
<1>1. /\ run' \in BootInfo
      /\ run'.slot = run.slot /\ run'.gen = run.gen /\ run'.trial = run.trial
  BY DEF TypeOK, BootInfo
<1>2. TypeOK'
  BY <1>1 DEF TypeOK
<1>3. StoppedIsIdle' /\ UploadTargetUnreferenced' /\ VerifiedInPlace' /\ UploadIsNewer'
  BY <1>1 DEF StoppedIsIdle, UploadTargetUnreferenced, VerifiedInPlace, UploadIsNewer,
              Uploading
<1>4. OnlyAcceptedConfirmed'
  BY <1>1, NorKept DEF OnlyAcceptedConfirmed, Readable
<1> QED BY <1>2, <1>3, <1>4, NorKept

-----------------------------------------------------------------------------
(* Records the metadata may be replaced by.                                *)

(* What the invariants say of the metadata, said of any record m.          *)
MetaGood(m) ==
  /\ m \in Meta
  /\ trial_boots <= MaxTrialAttempts
  /\ ~Readable(m) => m = EmptyMeta /\ last_activated = 0
  /\ Readable(m) =>
       /\ m.cslot \in AppSlots => Intact(m.cslot, m.cgen) /\ m.cgen \in accepted
       /\ m.tslot \in AppSlots =>
            /\ Intact(m.tslot, m.tgen) /\ m.tslot # m.cslot
            /\ trial_boots <= m.tatt /\ m.tgen > m.cgen
       /\ last_activated <= m.cgen \/ last_activated <= m.tgen \/ last_activated <= m.floor

(* The invariants say it of the metadata.                                  *)
LEMMA MetaIsGood == IndInv => MetaGood(meta)
<1> SUFFICES ASSUME IndInv PROVE MetaGood(meta)
  OBVIOUS
<1> USE DEF IndInv
<1>1. meta \in Meta /\ trial_boots <= MaxTrialAttempts
  BY DEF TypeOK, AttemptsCharged
<1>2. ~Readable(meta) => meta = EmptyMeta /\ last_activated = 0
  BY DEF ActivationsRemembered
<1>3. Readable(meta) => \/ last_activated <= meta.cgen \/ last_activated <= meta.tgen
                        \/ last_activated <= meta.floor
  BY DEF ActivationsRemembered
<1>4. Readable(meta) /\ meta.cslot \in AppSlots
      => Intact(meta.cslot, meta.cgen) /\ meta.cgen \in accepted
  BY DEF ReferencedImagesIntact, OnlyAcceptedConfirmed
<1>5. Readable(meta) /\ meta.tslot \in AppSlots
      => Intact(meta.tslot, meta.tgen) /\ meta.tslot # meta.cslot
  BY DEF ReferencedImagesIntact
<1>6. Readable(meta) /\ meta.tslot \in AppSlots
      => trial_boots <= meta.tatt /\ meta.tgen > meta.cgen
  BY DEF AttemptsCharged, ActivationsRemembered, AppSlots, NoSlot
<1> QED BY <1>1, <1>2, <1>3, <1>4, <1>5, <1>6 DEF MetaGood

(* Conversely, a good record may become the metadata while the slots it    *)
(* names and the history stay.                                             *)
LEMMA GoodMetaSuffices ==
  ASSUME MetaGood(meta'), UNCHANGED history,
         \A x \in {meta'.cslot, meta'.tslot} : x \in AppSlots => flash'[x] = flash[x]
  PROVE  /\ ReferencedImagesIntact' /\ AttemptsCharged' /\ ActivationsRemembered'
         /\ Readable(meta') /\ meta'.cslot \in AppSlots => meta'.cgen \in accepted'
<1> USE DEF MetaGood, history
<1>1. ReferencedImagesIntact'
  BY DEF ReferencedImagesIntact, Intact, ImageValid, Readable
<1>2. meta'.tslot # NoSlot => meta'.tslot \in AppSlots
  BY DEF Meta
<1>3. AttemptsCharged'
  BY <1>2 DEF AttemptsCharged, Readable
<1>4. ActivationsRemembered'
  BY <1>2 DEF ActivationsRemembered, Readable
<1>5. Readable(meta') /\ meta'.cslot \in AppSlots => meta'.cgen \in accepted'
  OBVIOUS
<1> QED BY <1>1, <1>3, <1>4, <1>5

(* Giving up the trial keeps a record good.                                *)
LEMMA ClearedIsGood ==
  ASSUME TypeOK, NEW m, MetaGood(m), Readable(m), NEW s \in 1 .. SeqLimit - 1
  PROVE  MetaGood([TrialCleared(m) EXCEPT !.seq = s])
<1> DEFINE n == [TrialCleared(m) EXCEPT !.seq = s]
<1>1. m \in Meta
  BY DEF MetaGood
<1>2. /\ n.seq = s /\ n.cslot = m.cslot /\ n.cgen = m.cgen /\ n.tslot = NoSlot
      /\ n.tgen = 0 /\ n.tatt = 0 /\ n.floor = Larger(m.floor, m.tgen)
  BY <1>1 DEF Meta, TrialCleared
<1>3. n \in Meta
  <2>1. Larger(m.floor, m.tgen) \in 0 .. MaxGen /\ s \in 0 .. SeqLimit - 1
        /\ 0 \in 0 .. MaxGen /\ 0 \in 0 .. MaxTrialAttempts
    BY <1>1, MetaFields, ConstantsAssumption DEF Larger, MaxTrialAttempts
  <2>2. TrialCleared(m) \in Meta
    BY <1>1, <2>1 DEF Meta, TrialCleared
  <2> QED BY <2>1, <2>2 DEF Meta
<1>4. n.tslot \notin AppSlots /\ Readable(n)
  BY <1>2 DEF AppSlots, NoSlot, Readable
<1>5. last_activated <= n.cgen \/ last_activated <= n.floor
  BY <1>1, <1>2 DEF MetaGood, Larger, TypeOK, Meta
<1> HIDE DEF n
<1>6. MetaGood(n)
  BY <1>2, <1>3, <1>4, <1>5 DEF MetaGood
<1> QED BY <1>6 DEF n

(* So does disowning the confirmed image.                                  *)
LEMMA DisownedIsGood ==
  ASSUME TypeOK, NEW m, MetaGood(m), Readable(m), NEW s \in 1 .. SeqLimit - 1
  PROVE  MetaGood([Disowned(m) EXCEPT !.seq = s])
<1> DEFINE n == [Disowned(m) EXCEPT !.seq = s]
<1>1. m \in Meta
  BY DEF MetaGood
<1>2. /\ n.seq = s /\ n.cslot = NoSlot /\ n.cgen = m.cgen /\ n.tslot = m.tslot
      /\ n.tgen = m.tgen /\ n.tatt = m.tatt /\ n.floor = m.floor
  BY <1>1 DEF Meta, Disowned
<1>3. n \in Meta
  <2>1. s \in 0 .. SeqLimit - 1
    BY ConstantsAssumption
  <2>2. Disowned(m) \in Meta
    BY <1>1 DEF Meta, Disowned
  <2> QED BY <2>1, <2>2 DEF Meta
<1>4. n.cslot \notin AppSlots /\ Readable(n)
  BY <1>2 DEF AppSlots, NoSlot, Readable
<1>5. m.tslot \in AppSlots => m.tslot # NoSlot
  BY DEF AppSlots, NoSlot
<1> HIDE DEF n
<1>6. MetaGood(n)
  BY <1>2, <1>3, <1>4, <1>5 DEF MetaGood
<1> QED BY <1>6 DEF n

(* And charging an attempt.                                                *)
LEMMA ChargedIsGood ==
  ASSUME TypeOK, NEW m, MetaGood(m), Readable(m), m.tatt < MaxTrialAttempts,
         NEW s \in 1 .. SeqLimit - 1
  PROVE  MetaGood([[m EXCEPT !.tatt = @ + 1] EXCEPT !.seq = s])
<1> DEFINE n == [[m EXCEPT !.tatt = @ + 1] EXCEPT !.seq = s]
<1>1. m \in Meta
  BY DEF MetaGood
<1>2. /\ n.seq = s /\ n.cslot = m.cslot /\ n.cgen = m.cgen /\ n.tslot = m.tslot
      /\ n.tgen = m.tgen /\ n.tatt = m.tatt + 1 /\ n.floor = m.floor
  BY <1>1 DEF Meta
<1>3. n \in Meta
  <2>1. s \in 0 .. SeqLimit - 1 /\ m.tatt + 1 \in 0 .. MaxTrialAttempts
    BY <1>1, MetaFields, ConstantsAssumption DEF MaxTrialAttempts
  <2> QED BY <1>1, <2>1 DEF Meta
<1>4. Readable(n) /\ (trial_boots <= m.tatt => trial_boots <= n.tatt)
  BY <1>1, <1>2 DEF Readable, TypeOK, Meta
<1> HIDE DEF n
<1>5. MetaGood(n)
  BY <1>2, <1>3, <1>4 DEF MetaGood
<1> QED BY <1>5 DEF n

(* A fresh record is good as long as nothing was activated.                *)
LEMMA EmptyIsGood ==
  ASSUME TypeOK, trial_boots <= MaxTrialAttempts, last_activated = 0,
         NEW s \in 1 .. SeqLimit - 1
  PROVE  MetaGood([EmptyMeta EXCEPT !.seq = s])
<1> DEFINE n == [EmptyMeta EXCEPT !.seq = s]
<1>1. n = [seq |-> s, cslot |-> NoSlot, cgen |-> 0, tslot |-> NoSlot, tgen |-> 0,
           tatt |-> 0, floor |-> 0]
  BY DEF EmptyMeta
<1> HIDE DEF n
<1>2. n \in Meta
  BY <1>1, ConstantsAssumption DEF Meta, MaxTrialAttempts
<1>3. Readable(n)
  BY <1>1 DEF Readable
<1>4. n.cslot \notin AppSlots /\ n.tslot \notin AppSlots /\ last_activated <= n.cgen
  BY <1>1 DEF AppSlots, NoSlot
<1>5. MetaGood(n)
  BY <1>2, <1>3, <1>4 DEF MetaGood
<1> QED BY <1>5 DEF n

(* A write of a record that is good whatever number it gets leaves a good  *)
(* record.                                                                 *)
LEMMA WriteKeepsGood ==
  ASSUME NEW old, MetaGood(old), NEW m,
         \A s \in 1 .. SeqLimit - 1 : MetaGood([m EXCEPT !.seq = s]),
         NEW w \in MetaWrite(old, m)
  PROVE  MetaGood(w.meta)
<1>1. CASE old.seq + 1 = SeqLimit
  BY <1>1 DEF MetaWrite
<1>2. CASE old.seq + 1 # SeqLimit
  <2>1. old.seq + 1 \in 1 .. SeqLimit - 1
    BY <1>2, ConstantsAssumption DEF Meta, MetaGood
  <2>2. w.meta \in {old, [m EXCEPT !.seq = old.seq + 1]}
    BY <1>2 DEF MetaWrite
  <2> HIDE DEF MetaGood
  <2> QED BY <2>1, <2>2
<1> QED BY <1>1, <1>2

-----------------------------------------------------------------------------
(* Stage 0.                                                                *)

(* A valid slot has a header, and so a generation.                         *)
LEMMA ValidHasHeader ==
  ASSUME TypeOK, NEW s \in AppSlots, ImageValid(s)
  PROVE  flash[s].hdr \in Header /\ flash[s].hdr.gen \in Gens
BY DEF TypeOK, ImageValid, Slot, Header

(* What may run once Stage 0 is done.                                      *)
Launched ==
  /\ run' \in BootInfo
  /\ phase' \in {"run", "halted"}
  /\ phase' = "halted" => run' = run
  /\ run'.slot \in AppSlots
       => Readable(meta) /\ run'.gen \in Gens /\ run'.gen >= meta.cgen
  /\ run'.slot = Factory => run'.gen = 0
  /\ run'.slot \in AppSlots /\ ~run'.trial => run'.gen \in accepted

LEMMA LaunchRecord ==
  ASSUME NEW slot \in Slots, NEW trial \in BOOLEAN, NEW gen \in 0 .. MaxGen
  PROVE  [slot |-> slot, trial |-> trial, confirmed |-> FALSE, gen |-> gen] \in BootInfo
BY DEF BootInfo

LEMMA HaltOutcome ==
  ASSUME IndInv, phase = "stage0", Halt
  PROVE  Launched
BY DEF IndInv, TypeOK, StoppedIsIdle, Halt, Launched, NotRunning, NoSlot, AppSlots

LEMMA FactoryOutcome ==
  ASSUME IndInv, phase = "stage0", LaunchFactory
  PROVE  Launched
<1>1. CASE Halt
  BY <1>1, HaltOutcome
<1>2. CASE phase' = "run" /\ run' = [slot |-> Factory, trial |-> FALSE,
                                     confirmed |-> FALSE, gen |-> 0]
  <2>1. run' \in BootInfo
    <3>1. Factory \in Slots /\ 0 \in 0 .. MaxGen
      BY ConstantsAssumption DEF Factory, Slots
    <3> QED BY <1>2, <3>1, LaunchRecord
  <2>2. run'.slot \notin AppSlots
    BY <1>2 DEF Factory, AppSlots
  <2> QED BY <1>2, <2>1, <2>2 DEF Launched
<1> QED BY <1>1, <1>2 DEF LaunchFactory, Launch

LEMMA ConfirmedOutcome ==
  ASSUME IndInv, phase = "stage0", LaunchConfirmed
  PROVE  Launched
<1>1. CASE Halt
  BY <1>1, HaltOutcome
<1>2. CASE LaunchFactory
  BY <1>2, FactoryOutcome
<1>3. ASSUME Readable(meta), ConfirmedBootable(meta),
             phase' = "run", run' = [slot |-> meta.cslot, trial |-> FALSE, confirmed |-> FALSE,
                                     gen |-> IF meta.cslot = Factory THEN 0
                                             ELSE flash[meta.cslot].hdr.gen]
      PROVE  Launched
  <2>1. meta.cslot \in AppSlots /\ meta.cslot # Factory /\ meta.cslot \in Slots
        /\ flash[meta.cslot].hdr.gen = meta.cgen /\ ImageValid(meta.cslot)
    BY <1>3 DEF ConfirmedBootable, AppSlots, Factory, Slots
  <2>2. run' = [slot |-> meta.cslot, trial |-> FALSE, confirmed |-> FALSE,
                gen |-> meta.cgen]
    BY <1>3, <2>1
  <2>3. meta.cgen \in Gens /\ meta.cgen \in 0 .. MaxGen
    BY <2>1, ValidHasHeader, ConstantsAssumption DEF IndInv, Gens
  <2>4. run' \in BootInfo
    BY <2>1, <2>2, <2>3, LaunchRecord
  <2>5. meta.cgen \in accepted
    BY <1>3, <2>1 DEF IndInv, OnlyAcceptedConfirmed
  <2>6. run'.gen = meta.cgen /\ run'.gen >= meta.cgen
    BY <2>2, <2>3
  <2> QED BY <1>3, <2>3, <2>4, <2>5, <2>6 DEF Launched
<1> QED BY <1>1, <1>2, <1>3 DEF LaunchConfirmed, Launch

LEMMA TrialOutcome ==
  ASSUME IndInv, phase = "stage0", Readable(meta), TrialBootable(meta),
         Launch(meta.tslot, TRUE)
  PROVE  Launched
<1>1. CASE Halt
  BY <1>1, HaltOutcome
<1>2. CASE phase' = "run" /\ run' = [slot |-> meta.tslot, trial |-> TRUE, confirmed |-> FALSE,
                                     gen |-> IF meta.tslot = Factory THEN 0
                                             ELSE flash[meta.tslot].hdr.gen]
  <2>1. meta.tslot \in AppSlots /\ meta.tslot # Factory /\ meta.tslot \in Slots
        /\ flash[meta.tslot].hdr.gen = meta.tgen /\ ImageValid(meta.tslot)
    BY DEF TrialBootable, AppSlots, Factory, Slots
  <2>2. run' = [slot |-> meta.tslot, trial |-> TRUE, confirmed |-> FALSE,
                gen |-> meta.tgen]
    BY <1>2, <2>1
  <2>3. meta.tgen \in Gens /\ meta.tgen \in 0 .. MaxGen
    BY <2>1, ValidHasHeader, ConstantsAssumption DEF IndInv, Gens
  <2>4. run' \in BootInfo
    BY <2>1, <2>2, <2>3, LaunchRecord
  <2>5. run'.gen = meta.tgen /\ run'.trial
    BY <2>2
  <2>6. meta.tgen >= meta.cgen
    <3>1. meta.tgen > meta.cgen
      BY <2>1 DEF IndInv, ActivationsRemembered, AppSlots, NoSlot
    <3>2. meta.tgen \in Nat /\ meta.cgen \in Nat
      BY MetaFields DEF IndInv, TypeOK
    <3> QED BY <3>1, <3>2
  <2> QED BY <1>2, <2>3, <2>4, <2>5, <2>6 DEF Launched
<1> QED BY <1>1, <1>2 DEF Launch

(* What Stage 0 leaves in the metadata and the history keeps the           *)
(* invariants, in its three ways to select an application.                 *)
MetaKept ==
  /\ meta' \in Meta /\ trial_boots' \in Nat
  /\ ReferencedImagesIntact' /\ AttemptsCharged' /\ ActivationsRemembered'
  /\ Readable(meta') /\ meta'.cslot \in AppSlots => meta'.cgen \in accepted'

LEMMA MetaUnchanged ==
  ASSUME IndInv, UNCHANGED <<meta, flash, history>>
  PROVE  MetaKept
BY NorKept DEF MetaKept, IndInv, TypeOK, history

LEMMA GoodMetaKept ==
  ASSUME IndInv, MetaGood(meta'), UNCHANGED <<flash, history>>
  PROVE  MetaKept
BY GoodMetaSuffices DEF MetaKept, MetaGood, IndInv, TypeOK, history

LEMMA ChargedTrialKept ==
  ASSUME IndInv, Readable(meta), TrialBootable(meta),
         NEW w \in MetaWrite(meta, Charged), w.ok, meta' = w.meta,
         trial_boots' = trial_boots + 1,
         UNCHANGED <<flash, accepted, last_activated, decayed>>
  PROVE  MetaKept
<1>1. meta \in Meta /\ trial_boots \in Nat
  BY DEF IndInv, TypeOK
<1>2. /\ meta.tslot \in AppSlots /\ meta.tslot # NoSlot
      /\ meta.tatt \in Nat /\ meta.tatt < MaxTrialAttempts
  BY <1>1, MetaFields DEF TrialBootable, AppSlots, NoSlot
<1>3. Charged \in Meta
  <2>1. meta.tatt + 1 \in 0 .. MaxTrialAttempts
    BY <1>2 DEF MaxTrialAttempts
  <2> QED BY <1>1, <2>1 DEF Meta, Charged
<1>4. meta' = [Charged EXCEPT !.seq = meta.seq + 1] /\ meta' \in Meta
  BY <1>1, <1>3, MetaWriteOutcome
<1>5. /\ meta'.cslot = meta.cslot /\ meta'.cgen = meta.cgen /\ meta'.tslot = meta.tslot
      /\ meta'.tgen = meta.tgen /\ meta'.floor = meta.floor /\ meta'.tatt = meta.tatt + 1
  BY <1>1, <1>4 DEF Meta, Charged
<1>6. trial_boots <= meta.tatt
  BY <1>2 DEF IndInv, AttemptsCharged
<1>7. AttemptsCharged'
  BY <1>1, <1>2, <1>5, <1>6 DEF AttemptsCharged, MaxTrialAttempts
<1>8. ReferencedImagesIntact'
  BY <1>5 DEF IndInv, ReferencedImagesIntact, Intact, ImageValid, Readable
<1>9. ActivationsRemembered'
  <2>1. Readable(meta')
    <3>1. meta'.seq = meta.seq + 1
      BY <1>1, <1>3, <1>4 DEF Meta
    <3> QED BY <1>1, <3>1, MetaFields DEF Readable
  <2> QED BY <1>5, <2>1 DEF IndInv, ActivationsRemembered
<1>10. Readable(meta') /\ meta'.cslot \in AppSlots => meta'.cgen \in accepted'
  BY <1>5 DEF IndInv, OnlyAcceptedConfirmed
<1>11. trial_boots' \in Nat
  BY <1>1
<1> QED BY <1>4, <1>7, <1>8, <1>9, <1>10, <1>11 DEF MetaKept

(* A trial is given up after at most one failed attempt to charge it.      *)
LEMMA PastTrialKept ==
  ASSUME IndInv, NEW cost \in 0 .. 2, BootPastTrial(cost),
         UNCHANGED <<flash, accepted, last_activated, decayed>>
  PROVE  MetaKept
<1>1. TypeOK /\ MetaGood(meta) /\ Readable(meta) /\ trial_boots' = trial_boots
  BY MetaIsGood DEF IndInv, BootPastTrial
<1>2. \A s \in 1 .. SeqLimit - 1 : MetaGood([TrialCleared(meta) EXCEPT !.seq = s])
  BY <1>1, ClearedIsGood
<1>3. PICK w \in (IF TrialBootable(meta)
                  THEN {w \in MetaWrite(meta, Charged) : ~w.ok} ELSE {Unwritten}) :
        \E v \in MetaWrite(w.meta, TrialCleared(meta)) : meta' = v.meta
  BY DEF BootPastTrial
<1>4. MetaGood(w.meta)
  <2>1. CASE ~TrialBootable(meta)
    BY <1>1, <1>3, <2>1 DEF Unwritten
  <2>2. CASE TrialBootable(meta)
    <3>1. meta.tatt < MaxTrialAttempts
      BY <2>2 DEF TrialBootable
    <3>2. \A s \in 1 .. SeqLimit - 1 : MetaGood([Charged EXCEPT !.seq = s])
      BY <1>1, <3>1, ChargedIsGood DEF Charged
    <3>3. w \in MetaWrite(meta, Charged)
      BY <1>3, <2>2
    <3> QED BY <1>1, <3>2, <3>3, WriteKeepsGood
  <2> QED BY <2>1, <2>2
<1>5. MetaGood(meta')
  BY <1>2, <1>3, <1>4, WriteKeepsGood
<1>6. UNCHANGED <<flash, history>>
  BY <1>1 DEF history
<1> QED BY <1>5, <1>6, GoodMetaKept

LEMMA Stage0KeepsIndInv == IndInv /\ Stage0 => IndInv'
<1> SUFFICES ASSUME IndInv, Stage0 PROVE IndInv'
  OBVIOUS
<1>1. PICK access \in BOOLEAN, cost \in 0 .. 2 :
        /\ marker' = MarkerLeft(access)
        /\ \/ cost = 0 /\ Halt /\ UNCHANGED <<meta, trial_boots>>
           \/ cost = 0 /\ LaunchFactory /\ UNCHANGED <<meta, trial_boots>>
           \/ SelectApplication(cost)
        /\ Spend(cost + IF access THEN 0 ELSE 1)
  BY DEF Stage0
<1>2. /\ phase = "stage0" /\ run = NotRunning /\ upload = IdleUpload /\ TypeOK
      /\ UNCHANGED <<flash, factory_ok, cause, health, upload, checked, host_active,
                     accepted, last_activated, decayed>>
  BY DEF Stage0, IndInv, StoppedIsIdle
<1>3. Launched /\ MetaKept
  <2>1. CASE (Halt \/ LaunchFactory) /\ UNCHANGED <<meta, trial_boots>>
    BY <1>2, <2>1, HaltOutcome, FactoryOutcome, MetaUnchanged DEF history
  <2>2. CASE BootConfirmed
    BY <1>2, <2>2, ConfirmedOutcome, MetaUnchanged DEF history, BootConfirmed
  <2>3. CASE BootPastTrial(cost)
    BY <1>2, <2>3, ConfirmedOutcome, PastTrialKept DEF BootPastTrial
  <2>4. CASE BootTrial
    <3>1. PICK w \in MetaWrite(meta, Charged) : w.ok /\ meta' = w.meta
      BY <2>4 DEF BootTrial
    <3>2. MetaKept
      BY <1>2, <2>4, <3>1, ChargedTrialKept DEF BootTrial
    <3> QED BY <1>2, <2>4, <3>2, TrialOutcome DEF BootTrial
  <2> QED BY <1>1, <2>1, <2>2, <2>3, <2>4 DEF SelectApplication
<1>4. faults' \in 0 .. MaxFaults
  <2>1. cost + (IF access THEN 0 ELSE 1) \in Nat
    OBVIOUS
  <2> QED BY <1>1, <1>2, <2>1, SpendType DEF TypeOK
<1>5. marker' \in BOOLEAN
  BY <1>1 DEF MarkerLeft
<1>6. phase' \in {"stage0", "run", "halted"} /\ run' \in BootInfo
  BY <1>3 DEF Launched
<1>7. TypeOK'
  BY <1>2, <1>3, <1>4, <1>5, <1>6 DEF TypeOK, MetaKept
<1>8. upload'.state = "idle" /\ ~Uploading'
  BY <1>2 DEF IdleUpload, Uploading
<1>9. StoppedIsIdle'
  BY <1>2, <1>3 DEF StoppedIsIdle, Launched
<1>10. UploadTargetUnreferenced' /\ VerifiedInPlace' /\ UploadIsNewer'
  BY <1>8 DEF UploadTargetUnreferenced, VerifiedInPlace, UploadIsNewer
<1>11. OnlyAcceptedConfirmed'
  BY <1>2, <1>3 DEF OnlyAcceptedConfirmed, Launched, MetaKept
<1> QED BY <1>3, <1>7, <1>9, <1>10, <1>11 DEF IndInv, MetaKept

-----------------------------------------------------------------------------
(* The loop.                                                               *)

(* Ending the upload in a state that does not write.                       *)
LEMMA EndedUpload ==
  ASSUME TypeOK, NEW st \in {"idle", "failed", "recovery_reset"},
         upload' = [upload EXCEPT !.state = st]
  PROVE  upload' \in Upload /\ ~Uploading'
<1>1. upload'.state = st /\ upload' \in Upload
  BY DEF TypeOK, Upload
<1> QED BY <1>1 DEF Uploading

LEMMA LoopKeepsIndInv == IndInv /\ Loop => IndInv'
<1> SUFFICES ASSUME IndInv, Loop PROVE IndInv'
  OBVIOUS
<1>1. TypeOK /\ faults \in 0 .. MaxFaults /\ marker \in BOOLEAN /\ checked \in BOOLEAN
      /\ host_active \in BOOLEAN /\ health \in {"starting", "ready", "fault"}
  BY DEF IndInv, TypeOK
<1>2. CASE BecomeReady
  <2>1. run' = run /\ health' = "ready"
    BY <1>2 DEF BecomeReady
  <2> QED BY <1>1, <1>2, <2>1, QuietKeepsIndInv DEF BecomeReady
<1>3. CASE Fail
  <2>1. faults' \in 0 .. MaxFaults
    BY <1>1, <1>3, SpendType DEF Fail
  <2> QED BY <1>1, <1>3, <2>1, QuietKeepsIndInv DEF Fail
<1>4. CASE WatchdogReset
  BY <1>1, <1>4, RestartKeepsIndInv DEF WatchdogReset
<1>5. CASE TrialDeadline
  BY <1>1, <1>5, RestartKeepsIndInv DEF TrialDeadline
<1>6. CASE ActivationReset
  BY <1>1, <1>6, RestartKeepsIndInv DEF ActivationReset, nor
<1>7. CASE RecoveryReset
  BY <1>1, <1>7, RestartKeepsIndInv DEF RecoveryReset
<1>8. CASE UploadTimeout
  <2>1. upload' \in Upload /\ ~Uploading'
    BY <1>1, <1>8, EndedUpload DEF UploadTimeout
  <2> QED BY <1>1, <1>8, <2>1, QuietKeepsIndInv DEF UploadTimeout
<1>9. CASE AutoLaunch
  BY <1>1, <1>9, RestartKeepsIndInv DEF AutoLaunch, nor
<1>10. CASE AutoLaunchNothing
  <2>1. faults' \in 0 .. MaxFaults
    BY <1>1, <1>10, SpendType DEF AutoLaunchNothing
  <2> QED BY <1>1, <1>10, <2>1, QuietKeepsIndInv DEF AutoLaunchNothing, AutoLaunchDue
<1>11. CASE SelfConfirm
  <2>1. run' = [run EXCEPT !.confirmed = TRUE]
    BY <1>11 DEF SelfConfirm
  <2> QED BY <1>1, <1>11, <2>1, QuietKeepsIndInv DEF SelfConfirm
<1> QED BY <1>2, <1>3, <1>4, <1>5, <1>6, <1>7, <1>8, <1>9, <1>10, <1>11 DEF Loop

-----------------------------------------------------------------------------
(* The surroundings.                                                       *)

(* Nothing IndInv speaks about, its types apart, is in these variables.    *)
LEMMA StillKeepsIndInv ==
  ASSUME IndInv, UNCHANGED <<meta, flash, marker, phase, cause, ram, history>>,
         factory_ok' \in BOOLEAN, faults' \in 0 .. MaxFaults, host_active' \in BOOLEAN
  PROVE  IndInv'
<1> USE DEF IndInv, ram, history
<1>1. TypeOK'
  BY DEF TypeOK
<1>2. StoppedIsIdle' /\ UploadTargetUnreferenced' /\ VerifiedInPlace' /\ UploadIsNewer'
  BY DEF StoppedIsIdle, UploadTargetUnreferenced, VerifiedInPlace, UploadIsNewer,
         Uploading, Readable
<1>3. OnlyAcceptedConfirmed'
  BY DEF OnlyAcceptedConfirmed, Readable
<1> QED BY <1>1, <1>2, <1>3, NorKept

LEMMA DecayKeepsIndInv ==
  ASSUME IndInv, NEW s \in AppSlots, ImageDecay(s)
  PROVE  IndInv'
<1> USE DEF IndInv
<1>1. /\ UNCHANGED <<meta, factory_ok, marker, phase, cause, ram, host_active,
                     accepted, last_activated, trial_boots>>
      /\ decayed' = decayed \cup {s}
  BY DEF ImageDecay
<1>2. PICK hdr \in {flash[s].hdr, NoHeader} :
        flash' = [flash EXCEPT ![s] = [hdr |-> hdr,
                                       body |-> [@.body EXCEPT ![1] = Blank]]]
  BY DEF ImageDecay
<1>3. flash \in [AppSlots -> Slot]
  BY DEF TypeOK
<1>4. /\ \A x \in AppSlots \ {s} : flash'[x] = flash[x]
      /\ flash'[s].hdr \in {flash[s].hdr, NoHeader}
  BY <1>2, <1>3
<1>5. flash' \in [AppSlots -> Slot]
  <2>1. flash[s] \in Slot
    BY <1>3
  <2>2. hdr \in Header \cup {NoHeader}
    BY <2>1 DEF Slot
  <2>3. [flash[s].body EXCEPT ![1] = Blank] \in [1 .. Chunks -> Images \cup {Blank}]
    BY <2>1 DEF Slot
  <2>4. [hdr |-> hdr, body |-> [flash[s].body EXCEPT ![1] = Blank]] \in Slot
    BY <2>2, <2>3 DEF Slot
  <2> QED BY <1>2, <1>3, <2>4
<1>6. TypeOK'
  <2>1. faults' \in 0 .. MaxFaults
    BY SpendType DEF ImageDecay, TypeOK
  <2> QED BY <1>1, <1>5, <2>1 DEF TypeOK, ram
<1>7. ReferencedImagesIntact'
  BY <1>1, <1>4 DEF ReferencedImagesIntact, Intact, ImageValid, Readable
<1>8. VerifiedInPlace'
  <2>1. upload' = upload /\ upload.slot \in AppSlots
    BY <1>1 DEF ram, TypeOK, Upload
  <2> QED BY <1>4, <2>1 DEF VerifiedInPlace, Uploading
<1>9. StoppedIsIdle' /\ UploadTargetUnreferenced' /\ UploadIsNewer'
  BY <1>1 DEF StoppedIsIdle, UploadTargetUnreferenced, UploadIsNewer, Uploading, Readable, ram
<1>10. OnlyAcceptedConfirmed' /\ AttemptsCharged' /\ ActivationsRemembered'
  BY <1>1 DEF OnlyAcceptedConfirmed, AttemptsCharged, ActivationsRemembered, Readable, ram
<1> QED BY <1>6, <1>7, <1>8, <1>9, <1>10

LEMMA LossKeepsIndInv ==
  ASSUME IndInv, MetadataLost
  PROVE  IndInv'
<1> USE DEF IndInv
<1>1. /\ UNCHANGED <<flash, factory_ok, marker, phase, cause, ram, host_active,
                     accepted, decayed>>
      /\ meta' = EmptyMeta /\ last_activated' = 0 /\ trial_boots' = 0
  BY DEF MetadataLost
<1>2. ~Readable(meta')
  BY <1>1 DEF EmptyMeta, Readable
<1>3. TypeOK'
  <2>1. faults' \in 0 .. MaxFaults
    BY SpendType DEF MetadataLost, TypeOK
  <2>2. EmptyMeta \in Meta
    BY ConstantsAssumption DEF EmptyMeta, Meta, MaxTrialAttempts
  <2>3. last_activated' \in 0 .. MaxGen /\ trial_boots' \in Nat
    BY <1>1, ConstantsAssumption
  <2> QED BY <1>1, <2>1, <2>2, <2>3 DEF TypeOK, ram
<1>4. StoppedIsIdle' /\ VerifiedInPlace'
  BY <1>1 DEF StoppedIsIdle, VerifiedInPlace, Uploading, ram
<1>5. UploadTargetUnreferenced' /\ UploadIsNewer' /\ ReferencedImagesIntact'
  BY <1>1, <1>2 DEF UploadTargetUnreferenced, UploadIsNewer, ReferencedImagesIntact,
                    Uploading, ram, Readable
<1>6. OnlyAcceptedConfirmed'
  BY <1>1, <1>2 DEF OnlyAcceptedConfirmed, Readable, ram
<1>7. AttemptsCharged' /\ ActivationsRemembered'
  BY <1>1, <1>2 DEF AttemptsCharged, ActivationsRemembered, Readable, MaxTrialAttempts
<1> QED BY <1>3, <1>4, <1>5, <1>6, <1>7

LEMMA SurroundingsKeepIndInv == IndInv /\ Surroundings => IndInv'
<1> SUFFICES ASSUME IndInv, Surroundings PROVE IndInv'
  OBVIOUS
<1>1. TypeOK /\ faults \in 0 .. MaxFaults /\ marker \in BOOLEAN /\ factory_ok \in BOOLEAN
      /\ host_active \in BOOLEAN
  BY DEF IndInv, TypeOK
<1>2. CASE HostsLeave
  BY <1>1, <1>2, StillKeepsIndInv DEF HostsLeave, nor
<1>3. CASE PowerCut
  <2>1. faults' \in 0 .. MaxFaults
    BY <1>1, <1>3, SpendType DEF PowerCut
  <2>2. marker' \in BOOLEAN
    BY <1>1, <1>3 DEF PowerCut
  <2> QED BY <1>1, <1>3, <2>1, <2>2, RestartKeepsIndInv DEF PowerCut
<1>4. CASE \E s \in AppSlots : ImageDecay(s)
  BY <1>4, DecayKeepsIndInv
<1>5. CASE FactoryDecay
  <2>1. faults' \in 0 .. MaxFaults
    BY <1>1, <1>5, SpendType DEF FactoryDecay
  <2> QED BY <1>1, <1>5, <2>1, StillKeepsIndInv DEF FactoryDecay
<1>6. CASE MetadataLost
  BY <1>6, LossKeepsIndInv
<1> QED BY <1>2, <1>3, <1>4, <1>5, <1>6 DEF Surroundings

-----------------------------------------------------------------------------
(* Requests.                                                               *)

(* A slot the metadata does not name may be written freely.                *)
LEMMA ApartSlotKept ==
  ASSUME IndInv, NEW s \in AppSlots,
         Readable(meta) => s # meta.cslot /\ s # meta.tslot,
         \A x \in AppSlots \ {s} : flash'[x] = flash[x] /\ (x \in decayed => x \in decayed'),
         UNCHANGED <<meta, accepted, last_activated, trial_boots>>
  PROVE  ReferencedImagesIntact' /\ AttemptsCharged' /\ ActivationsRemembered'
<1> USE DEF IndInv
<1>1. \A x \in AppSlots \ {s}, g \in 0 .. MaxGen : Intact(x, g) => Intact(x, g)'
  BY DEF Intact, ImageValid
<1>2. meta.cgen \in 0 .. MaxGen /\ meta.tgen \in 0 .. MaxGen
  BY MetaFields DEF TypeOK
<1>3. ReferencedImagesIntact'
  BY <1>1, <1>2 DEF ReferencedImagesIntact, Readable
<1>4. AttemptsCharged' /\ ActivationsRemembered'
  BY DEF AttemptsCharged, ActivationsRemembered, Readable
<1> QED BY <1>3, <1>4

LEMMA UploadFields ==
  ASSUME TypeOK
  PROVE  /\ upload.slot \in AppSlots /\ upload.received \in 0 .. Chunks
         /\ upload.metaseq \in 0 .. SeqLimit - 1 /\ upload.hdr \in Header \cup {NoHeader}
BY DEF TypeOK, Upload

LEMMA AppendKeepsIndInv ==
  ASSUME IndInv, NEW offset \in 1 .. Chunks, NEW block \in Images, Append(offset, block)
  PROVE  IndInv'
<1> USE DEF IndInv
<1>1. /\ UNCHANGED <<meta, factory_ok, marker, phase, cause, run, health, checked,
                     host_active, history>>
      /\ phase = "run" /\ upload.state = "receiving"
  BY DEF Append, Serving, Running
<1>2. PICK left \in {Blank, block, flash[upload.slot].body[offset]} :
        flash' = [flash EXCEPT ![upload.slot].body[offset] = left]
  BY DEF Append
<1>3. TypeOK /\ flash \in [AppSlots -> Slot] /\ upload.slot \in AppSlots
  BY UploadFields DEF TypeOK
<1>4. flash' \in [AppSlots -> Slot]
  <2>1. flash[upload.slot] \in Slot
    BY <1>3
  <2>2. left \in Images \cup {Blank}
    BY <1>2, <2>1 DEF Slot
  <2>3. [flash[upload.slot].body EXCEPT ![offset] = left]
          \in [1 .. Chunks -> Images \cup {Blank}]
    BY <2>1, <2>2 DEF Slot
  <2>4. [flash[upload.slot] EXCEPT !.body[offset] = left] \in Slot
    BY <2>1, <2>3 DEF Slot
  <2> QED BY <1>2, <1>3, <2>4
<1>5. \A x \in AppSlots \ {upload.slot} : flash'[x] = flash[x]
  BY <1>2, <1>3
<1>6. upload' = [upload EXCEPT !.received = offset] \/ upload' = [upload EXCEPT !.state = "failed"]
  BY DEF Append
<1>7. /\ upload' \in Upload
      /\ Uploading' => /\ upload'.slot = upload.slot /\ upload'.hdr = upload.hdr
                       /\ upload'.metaseq = upload.metaseq /\ upload'.state = "receiving"
  <2>1. CASE upload' = [upload EXCEPT !.received = offset]
    BY <1>1, <2>1 DEF TypeOK, Upload
  <2>2. CASE upload' = [upload EXCEPT !.state = "failed"]
    BY <1>3, <2>2, EndedUpload
  <2> QED BY <1>6, <2>1, <2>2
<1>8. Uploading
  BY <1>1 DEF Uploading
<1>9. TypeOK'
  <2>1. faults' \in 0 .. MaxFaults
    BY <1>3, SpendType DEF Append, TypeOK
  <2> QED BY <1>1, <1>4, <1>7, <2>1 DEF TypeOK, history
<1>10. ReferencedImagesIntact' /\ AttemptsCharged' /\ ActivationsRemembered'
  <2>1. Readable(meta) => upload.slot # meta.cslot /\ upload.slot # meta.tslot
    BY <1>1, <1>8 DEF UploadTargetUnreferenced
  <2> QED BY <1>1, <1>3, <1>5, <2>1, ApartSlotKept DEF history
<1>11. UploadTargetUnreferenced' /\ UploadIsNewer'
  BY <1>1, <1>7, <1>8 DEF UploadTargetUnreferenced, UploadIsNewer, Readable
<1>12. VerifiedInPlace'
  <2>1. upload'.state = "verified" => Uploading'
    BY DEF Uploading
  <2> QED BY <1>7, <1>8, <2>1 DEF VerifiedInPlace
<1>13. StoppedIsIdle' /\ OnlyAcceptedConfirmed'
  BY <1>1 DEF StoppedIsIdle, OnlyAcceptedConfirmed, history, Readable
<1> QED BY <1>9, <1>10, <1>11, <1>12, <1>13

LEMMA FinishKeepsIndInv == IndInv /\ Finish => IndInv'
<1> SUFFICES ASSUME IndInv, Finish PROVE IndInv'
  OBVIOUS
<1> USE DEF IndInv
<1>1. /\ UNCHANGED <<meta, factory_ok, marker, phase, cause, run, health, checked,
                     host_active, accepted, last_activated, trial_boots>>
      /\ phase = "run" /\ upload.state = "receiving"
  BY DEF Finish, Serving, Running
<1>2. TypeOK /\ flash \in [AppSlots -> Slot] /\ upload.slot \in AppSlots
      /\ upload.hdr \in Header /\ Uploading
  BY <1>1, UploadFields DEF TypeOK, VerifiedInPlace, Uploading
<1>3. /\ \A x \in AppSlots \ {upload.slot} : flash'[x] = flash[x]
      /\ flash' \in [AppSlots -> Slot]
  <2>1. \/ flash' = flash
        \/ \E left \in Header \cup {NoHeader} : flash' = [flash EXCEPT ![upload.slot].hdr = left]
    BY <1>2 DEF Finish
  <2>2. CASE flash' = flash
    BY <1>2, <2>2
  <2>3. ASSUME NEW left \in Header \cup {NoHeader},
               flash' = [flash EXCEPT ![upload.slot].hdr = left]
        PROVE  /\ \A x \in AppSlots \ {upload.slot} : flash'[x] = flash[x]
               /\ flash' \in [AppSlots -> Slot]
    <3>1. [flash[upload.slot] EXCEPT !.hdr = left] \in Slot
      BY <1>2 DEF Slot
    <3> QED BY <1>2, <2>3, <3>1
  <2> QED BY <2>1, <2>2, <2>3
<1>4. \/ upload' = [upload EXCEPT !.state = "failed"]
      \/ /\ upload' = [upload EXCEPT !.state = "verified"]
         /\ flash' = [flash EXCEPT ![upload.slot].hdr = upload.hdr]
  BY DEF Finish
<1>5. /\ upload' \in Upload
      /\ Uploading' => /\ upload'.slot = upload.slot /\ upload'.hdr = upload.hdr
                       /\ upload'.metaseq = upload.metaseq
                       /\ flash'[upload.slot].hdr = upload.hdr
  <2>1. CASE upload' = [upload EXCEPT !.state = "failed"]
    BY <1>2, <2>1, EndedUpload
  <2>2. CASE /\ upload' = [upload EXCEPT !.state = "verified"]
             /\ flash' = [flash EXCEPT ![upload.slot].hdr = upload.hdr]
    <3>1. flash'[upload.slot].hdr = upload.hdr
      BY <1>2, <2>2 DEF Slot
    <3> QED BY <2>2, <3>1 DEF TypeOK, Upload
  <2> QED BY <1>4, <2>1, <2>2
<1>6. /\ decayed' \subseteq AppSlots
      /\ \A x \in AppSlots \ {upload.slot} : x \in decayed => x \in decayed'
  BY DEF Finish, TypeOK
<1>7. TypeOK'
  <2>1. faults' \in 0 .. MaxFaults
    BY <1>2, SpendType DEF Finish, TypeOK
  <2> QED BY <1>1, <1>3, <1>5, <1>6, <2>1 DEF TypeOK
<1>8. Readable(meta) => upload.slot # meta.cslot /\ upload.slot # meta.tslot
  BY <1>1, <1>2 DEF UploadTargetUnreferenced
<1>9. ReferencedImagesIntact' /\ AttemptsCharged' /\ ActivationsRemembered'
  BY <1>1, <1>2, <1>3, <1>6, <1>8, ApartSlotKept
<1>10. UploadTargetUnreferenced' /\ UploadIsNewer'
  BY <1>1, <1>2, <1>5, <1>8 DEF UploadTargetUnreferenced, UploadIsNewer, Readable
<1>11. VerifiedInPlace'
  <2>1. upload'.state = "verified" => Uploading'
    BY DEF Uploading
  <2> QED BY <1>2, <1>5, <2>1 DEF VerifiedInPlace
<1>12. StoppedIsIdle' /\ OnlyAcceptedConfirmed'
  BY <1>1 DEF StoppedIsIdle, OnlyAcceptedConfirmed, Readable
<1> QED BY <1>7, <1>9, <1>10, <1>11, <1>12

LEMMA ActivateKeepsIndInv == IndInv /\ Activate => IndInv'
<1> SUFFICES ASSUME IndInv, Activate PROVE IndInv'
  OBVIOUS
<1> USE DEF IndInv
<1> DEFINE m == [meta EXCEPT !.tslot = upload.slot, !.tgen = upload.hdr.gen, !.tatt = 0]
<1>1. /\ UNCHANGED <<flash, factory_ok, marker, phase, cause, run, health, checked,
                     host_active, accepted, decayed>>
      /\ phase = "run" /\ upload.state = "verified" /\ ImageValid(upload.slot)
      /\ Readable(meta) /\ meta.seq = upload.metaseq
      /\ meta.cslot # upload.slot /\ meta.tslot = NoSlot
  BY DEF Activate, Serving, Running
<1>2. PICK w \in MetaWrite(meta, m) :
        /\ meta' = w.meta
        /\ upload' = IF w.ok THEN [upload EXCEPT !.state = "activated"] ELSE upload
        /\ IF w.meta # meta
           THEN last_activated' = upload.hdr.gen /\ trial_boots' = 0
           ELSE UNCHANGED <<last_activated, trial_boots>>
        /\ Spend(w.cost)
  BY DEF Activate
<1>3. TypeOK /\ meta \in Meta /\ upload.slot \in AppSlots /\ Uploading
      /\ upload.hdr \in Header /\ upload.hdr.gen \in Gens
  BY <1>1, UploadFields DEF TypeOK, VerifiedInPlace, Uploading, Header
<1>4. upload.hdr.gen \in 0 .. MaxGen /\ meta.cgen \in 0 .. MaxGen /\ upload.hdr.gen > meta.cgen
  <2>1. upload.hdr.gen > meta.cgen
    BY <1>1, <1>3 DEF UploadIsNewer
  <2> QED BY <1>3, <2>1, MetaFields, ConstantsAssumption DEF Gens
<1>5. m \in Meta
  <2>1. 0 \in 0 .. MaxTrialAttempts
    BY DEF MaxTrialAttempts
  <2> QED BY <1>3, <1>4, <2>1 DEF Meta
<1>6. /\ m.cslot = meta.cslot /\ m.cgen = meta.cgen /\ m.floor = meta.floor
      /\ m.tslot = upload.slot /\ m.tgen = upload.hdr.gen /\ m.tatt = 0
  BY <1>3 DEF Meta
<1> HIDE DEF m
<1>7. /\ w.meta = meta \/ w.meta = [m EXCEPT !.seq = meta.seq + 1]
      /\ w.ok => w.meta = [m EXCEPT !.seq = meta.seq + 1]
      /\ w.cost \in 0 .. 1 /\ w.meta \in Meta
      /\ w.meta # meta => w.meta.seq = meta.seq + 1
  BY <1>3, <1>5, MetaWriteOutcome
<1>8. faults' \in 0 .. MaxFaults
  BY <1>2, <1>3, <1>7, SpendType DEF TypeOK
<1>9. /\ upload' \in Upload /\ upload'.slot = upload.slot /\ upload'.hdr = upload.hdr
      /\ upload'.metaseq = upload.metaseq /\ upload'.state \in {"verified", "activated"}
  <2>1. CASE w.ok
    BY <1>2, <2>1 DEF TypeOK, Upload
  <2>2. CASE ~w.ok
    BY <1>1, <1>2, <2>2 DEF TypeOK
  <2> QED BY <2>1, <2>2
<1>10. StoppedIsIdle' /\ VerifiedInPlace'
  BY <1>1, <1>3, <1>9 DEF StoppedIsIdle, VerifiedInPlace, Uploading
<1>11. CASE meta' = meta
  <2>1. UNCHANGED <<meta, last_activated, trial_boots>>
    BY <1>2, <1>11
  <2>2. TypeOK'
    BY <1>1, <1>8, <1>9, <2>1 DEF TypeOK
  <2>3. ReferencedImagesIntact' /\ AttemptsCharged' /\ ActivationsRemembered'
        /\ OnlyAcceptedConfirmed'
    BY <1>1, <2>1, NorKept DEF history, OnlyAcceptedConfirmed, Readable
  <2>4. UploadTargetUnreferenced' /\ UploadIsNewer'
    BY <1>1, <1>3, <1>9, <2>1 DEF UploadTargetUnreferenced, UploadIsNewer, Readable,
                                  Uploading
  <2> QED BY <1>10, <2>2, <2>3, <2>4
<1>12. CASE meta' # meta
  <2>1. /\ meta' = [m EXCEPT !.seq = meta.seq + 1] /\ meta' \in Meta
        /\ meta'.seq = meta.seq + 1
        /\ last_activated' = upload.hdr.gen /\ trial_boots' = 0
    BY <1>2, <1>7, <1>12
  <2>2. /\ meta'.cslot = meta.cslot /\ meta'.cgen = meta.cgen /\ meta'.floor = meta.floor
        /\ meta'.tslot = upload.slot /\ meta'.tgen = upload.hdr.gen /\ meta'.tatt = 0
    BY <1>5, <1>6, <2>1 DEF Meta
  <2>3. Readable(meta')
    BY <1>3, <2>1, MetaFields DEF Readable
  <2>4. TypeOK'
    BY <1>1, <1>4, <1>8, <1>9, <2>1 DEF TypeOK
  <2>5. Intact(upload.slot, upload.hdr.gen)'
    <3>1. flash[upload.slot].hdr = upload.hdr
      BY <1>1, <1>3 DEF VerifiedInPlace, ImageValid
    <3>2. ImageValid(upload.slot)' /\ flash'[upload.slot].hdr.gen = upload.hdr.gen
      BY <1>1, <1>9, <3>1 DEF ImageValid
    <3> QED BY <1>9, <3>2 DEF Intact
  <2>6. ReferencedImagesIntact'
    <3>1. meta.cslot \in AppSlots => Intact(meta.cslot, meta.cgen)
      BY <1>1 DEF ReferencedImagesIntact
    <3>2. meta'.cslot \in AppSlots => Intact(meta.cslot, meta.cgen)'
      BY <1>1, <2>2, <3>1 DEF Intact, ImageValid
    <3> QED BY <1>1, <1>9, <2>2, <2>5, <3>2 DEF ReferencedImagesIntact, Intact, ImageValid
  <2>7. AttemptsCharged' /\ ActivationsRemembered'
    BY <1>4, <2>1, <2>2, <2>3 DEF AttemptsCharged, ActivationsRemembered, MaxTrialAttempts
  <2>8. OnlyAcceptedConfirmed'
    BY <1>1, <2>2 DEF OnlyAcceptedConfirmed
  <2>9. UploadTargetUnreferenced'
    BY <1>1, <1>3, <1>9, <2>2 DEF UploadTargetUnreferenced, Uploading
  <2>10. UploadIsNewer'
    BY <1>1, <1>3, <1>9, <2>1, MetaFields DEF UploadIsNewer
  <2> QED BY <1>10, <2>4, <2>6, <2>7, <2>8, <2>9, <2>10
<1> QED BY <1>11, <1>12

LEMMA ConfirmKeepsIndInv ==
  ASSUME IndInv, NEW digest, Confirm(digest)
  PROVE  IndInv'
<1> USE DEF IndInv
<1>1. /\ UNCHANGED <<flash, factory_ok, marker, phase, cause, health, upload, checked,
                     host_active, last_activated, trial_boots, decayed>>
      /\ phase = "run" /\ run.slot \in AppSlots /\ BootConfirm
  BY DEF Confirm, Serving, Running
<1>2. TypeOK /\ run \in BootInfo /\ run.gen \in Gens
  BY <1>1 DEF TypeOK, StoppedIsIdle
<1>3. run' = run \/ run' = [run EXCEPT !.confirmed = TRUE]
  BY <1>1 DEF BootConfirm
<1>4. /\ run' \in BootInfo /\ run'.slot = run.slot /\ run'.gen = run.gen
      /\ run'.trial = run.trial
  BY <1>2, <1>3 DEF BootInfo
<1>5. StoppedIsIdle' /\ VerifiedInPlace'
  BY <1>1, <1>4 DEF StoppedIsIdle, VerifiedInPlace, Uploading
<1>6. CASE UNCHANGED <<meta, accepted>> /\ faults' \in 0 .. MaxFaults
  <2>1. TypeOK'
    BY <1>1, <1>4, <1>6 DEF TypeOK
  <2>2. ReferencedImagesIntact' /\ AttemptsCharged' /\ ActivationsRemembered'
        /\ OnlyAcceptedConfirmed'
    BY <1>1, <1>4, <1>6, NorKept DEF history, OnlyAcceptedConfirmed, Readable
  <2>3. UploadTargetUnreferenced' /\ UploadIsNewer'
    BY <1>1, <1>4, <1>6 DEF UploadTargetUnreferenced, UploadIsNewer, Readable, Uploading
  <2> QED BY <1>5, <2>1, <2>2, <2>3
<1>7. CASE ~run.trial
  BY <1>1, <1>2, <1>6, <1>7 DEF BootConfirm, TypeOK
<1>8. CASE run.trial
  <2> DEFINE m == [meta EXCEPT !.cslot = run.slot, !.cgen = run.gen,
                               !.tslot = NoSlot, !.tgen = 0, !.tatt = 0]
  <2>1. /\ Readable(meta) /\ meta.tslot = run.slot /\ meta.tgen = run.gen
        /\ accepted' = accepted \cup {run.gen}
    BY <1>1, <1>8 DEF BootConfirm
  <2>2. PICK w \in MetaWrite(meta, m) : meta' = w.meta /\ Spend(w.cost)
    BY <1>1, <1>8 DEF BootConfirm
  <2>3. meta \in Meta /\ run.gen \in 0 .. MaxGen /\ accepted' \subseteq Gens
    BY <1>2, <2>1, ConstantsAssumption DEF TypeOK, Gens
  <2>4. m \in Meta
    <3> DEFINE c == [meta EXCEPT !.cslot = run.slot, !.cgen = run.gen]
    <3>1. c \in Meta
      BY <1>1, <2>3 DEF Meta
    <3>2. NoSlot \in AppSlots \cup {NoSlot} /\ 0 \in 0 .. MaxGen /\ 0 \in 0 .. MaxTrialAttempts
      BY ConstantsAssumption DEF MaxTrialAttempts
    <3> HIDE DEF c
    <3>3. [c EXCEPT !.tslot = NoSlot, !.tgen = 0, !.tatt = 0] \in Meta
      BY <3>1, <3>2 DEF Meta
    <3>4. m = [c EXCEPT !.tslot = NoSlot, !.tgen = 0, !.tatt = 0]
      BY <2>3 DEF Meta, c
    <3> QED BY <3>3, <3>4
  <2>5. /\ m.cslot = run.slot /\ m.cgen = run.gen /\ m.floor = meta.floor
        /\ m.tslot = NoSlot /\ m.tgen = 0
    BY <2>3 DEF Meta
  <2> HIDE DEF m
  <2>6. /\ w.meta = meta \/ w.meta = [m EXCEPT !.seq = meta.seq + 1]
        /\ w.cost \in 0 .. 1 /\ w.meta \in Meta
        /\ w.meta # meta => w.meta.seq = meta.seq + 1
    BY <2>3, <2>4, MetaWriteOutcome
  <2>7. faults' \in 0 .. MaxFaults
    BY <1>2, <2>2, <2>6, SpendType DEF TypeOK
  <2>8. TypeOK'
    BY <1>1, <1>4, <2>2, <2>3, <2>6, <2>7 DEF TypeOK
  <2>9. CASE meta' = meta
    <3>1. ReferencedImagesIntact' /\ AttemptsCharged' /\ ActivationsRemembered'
      BY <1>1, <2>9 DEF ReferencedImagesIntact, Intact, ImageValid, AttemptsCharged,
                        ActivationsRemembered, Readable
    <3>2. OnlyAcceptedConfirmed'
      BY <1>4, <2>1, <2>9 DEF OnlyAcceptedConfirmed
    <3>3. UploadTargetUnreferenced' /\ UploadIsNewer'
      BY <1>1, <1>4, <2>9 DEF UploadTargetUnreferenced, UploadIsNewer, Readable, Uploading
    <3> QED BY <1>5, <2>8, <3>1, <3>2, <3>3
  <2>10. CASE meta' # meta
    <3>1. /\ meta' = [m EXCEPT !.seq = meta.seq + 1] /\ meta'.seq = meta.seq + 1
      BY <2>2, <2>6, <2>10
    <3>2. /\ meta'.cslot = run.slot /\ meta'.cgen = run.gen /\ meta'.floor = meta.floor
          /\ meta'.tslot = NoSlot /\ meta'.tgen = 0
      BY <2>4, <2>5, <3>1 DEF Meta
    <3>3. meta'.tslot \notin AppSlots
      BY <3>2 DEF AppSlots, NoSlot
    <3>4. Readable(meta')
      BY <2>3, <3>1, MetaFields DEF Readable
    <3>5. ReferencedImagesIntact'
      <4>1. Intact(run.slot, run.gen)
        BY <1>1, <2>1 DEF ReferencedImagesIntact
      <4> QED BY <1>1, <1>4, <3>2, <3>3, <4>1 DEF ReferencedImagesIntact, Intact, ImageValid
    <3>6. AttemptsCharged'
      BY <1>1, <3>2 DEF AttemptsCharged
    <3>7. ActivationsRemembered'
      <4>1. run.gen > meta.cgen
        BY <1>1, <2>1 DEF ActivationsRemembered, AppSlots, NoSlot
      <4>2. \/ last_activated <= meta.cgen \/ last_activated <= meta.tgen
            \/ last_activated <= meta.floor
        BY <2>1 DEF ActivationsRemembered
      <4>3. last_activated \in Nat /\ meta.cgen \in Nat /\ run.gen \in Nat
        BY <2>3, MetaFields DEF TypeOK
      <4>4. last_activated <= meta'.cgen \/ last_activated <= meta'.floor
        BY <2>1, <3>2, <4>1, <4>2, <4>3
      <4> QED BY <1>1, <3>2, <3>4, <4>4 DEF ActivationsRemembered
    <3>8. OnlyAcceptedConfirmed'
      BY <1>4, <2>1, <3>2 DEF OnlyAcceptedConfirmed
    <3>9. UploadTargetUnreferenced'
      <4>1. Uploading => upload.slot # run.slot /\ upload.slot \in AppSlots
        BY UploadFields DEF UploadTargetUnreferenced
      <4> QED BY <1>1, <1>4, <3>2, <3>3, <4>1 DEF UploadTargetUnreferenced, Uploading
    <3>10. UploadIsNewer'
      <4>1. Uploading => meta.seq >= upload.metaseq
        BY <2>1 DEF UploadIsNewer
      <4>2. meta.seq \in Nat /\ upload.metaseq \in Nat
        BY <2>3, MetaFields, UploadFields
      <4> QED BY <1>1, <3>1, <4>1, <4>2 DEF UploadIsNewer, Uploading
    <3> QED BY <1>5, <2>8, <3>5, <3>6, <3>7, <3>8, <3>9, <3>10
  <2> QED BY <2>9, <2>10
<1> QED BY <1>7, <1>8

(* The outcome of a handler's writes so far.                               *)
LEMMA ThenWriteKeepsGood ==
  ASSUME NEW r, MetaGood(r.meta), r.cost \in Nat, NEW needed \in BOOLEAN, NEW m \in Meta,
         r.ok /\ needed => \A s \in 1 .. SeqLimit - 1 : MetaGood([m EXCEPT !.seq = s]),
         NEW v \in ThenWrite(r, needed, m)
  PROVE  /\ MetaGood(v.meta) /\ v.cost \in Nat
         /\ v.ok => r.ok
         /\ \/ v.meta = r.meta /\ (v.ok => ~needed)
            \/ r.ok /\ needed /\ v.meta = [m EXCEPT !.seq = r.meta.seq + 1]
<1>1. CASE ~(r.ok /\ needed)
  <2>1. v = r
    BY <1>1 DEF ThenWrite
  <2> QED BY <1>1, <2>1
<1>2. CASE r.ok /\ needed
  <2>1. PICK w \in MetaWrite(r.meta, m) : v = [w EXCEPT !.cost = @ + r.cost]
    BY <1>2 DEF ThenWrite
  <2>2. MetaGood(w.meta)
    BY <1>2, <2>1, WriteKeepsGood
  <2>3. r.meta \in Meta
    BY DEF MetaGood
  <2>4. /\ w.meta = r.meta \/ w.meta = [m EXCEPT !.seq = r.meta.seq + 1]
        /\ w.ok => w.meta = [m EXCEPT !.seq = r.meta.seq + 1]
        /\ w.cost \in 0 .. 1
    BY <2>1, <2>3, MetaWriteOutcome
  <2>5. \/ w = [ok |-> FALSE, meta |-> w.meta, cost |-> w.cost]
        \/ w = [ok |-> TRUE, meta |-> w.meta, cost |-> w.cost]
    BY DEF MetaWrite
  <2>6. v.meta = w.meta /\ v.cost = w.cost + r.cost /\ (v.ok => w.ok)
    BY <2>1, <2>5
  <2>7. v.cost \in Nat
    BY <2>4, <2>6
  <2>8. \/ v.meta = r.meta /\ ~v.ok
        \/ v.meta = [m EXCEPT !.seq = r.meta.seq + 1]
    BY <2>4, <2>6
  <2> QED BY <1>2, <2>2, <2>6, <2>7, <2>8
<1> QED BY <1>1, <1>2

LEMMA RepairedIsMeta ==
  ASSUME NEW m \in Meta
  PROVE  TrialCleared(m) \in Meta /\ Disowned(m) \in Meta /\ EmptyMeta \in Meta
<1>1. Larger(m.floor, m.tgen) \in 0 .. MaxGen /\ 0 \in 0 .. MaxGen /\ 0 \in 0 .. MaxTrialAttempts
      /\ 0 \in 0 .. SeqLimit - 1
  BY MetaFields, ConstantsAssumption DEF Larger, MaxTrialAttempts
<1>2. TrialCleared(m) \in Meta
  BY <1>1 DEF Meta, TrialCleared
<1>3. Disowned(m) \in Meta
  BY DEF Meta, Disowned
<1>4. EmptyMeta \in Meta
  BY <1>1 DEF Meta, EmptyMeta
<1> QED BY <1>2, <1>3, <1>4

(* An upload is newer than everything the record it is admitted to says.   *)
Newer(h, m) == h.gen > m.cgen /\ h.gen > m.tgen /\ h.gen > m.floor

(* Begin leaves a good record; if an upload starts, the record names no    *)
(* trial and the upload is newer.                                          *)
LEMMA BeginWrites ==
  ASSUME IndInv, NEW h \in Header,
         NEW r1 \in ThenWrite(Unwritten, ~Readable(meta), EmptyMeta),
         NEW r2 \in ThenWrite(r1, Recovery /\ Abandoned(r1.meta), TrialCleared(r1.meta)),
         NEW r3 \in ThenWrite(OnlyIf(r2, Admits(h, r2.meta)),
                              Recovery /\ r2.meta.cslot \in AppSlots
                                       /\ ~ImageValid(r2.meta.cslot),
                              Disowned(r2.meta))
  PROVE  /\ MetaGood(r3.meta) /\ r3.cost \in Nat
         /\ r3.ok => Readable(r3.meta) /\ r3.meta.tslot = NoSlot /\ Newer(h, r3.meta)
<1>1. TypeOK /\ MetaGood(meta) /\ meta \in Meta
  BY MetaIsGood DEF IndInv, TypeOK
<1>2. /\ MetaGood(r1.meta) /\ r1.cost \in Nat
      /\ r1.ok => Readable(r1.meta)
  <2>1. Unwritten.meta = meta /\ Unwritten.cost \in Nat
    BY DEF Unwritten
  <2>2. EmptyMeta \in Meta
    BY <1>1, RepairedIsMeta
  <2>3. ~Readable(meta) => \A s \in 1 .. SeqLimit - 1 : MetaGood([EmptyMeta EXCEPT !.seq = s])
    BY <1>1, EmptyIsGood, ConstantsAssumption DEF MetaGood
  <2>4. /\ MetaGood(r1.meta) /\ r1.cost \in Nat
        /\ \/ r1.meta = meta /\ (r1.ok => Readable(meta))
           \/ r1.meta = [EmptyMeta EXCEPT !.seq = meta.seq + 1]
    <3> DEFINE needed == ~Readable(meta)
    <3>1. needed \in BOOLEAN
      OBVIOUS
    <3>2. MetaGood(Unwritten.meta)
      <4> HIDE DEF MetaGood
      <4> QED BY <1>1, <2>1
    <3>3. needed => \A s \in 1 .. SeqLimit - 1 : MetaGood([EmptyMeta EXCEPT !.seq = s])
      BY <2>3
    <3>4. r1 \in ThenWrite(Unwritten, needed, EmptyMeta)
      OBVIOUS
    <3> HIDE DEF MetaGood, needed
    <3>5. /\ MetaGood(r1.meta) /\ r1.cost \in Nat
          /\ \/ r1.meta = Unwritten.meta /\ (r1.ok => ~needed)
             \/ r1.meta = [EmptyMeta EXCEPT !.seq = Unwritten.meta.seq + 1]
      BY <2>1, <2>2, <3>1, <3>2, <3>3, <3>4, ThenWriteKeepsGood
    <3> QED BY <2>1, <3>5 DEF needed
  <2>5. Readable([EmptyMeta EXCEPT !.seq = meta.seq + 1])
    BY <1>1, MetaFields DEF EmptyMeta, Readable
  <2> QED BY <2>4, <2>5
<1>3. r1.meta \in Meta
  BY <1>2 DEF MetaGood
<1>4. /\ MetaGood(r2.meta) /\ r2.cost \in Nat
      /\ r2.ok => Readable(r2.meta)
  <2>1. TrialCleared(r1.meta) \in Meta
    BY <1>3, RepairedIsMeta
  <2>2. r1.ok => \A s \in 1 .. SeqLimit - 1 : MetaGood([TrialCleared(r1.meta) EXCEPT !.seq = s])
    BY <1>1, <1>2, ClearedIsGood
  <2>3. /\ MetaGood(r2.meta) /\ r2.cost \in Nat /\ (r2.ok => r1.ok)
        /\ \/ r2.meta = r1.meta
           \/ r2.meta = [TrialCleared(r1.meta) EXCEPT !.seq = r1.meta.seq + 1]
    <3> DEFINE needed == Recovery /\ Abandoned(r1.meta)
    <3>1. needed \in BOOLEAN
      OBVIOUS
    <3> HIDE DEF MetaGood, needed
    <3>2. r2 \in ThenWrite(r1, needed, TrialCleared(r1.meta))
      BY DEF needed
    <3> QED BY <1>2, <2>1, <2>2, <3>1, <3>2, ThenWriteKeepsGood
  <2>4. Readable([TrialCleared(r1.meta) EXCEPT !.seq = r1.meta.seq + 1])
    <3>1. [TrialCleared(r1.meta) EXCEPT !.seq = r1.meta.seq + 1].seq = r1.meta.seq + 1
      BY <2>1 DEF Meta
    <3> QED BY <1>3, <3>1, MetaFields DEF Readable
  <2> QED BY <1>2, <2>3, <2>4
<1>5. r2.meta \in Meta /\ Disowned(r2.meta) \in Meta
  BY <1>4, RepairedIsMeta DEF MetaGood
<1> DEFINE r == OnlyIf(r2, Admits(h, r2.meta))
<1>6. /\ r.meta = r2.meta /\ r.cost = r2.cost
      /\ r.ok => r2.ok /\ Admits(h, r2.meta)
  <2>1. CASE Admits(h, r2.meta)
    BY <2>1 DEF OnlyIf
  <2>2. CASE ~Admits(h, r2.meta)
    <3>1. /\ [r2 EXCEPT !.ok = FALSE].meta = r2.meta
          /\ [r2 EXCEPT !.ok = FALSE].cost = r2.cost
      OBVIOUS
    <3>2. ~[r2 EXCEPT !.ok = FALSE].ok
      OBVIOUS
    <3> QED BY <2>2, <3>1, <3>2 DEF OnlyIf
  <2> QED BY <2>1, <2>2
<1> HIDE DEF r
<1>7. /\ MetaGood(r3.meta) /\ r3.cost \in Nat /\ (r3.ok => r.ok)
      /\ \/ r3.meta = r2.meta
         \/ r.ok /\ r3.meta = [Disowned(r2.meta) EXCEPT !.seq = r2.meta.seq + 1]
  <2> DEFINE needed == Recovery /\ r2.meta.cslot \in AppSlots /\ ~ImageValid(r2.meta.cslot)
  <2>1. needed \in BOOLEAN
    OBVIOUS
  <2>2. r.ok => \A s \in 1 .. SeqLimit - 1 : MetaGood([Disowned(r2.meta) EXCEPT !.seq = s])
    BY <1>1, <1>4, <1>6, DisownedIsGood
  <2> HIDE DEF MetaGood, needed
  <2>3. r3 \in ThenWrite(r, needed, Disowned(r2.meta))
    BY DEF r, needed
  <2> QED BY <1>4, <1>5, <1>6, <2>1, <2>2, <2>3, ThenWriteKeepsGood
<1>8. ASSUME r3.ok
      PROVE  Readable(r3.meta) /\ r3.meta.tslot = NoSlot /\ Newer(h, r3.meta)
  <2>1. Readable(r2.meta) /\ r2.meta.tslot = NoSlot /\ Newer(h, r2.meta)
    BY <1>4, <1>6, <1>7, <1>8 DEF Admits, KnownGenerations, Newer
  <2>2. CASE r3.meta = r2.meta
    BY <2>1, <2>2
  <2>3. CASE r3.meta = [Disowned(r2.meta) EXCEPT !.seq = r2.meta.seq + 1]
    <3>1. /\ r3.meta.seq = r2.meta.seq + 1 /\ r3.meta.tslot = r2.meta.tslot
          /\ r3.meta.cgen = r2.meta.cgen /\ r3.meta.tgen = r2.meta.tgen
          /\ r3.meta.floor = r2.meta.floor
      BY <1>5, <2>3 DEF Meta, Disowned
    <3>2. r3.meta.seq # 0
      BY <1>5, <3>1, MetaFields
    <3> QED BY <2>1, <3>1, <3>2 DEF Readable, Newer
  <2> QED BY <1>7, <2>2, <2>3
<1> QED BY <1>7, <1>8

(* Where an upload starts.                                                 *)
LEMMA InactiveApart ==
  ASSUME NEW m \in Meta
  PROVE  InactiveSlot(m) \in AppSlots /\ InactiveSlot(m) # m.cslot
BY DEF InactiveSlot, AppSlots

LEMMA BeginKeepsIndInv ==
  ASSUME IndInv, NEW h \in Header, Begin(h)
  PROVE  IndInv'
<1>1. /\ UNCHANGED <<factory_ok, marker, phase, cause, run, health, checked,
                     host_active, history>>
      /\ phase = "run" /\ upload.state \in {"idle", "failed", "recovery_reset"}
  BY DEF Begin, Serving, Running
<1>2. PICK r1 \in ThenWrite(Unwritten, ~Readable(meta), EmptyMeta) :
        \E r2 \in ThenWrite(r1, Recovery /\ Abandoned(r1.meta), TrialCleared(r1.meta)) :
        \E r3 \in ThenWrite(OnlyIf(r2, Admits(h, r2.meta)),
                            Recovery /\ r2.meta.cslot \in AppSlots
                                     /\ ~ImageValid(r2.meta.cslot),
                            Disowned(r2.meta)) :
          /\ meta' = r3.meta
          /\ IF r3.ok /\ InactiveSlot(r3.meta) # run.slot
             THEN \E cost \in {0, 1} :
                    StartUpload(h, r3.meta, cost) /\ Spend(r3.cost + cost)
             ELSE UNCHANGED <<flash, upload>> /\ Spend(r3.cost)
  BY DEF Begin
<1>3. PICK r2 \in ThenWrite(r1, Recovery /\ Abandoned(r1.meta), TrialCleared(r1.meta)) :
        \E r3 \in ThenWrite(OnlyIf(r2, Admits(h, r2.meta)),
                            Recovery /\ r2.meta.cslot \in AppSlots
                                     /\ ~ImageValid(r2.meta.cslot),
                            Disowned(r2.meta)) :
          /\ meta' = r3.meta
          /\ IF r3.ok /\ InactiveSlot(r3.meta) # run.slot
             THEN \E cost \in {0, 1} :
                    StartUpload(h, r3.meta, cost) /\ Spend(r3.cost + cost)
             ELSE UNCHANGED <<flash, upload>> /\ Spend(r3.cost)
  BY <1>2
<1>4. PICK r3 \in ThenWrite(OnlyIf(r2, Admits(h, r2.meta)),
                            Recovery /\ r2.meta.cslot \in AppSlots
                                     /\ ~ImageValid(r2.meta.cslot),
                            Disowned(r2.meta)) :
        /\ meta' = r3.meta
        /\ IF r3.ok /\ InactiveSlot(r3.meta) # run.slot
           THEN \E cost \in {0, 1} :
                  StartUpload(h, r3.meta, cost) /\ Spend(r3.cost + cost)
           ELSE UNCHANGED <<flash, upload>> /\ Spend(r3.cost)
  BY <1>3
<1>5. /\ MetaGood(r3.meta) /\ r3.cost \in Nat
      /\ r3.ok => Readable(r3.meta) /\ r3.meta.tslot = NoSlot /\ Newer(h, r3.meta)
  BY BeginWrites
<1>6. MetaGood(meta') /\ meta' \in Meta
  BY <1>4, <1>5 DEF MetaGood
<1>7. TypeOK /\ faults \in 0 .. MaxFaults
  BY DEF IndInv, TypeOK
<1>8. /\ UNCHANGED <<run, phase>>
      /\ Readable(meta') /\ meta'.cslot \in AppSlots => meta'.cgen \in accepted'
      => OnlyAcceptedConfirmed'
  BY <1>1 DEF IndInv, OnlyAcceptedConfirmed, history
<1>9. CASE UNCHANGED <<flash, upload>> /\ Spend(r3.cost)
  <2>1. TypeOK'
    <3>1. faults' \in 0 .. MaxFaults
      BY <1>5, <1>7, <1>9, SpendType
    <3> QED BY <1>1, <1>6, <1>7, <1>9, <3>1 DEF TypeOK, history
  <2>2. ~Uploading'
    BY <1>1, <1>9 DEF Uploading
  <2>3. StoppedIsIdle' /\ UploadTargetUnreferenced' /\ VerifiedInPlace' /\ UploadIsNewer'
    BY <1>1, <2>2 DEF IndInv, StoppedIsIdle, UploadTargetUnreferenced, VerifiedInPlace,
                      UploadIsNewer, Uploading
  <2>4. /\ ReferencedImagesIntact' /\ AttemptsCharged' /\ ActivationsRemembered'
        /\ OnlyAcceptedConfirmed'
    BY <1>1, <1>6, <1>8, <1>9, GoodMetaSuffices
  <2> QED BY <2>1, <2>3, <2>4 DEF IndInv
<1>10. ASSUME r3.ok, InactiveSlot(r3.meta) # run.slot, NEW cost \in {0, 1},
              StartUpload(h, r3.meta, cost), Spend(r3.cost + cost)
       PROVE  IndInv'
  <2> DEFINE s == InactiveSlot(r3.meta)
             fresh == [state |-> "receiving", hdr |-> h, slot |-> s, received |-> 0,
                       metaseq |-> r3.meta.seq]
  <2>1. /\ s \in AppSlots /\ s # run.slot /\ s # meta'.cslot /\ s # meta'.tslot
        /\ Readable(meta') /\ meta'.tslot = NoSlot /\ Newer(h, meta') /\ r3.meta = meta'
    BY <1>4, <1>5, <1>6, <1>10, InactiveApart DEF AppSlots, NoSlot
  <2>2. /\ upload' = upload \/ upload' = fresh
        /\ \E left \in {flash[s].hdr, NoHeader} : flash' = [flash EXCEPT ![s].hdr = left]
    BY <1>10 DEF StartUpload
  <2> HIDE DEF s
  <2>3. /\ flash' \in [AppSlots -> Slot]
        /\ \A x \in AppSlots \ {s} : flash'[x] = flash[x]
    <3>1. flash \in [AppSlots -> Slot] /\ flash[s] \in Slot
      BY <1>7, <2>1 DEF TypeOK
    <3>2. PICK left \in {flash[s].hdr, NoHeader} : flash' = [flash EXCEPT ![s].hdr = left]
      BY <2>2
    <3>3. left \in Header \cup {NoHeader}
      BY <3>1, <3>2 DEF Slot
    <3>4. [flash[s] EXCEPT !.hdr = left] \in Slot
      BY <3>1, <3>3 DEF Slot
    <3> QED BY <2>1, <3>1, <3>2, <3>4
  <2>4. fresh \in Upload
    <3>1. 0 \in 0 .. Chunks /\ r3.meta.seq \in 0 .. SeqLimit - 1
      BY <1>6, <2>1, MetaFields, ConstantsAssumption
    <3> QED BY <2>1, <3>1 DEF Upload
  <2>5. TypeOK'
    <3>1. r3.cost + cost \in Nat
      BY <1>5, <1>10
    <3>2. faults' \in 0 .. MaxFaults
      BY <1>7, <1>10, <3>1, SpendType
    <3>3. upload' \in Upload
      BY <1>7, <2>2, <2>4 DEF TypeOK
    <3> QED BY <1>1, <1>6, <1>7, <2>3, <3>2, <3>3 DEF TypeOK, history
  <2>6. /\ ReferencedImagesIntact' /\ AttemptsCharged' /\ ActivationsRemembered'
        /\ OnlyAcceptedConfirmed'
    <3>1. \A x \in {meta'.cslot, meta'.tslot} : x \in AppSlots => flash'[x] = flash[x]
      BY <2>1, <2>3
    <3> QED BY <1>1, <1>6, <1>8, <3>1, GoodMetaSuffices
  <2>7. Uploading' => /\ upload'.state = "receiving" /\ upload'.slot = s
                      /\ upload'.hdr = h /\ upload'.metaseq = meta'.seq
    BY <1>1, <2>1, <2>2 DEF Uploading
  <2>8. StoppedIsIdle' /\ UploadTargetUnreferenced'
    BY <1>1, <2>1, <2>7 DEF IndInv, StoppedIsIdle, UploadTargetUnreferenced
  <2>9. VerifiedInPlace'
    <3>1. upload'.state = "verified" => Uploading'
      BY DEF Uploading
    <3> QED BY <2>7, <3>1 DEF VerifiedInPlace
  <2>10. UploadIsNewer'
    <3>1. meta'.seq >= meta'.seq
      BY <1>6, MetaFields
    <3> QED BY <2>1, <2>7, <3>1 DEF UploadIsNewer, Newer
  <2> QED BY <2>5, <2>6, <2>8, <2>9, <2>10 DEF IndInv
<1> QED BY <1>4, <1>9, <1>10

-----------------------------------------------------------------------------
(* Invariants.                                                             *)

LEMMA NextKeepsIndInv == IndInv /\ [Next]_vars => IndInv'
<1> SUFFICES ASSUME IndInv, [Next]_vars PROVE IndInv'
  OBVIOUS
<1>1. CASE Stage0
  BY <1>1, Stage0KeepsIndInv
<1>2. CASE Loop
  BY <1>2, LoopKeepsIndInv
<1>3. CASE Request
  <2>1. CASE \E h \in Header : Begin(h)
    BY <2>1, BeginKeepsIndInv
  <2>2. CASE \E offset \in 1 .. Chunks, block \in Images : Append(offset, block)
    BY <2>2, AppendKeepsIndInv
  <2>3. CASE Finish
    BY <2>3, FinishKeepsIndInv
  <2>4. CASE Activate
    BY <2>4, ActivateKeepsIndInv
  <2>5. CASE \E digest \in Images : Confirm(digest)
    BY <2>5, ConfirmKeepsIndInv
  <2>6. CASE Abort \/ RequestRecovery
    <3>1. TypeOK /\ checked \in BOOLEAN /\ faults \in 0 .. MaxFaults
          /\ host_active \in BOOLEAN /\ health \in {"starting", "ready", "fault"}
      BY DEF IndInv, TypeOK
    <3>2. upload' \in Upload /\ ~Uploading'
      <4>1. CASE Abort
        <5>1. upload' = IdleUpload
          BY <4>1 DEF Abort
        <5>2. ~Uploading'
          BY <5>1 DEF Uploading, IdleUpload
        <5> QED BY <5>1, <5>2, ResetValues
      <4>2. CASE RequestRecovery
        BY <3>1, <4>2, EndedUpload DEF RequestRecovery
      <4> QED BY <2>6, <4>1, <4>2
    <3>3. Running /\ UNCHANGED <<phase, run, health, checked, faults, host_active,
                                 nor, marker, cause, history>>
      BY <2>6 DEF Abort, RequestRecovery, Serving
    <3> QED BY <3>1, <3>2, <3>3, QuietKeepsIndInv
  <2> QED BY <1>3, <2>1, <2>2, <2>3, <2>4, <2>5, <2>6 DEF Request
<1>4. CASE Surroundings
  BY <1>4, SurroundingsKeepIndInv
<1>5. CASE UNCHANGED vars
  <2>1. factory_ok' \in BOOLEAN /\ faults' \in 0 .. MaxFaults /\ host_active' \in BOOLEAN
    BY <1>5 DEF vars, nor, IndInv, TypeOK
  <2> QED BY <1>5, <2>1, StillKeepsIndInv DEF vars, nor
<1> QED BY <1>1, <1>2, <1>3, <1>4, <1>5 DEF Next

(* The inductive invariant holds of every run of the board.                *)
THEOREM Invariance == Spec => []IndInv
<1>1. Init => IndInv
  BY InitIndInv
<1>2. IndInv /\ [Next]_vars => IndInv'
  BY NextKeepsIndInv
<1> QED BY <1>1, <1>2, PTL DEF Spec

(* Every variable keeps its type: no handler stores an attempt count, a    *)
(* generation or a slot the metadata has no room for.                      *)
THEOREM TypeCorrect == Spec => []TypeOK
<1>1. IndInv => TypeOK
  BY DEF IndInv
<1> QED BY <1>1, Invariance, PTL

(* Stage 0 and the service never damage an image the metadata names.       *)
THEOREM ReferencedImagesStayIntact == Spec => []ReferencedImagesIntact
<1>1. IndInv => ReferencedImagesIntact
  BY DEF IndInv
<1> QED BY <1>1, Invariance, PTL

(* Nor is a slot written to while it runs or is named by the metadata.     *)
THEOREM UploadsStayApart == Spec => []UploadTargetUnreferenced
<1>1. IndInv => UploadTargetUnreferenced
  BY DEF IndInv
<1> QED BY <1>1, Invariance, PTL

(* A trial nobody confirms is started at most twice, whatever fails.       *)
THEOREM TrialsAreBounded == Spec => []TrialBootBudget
<1>1. IndInv => TrialBootBudget
  BY DEF IndInv, AttemptsCharged, TrialBootBudget
<1> QED BY <1>1, Invariance, PTL

(* Nothing but a provisioned image or a healthy, accepted trial becomes    *)
(* the confirmed application.                                              *)
THEOREM ConfirmationIsEarned == Spec => []OnlyAcceptedConfirmed
<1>1. IndInv => OnlyAcceptedConfirmed
  BY DEF IndInv
<1> QED BY <1>1, Invariance, PTL

(* While the backup domain answers, no reset leaves a launch request over. *)
THEOREM RequestsAreUsedUp ==
  ASSUME "backup" \notin Faults
  PROVE  Spec => []RequestConsumed
<1>1. Init => RequestConsumed
  BY DEF Init, RequestConsumed
<1>2. RequestConsumed /\ [Next]_vars => RequestConsumed'
  <2> SUFFICES ASSUME RequestConsumed, [Next]_vars PROVE RequestConsumed'
    OBVIOUS
  <2> USE DEF RequestConsumed
  <2>1. CASE Stage0
    <3>1. ~marker'
      BY <2>1 DEF Stage0, MarkerLeft
    <3> QED BY <3>1
  <2>2. CASE Loop
    BY <2>2 DEF Loop, BecomeReady, SelfConfirm, Fail, WatchdogReset, TrialDeadline,
                ActivationReset, RecoveryReset, UploadTimeout, AutoLaunch, AutoLaunchNothing, Restart
  <2>3. CASE Request
    BY <2>3 DEF Request, Begin, Append, Finish, Activate, Confirm, Abort, RequestRecovery
  <2>4. CASE Surroundings
    BY <2>4 DEF Surroundings, HostsLeave, PowerCut, ImageDecay, FactoryDecay, MetadataLost,
                Restart
  <2>5. CASE UNCHANGED vars
    BY <2>5 DEF vars
  <2> QED BY <2>1, <2>2, <2>3, <2>4, <2>5 DEF Next
<1> QED BY <1>1, <1>2, PTL DEF Spec

-----------------------------------------------------------------------------
(* Steps.                                                                  *)

LEMMA ActivationIsFresh ==
  ASSUME IndInv, Activate, last_activated' # last_activated
  PROVE  last_activated' > last_activated /\ last_activated' > meta.cgen
<1>1. last_activated' = upload.hdr.gen
  BY DEF Activate
<1>2. \A g \in {meta.cgen, meta.tgen, meta.floor} : upload.hdr.gen > g
  BY DEF Activate, IndInv, UploadIsNewer, Uploading
<1>3. \E g \in {meta.cgen, meta.tgen, meta.floor} : last_activated <= g
  BY DEF Activate, IndInv, ActivationsRemembered
<1>4. /\ meta.cgen \in Nat /\ meta.tgen \in Nat /\ meta.floor \in Nat
      /\ last_activated \in Nat
  BY MetaFields DEF IndInv, TypeOK
<1>5. upload.hdr.gen \in Nat
  BY ConstantsAssumption DEF IndInv, TypeOK, Upload, Header, NoHeader, Gens
<1> QED BY <1>1, <1>2, <1>3, <1>4, <1>5

(* Failed trials included, no generation is activated twice and none below *)
(* one activated before, as long as the metadata can be read.              *)
THEOREM ActivationsAreFresh == Spec => FreshActivations
<1>1. IndInv /\ [Next]_vars =>
        [last_activated' # last_activated =>
           \/ ~Readable(meta')
           \/ last_activated' > last_activated /\ last_activated' > meta.cgen]_vars
  <2> SUFFICES ASSUME IndInv, Next, last_activated' # last_activated, Readable(meta')
               PROVE  last_activated' > last_activated /\ last_activated' > meta.cgen
    BY DEF vars, history
  <2>1. CASE Stage0
    BY <2>1 DEF Stage0
  <2>2. CASE Loop
    BY <2>2 DEF Loop, BecomeReady, SelfConfirm, Fail, WatchdogReset, TrialDeadline,
                ActivationReset, RecoveryReset, UploadTimeout, AutoLaunch, AutoLaunchNothing, history
  <2>3. CASE Request
    BY <2>3, ActivationIsFresh DEF Request, Begin, Append, Finish, Confirm, Abort,
                                   RequestRecovery, history
  <2>4. CASE MetadataLost
    <3>1. ~Readable(meta')
      BY <2>4 DEF MetadataLost, Readable, EmptyMeta
    <3> QED BY <3>1
  <2>5. CASE Surroundings /\ ~MetadataLost
    BY <2>5 DEF Surroundings, HostsLeave, PowerCut, ImageDecay, FactoryDecay, history
  <2> QED BY <2>1, <2>2, <2>3, <2>4, <2>5 DEF Next
<1> QED BY <1>1, Invariance, PTL DEF Spec, FreshActivations

(* What a write makes of a record that goes on to confirm the same image.  *)
Follows(m, n) ==
  n \in Meta /\ n.cgen = m.cgen /\ n.cslot = m.cslot /\ n.seq >= m.seq

LEMMA FollowsFurther ==
  ASSUME NEW l \in Meta, NEW m, NEW n, Follows(l, m), Follows(m, n)
  PROVE  Follows(l, n)
<1>1. l.seq \in Int /\ m.seq \in Int /\ n.seq \in Int
  BY MetaFields DEF Follows
<1> QED BY <1>1 DEF Follows

LEMMA SameFollows ==
  ASSUME NEW m \in Meta
  PROVE  Follows(m, m)
<1>1. m.seq \in Int
  BY MetaFields
<1> QED BY <1>1 DEF Follows

LEMMA WriteFollows ==
  ASSUME NEW old \in Meta, NEW m \in Meta, m.cgen = old.cgen, m.cslot = old.cslot,
         NEW w \in MetaWrite(old, m)
  PROVE  Follows(old, w.meta)
<1>1. w.meta \in Meta /\ (w.meta = old \/ w.meta = [m EXCEPT !.seq = old.seq + 1])
  BY MetaWriteOutcome
<1>2. /\ [m EXCEPT !.seq = old.seq + 1].cgen = m.cgen
      /\ [m EXCEPT !.seq = old.seq + 1].cslot = m.cslot
      /\ [m EXCEPT !.seq = old.seq + 1].seq = old.seq + 1
  BY DEF Meta
<1>3. old.seq + 1 >= old.seq
  BY MetaFields
<1>4. CASE w.meta = old
  BY <1>4, SameFollows
<1>5. CASE w.meta = [m EXCEPT !.seq = old.seq + 1]
  <2>1. w.meta.cgen = old.cgen /\ w.meta.cslot = old.cslot /\ w.meta.seq = old.seq + 1
    BY <1>2, <1>5
  <2> QED BY <1>1, <1>3, <2>1 DEF Follows
<1> QED BY <1>1, <1>4, <1>5

LEMMA ThenWriteFollows ==
  ASSUME NEW r, r.meta \in Meta, NEW needed, NEW m \in Meta,
         m.cgen = r.meta.cgen, m.cslot = r.meta.cslot,
         NEW v \in ThenWrite(r, needed, m)
  PROVE  Follows(r.meta, v.meta)
<1>1. CASE v = r
  BY <1>1, SameFollows
<1>2. ASSUME NEW w \in MetaWrite(r.meta, m), v = [w EXCEPT !.cost = @ + r.cost]
      PROVE  Follows(r.meta, v.meta)
  <2>1. Follows(r.meta, w.meta)
    BY WriteFollows
  <2>2. \/ w = [ok |-> FALSE, meta |-> w.meta, cost |-> w.cost]
        \/ w = [ok |-> TRUE, meta |-> w.meta, cost |-> w.cost]
    BY DEF MetaWrite
  <2>3. v.meta = w.meta
    BY <1>2, <2>2
  <2> QED BY <2>1, <2>3
<1> QED BY <1>1, <1>2 DEF ThenWrite

LEMMA ThenWriteOutcome ==
  ASSUME NEW r, r.meta \in Meta, NEW needed, NEW m \in Meta, NEW v \in ThenWrite(r, needed, m)
  PROVE  /\ v.meta \in Meta
         /\ v.meta = r.meta \/ (needed /\ v.meta = [m EXCEPT !.seq = r.meta.seq + 1])
<1>1. CASE v = r
  BY <1>1
<1>2. ASSUME needed, NEW w \in MetaWrite(r.meta, m), v = [w EXCEPT !.cost = @ + r.cost]
      PROVE  /\ v.meta \in Meta
             /\ v.meta = r.meta \/ v.meta = [m EXCEPT !.seq = r.meta.seq + 1]
  <2>1. w.meta \in Meta /\ (w.meta = r.meta \/ w.meta = [m EXCEPT !.seq = r.meta.seq + 1])
    BY MetaWriteOutcome
  <2>2. \/ w = [ok |-> FALSE, meta |-> w.meta, cost |-> w.cost]
        \/ w = [ok |-> TRUE, meta |-> w.meta, cost |-> w.cost]
    BY DEF MetaWrite
  <2>3. v.meta = w.meta
    BY <1>2, <2>2
  <2> QED BY <2>1, <2>3
<1> QED BY <1>1, <1>2 DEF ThenWrite

(* Only recovery repairs.                                                  *)
LEMMA RepairedKeepsConfirmed ==
  ASSUME NEW m \in Meta
  PROVE  /\ TrialCleared(m).cgen = m.cgen /\ TrialCleared(m).cslot = m.cslot
         /\ Disowned(m).cgen = m.cgen
BY DEF Meta, TrialCleared, Disowned

LEMMA Stage0Follows ==
  ASSUME IndInv, Stage0
  PROVE  Follows(meta, meta')
<1>1. meta \in Meta
  BY DEF IndInv, TypeOK
<1>2. TrialBootable(meta) => /\ Charged \in Meta /\ Charged.cgen = meta.cgen
                             /\ Charged.cslot = meta.cslot
  <2> SUFFICES ASSUME TrialBootable(meta)
               PROVE  /\ Charged \in Meta /\ Charged.cgen = meta.cgen
                      /\ Charged.cslot = meta.cslot
    OBVIOUS
  <2>1. meta.tatt + 1 \in 0 .. MaxTrialAttempts
    BY <1>1, MetaFields DEF TrialBootable, MaxTrialAttempts
  <2> QED BY <1>1, <2>1 DEF Meta, Charged
<1>3. CASE meta' = meta
  BY <1>1, <1>3, SameFollows
<1>4. CASE BootTrial
  <2>1. PICK w \in MetaWrite(meta, Charged) : meta' = w.meta
    BY <1>4 DEF BootTrial
  <2> QED BY <1>1, <1>2, <1>4, <2>1, WriteFollows DEF BootTrial
<1>5. ASSUME NEW cost \in 0 .. 2, BootPastTrial(cost)
      PROVE  Follows(meta, meta')
  <2>1. PICK w \in (IF TrialBootable(meta)
                    THEN {w \in MetaWrite(meta, Charged) : ~w.ok} ELSE {Unwritten}) :
          \E v \in MetaWrite(w.meta, TrialCleared(meta)) : meta' = v.meta
    BY <1>5 DEF BootPastTrial
  <2>2. Follows(meta, w.meta)
    <3>1. CASE TrialBootable(meta)
      <4>1. w \in MetaWrite(meta, Charged)
        BY <2>1, <3>1
      <4> QED BY <1>1, <1>2, <3>1, <4>1, WriteFollows
    <3>2. CASE ~TrialBootable(meta)
      <4>1. w.meta = meta
        BY <2>1, <3>2 DEF Unwritten
      <4> QED BY <1>1, <4>1, SameFollows
    <3> QED BY <3>1, <3>2
  <2>3. /\ TrialCleared(meta) \in Meta /\ TrialCleared(meta).cgen = meta.cgen
        /\ TrialCleared(meta).cslot = meta.cslot
    BY <1>1, RepairedIsMeta, RepairedKeepsConfirmed
  <2>4. PICK v \in MetaWrite(w.meta, TrialCleared(meta)) : meta' = v.meta
    BY <2>1
  <2>5. Follows(w.meta, v.meta)
    BY <2>2, <2>3, WriteFollows DEF Follows
  <2> QED BY <1>1, <2>2, <2>4, <2>5, FollowsFurther
<1>6. \/ meta' = meta
      \/ \E cost \in 0 .. 2 : SelectApplication(cost)
  BY DEF Stage0
<1>7. meta' = meta \/ BootTrial \/ \E cost \in 0 .. 2 : BootPastTrial(cost)
  BY <1>6 DEF SelectApplication, BootConfirmed
<1> QED BY <1>3, <1>4, <1>5, <1>7

LEMMA Stage0Launches ==
  ASSUME IndInv, Stage0
  PROVE  Launched
<1>1. phase = "stage0"
  BY DEF Stage0
<1>2. \/ Halt \/ LaunchFactory \/ LaunchConfirmed
      \/ Readable(meta) /\ TrialBootable(meta) /\ Launch(meta.tslot, TRUE)
  BY DEF Stage0, SelectApplication, BootTrial, BootPastTrial, BootConfirmed
<1> QED BY <1>1, <1>2, HaltOutcome, FactoryOutcome, ConfirmedOutcome, TrialOutcome

LEMMA ActivateFollows ==
  ASSUME IndInv, Activate
  PROVE  Follows(meta, meta')
<1> DEFINE m == [meta EXCEPT !.tslot = upload.slot, !.tgen = upload.hdr.gen, !.tatt = 0]
           n == [m EXCEPT !.seq = meta.seq + 1]
<1>1. meta \in Meta /\ meta' \in Meta
  BY ActivateKeepsIndInv DEF IndInv, TypeOK
<1>2. PICK w \in MetaWrite(meta, m) : meta' = w.meta
  BY DEF Activate
<1>3. meta' = meta \/ meta' = n
  BY <1>2 DEF MetaWrite
<1>4. n.cgen = meta.cgen /\ n.cslot = meta.cslot /\ n.seq = meta.seq + 1
  BY <1>1 DEF Meta
<1>5. meta.seq + 1 >= meta.seq
  BY <1>1, MetaFields
<1> HIDE DEF n
<1> QED BY <1>1, <1>3, <1>4, <1>5, SameFollows DEF Follows

(* Only a damaged image is disowned.                                       *)
LEMMA BeginKeepsConfirmed ==
  ASSUME IndInv, NEW h \in Header, Begin(h), Readable(meta)
  PROVE  /\ meta'.cgen = meta.cgen
         /\ (meta.cslot \in AppSlots => ImageValid(meta.cslot)) => Follows(meta, meta')
<1>1. meta \in Meta
  BY DEF IndInv, TypeOK
<1>2. PICK r1 \in ThenWrite(Unwritten, ~Readable(meta), EmptyMeta) :
        \E r2 \in ThenWrite(r1, Recovery /\ Abandoned(r1.meta), TrialCleared(r1.meta)) :
        \E r3 \in ThenWrite(OnlyIf(r2, Admits(h, r2.meta)),
                            Recovery /\ r2.meta.cslot \in AppSlots
                                     /\ ~ImageValid(r2.meta.cslot),
                            Disowned(r2.meta)) : meta' = r3.meta
  BY DEF Begin
<1>3. PICK r2 \in ThenWrite(r1, Recovery /\ Abandoned(r1.meta), TrialCleared(r1.meta)) :
        \E r3 \in ThenWrite(OnlyIf(r2, Admits(h, r2.meta)),
                            Recovery /\ r2.meta.cslot \in AppSlots
                                     /\ ~ImageValid(r2.meta.cslot),
                            Disowned(r2.meta)) : meta' = r3.meta
  BY <1>2
<1>4. r1.meta = meta
  BY DEF ThenWrite, Unwritten
<1>5. /\ TrialCleared(meta) \in Meta /\ TrialCleared(meta).cgen = meta.cgen
      /\ TrialCleared(meta).cslot = meta.cslot
  BY <1>1, RepairedIsMeta, RepairedKeepsConfirmed
<1>6. Follows(meta, r2.meta)
  BY <1>1, <1>3, <1>4, <1>5, ThenWriteFollows
<1> DEFINE m == r2.meta
           damaged == Recovery /\ m.cslot \in AppSlots /\ ~ImageValid(m.cslot)
<1>7. OnlyIf(r2, Admits(h, m)).meta = m
  BY DEF OnlyIf
<1>8. PICK r3 \in ThenWrite(OnlyIf(r2, Admits(h, m)), damaged, Disowned(m)) : meta' = r3.meta
  BY <1>3
<1>9. m \in Meta /\ m.cgen = meta.cgen /\ m.cslot = meta.cslot
  BY <1>6 DEF Follows
<1>10. ~damaged => meta' = m
  BY <1>7, <1>8 DEF ThenWrite
<1>11. meta'.cgen = m.cgen
  <2>1. Disowned(m) \in Meta /\ Disowned(m).cgen = m.cgen
    BY <1>9, RepairedIsMeta, RepairedKeepsConfirmed
  <2>2. CASE r3.meta = m
    BY <1>8, <2>2
  <2>3. CASE r3.meta = [Disowned(m) EXCEPT !.seq = m.seq + 1]
    BY <1>8, <2>1, <2>3 DEF Meta
  <2>4. r3.meta = m \/ r3.meta = [Disowned(m) EXCEPT !.seq = m.seq + 1]
    BY <1>7, <1>8, <1>9, <2>1, ThenWriteOutcome
  <2> QED BY <2>2, <2>3, <2>4
<1> QED BY <1>6, <1>9, <1>10, <1>11

(* Confirming a trial raises the confirmed generation.                     *)
LEMMA ConfirmRaisesCgen ==
  ASSUME IndInv, NEW digest, Confirm(digest)
  PROVE  meta'.cgen >= meta.cgen
<1>1. meta \in Meta /\ meta.cgen \in Nat /\ run.slot \in AppSlots
  BY MetaFields DEF IndInv, TypeOK, Confirm
<1>2. CASE meta' = meta
  BY <1>1, <1>2
<1>3. ASSUME meta' # meta, run.trial, Readable(meta), meta.tslot = run.slot,
             meta.tgen = run.gen,
             NEW w \in MetaWrite(meta, [meta EXCEPT !.cslot = run.slot, !.cgen = run.gen,
                                        !.tslot = NoSlot, !.tgen = 0, !.tatt = 0]),
             meta' = w.meta
      PROVE  meta'.cgen >= meta.cgen
  <2>1. run.gen > meta.cgen /\ run.gen \in Nat
    BY <1>1, <1>3, MetaFields DEF IndInv, ActivationsRemembered, AppSlots, NoSlot
  <2>2. w.meta = [[meta EXCEPT !.cslot = run.slot, !.cgen = run.gen,
                               !.tslot = NoSlot, !.tgen = 0, !.tatt = 0]
                  EXCEPT !.seq = meta.seq + 1]
    BY <1>3 DEF MetaWrite
  <2>3. meta'.cgen = run.gen
    BY <1>1, <1>3, <2>2 DEF Meta
  <2> QED BY <1>1, <2>1, <2>3
<1> QED BY <1>2, <1>3 DEF Confirm, BootConfirm

(* The confirmed generation never goes back, and Stage 0 starts nothing    *)
(* older than it, as long as the metadata can be read.                     *)
THEOREM NeverRollsBack == Spec => NoRollback
<1>1. IndInv /\ [Next]_vars =>
        [/\ Readable(meta) /\ Readable(meta') => meta'.cgen >= meta.cgen
         /\ Readable(meta) /\ phase = "stage0" /\ phase' = "run" /\ run'.slot \in AppSlots
              => run'.gen >= meta.cgen]_vars
  <2> SUFFICES ASSUME IndInv, Next
               PROVE  /\ Readable(meta) /\ Readable(meta') => meta'.cgen >= meta.cgen
                      /\ phase = "stage0" /\ phase' = "run" /\ run'.slot \in AppSlots
                           => run'.gen >= meta.cgen
    OBVIOUS
  <2>1. meta.cgen \in Nat
    BY MetaFields DEF IndInv, TypeOK
  <2>2. CASE meta' = meta /\ ~(phase = "stage0" /\ phase' = "run")
    BY <2>1, <2>2
  <2>3. CASE Stage0
    <3>1. phase' = "run" => Launched
      BY <2>3, Stage0Launches
    <3> QED BY <2>1, <2>3, <3>1, Stage0Follows DEF Launched, Follows
  <2>4. CASE Loop
    BY <2>2, <2>4 DEF Loop, BecomeReady, SelfConfirm, Fail, WatchdogReset, TrialDeadline,
                ActivationReset, RecoveryReset, UploadTimeout, AutoLaunch, AutoLaunchNothing, Running,
                AutoLaunchDue, nor
  <2>5. CASE Request
    <3>1. phase = "run"
      BY <2>5 DEF Request, Begin, Append, Finish, Activate, Confirm, Abort, RequestRecovery,
                  Serving, Running
    <3>2. CASE \E h \in Header : Begin(h)
      BY <2>1, <3>1, <3>2, BeginKeepsConfirmed
    <3>3. CASE \E offset \in 1 .. Chunks, block \in Images : Append(offset, block)
      BY <2>2, <3>1, <3>3 DEF Append
    <3>4. CASE Finish \/ Abort \/ RequestRecovery
      BY <2>2, <3>1, <3>4 DEF Finish, Abort, RequestRecovery, nor
    <3>5. CASE Activate
      BY <2>1, <3>1, <3>5, ActivateFollows DEF Follows
    <3>6. CASE \E digest \in Images : Confirm(digest)
      BY <3>1, <3>6, ConfirmRaisesCgen
    <3> QED BY <2>5, <3>2, <3>3, <3>4, <3>5, <3>6 DEF Request
  <2>6. CASE MetadataLost
    <3>1. ~Readable(meta') /\ phase' = phase
      BY <2>6 DEF MetadataLost, Readable, EmptyMeta
    <3> QED BY <3>1
  <2>7. CASE Surroundings /\ ~MetadataLost
    BY <2>2, <2>7 DEF Surroundings, HostsLeave, PowerCut, ImageDecay, FactoryDecay, Restart, nor
  <2> QED BY <2>3, <2>4, <2>5, <2>6, <2>7 DEF Next
<1> QED BY <1>1, Invariance, PTL DEF Spec, NoRollback


-----------------------------------------------------------------------------
(* What the records a handler writes promise.                              *)

SamePromise(m, n) ==
  /\ Confirmed(n) = Confirmed(m) /\ Candidate(n) = Candidate(m)
  /\ TriesLeft(n) = TriesLeft(m) /\ Burned(n) = Burned(m)

(* A trial given up is no candidate any more, but stays burned.            *)
LEMMA ClearedPromise ==
  ASSUME NEW m \in Meta, NEW s
  PROVE  LET n == [TrialCleared(m) EXCEPT !.seq = s] IN
         /\ Confirmed(n) = Confirmed(m) /\ Candidate(n) = 0 /\ TriesLeft(n) = 0
         /\ Burned(n) = Burned(m)
<1> DEFINE n == [TrialCleared(m) EXCEPT !.seq = s]
<1>1. /\ n.cslot = m.cslot /\ n.cgen = m.cgen /\ n.tslot = NoSlot /\ n.tgen = 0
      /\ n.floor = Larger(m.floor, m.tgen)
  BY DEF Meta, TrialCleared
<1> HIDE DEF n
<1>2. n.tslot \notin AppSlots
  BY <1>1 DEF AppSlots, NoSlot
<1>3. Burned(n) = Burned(m)
  <2>1. m.cgen \in Nat /\ m.tgen \in Nat /\ m.floor \in Nat
    BY MetaFields
  <2> QED BY <1>1, <2>1 DEF Burned, Larger
<1>4. Confirmed(n) = Confirmed(m) /\ Candidate(n) = 0 /\ TriesLeft(n) = 0
  BY <1>1, <1>2 DEF Confirmed, Candidate, TriesLeft
<1> QED BY <1>3, <1>4 DEF n

(* A disowned image is not fallen back on any more, but stays burned.      *)
LEMMA DisownedPromise ==
  ASSUME NEW m \in Meta, NEW s
  PROVE  LET n == [Disowned(m) EXCEPT !.seq = s] IN
         /\ Confirmed(n) = 0 /\ Candidate(n) = Candidate(m)
         /\ TriesLeft(n) = TriesLeft(m) /\ Burned(n) = Burned(m)
<1> DEFINE n == [Disowned(m) EXCEPT !.seq = s]
<1>1. /\ n.cslot = NoSlot /\ n.cgen = m.cgen /\ n.tslot = m.tslot /\ n.tgen = m.tgen
      /\ n.tatt = m.tatt /\ n.floor = m.floor
  BY DEF Meta, Disowned
<1> HIDE DEF n
<1>2. n.cslot \notin AppSlots
  BY <1>1 DEF AppSlots, NoSlot
<1>3. /\ Confirmed(n) = 0 /\ Candidate(n) = Candidate(m)
      /\ TriesLeft(n) = TriesLeft(m) /\ Burned(n) = Burned(m)
  BY <1>1, <1>2 DEF Confirmed, Candidate, TriesLeft, Burned
<1> QED BY <1>3 DEF n

(* A charge uses up one of the candidate's tries.                          *)
LEMMA ChargedPromise ==
  ASSUME NEW m \in Meta, m.tslot \in AppSlots, NEW s
  PROVE  LET n == [[m EXCEPT !.tatt = @ + 1] EXCEPT !.seq = s] IN
         /\ Confirmed(n) = Confirmed(m) /\ Candidate(n) = Candidate(m)
         /\ TriesLeft(n) = TriesLeft(m) - 1 /\ Burned(n) = Burned(m)
<1> DEFINE n == [[m EXCEPT !.tatt = @ + 1] EXCEPT !.seq = s]
<1>1. /\ n.cslot = m.cslot /\ n.cgen = m.cgen /\ n.tslot = m.tslot /\ n.tgen = m.tgen
      /\ n.tatt = m.tatt + 1 /\ n.floor = m.floor
  BY DEF Meta
<1> HIDE DEF n
<1>2. m.tatt \in Nat
  BY MetaFields DEF MaxTrialAttempts
<1>3. /\ Confirmed(n) = Confirmed(m) /\ Candidate(n) = Candidate(m)
      /\ TriesLeft(n) = TriesLeft(m) - 1 /\ Burned(n) = Burned(m)
  BY <1>1, <1>2 DEF Confirmed, Candidate, TriesLeft, Burned, MaxTrialAttempts
<1> QED BY <1>3 DEF n

(* A first record promises what an unreadable one does: nothing.           *)
LEMMA EmptyPromise ==
  ASSUME NEW s
  PROVE  SamePromise(EmptyMeta, [EmptyMeta EXCEPT !.seq = s])
BY DEF SamePromise, Confirmed, Candidate, TriesLeft, Burned, EmptyMeta

-----------------------------------------------------------------------------
(* What runs.                                                              *)

LEMMA OffUnlessRunning == phase # "run" => Current = Promise!Off
BY DEF Current, Promise!Off

(* Nothing the promise speaks about changes.                               *)
LEMMA InvisibleStep ==
  ASSUME TypeOK, UNCHANGED <<meta, phase>>,
         run' = run \/ run' = [run EXCEPT !.confirmed = TRUE]
  PROVE  UNCHANGED Promise!vars
<1>1. run'.slot = run.slot /\ run'.gen = run.gen /\ run'.trial = run.trial
  BY DEF TypeOK, BootInfo
<1>2. Current' = Current
  BY <1>1 DEF Current, Recovery
<1>3. /\ Confirmed(meta)' = Confirmed(meta) /\ Candidate(meta)' = Candidate(meta)
      /\ TriesLeft(meta)' = TriesLeft(meta) /\ Burned(meta)' = Burned(meta)
  BY DEF Confirmed, Candidate, TriesLeft, Burned
<1> QED BY <1>2, <1>3 DEF Promise!vars

LEMMA RestartIsStop ==
  ASSUME NEW why, Restart(why), UNCHANGED meta
  PROVE  Promise!Stop
<1>1. Current' = Promise!Off
  BY DEF Restart, Current, Promise!Off
<1>2. /\ Confirmed(meta)' = Confirmed(meta) /\ Candidate(meta)' = Candidate(meta)
      /\ TriesLeft(meta)' = TriesLeft(meta) /\ Burned(meta)' = Burned(meta)
  BY DEF Confirmed, Candidate, TriesLeft, Burned
<1> QED BY <1>1, <1>2 DEF Promise!Stop

-----------------------------------------------------------------------------
(* Stage 0.                                                                *)

LEMMA HaltIsOff ==
  ASSUME Halt
  PROVE  Current' = Promise!Off
BY DEF Halt, Current, Promise!Off

LEMMA FactoryIsRecovery ==
  ASSUME LaunchFactory
  PROVE  Current' \in {Promise!InRecovery, Promise!Off}
<1>1. CASE Halt
  BY <1>1, HaltIsOff
<1>2. CASE phase' = "run" /\ run' = [slot |-> Factory, trial |-> FALSE,
                                     confirmed |-> FALSE, gen |-> 0]
  <2>1. run'.slot = Factory /\ run'.gen = 0
    BY <1>2
  <2> QED BY <1>2, <2>1 DEF Current, Recovery, Promise!InRecovery
<1> QED BY <1>1, <1>2 DEF LaunchFactory, Launch

LEMMA ConfirmedIsGood ==
  ASSUME IndInv, LaunchConfirmed
  PROVE  \/ Confirmed(meta) # 0 /\ Current' = Promise!Using(Confirmed(meta))
         \/ Current' \in {Promise!InRecovery, Promise!Off}
<1>1. CASE Halt
  BY <1>1, HaltIsOff
<1>2. CASE LaunchFactory
  BY <1>2, FactoryIsRecovery
<1>3. ASSUME ConfirmedBootable(meta), phase' = "run",
             run' = [slot |-> meta.cslot, trial |-> FALSE, confirmed |-> FALSE,
                     gen |-> IF meta.cslot = Factory THEN 0
                             ELSE flash[meta.cslot].hdr.gen]
      PROVE  Confirmed(meta) # 0 /\ Current' = Promise!Using(Confirmed(meta))
  <2>1. meta.cslot \in AppSlots /\ meta.cslot # Factory
        /\ flash[meta.cslot].hdr.gen = meta.cgen /\ ImageValid(meta.cslot)
    BY <1>3 DEF ConfirmedBootable, AppSlots, Factory
  <2>2. meta.cgen # 0
    BY <2>1, ValidHasHeader, ConstantsAssumption DEF IndInv, Gens
  <2>3. run'.slot # Factory /\ run'.gen = meta.cgen /\ ~run'.trial
    BY <1>3, <2>1
  <2> QED BY <1>3, <2>1, <2>2, <2>3 DEF Current, Recovery, Confirmed, Promise!Using
<1> QED BY <1>1, <1>2, <1>3 DEF LaunchConfirmed, Launch

LEMMA TrialIsTried ==
  ASSUME TrialBootable(meta), Launch(meta.tslot, TRUE)
  PROVE  Current' \in {Promise!Trying(Candidate(meta)), Promise!Off}
<1>1. CASE Halt
  BY <1>1, HaltIsOff
<1>2. CASE phase' = "run" /\ run' = [slot |-> meta.tslot, trial |-> TRUE, confirmed |-> FALSE,
                                     gen |-> IF meta.tslot = Factory THEN 0
                                             ELSE flash[meta.tslot].hdr.gen]
  <2>1. meta.tslot \in AppSlots /\ meta.tslot # Factory
        /\ flash[meta.tslot].hdr.gen = meta.tgen
    BY DEF TrialBootable, AppSlots, Factory
  <2>2. run'.slot # Factory /\ run'.gen = meta.tgen /\ run'.trial
    BY <1>2, <2>1
  <2> QED BY <1>2, <2>1, <2>2 DEF Current, Recovery, Candidate, Promise!Trying
<1> QED BY <1>1, <1>2 DEF Launch

(* The writes before falling back: nothing, a charge, or the end of the    *)
(* trial.                                                                  *)
LEMMA PastTrialPromise ==
  ASSUME IndInv, NEW cost \in 0 .. 2, BootPastTrial(cost)
  PROVE  /\ Confirmed(meta)' = Confirmed(meta) /\ Burned(meta)' = Burned(meta)
         /\ Promise!Drop \/ Promise!UseUp \/ Promise!Keep
<1> DEFINE Writes(m) ==
      /\ m \in Meta /\ Confirmed(m) = Confirmed(meta) /\ Burned(m) = Burned(meta)
      /\ \/ Candidate(m) = 0 /\ TriesLeft(m) = 0
         \/ /\ TriesLeft(meta) > 0 /\ TriesLeft(m) = TriesLeft(meta) - 1
            /\ Candidate(m) = Candidate(meta)
         \/ Candidate(m) = Candidate(meta) /\ TriesLeft(m) = TriesLeft(meta)
<1>1. meta \in Meta /\ TrialCleared(meta) \in Meta /\ Writes(meta)
  BY RepairedIsMeta DEF IndInv, TypeOK
<1>2. PICK w \in (IF TrialBootable(meta)
                  THEN {w \in MetaWrite(meta, Charged) : ~w.ok} ELSE {Unwritten}) :
        \E v \in MetaWrite(w.meta, TrialCleared(meta)) : meta' = v.meta
  BY DEF BootPastTrial
<1>3. Writes(w.meta)
  <2>1. CASE ~TrialBootable(meta)
    BY <1>1, <1>2, <2>1 DEF Unwritten
  <2>2. CASE TrialBootable(meta)
    <3>1. w \in MetaWrite(meta, Charged)
      BY <1>2, <2>2
    <3>2. /\ meta.tslot \in AppSlots /\ meta.tatt < MaxTrialAttempts /\ meta.tatt \in Nat
      BY <1>1, <2>2, MetaFields DEF TrialBootable, MaxTrialAttempts
    <3>3. Charged \in Meta
      <4>1. meta.tatt + 1 \in 0 .. MaxTrialAttempts
        BY <3>2 DEF MaxTrialAttempts
      <4> QED BY <1>1, <4>1 DEF Meta, Charged
    <3>4. /\ w.meta \in Meta
          /\ w.meta = meta \/ w.meta = [Charged EXCEPT !.seq = meta.seq + 1]
      BY <1>1, <3>1, <3>3, MetaWriteOutcome
    <3>5. CASE w.meta = meta
      BY <1>1, <3>5
    <3>6. CASE w.meta = [Charged EXCEPT !.seq = meta.seq + 1]
      <4>1. /\ Confirmed(w.meta) = Confirmed(meta) /\ Candidate(w.meta) = Candidate(meta)
            /\ TriesLeft(w.meta) = TriesLeft(meta) - 1 /\ Burned(w.meta) = Burned(meta)
        BY <1>1, <3>2, <3>6, ChargedPromise DEF Charged
      <4>2. TriesLeft(meta) > 0
        BY <3>2 DEF TriesLeft, MaxTrialAttempts
      <4> QED BY <3>4, <4>1, <4>2
    <3> QED BY <3>4, <3>5, <3>6
  <2> QED BY <2>1, <2>2
<1>4. Writes(meta')
  <2>1. PICK v \in MetaWrite(w.meta, TrialCleared(meta)) : meta' = v.meta
    BY <1>2
  <2>2. /\ meta' \in Meta
        /\ meta' = w.meta \/ meta' = [TrialCleared(meta) EXCEPT !.seq = w.meta.seq + 1]
    BY <1>1, <1>3, <2>1, MetaWriteOutcome
  <2>3. CASE meta' = w.meta
    BY <1>3, <2>3
  <2>4. CASE meta' = [TrialCleared(meta) EXCEPT !.seq = w.meta.seq + 1]
    <3>1. /\ Confirmed(meta') = Confirmed(meta) /\ Candidate(meta') = 0
          /\ TriesLeft(meta') = 0 /\ Burned(meta') = Burned(meta)
      BY <1>1, <2>4, ClearedPromise
    <3> QED BY <2>2, <3>1
  <2> QED BY <2>2, <2>3, <2>4
<1> QED BY <1>4 DEF Promise!Drop, Promise!UseUp, Promise!Keep, Promise!None

LEMMA Stage0KeepsPromise ==
  ASSUME IndInv, Stage0
  PROVE  [Promise!Next]_(Promise!vars)
<1>1. Current = Promise!Off
  BY OffUnlessRunning DEF Stage0
<1>2. ASSUME UNCHANGED meta
      PROVE  /\ Confirmed(meta)' = Confirmed(meta) /\ Candidate(meta)' = Candidate(meta)
             /\ TriesLeft(meta)' = TriesLeft(meta) /\ Burned(meta)' = Burned(meta)
  BY <1>2 DEF Confirmed, Candidate, TriesLeft, Burned
<1>3. CASE Halt /\ UNCHANGED meta
  BY <1>1, <1>2, <1>3, HaltIsOff DEF Promise!vars
<1>4. CASE LaunchFactory /\ UNCHANGED meta
  BY <1>1, <1>2, <1>4, FactoryIsRecovery DEF Promise!Next, Promise!FallBack, Promise!Keep
<1>5. CASE BootConfirmed
  BY <1>1, <1>2, <1>5, ConfirmedIsGood
     DEF BootConfirmed, Promise!Next, Promise!FallBack, Promise!Keep, Promise!None
<1>6. ASSUME NEW cost \in 0 .. 2, BootPastTrial(cost)
      PROVE  Promise!FallBack
  <2>1. LaunchConfirmed
    BY <1>6 DEF BootPastTrial
  <2> QED BY <1>1, <1>6, <2>1, ConfirmedIsGood, PastTrialPromise
          DEF Promise!FallBack, Promise!None
<1>7. CASE BootTrial
  <2>1. PICK w \in MetaWrite(meta, Charged) : w.ok /\ meta' = w.meta
    BY <1>7 DEF BootTrial
  <2>2. /\ meta \in Meta /\ TrialBootable(meta) /\ meta.tslot \in AppSlots
        /\ meta.tatt < MaxTrialAttempts /\ meta.tatt \in Nat /\ ImageValid(meta.tslot)
        /\ flash[meta.tslot].hdr.gen = meta.tgen
    BY <1>7, MetaFields DEF BootTrial, TrialBootable, IndInv, TypeOK, MaxTrialAttempts
  <2>3. Charged \in Meta
    <3>1. meta.tatt + 1 \in 0 .. MaxTrialAttempts
      BY <2>2 DEF MaxTrialAttempts
    <3> QED BY <2>2, <3>1 DEF Meta, Charged
  <2>4. meta' = [Charged EXCEPT !.seq = meta.seq + 1]
    BY <2>1, <2>2, <2>3, MetaWriteOutcome
  <2>5. /\ Confirmed(meta') = Confirmed(meta) /\ Candidate(meta') = Candidate(meta)
        /\ TriesLeft(meta') = TriesLeft(meta) - 1 /\ Burned(meta') = Burned(meta)
    BY <2>2, <2>4, ChargedPromise DEF Charged
  <2>6. Candidate(meta) # 0 /\ TriesLeft(meta) > 0
    <3>1. meta.tgen \in Gens
      BY <2>2, ValidHasHeader DEF IndInv
    <3> QED BY <2>2, <3>1, ConstantsAssumption DEF Candidate, TriesLeft, MaxTrialAttempts, Gens
  <2>7. Current' \in {Promise!Trying(Candidate(meta)), Promise!Off}
    BY <1>7, <2>2, TrialIsTried DEF BootTrial
  <2>8. Promise!StartTrial
    BY <1>1, <2>5, <2>6, <2>7 DEF Promise!StartTrial, Promise!None
  <2> QED BY <2>8 DEF Promise!Next
<1>8. \/ Halt /\ UNCHANGED meta
      \/ LaunchFactory /\ UNCHANGED meta
      \/ BootConfirmed \/ BootTrial
      \/ \E cost \in 0 .. 2 : BootPastTrial(cost)
  BY DEF Stage0, SelectApplication
<1> QED BY <1>3, <1>4, <1>5, <1>6, <1>7, <1>8 DEF Promise!Next

-----------------------------------------------------------------------------
(* Requests.                                                               *)

(* What repairs may do to the promise.                                     *)
Repaired(m, n) ==
  /\ Burned(n) = Burned(m)
  /\ Confirmed(n) \in {Confirmed(m), 0}
  /\ \/ Candidate(n) = Candidate(m) /\ TriesLeft(n) = TriesLeft(m)
     \/ Candidate(n) = 0 /\ TriesLeft(n) = 0

LEMMA BeginRepairs ==
  ASSUME IndInv, NEW h \in Header, Begin(h)
  PROVE  meta' = meta \/ (Recovery /\ Repaired(meta, meta'))
<1>1. meta \in Meta /\ EmptyMeta \in Meta /\ (~Readable(meta) => meta = EmptyMeta)
  BY RepairedIsMeta DEF IndInv, TypeOK, ActivationsRemembered
<1>2. PICK r1 \in ThenWrite(Unwritten, ~Readable(meta), EmptyMeta) :
        \E r2 \in ThenWrite(r1, Recovery /\ Abandoned(r1.meta), TrialCleared(r1.meta)) :
        \E r3 \in ThenWrite(OnlyIf(r2, Admits(h, r2.meta)),
                            Recovery /\ r2.meta.cslot \in AppSlots
                                     /\ ~ImageValid(r2.meta.cslot),
                            Disowned(r2.meta)) : meta' = r3.meta
  BY DEF Begin
<1>3. PICK r2 \in ThenWrite(r1, Recovery /\ Abandoned(r1.meta), TrialCleared(r1.meta)) :
        \E r3 \in ThenWrite(OnlyIf(r2, Admits(h, r2.meta)),
                            Recovery /\ r2.meta.cslot \in AppSlots
                                     /\ ~ImageValid(r2.meta.cslot),
                            Disowned(r2.meta)) : meta' = r3.meta
  BY <1>2
<1>4. /\ r1.meta \in Meta
      /\ r1.meta = meta \/ (Recovery /\ Repaired(meta, r1.meta))
  <2>1. /\ r1.meta \in Meta
        /\ \/ r1.meta = meta
           \/ ~Readable(meta) /\ r1.meta = [EmptyMeta EXCEPT !.seq = meta.seq + 1]
    <3> DEFINE needed == ~Readable(meta)
    <3>1. Unwritten.meta = meta /\ r1 \in ThenWrite(Unwritten, needed, EmptyMeta)
      BY DEF Unwritten
    <3> HIDE DEF needed
    <3>2. /\ r1.meta \in Meta
          /\ \/ r1.meta = Unwritten.meta
             \/ needed /\ r1.meta = [EmptyMeta EXCEPT !.seq = Unwritten.meta.seq + 1]
      BY <1>1, <3>1, ThenWriteOutcome
    <3> QED BY <3>1, <3>2 DEF needed
  <2>2. Readable(meta) \/ Recovery
    BY DEF Begin
  <2>3. ~Readable(meta) => SamePromise(meta, [EmptyMeta EXCEPT !.seq = meta.seq + 1])
    BY <1>1, EmptyPromise
  <2> QED BY <2>1, <2>2, <2>3 DEF SamePromise, Repaired
<1>5. /\ r2.meta \in Meta
      /\ r2.meta = r1.meta \/ (Recovery /\ Repaired(r1.meta, r2.meta))
  <2>1. TrialCleared(r1.meta) \in Meta
    BY <1>4, RepairedIsMeta
  <2>2. /\ r2.meta \in Meta
        /\ \/ r2.meta = r1.meta
           \/ Recovery /\ r2.meta = [TrialCleared(r1.meta) EXCEPT !.seq = r1.meta.seq + 1]
    <3> DEFINE needed == Recovery /\ Abandoned(r1.meta)
               m == TrialCleared(r1.meta)
    <3>1. r2 \in ThenWrite(r1, needed, m) /\ m \in Meta /\ r1.meta \in Meta
      BY <1>3, <1>4, <2>1
    <3> HIDE DEF needed, m
    <3>2. /\ r2.meta \in Meta
          /\ r2.meta = r1.meta \/ (needed /\ r2.meta = [m EXCEPT !.seq = r1.meta.seq + 1])
      BY <3>1, ThenWriteOutcome
    <3> QED BY <3>2 DEF needed, m
  <2>3. Repaired(r1.meta, [TrialCleared(r1.meta) EXCEPT !.seq = r1.meta.seq + 1])
    BY <1>4, ClearedPromise DEF Repaired
  <2> QED BY <2>2, <2>3
<1>6. meta' = r2.meta \/ (Recovery /\ Repaired(r2.meta, meta'))
  <2>1. OnlyIf(r2, Admits(h, r2.meta)).meta = r2.meta
    BY DEF OnlyIf
  <2>2. Disowned(r2.meta) \in Meta
    BY <1>5, RepairedIsMeta
  <2>3. \/ meta' = r2.meta
        \/ Recovery /\ meta' = [Disowned(r2.meta) EXCEPT !.seq = r2.meta.seq + 1]
    <3> DEFINE start == OnlyIf(r2, Admits(h, r2.meta))
               needed == /\ Recovery /\ r2.meta.cslot \in AppSlots
                         /\ ~ImageValid(r2.meta.cslot)
               m == Disowned(r2.meta)
    <3>1. PICK r3 \in ThenWrite(start, needed, m) : meta' = r3.meta
      BY <1>3
    <3>2. start.meta = r2.meta /\ m \in Meta /\ r2.meta \in Meta
      BY <1>5, <2>1, <2>2
    <3> HIDE DEF start, needed, m
    <3>3. \/ r3.meta = start.meta
          \/ needed /\ r3.meta = [m EXCEPT !.seq = start.meta.seq + 1]
      BY <3>1, <3>2, ThenWriteOutcome
    <3> QED BY <3>1, <3>2, <3>3 DEF needed, m
  <2>4. Repaired(r2.meta, [Disowned(r2.meta) EXCEPT !.seq = r2.meta.seq + 1])
    BY <1>5, DisownedPromise DEF Repaired
  <2> QED BY <2>3, <2>4
<1> QED BY <1>4, <1>5, <1>6 DEF Repaired

LEMMA BeginKeepsPromise ==
  ASSUME IndInv, NEW h \in Header, Begin(h)
  PROVE  [Promise!Next]_(Promise!vars)
<1>1. UNCHANGED <<run, phase>> /\ phase = "run"
  BY DEF Begin, Serving, Running
<1>2. CASE meta' = meta
  BY <1>1, <1>2, InvisibleStep DEF IndInv
<1>3. CASE Recovery /\ Repaired(meta, meta')
  <2>1. Current = Promise!InRecovery /\ Current' = Current
    BY <1>1, <1>3 DEF Current, Recovery, Promise!InRecovery, IndInv, StoppedIsIdle
  <2>2. Promise!Repair
    BY <1>3, <2>1 DEF Repaired, Promise!Repair, Promise!Drop, Promise!Keep, Promise!None
  <2> QED BY <2>2 DEF Promise!Next
<1> QED BY <1>2, <1>3, BeginRepairs

(* Activation is an offer.                                                 *)
LEMMA ActivateKeepsPromise ==
  ASSUME IndInv, Activate
  PROVE  [Promise!Next]_(Promise!vars)
<1> DEFINE m == [meta EXCEPT !.tslot = upload.slot, !.tgen = upload.hdr.gen, !.tatt = 0]
<1>1. /\ UNCHANGED <<run, phase>> /\ phase = "run"
      /\ upload.state = "verified" /\ Readable(meta) /\ meta.seq = upload.metaseq
      /\ meta.tslot = NoSlot
  BY DEF Activate, Serving, Running
<1>2. PICK w \in MetaWrite(meta, m) : meta' = w.meta
  BY DEF Activate
<1>3. w.meta = meta \/ w.meta = [m EXCEPT !.seq = meta.seq + 1]
  BY <1>2 DEF MetaWrite
<1>4. CASE meta' = meta
  BY <1>1, <1>4, InvisibleStep DEF IndInv
<1>5. CASE meta' = [m EXCEPT !.seq = meta.seq + 1]
  <2>1. TypeOK /\ meta \in Meta /\ upload.slot \in AppSlots /\ upload.hdr.gen \in Gens
    BY <1>1, UploadFields DEF IndInv, TypeOK, VerifiedInPlace, Uploading, Header
  <2>2. /\ meta'.cslot = meta.cslot /\ meta'.cgen = meta.cgen /\ meta'.floor = meta.floor
        /\ meta'.tslot = upload.slot /\ meta'.tgen = upload.hdr.gen /\ meta'.tatt = 0
    BY <1>5, <2>1 DEF Meta
  <2>3. /\ upload.hdr.gen > meta.cgen /\ upload.hdr.gen > meta.tgen
        /\ upload.hdr.gen > meta.floor
    BY <1>1 DEF IndInv, UploadIsNewer, Uploading
  <2>4. /\ meta.cgen \in Nat /\ meta.tgen \in Nat /\ meta.floor \in Nat
        /\ upload.hdr.gen \in Nat
    BY <2>1, MetaFields, ConstantsAssumption DEF Gens
  <2>5. Burned(meta') = upload.hdr.gen /\ upload.hdr.gen > Burned(meta)
    BY <2>2, <2>3, <2>4 DEF Burned, Larger
  <2>6. Candidate(meta) = 0
    BY <1>1 DEF Candidate, AppSlots, NoSlot
  <2>7. /\ Candidate(meta') = upload.hdr.gen /\ TriesLeft(meta') = MaxTrialAttempts
        /\ Confirmed(meta') = Confirmed(meta)
    BY <2>1, <2>2 DEF Candidate, TriesLeft, Confirmed, MaxTrialAttempts
  <2>8. Current # Promise!Off /\ Current' = Current
    BY <1>1 DEF Current, Recovery, Promise!Off
  <2>9. Promise!Offer(upload.hdr.gen)
    BY <2>5, <2>6, <2>7, <2>8 DEF Promise!Offer, Promise!None
  <2> QED BY <2>1, <2>9 DEF Promise!Next, Promise!Gens, Gens
<1> QED BY <1>2, <1>3, <1>4, <1>5

(* Confirmation is acceptance of what runs.                                *)
LEMMA ConfirmKeepsPromise ==
  ASSUME IndInv, NEW digest, Confirm(digest)
  PROVE  [Promise!Next]_(Promise!vars)
<1> DEFINE m == [meta EXCEPT !.cslot = run.slot, !.cgen = run.gen,
                             !.tslot = NoSlot, !.tgen = 0, !.tatt = 0]
<1>1. /\ UNCHANGED phase /\ phase = "run" /\ run.slot \in AppSlots /\ BootConfirm
  BY DEF Confirm, Serving, Running
<1>2. /\ TypeOK /\ meta \in Meta /\ run \in BootInfo /\ run.gen \in Gens
  BY <1>1 DEF IndInv, TypeOK, StoppedIsIdle
<1>3. run' = run \/ run' = [run EXCEPT !.confirmed = TRUE]
  BY <1>1 DEF BootConfirm
<1>4. CASE meta' = meta
  BY <1>1, <1>2, <1>3, <1>4, InvisibleStep
<1>5. CASE /\ meta' = [m EXCEPT !.seq = meta.seq + 1]
           /\ run.trial /\ Readable(meta) /\ meta.tslot = run.slot /\ meta.tgen = run.gen
  <2>1. /\ meta'.cslot = run.slot /\ meta'.cgen = run.gen /\ meta'.floor = meta.floor
        /\ meta'.tslot = NoSlot /\ meta'.tgen = 0
    BY <1>2, <1>5 DEF Meta
  <2>2. run.gen > meta.cgen
    BY <1>1, <1>5 DEF IndInv, ActivationsRemembered, AppSlots, NoSlot
  <2>3. meta.cgen \in Nat /\ meta.floor \in Nat /\ run.gen \in Nat /\ run.gen # 0
    BY <1>2, MetaFields, ConstantsAssumption DEF Gens
  <2>4. Burned(meta') = Burned(meta)
    BY <1>5, <2>1, <2>2, <2>3 DEF Burned, Larger
  <2>5. /\ Candidate(meta) = run.gen /\ Confirmed(meta') = run.gen
        /\ Candidate(meta') = 0 /\ TriesLeft(meta') = 0
    <3>1. meta'.tslot \notin AppSlots
      BY <2>1 DEF AppSlots, NoSlot
    <3> QED BY <1>1, <1>5, <2>1, <3>1 DEF Candidate, Confirmed, TriesLeft
  <2>6. Current = Promise!Trying(run.gen) /\ Current' = Current
    <3>1. run'.slot = run.slot /\ run'.gen = run.gen /\ run'.trial = run.trial
      BY <1>2, <1>3 DEF BootInfo
    <3>2. run.slot # Factory
      BY <1>1 DEF AppSlots, Factory
    <3> QED BY <1>1, <1>5, <3>1, <3>2 DEF Current, Recovery, Promise!Trying
  <2>7. Promise!Accept
    BY <2>3, <2>4, <2>5, <2>6 DEF Promise!Accept, Promise!Drop, Promise!None
  <2> QED BY <2>7 DEF Promise!Next
<1>6. \/ meta' = meta
      \/ /\ run.trial /\ Readable(meta) /\ meta.tslot = run.slot /\ meta.tgen = run.gen
         /\ \E w \in MetaWrite(meta, m) : meta' = w.meta
  BY <1>1 DEF BootConfirm
<1>7. (\E w \in MetaWrite(meta, m) : meta' = w.meta)
      => meta' = meta \/ meta' = [m EXCEPT !.seq = meta.seq + 1]
  BY DEF MetaWrite
<1> HIDE DEF m
<1> QED BY <1>4, <1>5, <1>6, <1>7

-----------------------------------------------------------------------------
LEMMA NextKeepsPromise == IndInv /\ [Next]_vars => [Promise!Next]_(Promise!vars)
<1> SUFFICES ASSUME IndInv, [Next]_vars PROVE [Promise!Next]_(Promise!vars)
  OBVIOUS
<1>1. TypeOK
  BY DEF IndInv
<1>2. CASE /\ UNCHANGED <<meta, phase>>
           /\ run' = run \/ run' = [run EXCEPT !.confirmed = TRUE]
  BY <1>1, <1>2, InvisibleStep
<1>3. CASE UNCHANGED meta /\ \E why \in {"software", "power", "watchdog"} : Restart(why)
  BY <1>3, RestartIsStop DEF Promise!Next
<1>4. CASE Stage0
  BY <1>4, Stage0KeepsPromise
<1>5. CASE Loop
  BY <1>2, <1>3, <1>5
     DEF Loop, BecomeReady, SelfConfirm, Fail, WatchdogReset, TrialDeadline, ActivationReset,
         RecoveryReset, UploadTimeout, AutoLaunch, AutoLaunchNothing, nor, Running
<1>6. CASE Request
  <2>1. CASE \E h \in Header : Begin(h)
    BY <2>1, BeginKeepsPromise
  <2>2. CASE Activate
    BY <2>2, ActivateKeepsPromise
  <2>3. CASE \E digest \in Images : Confirm(digest)
    BY <2>3, ConfirmKeepsPromise
  <2>4. CASE \/ \E offset \in 1 .. Chunks, block \in Images : Append(offset, block)
             \/ Finish \/ Abort \/ RequestRecovery
    BY <1>2, <2>4 DEF Append, Finish, Abort, RequestRecovery, nor
  <2> QED BY <1>6, <2>1, <2>2, <2>3, <2>4 DEF Request
<1>7. CASE MetadataLost
  <2>1. Current' = Current
    BY <1>7 DEF MetadataLost, ram, Current, Recovery
  <2>2. /\ Confirmed(meta)' = 0 /\ Candidate(meta)' = 0 /\ TriesLeft(meta)' = 0
        /\ Burned(meta)' = 0
    BY <1>7 DEF MetadataLost, EmptyMeta, Confirmed, Candidate, TriesLeft, Burned, Larger,
                AppSlots, NoSlot
  <2> QED BY <2>1, <2>2 DEF Promise!Next, Promise!Forget, Promise!Drop, Promise!None
<1>8. CASE Surroundings /\ ~MetadataLost
  BY <1>2, <1>3, <1>8 DEF Surroundings, HostsLeave, PowerCut, ImageDecay, FactoryDecay, nor, ram
<1>9. CASE UNCHANGED vars
  BY <1>2, <1>9 DEF vars, nor, ram
<1> QED BY <1>4, <1>5, <1>6, <1>7, <1>8, <1>9 DEF Next

(* Stage 0, the update service and the confirmation of trials, through     *)
(* every failed write, reset and loss, do what UpdatePromise says.         *)
THEOREM PromiseKept == Spec => KeepsPromise
<1>1. Init => Promise!Init
  <2> SUFFICES ASSUME Init PROVE Promise!Init
    OBVIOUS
  <2>1. Current = Promise!Off
    BY OffUnlessRunning DEF Init
  <2>2. CASE meta = [EmptyMeta EXCEPT !.seq = 2]
    <3>1. /\ Confirmed(meta) = 0 /\ Candidate(meta) = 0 /\ TriesLeft(meta) = 0
          /\ Burned(meta) = 0
      BY <2>2 DEF EmptyMeta, Confirmed, Candidate, TriesLeft, Burned, Larger, AppSlots, NoSlot
    <3> QED BY <2>1, <3>1 DEF Promise!Init, Promise!None
  <2>3. CASE meta = [EmptyMeta EXCEPT !.seq = 2, !.cslot = 0, !.cgen = 1] /\ 1 \in Gens
    <3>1. /\ meta.cslot = 0 /\ meta.cgen = 1 /\ meta.tslot = NoSlot /\ meta.tgen = 0
          /\ meta.floor = 0
      BY <2>3 DEF EmptyMeta
    <3>2. /\ Confirmed(meta) = 1 /\ Candidate(meta) = 0 /\ TriesLeft(meta) = 0
          /\ Burned(meta) = 1
      BY <3>1 DEF Confirmed, Candidate, TriesLeft, Burned, Larger, AppSlots, NoSlot
    <3> QED BY <2>1, <2>3, <3>2 DEF Promise!Init, Promise!None, Promise!Gens, Gens
  <2> QED BY <2>2, <2>3 DEF Init
<1>2. IndInv /\ [Next]_vars => [Promise!Next]_(Promise!vars)
  BY NextKeepsPromise
<1> QED BY <1>1, <1>2, Invariance, PTL DEF Spec, KeepsPromise, Promise!Spec

-----------------------------------------------------------------------------
(* install(): the board.                                                   *)

(* Whatever else a step does, the confirmed image stays.                   *)
Steady ==
  /\ Follows(meta, meta')
  /\ decayed' \subseteq decayed
  /\ meta.cslot \in AppSlots => flash'[meta.cslot].hdr = flash[meta.cslot].hdr

BoardKeeps == Undamaged' /\ RunsConfirmed'

LEMMA FollowsReadable ==
  ASSUME NEW m \in Meta, NEW n, Follows(m, n), Readable(m)
  PROVE  Readable(n)
<1>1. m.seq \in 0 .. SeqLimit - 1 /\ n.seq \in 0 .. SeqLimit - 1
  BY MetaFields DEF Follows
<1> QED BY <1>1 DEF Follows, Readable

LEMMA SteadyUndamaged ==
  ASSUME TypeOK, Undamaged, Steady
  PROVE  Undamaged'
<1>1. meta \in Meta
  BY DEF TypeOK
<1>2. Readable(meta')
  BY <1>1, FollowsReadable DEF Undamaged, Steady
<1> QED BY <1>2 DEF Undamaged, Steady, Readable

(* What runs stays, or a confirmation is only told once more.              *)
LEMMA SameRunConfirmed ==
  ASSUME TypeOK, RunsConfirmed, Follows(meta, meta'),
         \/ run' = run
         \/ run' = NotRunning
         \/ ~run.trial /\ run' = [run EXCEPT !.confirmed = TRUE]
  PROVE  RunsConfirmed'
<1>1. CASE run' = run
  BY <1>1 DEF RunsConfirmed, Follows
<1>2. CASE run' = NotRunning
  BY <1>2 DEF RunsConfirmed, NotRunning, AppSlots, NoSlot
<1>3. CASE ~run.trial /\ run' = [run EXCEPT !.confirmed = TRUE]
  <2>1. run'.slot = run.slot /\ run'.gen = run.gen
    BY <1>3 DEF TypeOK, BootInfo
  <2>2. run.slot \in AppSlots => meta.cslot = run.slot /\ meta.cgen = run.gen
    BY <1>3 DEF RunsConfirmed
  <2> QED BY <2>1, <2>2 DEF RunsConfirmed, Follows
<1> QED BY <1>1, <1>2, <1>3

LEMMA QuietIsSteady ==
  ASSUME IndInv, Undamaged, RunsConfirmed, UNCHANGED <<meta, flash, decayed>>,
         \/ run' = run
         \/ run' = NotRunning
         \/ ~run.trial /\ run' = [run EXCEPT !.confirmed = TRUE]
  PROVE  Steady /\ BoardKeeps
<1>1. TypeOK /\ meta \in Meta
  BY DEF IndInv, TypeOK
<1>2. Follows(meta, meta')
  BY <1>1, SameFollows
<1>3. Steady
  BY <1>2 DEF Steady
<1> QED BY <1>1, <1>2, <1>3, SteadyUndamaged, SameRunConfirmed DEF BoardKeeps

LEMMA LaunchedConfirmed ==
  ASSUME IndInv, RunsConfirmed, Stage0, Follows(meta, meta')
  PROVE  RunsConfirmed'
<1>1. phase = "stage0" /\ run = NotRunning
  BY DEF Stage0, IndInv, StoppedIsIdle
<1>2. TypeOK
  BY DEF IndInv
<1>3. CASE run' = run
  BY <1>2, <1>3, SameRunConfirmed
<1>4. ASSUME run'.slot = Factory PROVE RunsConfirmed'
  BY <1>4 DEF RunsConfirmed, AppSlots, Factory
<1>5. ASSUME Readable(meta), ConfirmedBootable(meta),
             run' = [slot |-> meta.cslot, trial |-> FALSE, confirmed |-> FALSE,
                     gen |-> IF meta.cslot = Factory THEN 0 ELSE flash[meta.cslot].hdr.gen]
      PROVE  RunsConfirmed'
  <2>1. meta.cslot # Factory
    BY <1>5 DEF ConfirmedBootable, AppSlots, Factory
  <2>2. run'.slot = meta.cslot /\ run'.gen = meta.cgen
    BY <1>5, <2>1 DEF ConfirmedBootable
  <2> QED BY <2>2 DEF RunsConfirmed, Follows
<1>6. ASSUME NEW gen, run' = [slot |-> meta.tslot, trial |-> TRUE, confirmed |-> FALSE, gen |-> gen]
      PROVE  RunsConfirmed'
  BY <1>6 DEF RunsConfirmed
<1>7. \/ Halt \/ LaunchFactory \/ LaunchConfirmed
      \/ Launch(meta.tslot, TRUE)
  BY DEF Stage0, SelectApplication, BootTrial, BootPastTrial, BootConfirmed
<1>8. LaunchFactory => run' = run \/ run'.slot = Factory
  BY DEF LaunchFactory, Launch, Halt
<1>9. LaunchConfirmed => \/ LaunchFactory
                         \/ Readable(meta) /\ ConfirmedBootable(meta) /\ Launch(meta.cslot, FALSE)
  BY DEF LaunchConfirmed
<1>10. LaunchConfirmed => RunsConfirmed'
  BY <1>3, <1>4, <1>5, <1>8, <1>9 DEF Launch, Halt
<1>11. Launch(meta.tslot, TRUE) => RunsConfirmed'
  BY <1>3, <1>6 DEF Launch, Halt
<1> QED BY <1>3, <1>4, <1>7, <1>8, <1>10, <1>11 DEF Halt

LEMMA Stage0IsSteady ==
  ASSUME IndInv, Undamaged, RunsConfirmed, Stage0
  PROVE  Steady /\ BoardKeeps
<1>1. Follows(meta, meta')
  BY Stage0Follows
<1>2. Steady
  BY <1>1 DEF Steady, Stage0
<1>3. TypeOK
  BY DEF IndInv
<1> QED BY <1>1, <1>2, <1>3, SteadyUndamaged, LaunchedConfirmed DEF BoardKeeps

LEMMA LoopIsSteady ==
  ASSUME IndInv, Undamaged, RunsConfirmed, Loop \/ PowerCut
  PROVE  Steady /\ BoardKeeps
<1>1. UNCHANGED <<meta, flash, decayed>>
  BY DEF Loop, BecomeReady, SelfConfirm, Fail, WatchdogReset, TrialDeadline, ActivationReset,
         RecoveryReset, UploadTimeout, AutoLaunch, AutoLaunchNothing, PowerCut, nor, history
<1>2. \/ run' = run
      \/ run' = NotRunning
      \/ ~run.trial /\ run' = [run EXCEPT !.confirmed = TRUE]
  BY DEF Loop, BecomeReady, SelfConfirm, Fail, WatchdogReset, TrialDeadline, ActivationReset,
         RecoveryReset, UploadTimeout, AutoLaunch, AutoLaunchNothing, PowerCut, Restart
<1> QED BY <1>1, <1>2, QuietIsSteady

(* A request that lets what runs run on.                                   *)
LEMMA SteadyRequest ==
  ASSUME IndInv, Undamaged, RunsConfirmed, Steady, run' = run
  PROVE  BoardKeeps
<1>1. TypeOK
  BY DEF IndInv
<1> QED BY <1>1, SteadyUndamaged, SameRunConfirmed DEF BoardKeeps, Steady

LEMMA AbortIsSteady ==
  ASSUME IndInv, Undamaged, RunsConfirmed, Abort
  PROVE  Steady /\ BoardKeeps
BY QuietIsSteady DEF Abort, nor, history

LEMMA ConfirmedIsWhole ==
  ASSUME IndInv, Undamaged, meta.cslot \in AppSlots
  PROVE  ConfirmedBootable(meta) /\ flash[meta.cslot].hdr \in Header
<1>1. ImageValid(meta.cslot) /\ flash[meta.cslot].hdr.gen = meta.cgen
  BY DEF IndInv, Undamaged, ReferencedImagesIntact, Intact
<1> QED BY <1>1, ValidHasHeader DEF ConfirmedBootable, IndInv

LEMMA BeginIsSteady ==
  ASSUME IndInv, Undamaged, RunsConfirmed, NEW h \in Header, Begin(h)
  PROVE  Steady /\ BoardKeeps
<1>1. Follows(meta, meta')
  BY BeginKeepsConfirmed, ConfirmedIsWhole DEF Undamaged, ConfirmedBootable
<1>2. meta.cslot \in AppSlots => flash'[meta.cslot].hdr = flash[meta.cslot].hdr
  <2>1. \/ flash' = flash
        \/ \E left : flash' = [flash EXCEPT ![InactiveSlot(meta')].hdr = left]
    <3>1. flash' = flash \/ \E cost \in {0, 1} : StartUpload(h, meta', cost)
      BY DEF Begin
    <3>2. ASSUME NEW cost, StartUpload(h, meta', cost)
          PROVE  \E left : flash' = [flash EXCEPT ![InactiveSlot(meta')].hdr = left]
      <4>1. CASE flash' = [flash EXCEPT ![InactiveSlot(meta')].hdr = NoHeader]
        BY <4>1
      <4> QED BY <3>2, <4>1 DEF StartUpload
    <3> QED BY <3>1, <3>2
  <2>2. InactiveSlot(meta') # meta.cslot /\ InactiveSlot(meta') \in AppSlots
    BY <1>1, InactiveApart DEF Follows
  <2>3. flash \in [AppSlots -> Slot]
    BY DEF IndInv, TypeOK
  <2> QED BY <2>1, <2>2, <2>3
<1>3. Steady
  BY <1>1, <1>2 DEF Steady, Begin, history
<1> QED BY <1>3, SteadyRequest DEF Begin

LEMMA AppendIsSteady ==
  ASSUME IndInv, Undamaged, RunsConfirmed, NEW offset, NEW block, Append(offset, block)
  PROVE  Steady /\ BoardKeeps
<1>1. flash \in [AppSlots -> Slot] /\ meta \in Meta
  BY DEF IndInv, TypeOK
<1>2. \E left : flash' = [flash EXCEPT ![upload.slot].body[offset] = left]
  BY DEF Append
<1>3. \A s \in AppSlots : flash'[s].hdr = flash[s].hdr
  BY <1>1, <1>2 DEF Slot
<1>4. Steady
  BY <1>1, <1>3, SameFollows DEF Steady, Append, history
<1> QED BY <1>4, SteadyRequest DEF Append

LEMMA FinishIsSteady ==
  ASSUME IndInv, Undamaged, RunsConfirmed, Finish
  PROVE  Steady /\ BoardKeeps
<1>1. flash \in [AppSlots -> Slot] /\ meta \in Meta
  BY DEF IndInv, TypeOK
<1>2. \/ flash' = flash
      \/ \E left : flash' = [flash EXCEPT ![upload.slot].hdr = left]
  BY DEF Finish
<1>3. upload.slot # meta.cslot
  BY DEF Finish, IndInv, UploadTargetUnreferenced, Uploading, Undamaged
<1>4. meta.cslot \in AppSlots => flash'[meta.cslot].hdr = flash[meta.cslot].hdr
  BY <1>1, <1>2, <1>3
<1>5. decayed' \subseteq decayed /\ meta' = meta /\ run' = run
  BY DEF Finish
<1>6. Steady
  BY <1>1, <1>4, <1>5, SameFollows DEF Steady
<1> QED BY <1>5, <1>6, SteadyRequest

LEMMA ActivateIsSteady ==
  ASSUME IndInv, Undamaged, RunsConfirmed, Activate
  PROVE  Steady /\ BoardKeeps
<1>1. Steady
  BY ActivateFollows DEF Steady, Activate
<1> QED BY <1>1, SteadyRequest DEF Activate

(* A confirmation changes nothing, or makes the trial that runs the        *)
(* confirmed image, of a newer generation.                                 *)
Promotes(digest) ==
  /\ run.slot \in AppSlots /\ flash[run.slot].hdr.img = digest /\ flash' = flash
  /\ meta'.cslot = run.slot /\ meta'.cgen = run.gen /\ run.gen > meta.cgen

LEMMA ConfirmPromotes ==
  ASSUME IndInv, Undamaged, RunsConfirmed, NEW digest, Confirm(digest)
  PROVE  BoardKeeps /\ (Steady \/ Promotes(digest))
<1>1. /\ UNCHANGED <<flash, decayed>>
      /\ run.slot \in AppSlots /\ flash[run.slot].hdr.img = digest
  BY DEF Confirm
<1>2. CASE ~run.trial
  BY <1>1, <1>2, QuietIsSteady DEF Confirm, BootConfirm
<1>3. CASE run.trial
  <2> DEFINE m == [meta EXCEPT !.cslot = run.slot, !.cgen = run.gen,
                               !.tslot = NoSlot, !.tgen = 0, !.tatt = 0]
             n == [m EXCEPT !.seq = meta.seq + 1]
  <2>1. PICK w \in MetaWrite(meta, m) :
          /\ meta.tslot = run.slot /\ meta.tgen = run.gen
          /\ meta' = w.meta
          /\ run' = IF w.ok THEN [run EXCEPT !.confirmed = TRUE] ELSE run
    BY <1>3 DEF Confirm, BootConfirm
  <2>2. meta' = meta \/ meta' = n
    BY <2>1 DEF MetaWrite
  <2>3. w.ok => meta' = n
    BY <2>1 DEF MetaWrite
  <2>4. meta \in Meta /\ run \in BootInfo /\ TypeOK
    BY DEF IndInv, TypeOK
  <2>5. n.cslot = run.slot /\ n.cgen = run.gen /\ n.seq = meta.seq + 1
    BY <2>4 DEF Meta
  <2>6. run.gen > meta.cgen /\ meta.seq \in Nat
    <3>1. Readable(meta) /\ meta.tslot # NoSlot
      BY <1>1, <2>1 DEF Undamaged, AppSlots, NoSlot
    <3> QED BY <2>1, <2>4, <3>1, MetaFields DEF IndInv, ActivationsRemembered
  <2>7. run'.slot = run.slot /\ run'.gen = run.gen
    BY <2>1, <2>4 DEF BootInfo
  <2> HIDE DEF n
  <2>8. CASE meta' = n
    <3>1. Readable(meta')
      BY <2>5, <2>6, <2>8 DEF Readable
    <3> QED BY <1>1, <2>5, <2>6, <2>7, <2>8, <3>1
            DEF BoardKeeps, Undamaged, RunsConfirmed, Promotes, Readable
  <2>9. CASE meta' = meta /\ ~w.ok
    BY <1>1, <2>1, <2>9, QuietIsSteady
  <2> QED BY <2>2, <2>3, <2>8, <2>9
<1> QED BY <1>2, <1>3

-----------------------------------------------------------------------------
(* install(): the hosts.                                                   *)

LEMMA HostFields ==
  ASSUME NEW s \in HostState
  PROVE  /\ s.pc \in Calls \cup Outcomes /\ s.nonce \in {"none", "current", "stale"}
         /\ s.tries \in 0 .. Attempts - 1 /\ s.gen \in 0 .. MaxGen + 1
         /\ s.offset \in 1 .. Chunks
BY DEF HostState

LEMMA ExpireFields ==
  ASSUME NEW s \in HostState
  PROVE  Expire(s) \in HostState /\ Expire(s).pc = s.pc /\ Expire(s).gen = s.gen
BY DEF Expire, HostState

LEMMA NonceFields ==
  ASSUME NEW s \in HostState, NEW n \in {"none", "current"}
  PROVE  /\ [s EXCEPT !.nonce = n] \in HostState
         /\ [s EXCEPT !.nonce = n].pc = s.pc /\ [s EXCEPT !.nonce = n].gen = s.gen
BY DEF HostState

LEMMA GenFields ==
  ASSUME NEW s \in HostState, NEW g \in 0 .. MaxGen + 1
  PROVE  /\ [s EXCEPT !.gen = g] \in HostState
         /\ [s EXCEPT !.gen = g].pc = s.pc /\ [s EXCEPT !.gen = g].gen = g
BY DEF HostState

LEMMA OffsetFields ==
  ASSUME NEW s \in HostState, NEW o \in 1 .. Chunks
  PROVE  /\ [s EXCEPT !.offset = o] \in HostState
         /\ [s EXCEPT !.offset = o].pc = s.pc /\ [s EXCEPT !.offset = o].gen = s.gen
BY DEF HostState

LEMMA GoToFields ==
  ASSUME NEW s \in HostState, NEW pc \in Calls \cup Outcomes
  PROVE  GoTo(s, pc) \in HostState /\ GoTo(s, pc).pc = pc /\ GoTo(s, pc).gen = s.gen
<1>1. 0 \in 0 .. Attempts - 1 /\ 1 \in 1 .. Chunks
  BY InstallAssumption, ConstantsAssumption
<1> QED BY <1>1 DEF GoTo, HostState

(* Only activate is not tried again but watched, and nothing that was      *)
(* asked is taken for granted.                                             *)
LEMMA NoAnswerFields ==
  ASSUME NEW s \in HostState, s.pc \in Calls
  PROVE  /\ NoAnswer(s) \in HostState /\ NoAnswer(s).gen = s.gen
         /\ NoAnswer(s).pc \in {s.pc, "failed"} \/ (s.pc = "activate" /\ NoAnswer(s).pc = "watch")
<1>1. /\ GoTo(s, "watch") \in HostState /\ GoTo(s, "watch").pc = "watch"
      /\ GoTo(s, "watch").gen = s.gen
      /\ GoTo(s, "failed") \in HostState /\ GoTo(s, "failed").pc = "failed"
      /\ GoTo(s, "failed").gen = s.gen
  BY GoToFields DEF Calls, Outcomes
<1>2. CASE s.pc \in {"activate", "watch"}
  <2>1. NoAnswer(s) = [GoTo(s, "watch") EXCEPT !.nonce = "none"]
    BY <1>2 DEF NoAnswer
  <2> QED BY <1>1, <1>2, <2>1, NonceFields
<1>3. CASE s.pc \notin {"activate", "watch"} /\ s.tries + 1 < Attempts
  <2>1. s.tries + 1 \in 0 .. Attempts - 1
    BY <1>3, HostFields, InstallAssumption
  <2>2. NoAnswer(s) = [s EXCEPT !.tries = s.tries + 1, !.nonce = "none"]
    BY <1>3 DEF NoAnswer
  <2> QED BY <2>1, <2>2 DEF HostState
<1>4. CASE s.pc \notin {"activate", "watch"} /\ ~(s.tries + 1 < Attempts)
  BY <1>1, <1>4 DEF NoAnswer
<1> QED BY <1>2, <1>3, <1>4

(* The confirmed image after this step is the payload of h, in generation  *)
(* gen, and whole.                                                         *)
Installed(h, gen) ==
  /\ Readable(meta') /\ ConfirmedBootable(meta)'
  /\ flash'[meta'.cslot].hdr = [gen |-> gen, img |-> Payload[h]]

(* What the state s may be that h goes to.                                 *)
MayBecome(h, s) ==
  /\ s \in HostState
  /\ s.pc \in Packaged => s.gen \in Gens
  /\ \/ s.pc \notin Unasked
     \/ host[h].pc \in Unasked /\ s.gen = host[h].gen
     \/ s.gen > meta.cgen
  /\ s.pc = "passed" => host[h].pc = "passed" \/ Installed(h, s.gen)

HostsMove ==
  /\ host' \in [Hosts -> HostState]
  /\ \A g \in Hosts : MayBecome(g, host'[g])

HostsSane == InstallTypeOK /\ PackagedInRange

LEMMA MayStay ==
  ASSUME HostsSane, NEW h \in Hosts,
         NEW s \in HostState, s.pc = host[h].pc, s.gen = host[h].gen
  PROVE  MayBecome(h, s)
BY DEF HostsSane, PackagedInRange, MayBecome

LEMMA MayExpire ==
  ASSUME HostsSane, NEW h \in Hosts
  PROVE  MayBecome(h, Expire(host[h])) /\ MayBecome(h, host[h])
<1>1. host[h] \in HostState
  BY DEF HostsSane, InstallTypeOK
<1> QED BY <1>1, ExpireFields, MayStay

LEMMA MayFail ==
  ASSUME HostsSane, NEW h \in Hosts
  PROVE  MayBecome(h, GoTo(host[h], "failed"))
<1>1. host[h] \in HostState
  BY DEF HostsSane, InstallTypeOK
<1> QED BY <1>1, GoToFields DEF MayBecome, Packaged, Unasked, Calls, Outcomes

LEMMA MayGoUnanswered ==
  ASSUME HostsSane, NEW h \in Hosts, host[h].pc \in Calls
  PROVE  MayBecome(h, NoAnswer(host[h]))
<1>1. host[h] \in HostState
  BY DEF HostsSane, InstallTypeOK
<1>2. PICK s : s = NoAnswer(host[h])
  OBVIOUS
<1>3. /\ s \in HostState /\ s.gen = host[h].gen
      /\ s.pc \in {host[h].pc, "failed"} \/ (host[h].pc = "activate" /\ s.pc = "watch")
  BY <1>1, <1>2, NoAnswerFields
<1>4. MayBecome(h, s)
  <2>1. CASE s.pc = host[h].pc
    BY <1>3, <2>1, MayStay
  <2>2. CASE s.pc = "failed"
    BY <1>3, <2>2 DEF MayBecome, Packaged, Unasked, Calls
  <2>3. CASE host[h].pc = "activate" /\ s.pc = "watch"
    BY <1>3, <2>3 DEF MayBecome, HostsSane, PackagedInRange, Packaged, Unasked, Calls
  <2> QED BY <1>3, <2>1, <2>2, <2>3
<1> QED BY <1>2, <1>4

LEMMA AnsweredMoves ==
  ASSUME HostsSane, NEW h \in Hosts, host[h].pc \in Calls,
         NEW s, MayBecome(h, s), Answered(h, s)
  PROVE  HostsMove
<1>1. PICK t \in {s, NoAnswer(host[h])} :
        host' = [g \in Hosts |-> IF g = h THEN t ELSE Expire(host[g])]
  BY DEF Answered
<1>2. MayBecome(h, t)
  BY <1>1, MayGoUnanswered
<1>3. \A g \in Hosts : MayBecome(g, host'[g])
  BY <1>1, <1>2, MayExpire
<1> QED BY <1>1, <1>3 DEF HostsMove, MayBecome

LEMMA OneMoves ==
  ASSUME HostsSane, NEW h \in Hosts, NEW s, MayBecome(h, s), host' = [host EXCEPT ![h] = s]
  PROVE  HostsMove
<1>1. host \in [Hosts -> HostState]
  BY DEF HostsSane, InstallTypeOK
<1>2. \A g \in Hosts : MayBecome(g, host'[g])
  BY <1>1, MayExpire
<1> QED BY <1>1, <1>2 DEF HostsMove, MayBecome

-----------------------------------------------------------------------------
(* install(): its calls.                                                   *)

CallKeeps(h) ==
  /\ [Next]_vars /\ BoardKeeps /\ HostsMove
  /\ Steady \/ (Promotes(Payload[h]) /\ host'[h].pc \notin Unasked)

LEMMA Sane ==
  ASSUME InstallInv, NEW h \in Hosts
  PROVE  /\ IndInv /\ TypeOK /\ Undamaged /\ RunsConfirmed /\ HostsSane
         /\ host \in [Hosts -> HostState] /\ host[h] \in HostState
         /\ host[h].gen \in 0 .. MaxGen + 1 /\ Payload[h] \in Images
BY InstallAssumption, HostFields DEF InstallInv, IndInv, HostsSane, InstallTypeOK

LEMMA StillKeeps ==
  ASSUME InstallInv, NEW h \in Hosts, UNCHANGED vars, HostsMove
  PROVE  CallKeeps(h)
<1>1. UNCHANGED <<meta, flash, decayed>> /\ run' = run
  BY DEF vars, nor, history, ram
<1> QED BY <1>1, Sane, QuietIsSteady DEF CallKeeps

(* What the next call is, without a change of the generation.              *)
LEMMA MayGoOn ==
  ASSUME InstallInv, NEW h \in Hosts, NEW pc \in Calls \cup Outcomes, pc # "passed",
         NEW s \in HostState, s.pc = pc, s.gen = host[h].gen,
         pc \in Packaged => s.gen \in Gens,
         pc \in Unasked => host[h].pc \in Unasked
  PROVE  MayBecome(h, s)
BY DEF MayBecome

LEMMA ChallengeKeeps ==
  ASSUME InstallInv, NEW h \in Hosts, Challenge(h)
  PROVE  CallKeeps(h)
<1>1. PICK s : s = [host[h] EXCEPT !.nonce = "current"]
  OBVIOUS
<1>2. host' = [host EXCEPT ![h] = s] /\ UNCHANGED vars
  BY <1>1, Sane DEF Challenge
<1>3. MayBecome(h, s)
  BY <1>1, Sane, NonceFields, MayStay
<1> QED BY <1>2, <1>3, Sane, OneMoves, StillKeeps

LEMMA ConnectionFailsKeeps ==
  ASSUME InstallInv, NEW h \in Hosts, ConnectionFails(h)
  PROVE  CallKeeps(h)
<1>1. /\ host' = [host EXCEPT ![h] = NoAnswer(host[h])]
      /\ UNCHANGED vars /\ host[h].pc \in Calls
  BY DEF ConnectionFails
<1>2. MayBecome(h, NoAnswer(host[h]))
  BY <1>1, Sane, MayGoUnanswered
<1> QED BY <1>1, <1>2, Sane, OneMoves, StillKeeps

LEMMA UnauthenticatedKeeps ==
  ASSUME InstallInv, NEW h \in Hosts, Unauthenticated(h)
  PROVE  CallKeeps(h)
<1>1. host' = [host EXCEPT ![h] = GoTo(host[h], "failed")] /\ UNCHANGED vars
  BY DEF Unauthenticated
<1> QED BY <1>1, Sane, MayFail, OneMoves, StillKeeps

LEMMA WaitOverKeeps ==
  ASSUME InstallInv, NEW h \in Hosts, WaitOver(h)
  PROVE  CallKeeps(h)
<1>1. /\ host' = [host EXCEPT ![h] = GoTo(host[h], "unproven")]
      /\ UNCHANGED vars /\ host[h].pc = "watch"
  BY DEF WaitOver
<1>2. "unproven" \in Calls \cup Outcomes /\ "unproven" \notin Packaged /\ "watch" \in Unasked
  BY DEF Calls, Outcomes, Packaged, Unasked
<1>3. MayBecome(h, GoTo(host[h], "unproven"))
  BY <1>1, <1>2, Sane, GoToFields, MayGoOn
<1> QED BY <1>1, <1>3, Sane, OneMoves, StillKeeps

(* The greatest of the five generations the board knows.                   *)
LEMMA LargerBounds ==
  ASSUME NEW a \in Int, NEW b \in Int
  PROVE  /\ Larger(a, b) \in {a, b} /\ Larger(a, b) \in Int
         /\ a <= Larger(a, b) /\ b <= Larger(a, b)
BY DEF Larger

LEMMA FloorBounds ==
  ASSUME TypeOK
  PROVE  Floor \in 0 .. MaxGen /\ meta.cgen <= Floor
<1> DEFINE known == KnownGenerations(meta)
           x == flash[0].hdr.gen
           y == flash[1].hdr.gen
<1>1. /\ x \in 0 .. MaxGen /\ y \in 0 .. MaxGen
      /\ meta.cgen \in 0 .. MaxGen /\ meta.tgen \in 0 .. MaxGen /\ meta.floor \in 0 .. MaxGen
  <2>1. flash[0] \in Slot /\ flash[1] \in Slot
    BY DEF TypeOK, AppSlots
  <2>2. \A f \in Slot : f.hdr.gen \in 0 .. MaxGen
    BY ConstantsAssumption DEF Slot, Header, NoHeader, Gens
  <2> QED BY <2>1, <2>2, MetaFields DEF TypeOK
<1>2. known = {meta.cgen, meta.tgen, meta.floor, x, y}
  BY DEF KnownGenerations, AppSlots
<1> DEFINE largest == Larger(Larger(Larger(Larger(meta.cgen, meta.tgen), meta.floor), x), y)
<1>3. largest \in known /\ \A g \in known : g <= largest
  <2> HIDE DEF known, x, y
  <2>0. /\ meta.cgen \in Int /\ meta.tgen \in Int /\ meta.floor \in Int
        /\ x \in Int /\ y \in Int
    BY <1>1
  <2>1. PICK a : a = Larger(meta.cgen, meta.tgen)
    OBVIOUS
  <2>2. a \in Int /\ a \in {meta.cgen, meta.tgen} /\ meta.cgen <= a /\ meta.tgen <= a
    BY <2>0, <2>1, LargerBounds
  <2>3. PICK b : b = Larger(a, meta.floor)
    OBVIOUS
  <2>4. b \in Int /\ b \in {a, meta.floor} /\ a <= b /\ meta.floor <= b
    BY <2>0, <2>2, <2>3, LargerBounds
  <2>5. PICK c : c = Larger(b, x)
    OBVIOUS
  <2>6. c \in Int /\ c \in {b, x} /\ b <= c /\ x <= c
    BY <2>0, <2>4, <2>5, LargerBounds
  <2>7. largest \in Int /\ largest \in {c, y} /\ c <= largest /\ y <= largest
    BY <2>0, <2>1, <2>3, <2>5, <2>6, LargerBounds
  <2> HIDE DEF largest
  <2> QED BY <1>2, <2>0, <2>2, <2>4, <2>6, <2>7
<1> HIDE DEF largest, x, y, known
<1>4. Floor \in known /\ \A g \in known : g <= Floor
  <2>1. \E n \in known : \A g \in known : g <= n
    BY <1>3
  <2> QED BY <2>1 DEF Floor, known
<1> QED BY <1>1, <1>2, <1>4

LEMMA PackedMoves ==
  ASSUME InstallInv, NEW h \in Hosts, NEW s \in HostState,
         s.gen > meta.cgen \/ (host[h].pc \in Unasked /\ s.gen = host[h].gen)
  PROVE  MayBecome(h, Packed(s))
<1>1. PICK pc \in {"begin", "failed"} : Packed(s) = GoTo(s, pc) /\ (pc = "begin" => s.gen \in Gens)
  BY DEF Packed
<1>2. pc \in Calls \cup Outcomes
  BY DEF Calls, Outcomes
<1>3. Packed(s) \in HostState /\ Packed(s).pc = pc /\ Packed(s).gen = s.gen
  BY <1>1, <1>2, GoToFields
<1>4. "failed" \notin Packaged /\ pc # "passed"
  BY DEF Packaged, Calls
<1> QED BY <1>1, <1>3, <1>4 DEF MayBecome

(* The board tells that it runs the payload confirmed: it is the confirmed *)
(* image, and whole.                                                       *)
LEMMA AlreadyInstalled ==
  ASSUME InstallInv, NEW h \in Hosts, AlreadyCurrent(h), UNCHANGED vars
  PROVE  Installed(h, run.gen)
<1>1. /\ run.slot \in AppSlots /\ run.confirmed /\ flash[run.slot].hdr.img = Payload[h]
  BY DEF AlreadyCurrent, RunsPayload
<1>2. meta.cslot = run.slot /\ meta.cgen = run.gen
  BY <1>1, Sane DEF RunsConfirmed
<1>3. ConfirmedBootable(meta) /\ flash[meta.cslot].hdr \in Header /\ Readable(meta)
  BY <1>1, <1>2, Sane, ConfirmedIsWhole DEF Undamaged
<1>4. flash[meta.cslot].hdr = [gen |-> run.gen, img |-> Payload[h]]
  BY <1>1, <1>2, <1>3 DEF ConfirmedBootable, Header
<1>5. meta' = meta /\ flash' = flash
  BY DEF vars, nor
<1> QED BY <1>3, <1>4, <1>5 DEF Installed, ConfirmedBootable, ImageValid

LEMMA StatusKeeps ==
  ASSUME InstallInv, NEW h \in Hosts, StatusCall(h)
  PROVE  CallKeeps(h)
<1>1. PICK s : s = [host[h] EXCEPT !.gen = Floor + 1]
  OBVIOUS
<1>2. /\ UNCHANGED vars /\ host[h].pc = "status"
      /\ Answered(h, IF AlreadyCurrent(h) THEN [GoTo(s, "passed") EXCEPT !.gen = run.gen]
                     ELSE IF meta.tslot # NoSlot THEN GoTo(s, "failed")
                     ELSE IF upload.state \in {"receiving", "verified", "failed"}
                          THEN GoTo(s, "abort") ELSE Packed(s))
  BY <1>1 DEF StatusCall, Calling
<1>3. s \in HostState /\ s.gen > meta.cgen
  <2>1. Floor + 1 \in 0 .. MaxGen + 1 /\ Floor + 1 > meta.cgen
    BY Sane, FloorBounds, MetaFields, ConstantsAssumption DEF TypeOK
  <2>2. s.gen = Floor + 1 /\ s \in HostState
    BY <1>1, <2>1, Sane, GenFields
  <2> QED BY <2>1, <2>2
<1>4. {"passed", "failed", "abort"} \subseteq Calls \cup Outcomes
      /\ {"passed", "failed", "abort"} \cap Packaged = {} /\ "passed" \notin Unasked
  BY DEF Calls, Outcomes, Packaged, Unasked
<1>5. AlreadyCurrent(h) => MayBecome(h, [GoTo(s, "passed") EXCEPT !.gen = run.gen])
  <2> SUFFICES ASSUME AlreadyCurrent(h)
               PROVE  MayBecome(h, [GoTo(s, "passed") EXCEPT !.gen = run.gen])
    OBVIOUS
  <2>1. run.gen \in 0 .. MaxGen + 1
    BY Sane, ConstantsAssumption DEF TypeOK, BootInfo
  <2>2. GoTo(s, "passed") \in HostState /\ GoTo(s, "passed").pc = "passed"
    BY <1>3, <1>4, GoToFields
  <2>3. PICK q : q = [GoTo(s, "passed") EXCEPT !.gen = run.gen]
    OBVIOUS
  <2>4. q \in HostState /\ q.pc = "passed" /\ q.gen = run.gen
    BY <2>1, <2>2, <2>3, GenFields
  <2>5. Installed(h, run.gen)
    BY <1>2, AlreadyInstalled
  <2>6. MayBecome(h, q)
    BY <1>4, <2>4, <2>5 DEF MayBecome
  <2> QED BY <2>3, <2>6
<1>6. \A pc \in {"failed", "abort"} : MayBecome(h, GoTo(s, pc))
  BY <1>3, <1>4, GoToFields DEF MayBecome
<1>7. MayBecome(h, Packed(s))
  BY <1>3, PackedMoves
<1>8. host[h].pc \in Calls
  BY <1>2 DEF Calls
<1>9. PICK q : MayBecome(h, q) /\ Answered(h, q)
  BY <1>2, <1>5, <1>6, <1>7
<1> QED BY <1>2, <1>8, <1>9, Sane, AnsweredMoves, StillKeeps

(* A call whose request the board handles or refuses, leaving the          *)
(* confirmed image alone.                                                  *)
LEMMA AnswerKeeps ==
  ASSUME InstallInv, NEW h \in Hosts, host[h].pc \in Calls,
         UNCHANGED vars \/ (Next /\ Steady /\ BoardKeeps),
         NEW s, MayBecome(h, s), Answered(h, s)
  PROVE  CallKeeps(h)
<1>1. HostsMove
  BY Sane, AnsweredMoves
<1> QED BY <1>1, StillKeeps DEF CallKeeps

LEMMA AbortKeeps ==
  ASSUME InstallInv, NEW h \in Hosts, AbortCall(h)
  PROVE  CallKeeps(h)
<1>1. host[h].pc \in Calls /\ host[h].pc \in Unasked
  BY DEF AbortCall, Calling, Calls, Unasked
<1>2. Abort => Next /\ Steady /\ BoardKeeps
  BY Sane, AbortIsSteady DEF Next, Request
<1>3. MayBecome(h, Packed(host[h])) /\ MayBecome(h, GoTo(host[h], "failed"))
  BY <1>1, Sane, PackedMoves, MayFail
<1>4. \/ (Next /\ Steady /\ BoardKeeps) /\ Answered(h, Packed(host[h]))
      \/ UNCHANGED vars /\ Answered(h, GoTo(host[h], "failed"))
  BY <1>2 DEF AbortCall, NothingChanges
<1> QED BY <1>1, <1>3, <1>4, AnswerKeeps

LEMMA BeginCallKeeps ==
  ASSUME InstallInv, NEW h \in Hosts, BeginCall(h)
  PROVE  CallKeeps(h)
<1>1. host[h].pc = "begin" /\ "begin" \in Packaged \cap Unasked /\ "begin" \in Calls
      /\ "chunk" \in Packaged /\ "chunk" \in Calls \cup Outcomes
  BY DEF BeginCall, Calling, Calls, Outcomes, Packaged, Unasked
<1>2. host[h].gen \in Gens
  BY <1>1 DEF InstallInv, PackagedInRange
<1>3. HeaderOf(h) \in Header
  BY <1>2, Sane DEF HeaderOf, Header
<1>4. Begin(HeaderOf(h)) => Next /\ Steady /\ BoardKeeps
  BY <1>3, Sane, BeginIsSteady DEF Next, Request
<1>5. MayBecome(h, GoTo(host[h], "chunk")) /\ MayBecome(h, GoTo(host[h], "failed"))
  BY <1>1, <1>2, Sane, GoToFields, MayGoOn, MayFail
<1>6. PICK s \in {GoTo(host[h], "chunk"), GoTo(host[h], "failed")} :
        (Begin(HeaderOf(h)) \/ UNCHANGED vars) /\ Answered(h, s)
  BY DEF BeginCall, NothingChanges
<1> QED BY <1>1, <1>4, <1>5, <1>6, AnswerKeeps

LEMMA ChunkCallKeeps ==
  ASSUME InstallInv, NEW h \in Hosts, ChunkCall(h)
  PROVE  CallKeeps(h)
<1>1. /\ host[h].pc = "chunk" /\ "chunk" \in Packaged \cap Unasked /\ "chunk" \in Calls
      /\ "finish" \in Packaged /\ "finish" \in Calls
  BY DEF ChunkCall, Calling, Calls, Packaged, Unasked
<1>2. host[h].gen \in Gens /\ host[h].offset \in 1 .. Chunks
  BY <1>1, Sane, HostFields DEF InstallInv, PackagedInRange
<1> DEFINE offset == host[h].offset
<1>3. Append(offset, Payload[h]) => Next /\ Steady /\ BoardKeeps
  BY <1>2, Sane, AppendIsSteady DEF Next, Request
<1>4. PICK more : more = [GoTo(host[h], "chunk") EXCEPT !.offset = GoTo(host[h], "chunk").offset + 1]
  OBVIOUS
<1>5. offset < Chunks => MayBecome(h, more)
  <2> SUFFICES ASSUME offset < Chunks PROVE MayBecome(h, more)
    OBVIOUS
  <2>1. /\ GoTo(host[h], "chunk") \in HostState /\ GoTo(host[h], "chunk").pc = "chunk"
        /\ GoTo(host[h], "chunk").gen = host[h].gen
    BY <1>1, Sane, GoToFields
  <2>2. GoTo(host[h], "chunk").offset = offset
    BY <1>1, Sane DEF GoTo, HostState
  <2>3. offset + 1 \in 1 .. Chunks
    BY <1>2, ConstantsAssumption
  <2>4. more \in HostState /\ more.pc = "chunk" /\ more.gen = host[h].gen
    BY <1>4, <2>1, <2>2, <2>3, OffsetFields
  <2> QED BY <1>1, <1>2, <2>4, MayGoOn
<1>6. MayBecome(h, GoTo(host[h], "finish")) /\ MayBecome(h, GoTo(host[h], "failed"))
  BY <1>1, <1>2, Sane, GoToFields, MayGoOn, MayFail
<1>7. PICK s \in {IF offset < Chunks THEN more ELSE GoTo(host[h], "finish"),
                  GoTo(host[h], "failed")} :
        (Append(offset, Payload[h]) \/ UNCHANGED vars) /\ Answered(h, s)
  BY <1>4 DEF ChunkCall, NothingChanges
<1>8. MayBecome(h, s)
  BY <1>5, <1>6, <1>7
<1> QED BY <1>1, <1>3, <1>7, <1>8, AnswerKeeps

LEMMA FinishCallKeeps ==
  ASSUME InstallInv, NEW h \in Hosts, FinishCall(h)
  PROVE  CallKeeps(h)
<1>1. /\ host[h].pc = "finish" /\ "finish" \in Packaged \cap Unasked /\ "finish" \in Calls
      /\ "activate" \in Packaged /\ "activate" \in Calls \cup Outcomes
  BY DEF FinishCall, Calling, Calls, Outcomes, Packaged, Unasked
<1>2. host[h].gen \in Gens
  BY <1>1 DEF InstallInv, PackagedInRange
<1>3. Finish => Next /\ Steady /\ BoardKeeps
  BY Sane, FinishIsSteady DEF Next, Request
<1>4. MayBecome(h, GoTo(host[h], "activate")) /\ MayBecome(h, GoTo(host[h], "failed"))
  BY <1>1, <1>2, Sane, GoToFields, MayGoOn, MayFail
<1>5. PICK s \in {GoTo(host[h], "activate"), GoTo(host[h], "failed")} :
        (Finish \/ UNCHANGED vars) /\ Answered(h, s)
  BY DEF FinishCall, NothingChanges
<1> QED BY <1>1, <1>3, <1>4, <1>5, AnswerKeeps

LEMMA ActivateCallKeeps ==
  ASSUME InstallInv, NEW h \in Hosts, ActivateCall(h)
  PROVE  CallKeeps(h)
<1>1. /\ host[h].pc = "activate" /\ "activate" \in Packaged \cap Unasked /\ "activate" \in Calls
      /\ "watch" \in Packaged /\ "watch" \in Calls \cup Outcomes
  BY DEF ActivateCall, Calling, Calls, Outcomes, Packaged, Unasked
<1>2. host[h].gen \in Gens
  BY <1>1 DEF InstallInv, PackagedInRange
<1>3. Activate => Next /\ Steady /\ BoardKeeps
  BY Sane, ActivateIsSteady DEF Next, Request
<1>4. PICK watch : watch = [GoTo(host[h], "watch") EXCEPT !.nonce = "none"]
  OBVIOUS
<1>5. MayBecome(h, watch) /\ MayBecome(h, GoTo(host[h], "failed"))
  <2>1. /\ GoTo(host[h], "watch") \in HostState /\ GoTo(host[h], "watch").pc = "watch"
        /\ GoTo(host[h], "watch").gen = host[h].gen
    BY <1>1, Sane, GoToFields
  <2>2. watch \in HostState /\ watch.pc = "watch" /\ watch.gen = host[h].gen
    BY <1>4, <2>1, NonceFields
  <2> QED BY <1>1, <1>2, <2>2, Sane, MayGoOn, MayFail
<1>6. PICK s \in {watch, GoTo(host[h], "failed")} :
        (Activate \/ UNCHANGED vars) /\ Answered(h, s)
  BY <1>4 DEF ActivateCall, NothingChanges
<1> QED BY <1>1, <1>3, <1>5, <1>6, AnswerKeeps

LEMMA WatchCallKeeps ==
  ASSUME InstallInv, NEW h \in Hosts, WatchCall(h)
  PROVE  CallKeeps(h)
<1>1. /\ host[h].pc = "watch" /\ "watch" \in Packaged \cap Unasked /\ "watch" \in Calls
      /\ "confirm" \in Packaged /\ "confirm" \in Calls \cup Outcomes /\ "confirm" \notin Unasked
  BY DEF WatchCall, Calling, Calls, Outcomes, Packaged, Unasked
<1>2. host[h].gen \in Gens
  BY <1>1 DEF InstallInv, PackagedInRange
<1>3. PICK again : again = [host[h] EXCEPT !.nonce = "none"]
  OBVIOUS
<1>4. MayBecome(h, again)
  BY <1>3, Sane, NonceFields, MayStay
<1>5. MayBecome(h, GoTo(host[h], "confirm")) /\ MayBecome(h, GoTo(host[h], "failed"))
  BY <1>1, <1>2, Sane, GoToFields, MayGoOn, MayFail
<1>6. PICK s \in {again, GoTo(host[h], "confirm"), GoTo(host[h], "failed")} : Answered(h, s)
  BY <1>3 DEF WatchCall
<1>7. UNCHANGED vars
  BY DEF WatchCall
<1> QED BY <1>1, <1>4, <1>5, <1>6, <1>7, AnswerKeeps

(* The answer to confirm tells of the image that is confirmed now.         *)
LEMMA ConfirmInstalls ==
  ASSUME InstallInv, NEW h \in Hosts, Confirm(Payload[h]), run'.confirmed
  PROVE  Installed(h, meta'.cgen)
<1>1. Confirm(Payload[h]) => Next
  BY Sane DEF Next, Request
<1>2. IndInv'
  BY <1>1, Sane, NextKeepsIndInv
<1>3. Undamaged' /\ RunsConfirmed'
  BY Sane, ConfirmPromotes DEF BoardKeeps
<1>4. run'.slot = run.slot /\ flash' = flash /\ run.slot \in AppSlots
  BY Sane DEF Confirm, BootConfirm, TypeOK, BootInfo
<1>5. meta'.cslot = run.slot
  BY <1>3, <1>4 DEF RunsConfirmed
<1>6. Readable(meta') /\ ConfirmedBootable(meta)' /\ flash'[meta'.cslot].hdr \in Header
  <2>1. meta'.cslot \in AppSlots /\ Readable(meta')
    BY <1>3, <1>4, <1>5 DEF Undamaged, Readable
  <2>2. ImageValid(meta.cslot)' /\ flash'[meta'.cslot].hdr.gen = meta'.cgen
    BY <1>2, <1>3, <2>1 DEF IndInv, ReferencedImagesIntact, Intact, Undamaged, Readable, ImageValid
  <2>3. flash'[meta'.cslot].hdr # NoHeader
    BY <2>2 DEF ImageValid
  <2>4. flash' \in [AppSlots -> Slot]
    BY <1>2 DEF IndInv, TypeOK
  <2> QED BY <2>1, <2>2, <2>3, <2>4 DEF ConfirmedBootable, Slot
<1>7. flash'[meta'.cslot].hdr.img = Payload[h]
  BY <1>4, <1>5 DEF Confirm
<1>8. flash'[meta'.cslot].hdr.gen = meta'.cgen
  BY <1>6 DEF ConfirmedBootable
<1>9. flash'[meta'.cslot].hdr = [gen |-> meta'.cgen, img |-> Payload[h]]
  BY <1>6, <1>7, <1>8 DEF Header
<1> QED BY <1>6, <1>9 DEF Installed

LEMMA ConfirmCallKeeps ==
  ASSUME InstallInv, NEW h \in Hosts, ConfirmCall(h)
  PROVE  CallKeeps(h)
<1>1. /\ host[h].pc = "confirm" /\ "confirm" \in Calls /\ "confirm" \notin Unasked
      /\ {"passed", "failed"} \subseteq Calls \cup Outcomes
      /\ {"passed", "failed"} \cap (Packaged \cup Unasked) = {}
  BY DEF ConfirmCall, Calling, Calls, Outcomes, Packaged, Unasked
<1> DEFINE told == run'.confirmed /\ meta'.cgen = host[h].gen /\ meta'.tslot = NoSlot
<1>2. MayBecome(h, GoTo(host[h], "failed"))
  BY Sane, MayFail
<1>3. Confirm(Payload[h]) /\ told => MayBecome(h, GoTo(host[h], "passed"))
  <2> SUFFICES ASSUME Confirm(Payload[h]), told PROVE MayBecome(h, GoTo(host[h], "passed"))
    OBVIOUS
  <2>1. Installed(h, host[h].gen)
    BY ConfirmInstalls
  <2>2. /\ GoTo(host[h], "passed") \in HostState /\ GoTo(host[h], "passed").pc = "passed"
        /\ GoTo(host[h], "passed").gen = host[h].gen
    BY <1>1, Sane, GoToFields
  <2> QED BY <1>1, <2>1, <2>2 DEF MayBecome
<1>4. PICK s \in {GoTo(host[h], "passed"), GoTo(host[h], "failed")} :
        /\ Confirm(Payload[h]) \/ UNCHANGED vars
        /\ MayBecome(h, s) /\ Answered(h, s)
  BY <1>2, <1>3 DEF ConfirmCall, NothingChanges
<1>5. CASE UNCHANGED vars
  BY <1>1, <1>4, <1>5, AnswerKeeps
<1>6. CASE Confirm(Payload[h])
  <2>1. Next
    BY <1>6, Sane DEF Next, Request
  <2>2. BoardKeeps /\ (Steady \/ Promotes(Payload[h]))
    BY <1>6, Sane, ConfirmPromotes
  <2>3. HostsMove
    BY <1>1, <1>4, Sane, AnsweredMoves
  <2>4. host'[h].pc \notin Unasked
    <3>1. host'[h] \in {s, NoAnswer(host[h])}
      BY <1>4 DEF Answered
    <3>2. s.pc \notin Unasked
      BY <1>1, <1>4, Sane, GoToFields
    <3>3. NoAnswer(host[h]).pc \in {"confirm", "failed"}
      BY <1>1, Sane, NoAnswerFields
    <3> QED BY <1>1, <3>1, <3>2, <3>3
  <2> QED BY <2>1, <2>2, <2>3, <2>4 DEF CallKeeps
<1> QED BY <1>4, <1>5, <1>6

LEMMA HostStepKeeps ==
  ASSUME InstallInv, NEW h \in Hosts, HostStep(h)
  PROVE  CallKeeps(h)
BY ChallengeKeeps, ConnectionFailsKeeps, UnauthenticatedKeeps, StatusKeeps, AbortKeeps,
   BeginCallKeeps, ChunkCallKeeps, FinishCallKeeps, ActivateCallKeeps, WatchCallKeeps,
   WaitOverKeeps, ConfirmCallKeeps DEF HostStep

-----------------------------------------------------------------------------
(* install(): every step.                                                  *)

LEMMA BoardStepKeeps ==
  ASSUME InstallInv, BoardStep
  PROVE  [Next]_vars /\ Steady /\ BoardKeeps /\ HostsMove
<1>1. IndInv /\ Undamaged /\ RunsConfirmed /\ HostsSane /\ host \in [Hosts -> HostState]
  BY DEF InstallInv, HostsSane, InstallTypeOK
<1>2. Stage0 \/ Loop \/ PowerCut
  BY DEF BoardStep
<1>3. Next
  BY <1>2 DEF Next, Surroundings
<1>4. Steady /\ BoardKeeps
  BY <1>1, <1>2, Stage0IsSteady, LoopIsSteady
<1>5. host' \in {[h \in Hosts |-> Expire(host[h])], host}
  BY DEF BoardStep
<1>6. \A h \in Hosts : host'[h] \in {Expire(host[h]), host[h]}
  BY <1>5
<1>7. \A h \in Hosts : MayBecome(h, host'[h])
  BY <1>1, <1>6, MayExpire
<1>8. host' = [h \in Hosts |-> host'[h]]
  BY <1>1, <1>5
<1> QED BY <1>3, <1>4, <1>7, <1>8 DEF HostsMove, MayBecome

LEMMA SteadyConfirmedNow == Steady => ConfirmedNow' = ConfirmedNow
BY DEF Steady, Follows, ConfirmedNow

LEMMA PromotedConfirmedNow ==
  ASSUME NEW digest, Promotes(digest)
  PROVE  ConfirmedNow' = {<<run.gen, digest>>}
BY DEF Promotes, ConfirmedNow

LEMMA InstallStep ==
  ASSUME InstallInv, [InstallNext]_installVars
  PROVE  /\ [Next]_vars /\ BoardKeeps /\ HostsMove
         /\ proven' = proven \cup ConfirmedNow'
         /\ \/ Steady
            \/ \E h \in Hosts : Promotes(Payload[h]) /\ host'[h].pc \notin Unasked
<1>1. CASE InstallNext
  BY <1>1, BoardStepKeeps, HostStepKeeps DEF InstallNext, CallKeeps
<1>2. CASE UNCHANGED installVars
  <2>1. UNCHANGED vars /\ host' = host /\ proven' = proven
    BY <1>2 DEF installVars
  <2>2. IndInv /\ Undamaged /\ RunsConfirmed /\ HostsSane /\ host \in [Hosts -> HostState]
    BY DEF InstallInv, HostsSane, InstallTypeOK
  <2>3. Steady /\ BoardKeeps
    BY <2>1, <2>2, QuietIsSteady DEF vars, nor, ram, history
  <2>4. \A h \in Hosts : MayBecome(h, host'[h])
    BY <2>1, <2>2, MayExpire
  <2>5. ConfirmedNow' \subseteq proven
    BY <2>3, SteadyConfirmedNow DEF InstallInv, ProvenRemembered
  <2> QED BY <2>1, <2>2, <2>3, <2>4, <2>5 DEF HostsMove
<1> QED BY <1>1, <1>2

(* The generation a trial is promoted with is newer than all that were     *)
(* confirmed.                                                              *)
LEMMA ProvenKept ==
  ASSUME InstallInv, proven' = proven \cup ConfirmedNow',
         Steady \/ \E h \in Hosts : Promotes(Payload[h])
  PROVE  /\ proven' \subseteq Gens \X Images
         /\ ProvenRemembered' /\ OneImagePerGeneration'
<1>1. TypeOK /\ StoppedIsIdle /\ proven \subseteq Gens \X Images
  BY DEF InstallInv, IndInv, InstallTypeOK
<1>2. CASE Steady
  <2>1. proven' = proven /\ ConfirmedNow' = ConfirmedNow /\ meta'.cgen = meta.cgen
    BY <1>2, SteadyConfirmedNow DEF InstallInv, ProvenRemembered, Steady, Follows
  <2> QED BY <1>1, <2>1 DEF InstallInv, ProvenRemembered, OneImagePerGeneration
<1>3. ASSUME NEW h \in Hosts, Promotes(Payload[h])
      PROVE  /\ proven' \subseteq Gens \X Images
             /\ ProvenRemembered' /\ OneImagePerGeneration'
  <2>1. ConfirmedNow' = {<<run.gen, Payload[h]>>} /\ meta'.cgen = run.gen
    BY <1>3, PromotedConfirmedNow DEF Promotes
  <2>2. run.gen \in Gens /\ run.gen > meta.cgen /\ meta.cgen \in Nat
    BY <1>1, <1>3, MetaFields DEF Promotes, StoppedIsIdle, TypeOK
  <2>3. \A p \in proven : p[1] < run.gen /\ p[1] \in Nat
    BY <1>1, <2>2 DEF InstallInv, ProvenRemembered, Gens
  <2>4. <<run.gen, Payload[h]>> \in Gens \X Images
    BY <2>2, InstallAssumption
  <2>5. proven' = proven \cup {<<run.gen, Payload[h]>>}
    BY <2>1
  <2>6. proven' \subseteq Gens \X Images
    BY <1>1, <2>4, <2>5
  <2>7. \A p \in proven' : p \in proven \/ (p = <<run.gen, Payload[h]>> /\ p[1] = run.gen)
    BY <2>5
  <2>8. ProvenRemembered'
    <3>1. ConfirmedNow' \subseteq proven'
      BY <2>1, <2>5
    <3>2. \A p \in proven' : p[1] <= meta'.cgen /\ (p[1] = meta'.cgen => p \in ConfirmedNow')
      BY <2>1, <2>2, <2>3, <2>7 DEF Gens
    <3> QED BY <3>1, <3>2 DEF ProvenRemembered
  <2>9. OneImagePerGeneration'
    <3>1. \A p, q \in proven' : p[1] = q[1] => p[2] = q[2]
      BY <2>2, <2>3, <2>7 DEF InstallInv, OneImagePerGeneration, Gens
    <3> QED BY <3>1 DEF OneImagePerGeneration
  <2> QED BY <2>6, <2>8, <2>9
<1> QED BY <1>2, <1>3

LEMMA InstallNextInv ==
  ASSUME InstallInv, [InstallNext]_installVars
  PROVE  InstallInv'
<1>1. /\ [Next]_vars /\ BoardKeeps /\ HostsMove
      /\ proven' \subseteq Gens \X Images
      /\ ProvenRemembered' /\ OneImagePerGeneration'
  BY InstallStep, ProvenKept
<1>2. IndInv'
  BY <1>1, NextKeepsIndInv DEF InstallInv
<1>3. InstallTypeOK'
  BY <1>1 DEF HostsMove, InstallTypeOK
<1>4. PackagedInRange'
  BY <1>1 DEF HostsMove, MayBecome, PackagedInRange
<1> QED BY <1>1, <1>2, <1>3, <1>4 DEF BoardKeeps, InstallInv

LEMMA InitInstallInv == InstallInit => InstallInv
<1> SUFFICES ASSUME InstallInit PROVE InstallInv
  OBVIOUS
<1>1. Init /\ IndInv
  BY InitIndInv DEF InstallInit
<1>2. /\ meta \in Meta /\ meta.seq = 2 /\ decayed = {} /\ run = NotRunning
      /\ \/ meta.cslot = NoSlot
         \/ /\ meta.cslot = 0 /\ meta.cgen = 1 /\ 1 \in Gens
            /\ \E i \in Images : \A s \in AppSlots : flash[s].hdr = [gen |-> 1, img |-> i]
  <2>1. meta \in Meta /\ decayed = {} /\ run = NotRunning
    BY <1>1 DEF Init, IndInv, TypeOK
  <2>2. CASE meta = [EmptyMeta EXCEPT !.seq = 2]
    BY <2>1, <2>2 DEF EmptyMeta
  <2>3. ASSUME NEW i \in Images, 1 \in Gens,
               meta = [EmptyMeta EXCEPT !.seq = 2, !.cslot = 0, !.cgen = 1],
               flash = [s \in AppSlots |-> [hdr |-> [gen |-> 1, img |-> i],
                                            body |-> [c \in 1 .. Chunks |-> i]]]
        PROVE  /\ meta.seq = 2 /\ meta.cslot = 0 /\ meta.cgen = 1
               /\ \A s \in AppSlots : flash[s].hdr = [gen |-> 1, img |-> i]
    BY <2>3 DEF EmptyMeta
  <2> QED BY <1>1, <2>1, <2>2, <2>3 DEF Init
<1>3. Undamaged /\ RunsConfirmed
  BY <1>2 DEF Undamaged, Readable, RunsConfirmed, NotRunning, AppSlots, NoSlot
<1>4. /\ proven = ConfirmedNow
      /\ ConfirmedNow = {} \/ \E i \in Images : ConfirmedNow = {<<meta.cgen, i>>} /\ meta.cgen \in Gens
  <2>1. CASE meta.cslot = NoSlot
    BY <2>1 DEF ConfirmedNow, AppSlots, NoSlot, InstallInit
  <2>2. CASE meta.cslot = 0 /\ meta.cgen = 1 /\ 1 \in Gens
    <3>1. PICK i \in Images : flash[0].hdr = [gen |-> 1, img |-> i]
      BY <1>2, <2>2 DEF AppSlots, NoSlot
    <3>2. ConfirmedNow = {<<meta.cgen, i>>}
      BY <2>2, <3>1 DEF ConfirmedNow, AppSlots
    <3> QED BY <2>2, <3>2 DEF InstallInit
  <2> QED BY <1>2, <2>1, <2>2
<1>5. InstallTypeOK /\ PackagedInRange
  <2> DEFINE s == [pc |-> "status", nonce |-> "none", tries |-> 0, gen |-> 0, offset |-> 1]
  <2>1. host = [h \in Hosts |-> s]
    BY DEF InstallInit
  <2>2. s \in HostState
    <3>1. 0 \in 0 .. Attempts - 1 /\ 0 \in 0 .. MaxGen + 1 /\ 1 \in 1 .. Chunks
      BY InstallAssumption, ConstantsAssumption
    <3> QED BY <3>1 DEF HostState, Calls
  <2>3. s.pc \notin Packaged
    BY DEF Packaged
  <2>4. proven \subseteq Gens \X Images
    BY <1>4
  <2> HIDE DEF s
  <2> QED BY <2>1, <2>2, <2>3, <2>4 DEF InstallTypeOK, PackagedInRange
<1>6. ProvenRemembered /\ OneImagePerGeneration
  BY <1>4 DEF ProvenRemembered, OneImagePerGeneration, Gens
<1> QED BY <1>1, <1>3, <1>5, <1>6 DEF InstallInv

(* The invariant that the properties of install() follow from.             *)
THEOREM InstallInvariance == InstallSpec => []InstallInv
<1>1. InstallInv /\ [InstallNext]_installVars => InstallInv'
  BY InstallNextInv
<1> QED BY <1>1, InitInstallInv, PTL DEF InstallSpec

(* Whatever hosts run install(), and however many of their calls are lost, *)
(* the board does what BootUpdate allows: what is proved of it holds.      *)
THEOREM InstallIsUpdate == InstallSpec => Spec
<1>1. InstallInv /\ [InstallNext]_installVars => [Next]_vars
  BY InstallStep
<1>2. InstallInit => Init
  BY DEF InstallInit
<1> QED BY <1>1, <1>2, InstallInvariance, PTL DEF InstallSpec, Spec

(* Hosts stay within their calls, tries, generations and blocks.           *)
THEOREM InstallTypeCorrect == InstallSpec => []InstallTypeOK
<1>1. InstallInv => InstallTypeOK
  BY DEF InstallInv
<1> QED BY <1>1, InstallInvariance, PTL

(* Hosts that race for a generation do not get two images confirmed in it. *)
THEOREM GenerationsNameOneImage == InstallSpec => []OneImagePerGeneration
<1>1. InstallInv => OneImagePerGeneration
  BY DEF InstallInv
<1> QED BY <1>1, InstallInvariance, PTL

(* When install() says passed, the board's confirmed image is whole and is *)
(* the host's payload in the host's generation.                            *)
THEOREM PassedInstalled == InstallSpec => PassedIsInstalled
<1> DEFINE Act ==
      \A h \in Hosts : host[h].pc # "passed" /\ host'[h].pc = "passed" =>
        /\ Readable(meta') /\ ConfirmedBootable(meta)'
        /\ flash'[meta'.cslot].hdr = [gen |-> host'[h].gen, img |-> Payload[h]]
<1>1. InstallInv /\ [InstallNext]_installVars => Act
  <2> SUFFICES ASSUME InstallInv, [InstallNext]_installVars, NEW h \in Hosts,
                      host[h].pc # "passed", host'[h].pc = "passed"
               PROVE  /\ Readable(meta') /\ ConfirmedBootable(meta)'
                      /\ flash'[meta'.cslot].hdr = [gen |-> host'[h].gen, img |-> Payload[h]]
    OBVIOUS
  <2>1. Installed(h, host'[h].gen)
    BY InstallStep DEF HostsMove, MayBecome
  <2> QED BY <2>1 DEF Installed
<1> QED BY <1>1, InstallInvariance, PTL DEF InstallSpec, PassedIsInstalled

-----------------------------------------------------------------------------
(* install(): a host that gave up.                                         *)

(* A host that has not asked is not confirmed by what others do, if their  *)
(* payloads are not its own.                                               *)
LEMMA UnaskedStays ==
  ASSUME \A g, h \in Hosts : Payload[g] = Payload[h] => g = h,
         InstallInv, UnaskedUnproven, [InstallNext]_installVars
  PROVE  UnaskedUnproven'
<1> SUFFICES ASSUME NEW g \in Hosts, host'[g].pc \in Unasked
             PROVE  <<host'[g].gen, Payload[g]>> \notin proven'
  BY DEF UnaskedUnproven
<1>1. HostsMove /\ proven' = proven \cup ConfirmedNow'
  BY InstallStep
<1>2. <<host'[g].gen, Payload[g]>> \notin proven
  <2>1. CASE host[g].pc \in Unasked /\ host'[g].gen = host[g].gen
    BY <2>1 DEF UnaskedUnproven
  <2>2. CASE host'[g].gen > meta.cgen
    <3>1. host'[g].gen \in Int /\ meta.cgen \in Int
      BY <1>1, HostFields, MetaFields DEF HostsMove, InstallInv, IndInv, TypeOK
    <3>2. \A p \in proven : p[1] <= meta.cgen /\ p[1] \in Int
      BY DEF InstallInv, ProvenRemembered, InstallTypeOK, Gens
    <3> QED BY <2>2, <3>1, <3>2
  <2> QED BY <1>1, <2>1, <2>2 DEF HostsMove, MayBecome
<1>3. CASE Steady
  <2>1. proven' = proven
    BY <1>1, <1>3, SteadyConfirmedNow DEF InstallInv, ProvenRemembered
  <2> QED BY <1>2, <2>1
<1>4. ASSUME NEW h \in Hosts, Promotes(Payload[h]), host'[h].pc \notin Unasked
      PROVE  <<host'[g].gen, Payload[g]>> \notin proven'
  <2>1. Payload[g] # Payload[h]
    BY <1>4
  <2> QED BY <1>1, <1>2, <1>4, <2>1, PromotedConfirmedNow
<1> QED BY <1>3, <1>4, InstallStep

(* A host that gave up waiting has left its candidate unconfirmed, also    *)
(* when it never heard the answer to activate.  With the same payload in   *)
(* the same generation another host may have confirmed it.                 *)
THEOREM GivingUpKeepsRollback ==
  ASSUME \A g, h \in Hosts : Payload[g] = Payload[h] => g = h
  PROVE  InstallSpec => []RollbackRemains
<1>1. InstallInit => UnaskedUnproven
  BY DEF InstallInit, UnaskedUnproven, Unasked
<1>2. InstallInv /\ UnaskedUnproven /\ [InstallNext]_installVars => UnaskedUnproven'
  BY UnaskedStays
<1>3. UnaskedUnproven => RollbackRemains
  BY DEF UnaskedUnproven, RollbackRemains, Unasked
<1> QED BY <1>1, <1>2, <1>3, InstallInvariance, PTL DEF InstallSpec
=============================================================================
