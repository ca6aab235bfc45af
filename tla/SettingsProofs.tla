--------------------------- MODULE SettingsProofs ----------------------------
(***************************************************************************)
(* What clients ask of the settings happens to what they have seen, and    *)
(* only what was confirmed, where it is reachable, stays in force: for any *)
(* addresses, instances and keys, any number of late requests, revisions   *)
(* and resets.                                                             *)
(***************************************************************************)
EXTENDS Settings, FiniteSetTheorems, TLAPS

LEMMA RecordFields ==
  /\ \A r \in Records : /\ r.settings \in Configurations /\ r.instances \in Instances
                        /\ r.sequence \in 0 .. MaxRevision
  /\ \A a \in Applications : a.key \in Keys \cup {None} /\ a.rev \in 0 .. MaxRevision
  /\ NoRecord \in Records /\ NoRecord.settings = Default
  /\ NoInstances \in Instances
BY SettingsAssumption DEF Records, Applications, NoRecord, Configurations, Default, NoInstances

(* The states an operation goes through.                                   *)
LEMMA OperationMoves ==
  /\ \A o \in Operations : \A s \in {"awaiting_confirmation", "succeeded", "rolled_back"} :
       [o EXCEPT !.state = s] \in Operations
  /\ \A b \in 0 .. MaxBoots, r \in 0 .. MaxRevision :
       [id |-> <<b, r>>, state |-> "queued"] \in Operations
  /\ [id |-> <<0, 0>>, state |-> ""] \in Operations
<1>1. \A o \in Operations : \A s \in {"awaiting_confirmation", "succeeded", "rolled_back"} :
         [o EXCEPT !.state = s] \in Operations
  BY DEF Operations
<1>2. \A b \in 0 .. MaxBoots, r \in 0 .. MaxRevision : <<b, r>> \in (0 .. MaxBoots) \X (0 .. MaxRevision)
  OBVIOUS
<1>3. 0 \in 0 .. MaxBoots /\ 0 \in 0 .. MaxRevision
  BY SettingsAssumption
<1>4. \A i \in (0 .. MaxBoots) \X (0 .. MaxRevision) :
         [id |-> i, state |-> "queued"] \in Operations /\ [id |-> i, state |-> ""] \in Operations
  BY DEF Operations
<1> QED BY <1>1, <1>2, <1>3, <1>4

-----------------------------------------------------------------------------
(* The network: any configuration, link, lease and fallback keep the       *)
(* address in agreement with what is configured.                           *)

LEMMA ConfigureAgrees ==
  ASSUME NetworkTypeOK, AddressAsConfigured, NEW c \in Configurations, Configure(c)
  PROVE  NetworkTypeOK' /\ AddressAsConfigured' /\ conf' = c
BY NetworkAssumption
   DEF NetworkTypeOK, AddressAsConfigured, Configure, Start, StartFails, Configurations

LEMMA BootAgrees ==
  ASSUME NEW c \in Configurations, Boot(c)
  PROVE  NetworkTypeOK' /\ AddressAsConfigured' /\ conf' = c
BY NetworkAssumption
   DEF NetworkTypeOK, AddressAsConfigured, Boot, Start, StartFails, Configurations

LEMMA EnvironmentAgrees ==
  ASSUME NetworkTypeOK, AddressAsConfigured, Environment
  PROVE  NetworkTypeOK' /\ AddressAsConfigured' /\ conf' = conf
<1> USE NetworkAssumption DEF NetworkTypeOK, AddressAsConfigured, Configurations
<1>1. CASE LinkUp
  BY <1>1 DEF LinkUp, Start, StartFails
<1>2. CASE LinkDown
  BY <1>2 DEF LinkDown
<1>3. CASE Bound
  BY <1>3 DEF Bound
<1>4. CASE FallBack
  BY <1>4 DEF FallBack
<1>5. CASE Lapse
  BY <1>5 DEF Lapse
<1> QED BY <1>1, <1>2, <1>3, <1>4, <1>5 DEF Environment

LEMMA NetworkStays ==
  ASSUME UNCHANGED network, NetworkTypeOK, AddressAsConfigured
  PROVE  NetworkTypeOK' /\ AddressAsConfigured' /\ conf' = conf /\ addr' = addr
BY DEF network, NetworkTypeOK, AddressAsConfigured

-----------------------------------------------------------------------------
(* Requests.                                                               *)

LEMMA FreshMeant ==
  ASSUME TypeOK, NEW m \in Fresh
  PROVE  Meant(m)
<1> USE SettingsAssumption
<1>1. CASE \E s \in Configurations : m = Put(s)
  BY <1>1 DEF TypeOK, Meant, Put
<1>2. CASE \E k \in Keys : m = Apply(k)
  BY <1>2 DEF TypeOK, Meant, Apply
<1>3. CASE \E i \in Instances : m = PutInstances(i)
  BY <1>3 DEF TypeOK, Meant, PutInstances
<1>4. CASE m \in {Delete, Validate, Confirm}
  BY <1>4 DEF TypeOK, Meant, Delete, Validate, Confirm
<1> QED BY <1>1, <1>2, <1>3, <1>4 DEF Fresh

(* What every step but a reset does to the revisions: none goes back, and  *)
(* one that stays has its content still.                                   *)
Forward ==
  /\ boot' = boot
  /\ settings_revision <= settings_revision'
  /\ instances_revision <= instances_revision'
  /\ candidate_revision <= candidate_revision'
  /\ settings_revision' = settings_revision => settings' = settings
  /\ instances_revision' = instances_revision => instances' = instances
  /\ candidate_revision' = candidate_revision => candidate' \in {candidate, None}

LEMMA MeantForward ==
  ASSUME TypeOK, TypeOK', Forward, NEW m, Meant(m)
  PROVE  Meant(m)'
<1> USE SettingsAssumption
<1>1. /\ settings_revision \in Nat /\ settings_revision' \in Nat
      /\ instances_revision \in Nat /\ instances_revision' \in Nat
      /\ candidate_revision \in Nat /\ candidate_revision' \in Nat
  BY DEF TypeOK
<1> QED BY <1>1 DEF Forward, Meant

(* The requests of an earlier boot claim nothing of this one.              *)
LEMMA MeantRestart ==
  ASSUME boot \in Nat, boot' = boot + 1, NEW m, Meant(m)
  PROVE  Meant(m)'
BY DEF Meant

-----------------------------------------------------------------------------
(* Saving: what is stored afterwards is what was stored, or what was to    *)
(* be.                                                                     *)
LEMMA SaveStores ==
  ASSUME saved \in Records, NEW s \in Configurations, NEW i \in Instances,
         SaveSucceeds(s, i) \/ SaveFails(s, i)
  PROVE  /\ saved' \in Records
         /\ saved'.settings \in {saved.settings, s}
         /\ SaveSucceeds(s, i) => saved'.settings = s
<1>1. CASE UNCHANGED saved
  <2>1. SaveSucceeds(s, i) => Stored(s, i)
    <3>1. ASSUME ~Stored(s, i), SaveSucceeds(s, i) PROVE FALSE
      <4>1. saved' = Record(s, i)
        BY <3>1 DEF SaveSucceeds
      <4>2. saved'.sequence = saved.sequence + 1
        BY <4>1 DEF Record
      <4> QED BY <1>1, <4>2, RecordFields
    <3> QED BY <3>1
  <2> QED BY <1>1, <2>1 DEF Stored
<1>2. CASE saved.sequence < MaxRevision /\ saved' = Record(s, i)
  <2>1. saved.sequence + 1 \in 0 .. MaxRevision
    BY <1>2, RecordFields, SettingsAssumption
  <2> QED BY <1>2, <2>1 DEF Record, Records
<1> QED BY <1>1, <1>2 DEF SaveSucceeds, SaveFails

(* The part of the invariant that is about the board.                      *)
BoardInv == TypeOK /\ NetworkInUse /\ SettledByConfirmation /\ TrialConfirmed

(* What a step that answers a request, or does what is due, must show.     *)
Sound == BoardInv' /\ Forward

LEMMA PutSound ==
  ASSUME IndInv, NEW m, Meant(m), PutCandidate(m)
  PROVE  Sound
<1> USE SettingsAssumption DEF PutCandidate, Arrives, IndInv
<1>1. m.new \in Configurations /\ m.new # None
  BY DEF Meant
<1>2. /\ candidate_revision \in 0 .. MaxRevision
      /\ candidate_revision + 1 \in 0 .. MaxRevision
      /\ candidate_revision + 1 # candidate_revision
      /\ candidate_revision <= candidate_revision + 1
  BY DEF TypeOK
<1>3. applied.rev <= candidate_revision + 1
  BY <1>2, RecordFields DEF TypeOK
<1>4. NetworkTypeOK' /\ AddressAsConfigured' /\ conf' = conf
  BY NetworkStays DEF TypeOK, NetworkInUse
<1>5. TypeOK'
  BY <1>1, <1>2, <1>3, <1>4 DEF TypeOK
<1>6. NetworkInUse'
  BY <1>4 DEF NetworkInUse
<1>7. SettledByConfirmation' /\ TrialConfirmed'
  BY DEF SettledByConfirmation, TrialConfirmed
<1>8. Forward
  BY <1>2 DEF Forward, TypeOK
<1> QED BY <1>5, <1>6, <1>7, <1>8 DEF Sound, BoardInv

(* Without a candidate, and with no change pending or none that goes on.   *)
LEMMA ForgetSound ==
  ASSUME IndInv, CandidateExpires \/ \E m : DeleteCandidate(m)
  PROVE  Sound
<1> USE SettingsAssumption DEF CandidateExpires, DeleteCandidate, Forget, IndInv
<1>1. NetworkTypeOK' /\ AddressAsConfigured' /\ conf' = conf
  BY NetworkStays DEF TypeOK, NetworkInUse
<1>2. TypeOK'
  BY <1>1 DEF TypeOK
<1>3. NetworkInUse'
  BY <1>1 DEF NetworkInUse
<1>4. SettledByConfirmation' /\ TrialConfirmed'
  BY DEF SettledByConfirmation, TrialConfirmed
<1>5. Forward
  BY DEF Forward, TypeOK
<1> QED BY <1>2, <1>3, <1>4, <1>5 DEF Sound, BoardInv

LEMMA ValidateSound ==
  ASSUME IndInv, NEW m, ValidateCandidate(m)
  PROVE  Sound
<1> USE SettingsAssumption DEF ValidateCandidate, IndInv
<1>1. NetworkTypeOK' /\ AddressAsConfigured' /\ conf' = conf
  BY NetworkStays DEF TypeOK, NetworkInUse
<1>2. TypeOK'
  BY <1>1 DEF TypeOK
<1>3. NetworkInUse'
  BY <1>1 DEF NetworkInUse
<1>4. SettledByConfirmation' /\ TrialConfirmed'
  BY DEF SettledByConfirmation, TrialConfirmed
<1>5. Forward
  BY DEF Forward, TypeOK
<1> QED BY <1>2, <1>3, <1>4, <1>5 DEF Sound, BoardInv

LEMMA ApplySound ==
  ASSUME IndInv, NEW m, Meant(m), ApplyCandidate(m)
  PROVE  Sound
<1> USE SettingsAssumption DEF ApplyCandidate, Arrives, IndInv
<1>1. /\ boot \in 0 .. MaxBoots /\ candidate_revision \in 0 .. MaxRevision
      /\ candidate_revision <= candidate_revision
  BY DEF TypeOK
<1>2. operation' \in Operations
  BY <1>1, OperationMoves
<1>3. applied' \in Applications /\ applied'.rev = candidate_revision
  BY <1>1 DEF Meant, Applications
<1>4. NetworkTypeOK' /\ AddressAsConfigured' /\ conf' = conf
  BY NetworkStays DEF TypeOK, NetworkInUse
<1>5. TypeOK'
  BY <1>1, <1>2, <1>3, <1>4 DEF TypeOK
<1>6. NetworkInUse'
  BY <1>4 DEF NetworkInUse
<1>7. SettledByConfirmation' /\ TrialConfirmed'
  BY DEF SettledByConfirmation, TrialConfirmed
<1>8. Forward
  BY DEF Forward, TypeOK
<1> QED BY <1>5, <1>6, <1>7, <1>8 DEF Sound, BoardInv

LEMMA Forgotten ==
  ASSUME Forget
  PROVE  candidate' \in Configurations \cup {None} /\ candidate_valid' \in BOOLEAN
BY DEF Forget

LEMMA PendingCandidate ==
  ASSUME TypeOK, TrialConfirmed, network_pending # 0
  PROVE  candidate \in Configurations
BY DEF TypeOK, TrialConfirmed

LEMMA ConfirmSavedSound ==
  ASSUME IndInv, NEW m, ConfirmSaved(m)
  PROVE  Sound
<1> USE SettingsAssumption DEF IndInv
<1>1. candidate \in Configurations
  BY PendingCandidate DEF ConfirmSaved, Confirmable
<1>2. saved' \in Records /\ saved'.settings = candidate
  BY <1>1, SaveStores DEF ConfirmSaved, TypeOK
<1>3. /\ settings_revision' \in 0 .. MaxRevision
      /\ settings_revision <= settings_revision'
      /\ settings_revision # settings_revision'
  BY DEF ConfirmSaved, TypeOK
<1>4. operation' \in Operations
  BY OperationMoves DEF ConfirmSaved, TypeOK
<1>5. NetworkTypeOK' /\ AddressAsConfigured' /\ conf' = conf
  BY NetworkStays DEF ConfirmSaved, TypeOK, NetworkInUse
<1>6. Forget /\ settings' = candidate /\ network_pending' = 0 /\ kept' = {candidate}
  BY DEF ConfirmSaved
<1>7. UNCHANGED <<instances, instances_revision, candidate_revision, applied, boot, late>>
  BY DEF ConfirmSaved
<1>8. TypeOK'
  BY <1>1, <1>2, <1>3, <1>4, <1>5, <1>6, <1>7, Forgotten DEF TypeOK
<1>9. NetworkInUse'
  BY <1>5 DEF NetworkInUse, ConfirmSaved, Confirmable
<1>10. SettledByConfirmation' /\ TrialConfirmed'
  BY <1>2, <1>6 DEF SettledByConfirmation, TrialConfirmed
<1>11. Forward
  BY <1>3, <1>6, <1>7 DEF Forward, Forget, TypeOK
<1> QED BY <1>8, <1>9, <1>10, <1>11 DEF Sound, BoardInv

(* Whether the record counts or not, its settings have been confirmed.     *)
LEMMA ConfirmFailsSound ==
  ASSUME IndInv, NEW m, ConfirmFails(m)
  PROVE  Sound
<1> USE SettingsAssumption DEF ConfirmFails, Confirmable, IndInv
<1>1. candidate \in Configurations
  BY PendingCandidate
<1>2. saved' \in Records /\ saved'.settings \in {saved.settings, candidate}
  BY <1>1, SaveStores DEF TypeOK
<1>3. NetworkTypeOK' /\ AddressAsConfigured' /\ conf' = conf
  BY NetworkStays DEF TypeOK, NetworkInUse
<1>4. TypeOK'
  BY <1>1, <1>2, <1>3 DEF TypeOK
<1>5. NetworkInUse'
  BY <1>3 DEF NetworkInUse
<1>6. SettledByConfirmation' /\ TrialConfirmed'
  BY <1>2 DEF SettledByConfirmation, TrialConfirmed
<1>7. Forward
  BY DEF Forward, TypeOK
<1> QED BY <1>4, <1>5, <1>6, <1>7 DEF Sound, BoardInv

LEMMA InstancesSavedSound ==
  ASSUME IndInv, NEW m, Meant(m), InstancesSaved(m)
  PROVE  Sound
<1> USE SettingsAssumption DEF InstancesSaved, InstancesAllowed, Arrives, IndInv
<1>1. m.new \in Instances /\ settings \in Configurations
  BY DEF Meant, TypeOK
<1>2. saved' \in Records /\ saved'.settings = settings
  BY <1>1, SaveStores DEF TypeOK
<1>3. /\ instances_revision \in 0 .. MaxRevision
      /\ instances_revision + 1 \in 0 .. MaxRevision
      /\ instances_revision <= instances_revision + 1
      /\ instances_revision + 1 # instances_revision
  BY DEF TypeOK
<1>4. NetworkTypeOK' /\ AddressAsConfigured' /\ conf' = conf
  BY NetworkStays DEF TypeOK, NetworkInUse
<1>5. TypeOK'
  BY <1>1, <1>2, <1>3, <1>4 DEF TypeOK
<1>6. NetworkInUse'
  BY <1>4 DEF NetworkInUse
<1>7. SettledByConfirmation' /\ TrialConfirmed'
  BY <1>2 DEF SettledByConfirmation, TrialConfirmed
<1>8. Forward
  BY <1>3 DEF Forward, TypeOK
<1> QED BY <1>5, <1>6, <1>7, <1>8 DEF Sound, BoardInv

LEMMA InstancesFailSound ==
  ASSUME IndInv, NEW m, Meant(m), InstancesFail(m)
  PROVE  Sound
<1> USE SettingsAssumption DEF InstancesFail, InstancesAllowed, Arrives, IndInv
<1>1. m.new \in Instances /\ settings \in Configurations
  BY DEF Meant, TypeOK
<1>2. saved' \in Records /\ saved'.settings \in {saved.settings, settings}
  BY <1>1, SaveStores DEF TypeOK
<1>3. NetworkTypeOK' /\ AddressAsConfigured' /\ conf' = conf
  BY NetworkStays DEF TypeOK, NetworkInUse
<1>4. TypeOK'
  BY <1>1, <1>2, <1>3 DEF TypeOK
<1>5. NetworkInUse'
  BY <1>3 DEF NetworkInUse
<1>6. SettledByConfirmation' /\ TrialConfirmed'
  BY <1>2 DEF SettledByConfirmation, TrialConfirmed
<1>7. Forward
  BY DEF Forward, TypeOK
<1> QED BY <1>4, <1>5, <1>6, <1>7 DEF Sound, BoardInv

LEMMA ProcessSound ==
  ASSUME IndInv, NEW m \in Fresh \cup late, Process(m)
  PROVE  Sound
<1>1. Meant(m)
  BY FreshMeant DEF IndInv
<1> QED BY <1>1, PutSound, ForgetSound, ValidateSound, ApplySound, ConfirmSavedSound,
           ConfirmFailsSound, InstancesSavedSound, InstancesFailSound DEF Process

-----------------------------------------------------------------------------
(* What is due, and the environment.                                       *)

LEMMA ApplyDueSound ==
  ASSUME IndInv, ApplyDue
  PROVE  Sound
<1> USE SettingsAssumption DEF ApplyDue, IndInv
<1>1. candidate \in Configurations
  BY PendingCandidate
<1>2. NetworkTypeOK' /\ AddressAsConfigured' /\ conf' = candidate
  BY <1>1, ConfigureAgrees DEF TypeOK, NetworkInUse
<1>3. operation' \in Operations
  BY OperationMoves DEF TypeOK
<1>4. TypeOK'
  BY <1>1, <1>2, <1>3 DEF TypeOK
<1>5. NetworkInUse'
  BY <1>2 DEF NetworkInUse
<1>6. SettledByConfirmation' /\ TrialConfirmed'
  BY DEF SettledByConfirmation, TrialConfirmed
<1>7. Forward
  BY DEF Forward, TypeOK
<1> QED BY <1>4, <1>5, <1>6, <1>7 DEF Sound, BoardInv

LEMMA RollBackSound ==
  ASSUME IndInv, RollBack
  PROVE  Sound
<1> USE SettingsAssumption DEF IndInv
<1>1. NetworkTypeOK' /\ AddressAsConfigured' /\ conf' = settings
  BY ConfigureAgrees DEF RollBack, TypeOK, NetworkInUse
<1>2. operation' \in Operations
  BY OperationMoves DEF RollBack, TypeOK
<1>3. /\ Forget /\ network_pending' = 0
      /\ UNCHANGED <<settings, settings_revision, instances, instances_revision,
                     candidate_revision, applied, saved, kept, boot, late>>
  BY DEF RollBack
<1>4. TypeOK'
  BY <1>1, <1>2, <1>3, Forgotten DEF TypeOK
<1>5. NetworkInUse'
  BY <1>1, <1>3 DEF NetworkInUse
<1>6. SettledByConfirmation' /\ TrialConfirmed'
  BY <1>3 DEF SettledByConfirmation, TrialConfirmed
<1>7. Forward
  BY <1>3 DEF Forward, Forget, TypeOK
<1> QED BY <1>4, <1>5, <1>6, <1>7 DEF Sound, BoardInv

LEMMA NetworkChangesSound ==
  ASSUME IndInv, NetworkChanges
  PROVE  Sound
<1> USE SettingsAssumption DEF NetworkChanges, api, IndInv
<1>1. NetworkTypeOK' /\ AddressAsConfigured' /\ conf' = conf
  BY EnvironmentAgrees DEF TypeOK, NetworkInUse
<1>2. TypeOK'
  BY <1>1 DEF TypeOK
<1>3. NetworkInUse'
  BY <1>1 DEF NetworkInUse
<1>4. SettledByConfirmation' /\ TrialConfirmed'
  BY DEF SettledByConfirmation, TrialConfirmed
<1>5. Forward
  BY DEF Forward, TypeOK
<1> QED BY <1>2, <1>3, <1>4, <1>5 DEF Sound, BoardInv

(* After a reset the board has what is stored, and only that.              *)
LEMMA RestartSound ==
  ASSUME IndInv, Restart, saved' \in Records, saved'.settings \in kept',
         kept' \subseteq Configurations
  PROVE  BoardInv'
<1>1. /\ settings' = saved'.settings /\ instances' = saved'.instances
      /\ settings_revision' = saved'.sequence /\ instances_revision' = settings_revision'
  BY DEF Restart
<1>2. /\ settings' \in Configurations /\ instances' \in Instances
      /\ {settings_revision', instances_revision', 0} \subseteq 0 .. MaxRevision
  BY <1>1, RecordFields, SettingsAssumption
<1>3. /\ candidate' = None /\ candidate_valid' = FALSE
      /\ candidate_revision' = 0 /\ network_pending' = 0
      /\ applied' = [key |-> None, rev |-> 0] /\ late' = late
  BY DEF Restart, Forget
<1>4. boot' \in 1 .. MaxBoots
  <2>1. boot < MaxBoots /\ boot' = boot + 1
    BY DEF Restart
  <2>2. boot \in 1 .. MaxBoots
    BY DEF IndInv, TypeOK
  <2> QED BY <2>1, <2>2, SettingsAssumption
<1>5. applied' \in Applications /\ applied'.rev <= candidate_revision'
  BY <1>2, <1>3 DEF Applications
<1>6. operation' \in Operations
  BY OperationMoves DEF Restart
<1>7. NetworkTypeOK' /\ AddressAsConfigured' /\ conf' = settings'
  <2>1. Boot(settings')
    BY DEF Restart
  <2> QED BY <1>2, <2>1, BootAgrees
<1>8. IsFiniteSet(late') /\ Cardinality(late') <= MaxLate
  BY <1>3 DEF IndInv, TypeOK
<1>9. TypeOK'
  <2>1. Forget
    BY DEF Restart
  <2> QED BY <1>2, <1>3, <1>4, <1>5, <1>6, <1>7, <1>8, <2>1, Forgotten DEF TypeOK
<1>10. NetworkInUse'
  BY <1>3, <1>7 DEF NetworkInUse
<1>11. SettledByConfirmation' /\ TrialConfirmed'
  BY <1>1, <1>3 DEF SettledByConfirmation, TrialConfirmed
<1> QED BY <1>9, <1>10, <1>11 DEF BoardInv

LEMMA ResetSound ==
  ASSUME IndInv, Reset \/ \E m : ResetInSave(m)
  PROVE  BoardInv' /\ boot' = boot + 1 /\ late' = late
<1>1. CASE Reset
  BY <1>1, RestartSound DEF Reset, Restart, IndInv, TypeOK, TrialConfirmed
<1>2. CASE \E m : ResetInSave(m)
  <2>0. PICK m : ResetInSave(m)
    BY <1>2
  <2>1. candidate \in Configurations
    BY <2>0, PendingCandidate DEF ResetInSave, Confirmable, IndInv
  <2>2. saved' \in Records /\ saved'.settings \in {saved.settings, candidate}
    BY <2>0, <2>1, SaveStores DEF ResetInSave, IndInv, TypeOK
  <2>3. saved'.settings \in kept' /\ kept' \subseteq Configurations
    BY <2>0, <2>1, <2>2 DEF ResetInSave, IndInv, TypeOK, TrialConfirmed
  <2> QED BY <2>0, <2>2, <2>3, RestartSound DEF ResetInSave, Restart
<1> QED BY <1>1, <1>2

-----------------------------------------------------------------------------

LEMMA InitIndInv == Init => IndInv
<1> SUFFICES ASSUME Init PROVE IndInv
  OBVIOUS
<1>1. Default \in Configurations /\ NoInstances \in Instances
  BY RecordFields DEF Default, Configurations
<1>2. NetworkTypeOK /\ AddressAsConfigured
  BY NetworkAssumption DEF Init, NetworkInit, NetworkTypeOK, AddressAsConfigured
<1>3. /\ settings = Default /\ instances = NoInstances /\ candidate = None
      /\ settings_revision = 0 /\ instances_revision = 0 /\ candidate_revision = 0
      /\ network_pending = 0 /\ saved = NoRecord
      /\ boot = 1 /\ late = {} /\ kept = {Default} /\ conf = Default
  BY DEF Init
<1>4. candidate_valid \in BOOLEAN /\ operation \in Operations
  BY OperationMoves DEF Init
<1>5. 0 \in 0 .. MaxRevision /\ boot \in 1 .. MaxBoots /\ 0 <= MaxLate
  BY <1>3, SettingsAssumption
<1>6. applied \in Applications /\ applied.rev <= 0
  <2>1. applied = [key |-> None, rev |-> 0]
    BY DEF Init
  <2> QED BY <1>5, <2>1 DEF Applications
<1>7. IsFiniteSet(late) /\ Cardinality(late) <= MaxLate
  BY <1>3, <1>5, FS_EmptySet
<1>8. saved \in Records /\ saved.settings = Default
  BY <1>3, RecordFields
<1>9. TypeOK
  BY <1>1, <1>2, <1>3, <1>4, <1>5, <1>6, <1>7, <1>8 DEF TypeOK
<1>10. NetworkInUse
  BY <1>2, <1>3 DEF NetworkInUse
<1>11. SettledByConfirmation /\ TrialConfirmed
  BY <1>3, <1>8 DEF SettledByConfirmation, TrialConfirmed
<1> QED BY <1>3, <1>9, <1>10, <1>11 DEF IndInv

(* No step but the making of one adds a request that may come late.        *)
LEMMA LateStays ==
  ASSUME \/ \E m : Process(m)
         \/ ApplyDue \/ RollBack \/ CandidateExpires \/ NetworkChanges
  PROVE  late' = late
<1> USE DEF Process, PutCandidate, DeleteCandidate, ValidateCandidate, ApplyCandidate,
            ConfirmSaved, ConfirmFails, InstancesSaved, InstancesFail
<1>1. CASE \E m : Process(m)
  BY <1>1
<1>2. CASE ApplyDue \/ RollBack \/ CandidateExpires \/ NetworkChanges
  BY <1>2 DEF ApplyDue, RollBack, CandidateExpires, NetworkChanges
<1> QED BY <1>1, <1>2

LEMMA SoundIndInv ==
  ASSUME IndInv, Sound, late' = late
  PROVE  IndInv'
<1>1. \A m \in late' : Meant(m)'
  BY MeantForward DEF Sound, BoardInv, IndInv
<1> QED BY <1>1 DEF Sound, BoardInv, IndInv

LEMMA LingerIndInv ==
  ASSUME IndInv, NEW m \in Fresh, Linger(m)
  PROVE  IndInv'
<1>1. /\ UNCHANGED <<network, api, boot, kept>>
      /\ late' = late \cup {m} /\ Cardinality(late) < MaxLate
  BY DEF Linger
<1>2. IsFiniteSet(late') /\ Cardinality(late') <= MaxLate
  <2>1. /\ IsFiniteSet(late') /\ Cardinality(late) \in Nat
        /\ Cardinality(late') \in {Cardinality(late), Cardinality(late) + 1}
    BY <1>1, FS_AddElement, FS_CardinalityType DEF IndInv, TypeOK
  <2> QED BY <1>1, <2>1, SettingsAssumption
<1>3. NetworkTypeOK' /\ AddressAsConfigured' /\ conf' = conf
  BY <1>1, NetworkStays DEF IndInv, TypeOK, NetworkInUse
<1>4. TypeOK'
  BY <1>1, <1>2, <1>3 DEF IndInv, TypeOK, api
<1>5. NetworkInUse'
  BY <1>1, <1>3 DEF IndInv, NetworkInUse, api
<1>6. SettledByConfirmation' /\ TrialConfirmed'
  BY <1>1 DEF IndInv, SettledByConfirmation, TrialConfirmed, api
<1>7. Forward
  BY <1>1 DEF Forward, IndInv, TypeOK, api
<1>8. \A n \in late' : Meant(n)'
  BY <1>1, <1>4, <1>7, FreshMeant, MeantForward DEF IndInv
<1> QED BY <1>4, <1>5, <1>6, <1>8 DEF IndInv

LEMMA ResetIndInv ==
  ASSUME IndInv, Reset \/ \E m : ResetInSave(m)
  PROVE  IndInv'
<1>1. BoardInv' /\ boot' = boot + 1 /\ late' = late
  BY ResetSound
<1>2. boot \in Nat
  BY DEF IndInv, TypeOK
<1>3. \A m \in late' : Meant(m)'
  BY <1>1, <1>2, MeantRestart DEF IndInv
<1> QED BY <1>1, <1>3 DEF BoardInv, IndInv

LEMMA StutterIndInv ==
  ASSUME IndInv, UNCHANGED vars
  PROVE  IndInv'
<1>1. UNCHANGED <<network, api, boot, late, kept>>
  BY DEF vars
<1>2. NetworkTypeOK' /\ AddressAsConfigured' /\ conf' = conf
  BY <1>1, NetworkStays DEF IndInv, TypeOK, NetworkInUse
<1>3. TypeOK'
  BY <1>1, <1>2 DEF IndInv, TypeOK, api
<1>4. NetworkInUse'
  BY <1>1, <1>2 DEF IndInv, NetworkInUse, api
<1>5. SettledByConfirmation' /\ TrialConfirmed'
  BY <1>1 DEF IndInv, SettledByConfirmation, TrialConfirmed, api
<1>6. Forward
  BY <1>1 DEF Forward, IndInv, TypeOK, api
<1> QED BY <1>1, <1>3, <1>4, <1>5, <1>6, SoundIndInv DEF Sound, BoardInv

LEMMA NextIndInv ==
  ASSUME IndInv, [Next]_vars
  PROVE  IndInv'
<1>1. ASSUME NEW m \in Fresh, Linger(m) PROVE IndInv'
  BY <1>1, LingerIndInv
<1>2. ASSUME NEW m \in Fresh \cup late, Process(m) PROVE IndInv'
  BY <1>2, ProcessSound, LateStays, SoundIndInv
<1>3. CASE Reset \/ \E m : ResetInSave(m)
  BY <1>3, ResetIndInv
<1>4. CASE ApplyDue
  BY <1>4, ApplyDueSound, LateStays, SoundIndInv
<1>5. CASE RollBack
  BY <1>5, RollBackSound, LateStays, SoundIndInv
<1>6. CASE CandidateExpires
  BY <1>6, ForgetSound, LateStays, SoundIndInv
<1>7. CASE NetworkChanges
  BY <1>7, NetworkChangesSound, LateStays, SoundIndInv
<1>8. CASE UNCHANGED vars
  BY <1>8, StutterIndInv
<1> QED BY <1>1, <1>2, <1>3, <1>4, <1>5, <1>6, <1>7, <1>8 DEF Next

(* The invariant that the properties of this module follow from.           *)
THEOREM IndInvInvariant == Spec => []IndInv
<1>1. IndInv /\ [Next]_vars => IndInv'
  BY NextIndInv
<1> QED BY <1>1, InitIndInv, PTL DEF Spec

(* Type correctness of the settings, the transaction and the network.      *)
THEOREM SettingsTypeCorrect == Spec => []TypeOK
<1>1. IndInv => TypeOK
  BY DEF IndInv
<1> QED BY <1>1, IndInvInvariant, PTL

(* The network runs the settings, or the candidate on trial, and its       *)
(* address, its mode and its DHCP client agree with that, whatever link,   *)
(* lease, resets and late requests do (apply_network, rj_api_process,      *)
(* network_config.c).                                                      *)
THEOREM NetworkRunsSettings == Spec => []NetworkInUse
<1>1. IndInv => NetworkInUse
  BY DEF IndInv
<1> QED BY <1>1, IndInvInvariant, PTL

(* What is in force has been confirmed, by an answer or in a save whose    *)
(* outcome nobody was told; also after a reset, from the record.           *)
THEOREM InForceWasConfirmed == Spec => []SettledByConfirmation
<1>1. IndInv => SettledByConfirmation
  BY DEF IndInv
<1> QED BY <1>1, IndInvInvariant, PTL

-----------------------------------------------------------------------------
(* What a step may do.                                                     *)

(* Only a confirmation, or a reset, changes the settings.                  *)
LEMMA SettingsChange ==
  ASSUME [Next]_vars, settings' # settings
  PROVE  \/ \E m : ConfirmSaved(m)
         \/ Restart
<1> SUFFICES ASSUME Next, ~Restart PROVE \E m : ConfirmSaved(m)
  BY DEF vars, api
<1>1. ASSUME NEW m, Linger(m) PROVE FALSE
  BY <1>1 DEF Linger, api
<1>2. ASSUME NEW m, Process(m) PROVE ConfirmSaved(m)
  BY <1>2 DEF Process, PutCandidate, DeleteCandidate, ValidateCandidate, ApplyCandidate,
              ConfirmFails, InstancesSaved, InstancesFail
<1>3. ~(ApplyDue \/ RollBack \/ CandidateExpires)
  BY DEF ApplyDue, RollBack, CandidateExpires
<1>4. ~NetworkChanges
  BY DEF NetworkChanges, api
<1>5. ~Reset /\ \A m : ~ResetInSave(m)
  BY DEF Reset, ResetInSave
<1> QED BY <1>1, <1>2, <1>3, <1>4, <1>5 DEF Next

(* While a change is pending its candidate stays.                          *)
LEMMA PendingStays ==
  ASSUME [Next]_vars, network_pending # 0, network_pending' # 0
  PROVE  candidate' = candidate
<1> SUFFICES ASSUME Next PROVE candidate' = candidate
  BY DEF vars, api
<1>1. ASSUME NEW m, Linger(m) PROVE candidate' = candidate
  BY <1>1 DEF Linger, api
<1>2. ASSUME NEW m, Process(m) PROVE candidate' = candidate
  BY <1>2 DEF Process, PutCandidate, DeleteCandidate, ValidateCandidate, ApplyCandidate,
              ConfirmSaved, ConfirmFails, InstancesSaved, InstancesFail
<1>3. ApplyDue \/ RollBack \/ CandidateExpires => candidate' = candidate
  BY DEF ApplyDue, RollBack, CandidateExpires
<1>4. NetworkChanges => candidate' = candidate
  BY DEF NetworkChanges, api
<1>5. ~Reset /\ \A m : ~ResetInSave(m)
  BY DEF Reset, ResetInSave, Restart
<1> QED BY <1>1, <1>2, <1>3, <1>4, <1>5 DEF Next

(* Requests act on what their clients have seen in this boot, and the      *)
(* candidate on trial is not changed under its client (the If-Match, base  *)
(* revision and pending checks of rj_api_handle).                          *)
THEOREM RequestsAppliedAsMeant == Spec => AppliedAsMeant
<1> DEFINE Act ==
      /\ \A m \in Fresh \cup late : m.boot = boot =>
           /\ PutCandidate(m) => m.seen = settings
           /\ ApplyCandidate(m) => m.seen = candidate
           /\ InstancesSaved(m) => m.seen = instances
      /\ network_pending # 0 /\ network_pending' # 0 => candidate' = candidate
      /\ settings' # settings => candidate' = None
<1>1. IndInv /\ [Next]_vars => Act
  <2> SUFFICES ASSUME IndInv, [Next]_vars PROVE Act
    OBVIOUS
  <2>1. ASSUME NEW m \in Fresh \cup late, m.boot = boot
        PROVE  /\ PutCandidate(m) => m.seen = settings
               /\ ApplyCandidate(m) => m.seen = candidate
               /\ InstancesSaved(m) => m.seen = instances
    <3>1. Meant(m)
      BY FreshMeant DEF IndInv
    <3> QED BY <2>1, <3>1 DEF Meant, PutCandidate, ApplyCandidate, InstancesSaved,
               InstancesAllowed, Arrives
  <2>2. network_pending # 0 /\ network_pending' # 0 => candidate' = candidate
    BY PendingStays
  <2>3. settings' # settings => candidate' = None
    BY SettingsChange DEF ConfirmSaved, Restart, Forget
  <2> QED BY <2>1, <2>2, <2>3
<1> QED BY <1>1, IndInvInvariant, PTL DEF Spec, AppliedAsMeant

(* Settings are confirmed over the address that they give: a board does    *)
(* not keep an address at which the client has not reached it.             *)
THEOREM ConfirmedOverNewAddress == Spec => ConfirmedWhereReachable
<1> DEFINE Act == settings' # settings /\ boot' = boot =>
                    addr # NoAddress /\ (settings' \in Statics => addr = settings')
<1>1. IndInv /\ [Next]_vars => Act
  <2> SUFFICES ASSUME IndInv, [Next]_vars, settings' # settings, boot' = boot
               PROVE  addr # NoAddress /\ (settings' \in Statics => addr = settings')
    OBVIOUS
  <2>1. ~Restart
    <3>1. boot \in Nat
      BY DEF IndInv, TypeOK
    <3>2. ASSUME Restart PROVE boot' = boot + 1
      BY <3>2 DEF Restart
    <3> QED BY <3>1, <3>2
  <2>2. PICK m : ConfirmSaved(m)
    BY <2>1, SettingsChange
  <2>3. addr # NoAddress /\ network_pending = 2 /\ settings' = candidate
    BY <2>2 DEF ConfirmSaved, Confirmable, Arrives
  <2>4. conf = candidate /\ link
    BY <2>3 DEF IndInv, TypeOK, NetworkTypeOK, NetworkInUse, AddressAsConfigured
  <2> QED BY <2>3, <2>4, NetworkAssumption DEF IndInv, NetworkInUse, AddressAsConfigured
<1> QED BY <1>1, IndInvInvariant, PTL DEF Spec, ConfirmedWhereReachable
=============================================================================
