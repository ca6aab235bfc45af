----------------------------- MODULE BootUpdate -----------------------------
(***************************************************************************)
(* Ethernet firmware update of one board: Stage 0 (bootloader/main.c and   *)
(* boot_policy.c), the update service that both the application and the    *)
(* factory recovery image run (ota_update.c), the confirmation of a trial  *)
(* (boot_state.c) and the loop that feeds the watchdog (architecture.c).   *)
(*                                                                         *)
(* The metadata is one register whose writes are atomic but may fail with  *)
(* or without having taken effect: that is what MetaStore is proved to     *)
(* implement.  Every handler runs to completion between two others; a      *)
(* power cut inside a handler is one of its failures followed by PowerCut, *)
(* because a handler returns after its first failed NOR operation and all  *)
(* else it changes is RAM.  Timers are choices: a deadline that has passed *)
(* may be acted on at any later time.                                      *)
(***************************************************************************)
EXTENDS Integers

CONSTANTS
  MaxGen,     \* hosts offer generations 1 .. MaxGen; up to 2^32 - 2 in the code
  Images,     \* payloads, told apart by their SHA-256
  BadVectors, \* payloads whose initial stack or entry point Stage 0 refuses
  Blank,      \* a payload block that is erased, torn or decayed
  Chunks,     \* payload blocks per image
  SeqLimit,   \* metadata sequence numbers are below it; 2^32 in the code
  Faults,     \* kinds of faults that may occur
  MaxFaults,  \* how many of them if BoundFaults
  BoundFaults

ASSUME ConstantsAssumption ==
  /\ MaxGen \in Nat
  /\ BadVectors \subseteq Images
  /\ Blank \notin Images
  /\ Chunks \in Nat \ {0}
  /\ SeqLimit \in Nat /\ SeqLimit > 2
  /\ Faults \subseteq {"write", "backup", "power", "health", "image", "factory", "metadata"}
  /\ MaxFaults \in Nat
  /\ BoundFaults \in BOOLEAN

MaxTrialAttempts == 2
AppSlots == {0, 1}
Factory  == 2
NoSlot   == -1          \* 0xFFFFFFFF
Slots    == {0, 1, 2, -1}
Gens     == 1 .. MaxGen

Header   == [gen : Gens, img : Images]
NoHeader == [gen |-> 0, img |-> Blank]   \* image_header_read returns 0

VARIABLES
  meta,       \* the latest metadata record; seq = 0 when none is readable
  flash,      \* header and payload blocks of the two application slots
  factory_ok, \* the recovery image validates
  marker,     \* RTC BKP0R holds G100_RUN_APPLICATION
  phase,      \* "stage0": after a reset; "run": an image runs; "halted"
  cause,      \* reset cause flags Stage 0 will read
  run,        \* G100BootInfo of the running image
  health,     \* self-test and board status of the running image
  upload,     \* the update service's upload
  checked,    \* recovery has tried to launch the application since its reset
  faults,     \* faults left, if bounded
  host_active \* hosts still send requests

VARIABLES    \* history
  accepted,       \* generations a healthy trial of which was confirmed
  last_activated, \* the greatest generation activated since metadata was lost
  trial_boots,    \* times the trial activated last has been started
  decayed         \* slots whose content decayed since they were verified

nor     == <<meta, flash, factory_ok>>
ram     == <<run, health, upload, checked>>
history == <<accepted, last_activated, trial_boots, decayed>>
vars    == <<nor, marker, phase, cause, ram, faults, host_active, history>>

Meta ==
  [seq : 0 .. SeqLimit - 1, cslot : AppSlots \cup {NoSlot}, cgen : 0 .. MaxGen,
   tslot : AppSlots \cup {NoSlot}, tgen : 0 .. MaxGen,
   tatt : 0 .. MaxTrialAttempts, floor : 0 .. MaxGen]

EmptyMeta ==
  [seq |-> 0, cslot |-> NoSlot, cgen |-> 0, tslot |-> NoSlot, tgen |-> 0,
   tatt |-> 0, floor |-> 0]

IdleUpload ==
  [state |-> "idle", hdr |-> NoHeader, slot |-> 0, received |-> 0, metaseq |-> 0]

NotRunning == [slot |-> NoSlot, gen |-> 0, trial |-> FALSE, confirmed |-> FALSE]

Slot == [hdr : Header \cup {NoHeader}, body : [1 .. Chunks -> Images \cup {Blank}]]

BootInfo == [slot : Slots, gen : 0 .. MaxGen, trial : BOOLEAN, confirmed : BOOLEAN]

Upload ==
  [state : {"idle", "receiving", "verified", "activated", "failed", "recovery_reset"},
   hdr : Header \cup {NoHeader}, slot : AppSlots, received : 0 .. Chunks,
   metaseq : 0 .. SeqLimit - 1]

TypeOK ==
  /\ meta \in Meta
  /\ flash \in [AppSlots -> Slot]
  /\ factory_ok \in BOOLEAN
  /\ marker \in BOOLEAN
  /\ phase \in {"stage0", "run", "halted"}
  /\ cause \in {"software", "power", "watchdog"}
  /\ run \in BootInfo
  /\ health \in {"starting", "ready", "fault"}
  /\ upload \in Upload
  /\ checked \in BOOLEAN
  /\ faults \in 0 .. MaxFaults
  /\ host_active \in BOOLEAN
  /\ accepted \subseteq Gens
  /\ last_activated \in 0 .. MaxGen
  /\ trial_boots \in Nat
  /\ decayed \subseteq AppSlots

-----------------------------------------------------------------------------
(* Images and metadata.                                                    *)

Readable(m) == m.seq # 0

(* g100_image_validate: a header that reads, vectors, and the payload CRC. *)
ImageValid(s) ==
  /\ flash[s].hdr # NoHeader
  /\ flash[s].hdr.img \notin BadVectors
  /\ \A c \in 1 .. Chunks : flash[s].body[c] = flash[s].hdr.img

ConfirmedBootable(m) ==
  m.cslot \in AppSlots /\ ImageValid(m.cslot) /\ flash[m.cslot].hdr.gen = m.cgen

TrialBootable(m) ==
  /\ m.tslot \in AppSlots
  /\ m.tatt < MaxTrialAttempts
  /\ ImageValid(m.tslot)
  /\ flash[m.tslot].hdr.gen = m.tgen

(* Mutation: generations of abandoned trials are forgotten. *)
Mut_KnownGenerations(m) ==
  {m.cgen, m.tgen} \cup {flash[s].hdr.gen : s \in AppSlots}

(* generation_floor is the greatest of these: everything the metadata      *)
(* remembers and everything a readable header says.                        *)
KnownGenerations(m) ==
  {m.cgen, m.tgen, m.floor} \cup {flash[s].hdr.gen : s \in AppSlots}

Larger(a, b) == IF a > b THEN a ELSE b

(* Mutation: an abandoned trial does not raise the floor. *)
Mut_TrialCleared(m) == [m EXCEPT !.tslot = NoSlot, !.tgen = 0, !.tatt = 0]

(* A trial is given up: its generation stays burned.                       *)
TrialCleared(m) ==
  [m EXCEPT !.floor = Larger(@, m.tgen), !.tslot = NoSlot, !.tgen = 0, !.tatt = 0]

(* n faults of a kind the run allows, taken from the budget if there is one. *)
May(kind, n) == n > 0 => kind \in Faults
Spend(n)     == IF BoundFaults THEN n <= faults /\ faults' = faults - n
                ELSE UNCHANGED faults

(* g100_meta_write of m over a register that holds old: whether it reports *)
(* success, what the register holds then, and how many faults it took.  A  *)
(* write that would wrap the sequence number is refused.                   *)
MetaWrite(old, m) ==
  LET new == [m EXCEPT !.seq = old.seq + 1] IN
  IF old.seq + 1 = SeqLimit
  THEN {[ok |-> FALSE, meta |-> old, cost |-> 0]}
  ELSE {[ok |-> TRUE, meta |-> new, cost |-> 0]} \cup
       {[ok |-> FALSE, meta |-> r, cost |-> 1] : r \in {old, new}}

(* One more write in a handler that goes on only while ok.                 *)
ThenWrite(r, needed, m) ==
  IF r.ok /\ needed
  THEN {[w EXCEPT !.cost = @ + r.cost] : w \in MetaWrite(r.meta, m)}
  ELSE {r}

(* The handler stops here unless p.                                        *)
OnlyIf(r, p) == IF p THEN r ELSE [r EXCEPT !.ok = FALSE]

Unwritten == [ok |-> TRUE, meta |-> meta, cost |-> 0]

-----------------------------------------------------------------------------
(* Stage 0.                                                                *)

(* Mutation: only a marker that is honoured is cleared. *)
Mut_MarkerLeft(access) == marker /\ ~(access /\ cause = "software")

(* The one-use marker: honoured after a software reset only, and cleared.  *)
(* Without access to the backup domain it is neither read nor cleared.     *)
Requested(access)  == access /\ cause = "software" /\ marker
MarkerLeft(access) == marker /\ ~access

(* recovery(error): blink, feeding the watchdog, until power goes.         *)
Halt == phase' = "halted" /\ UNCHANGED run

(* The image is copied to SDRAM; a copy whose CRC is wrong is not entered. *)
Launch(slot, trial) ==
  \/ /\ phase' = "run"
     /\ run' = [slot |-> slot, trial |-> trial, confirmed |-> FALSE,
                gen |-> IF slot = Factory THEN 0 ELSE flash[slot].hdr.gen]
  \/ "health" \in Faults /\ Halt

LaunchFactory == IF factory_ok THEN Launch(Factory, FALSE) ELSE Halt

(* How select_application ends when no trial is started.                   *)
LaunchConfirmed ==
  IF Readable(meta) /\ ConfirmedBootable(meta)
  THEN Launch(meta.cslot, FALSE) ELSE LaunchFactory

(* Mutation: the attempt is not charged. *)
Mut_Charged == meta

Charged == [meta EXCEPT !.tatt = @ + 1]

(* Mutation: the trial is started as if it were confirmed. *)
Mut_BootTrial ==
  /\ Readable(meta) /\ TrialBootable(meta)
  /\ \E w \in MetaWrite(meta, Charged) : w.ok /\ meta' = w.meta
  /\ Launch(meta.tslot, FALSE)
  /\ trial_boots' = trial_boots + 1

(* The attempt is charged to the metadata before the trial is started.     *)
BootTrial ==
  /\ Readable(meta) /\ TrialBootable(meta)
  /\ \E w \in MetaWrite(meta, Charged) : w.ok /\ meta' = w.meta
  /\ Launch(meta.tslot, TRUE)
  /\ trial_boots' = trial_boots + 1

(* The trial cannot be started, or could not be charged: give it up.  If   *)
(* that cannot be written either, the confirmed image is started anyway.   *)
BootPastTrial(cost) ==
  /\ Readable(meta) /\ meta.tslot # NoSlot
  /\ LET charge == IF TrialBootable(meta)
                   THEN {w \in MetaWrite(meta, Charged) : ~w.ok}
                   ELSE {Unwritten}
     IN \E w \in charge : \E v \in MetaWrite(w.meta, TrialCleared(meta)) :
          meta' = v.meta /\ cost = w.cost + v.cost
  /\ LaunchConfirmed
  /\ UNCHANGED trial_boots

BootConfirmed ==
  /\ Readable(meta) => meta.tslot = NoSlot
  /\ LaunchConfirmed
  /\ UNCHANGED <<meta, trial_boots>>

SelectApplication(cost) ==
  \/ cost = 0 /\ BootTrial
  \/ BootPastTrial(cost)
  \/ cost = 0 /\ BootConfirmed

Stage0 ==
  /\ phase = "stage0"
  /\ \E access \in BOOLEAN, cost \in 0 .. 2 :
       /\ marker' = MarkerLeft(access)
       /\ \/ /\ "health" \in Faults  \* clock, NOR or SDRAM do not come up
             /\ cost = 0 /\ Halt /\ UNCHANGED <<meta, trial_boots>>
          \/ /\ ~Requested(access) /\ factory_ok
             /\ cost = 0 /\ LaunchFactory /\ UNCHANGED <<meta, trial_boots>>
          \/ /\ Requested(access) \/ ~factory_ok
             /\ SelectApplication(cost)
       /\ access \/ "backup" \in Faults
       /\ May("write", cost)
       /\ Spend(cost + IF access THEN 0 ELSE 1)
  /\ UNCHANGED <<flash, factory_ok, cause, health, upload, checked, host_active,
                 accepted, last_activated, decayed>>

Restart(why) ==
  /\ phase' = "stage0"
  /\ cause' = why
  /\ run' = NotRunning
  /\ health' = "starting"
  /\ upload' = IdleUpload
  /\ checked' = FALSE

-----------------------------------------------------------------------------
(* The loop of the running image.                                          *)

Running == phase = "run"
Recovery == run.slot = Factory

(* Enough self-test passes.                                                *)
BecomeReady ==
  /\ Running /\ health = "starting"
  /\ health' = "ready"
  /\ UNCHANGED <<nor, marker, phase, cause, run, upload, checked, faults,
                 host_active, history>>

(* An image that is not a trial needs no host to be confirmed.             *)
SelfConfirm ==
  /\ Running /\ health # "fault"
  /\ ~run.trial /\ ~run.confirmed
  /\ run' = [run EXCEPT !.confirmed = TRUE]
  /\ UNCHANGED <<nor, marker, phase, cause, health, upload, checked, faults,
                 host_active, history>>

(* A self-test error or a board fault: the watchdog is no longer fed, the  *)
(* rest of the loop goes on until it bites.  Applications may be that bad; *)
(* in the recovery image it is a fault of the board.                       *)
Fail ==
  /\ Running /\ health # "fault"
  /\ IF Recovery THEN May("health", 1) /\ Spend(1) ELSE UNCHANGED faults
  /\ health' = "fault"
  /\ UNCHANGED <<nor, marker, phase, cause, run, upload, checked, host_active,
                 history>>

WatchdogReset ==
  /\ Running /\ health = "fault"
  /\ Restart("watchdog")
  /\ UNCHANGED <<nor, marker, faults, host_active, history>>

(* Mutation: the deadline runs only once the self-test has passed. *)
Mut_TrialDeadline ==
  /\ Running /\ health = "ready"
  /\ run.trial /\ ~run.confirmed
  /\ Restart("software")
  /\ UNCHANGED <<nor, marker, faults, host_active, history>>

(* 120 s without a confirmation.                                           *)
TrialDeadline ==
  /\ Running /\ health # "fault"
  /\ run.trial /\ ~run.confirmed
  /\ Restart("software")
  /\ UNCHANGED <<nor, marker, faults, host_active, history>>

(* 800 ms after activation.  Without the backup domain nothing happens and *)
(* the next turn of the loop tries again.                                  *)
ActivationReset ==
  /\ Running /\ upload.state = "activated"
  /\ marker' = TRUE
  /\ Restart("software")
  /\ UNCHANGED <<nor, faults, host_active, history>>

(* 800 ms after a request for recovery.                                    *)
RecoveryReset ==
  /\ Running /\ upload.state = "recovery_reset"
  /\ Restart("software")
  /\ UNCHANGED <<nor, marker, faults, host_active, history>>

(* Mutation: a verified upload nobody activates is kept. *)
Mut_UploadTimeout ==
  /\ Running /\ upload.state = "receiving"
  /\ upload' = [upload EXCEPT !.state = "idle"]
  /\ UNCHANGED <<nor, marker, phase, cause, run, health, checked, faults,
                 host_active, history>>

(* 60 s without a block.                                                   *)
UploadTimeout ==
  /\ Running /\ upload.state \in {"receiving", "verified"}
  /\ upload' = [upload EXCEPT !.state = "idle"]
  /\ UNCHANGED <<nor, marker, phase, cause, run, health, checked, faults,
                 host_active, history>>

(* 20 s after its reset recovery looks once for an application to launch.  *)
Launchable ==
  \/ meta.tslot \in AppSlots /\ ImageValid(meta.tslot)
  \/ meta.cslot \in AppSlots /\ ImageValid(meta.cslot)

AutoLaunchDue ==
  /\ Running /\ Recovery /\ ~checked
  /\ upload.state \in {"idle", "failed"}
  /\ Readable(meta)

AutoLaunch ==
  /\ AutoLaunchDue /\ Launchable
  /\ marker' = TRUE
  /\ Restart("software")
  /\ UNCHANGED <<nor, faults, host_active, history>>

AutoLaunchNothing ==
  /\ AutoLaunchDue
  /\ \/ ~Launchable /\ UNCHANGED faults
     \/ Launchable /\ "backup" \in Faults /\ Spend(1)
  /\ checked' = TRUE
  /\ UNCHANGED <<nor, marker, phase, cause, run, health, upload, host_active,
                 history>>

-----------------------------------------------------------------------------
(* Authenticated requests, in any order, repeated or out of place.  A      *)
(* request that is refused, or that is answered as already done, changes   *)
(* nothing here.                                                           *)

Serving == Running /\ host_active

(* A trial recovery may give up itself: used up, or its image is damaged.  *)
Abandoned(m) ==
  /\ m.tslot # NoSlot
  /\ m.tatt >= MaxTrialAttempts \/ ~ImageValid(m.tslot)

(* Mutation: an upload is admitted while a trial is pending. *)
Mut_AdmitsPending(h, m) ==
  /\ m.cslot \in AppSlots \/ Recovery
  /\ \A g \in KnownGenerations(m) : h.gen > g

(* Mutation: generations are not compared. *)
Mut_AdmitsOld(h, m) ==
  /\ m.tslot = NoSlot
  /\ m.cslot \in AppSlots \/ Recovery

(* begin: recovery first repairs the metadata, then a damaged confirmed    *)
(* image is disowned, then the header of the other slot is erased.         *)
Admits(h, m) ==
  /\ m.tslot = NoSlot
  /\ m.cslot \in AppSlots \/ Recovery
  /\ \A g \in KnownGenerations(m) : h.gen > g

(* The damaged confirmed image is given up; its generation stays burned.   *)
Disowned(m) == [m EXCEPT !.cslot = NoSlot]

(* Mutation: the confirmed slot is taken for the inactive one. *)
Mut_InactiveSlot(m) == IF m.cslot \in AppSlots THEN m.cslot ELSE 0

InactiveSlot(m) == IF m.cslot \in AppSlots THEN 1 - m.cslot ELSE 0

StartUpload(h, m, cost) ==
  LET slot == InactiveSlot(m)
      fresh == [state |-> "receiving", hdr |-> h, slot |-> slot, received |-> 0,
                metaseq |-> m.seq]
  IN \/ /\ cost = 0
        /\ flash' = [flash EXCEPT ![slot].hdr = NoHeader]
        /\ upload' = fresh
     \/ /\ cost = 1
        /\ \E left \in {flash[slot].hdr, NoHeader} :
             flash' = [flash EXCEPT ![slot].hdr = left]
        /\ UNCHANGED upload

Begin(h) ==
  /\ Serving /\ upload.state \in {"idle", "failed", "recovery_reset"}
  /\ Readable(meta) \/ Recovery
  /\ \E r1 \in ThenWrite(Unwritten, ~Readable(meta), EmptyMeta) :
     \E r2 \in ThenWrite(r1, Recovery /\ Abandoned(r1.meta), TrialCleared(r1.meta)) :
     \E r3 \in ThenWrite(OnlyIf(r2, Admits(h, r2.meta)),
                         Recovery /\ r2.meta.cslot \in AppSlots
                                  /\ ~ImageValid(r2.meta.cslot),
                         Disowned(r2.meta)) :
       /\ meta' = r3.meta
       /\ IF r3.ok /\ InactiveSlot(r3.meta) # run.slot
          THEN \E cost \in {0, 1} :
                 StartUpload(h, r3.meta, cost)
                 /\ May("write", r3.cost + cost) /\ Spend(r3.cost + cost)
          ELSE /\ UNCHANGED <<flash, upload>>
               /\ May("write", r3.cost) /\ Spend(r3.cost)
  /\ UNCHANGED <<factory_ok, marker, phase, cause, run, health, checked,
                 host_active, history>>

(* append: the next block only; a block already there is acknowledged.     *)
Append(offset, block) ==
  /\ Serving /\ upload.state = "receiving"
  /\ offset = upload.received + 1 /\ offset <= Chunks
  /\ \/ /\ flash' = [flash EXCEPT ![upload.slot].body[offset] = block]
        /\ upload' = [upload EXCEPT !.received = offset]
        /\ UNCHANGED faults
     \/ /\ \E left \in {Blank, block, flash[upload.slot].body[offset]} :
             flash' = [flash EXCEPT ![upload.slot].body[offset] = left]
        /\ upload' = [upload EXCEPT !.state = "failed"]
        /\ May("write", 1) /\ Spend(1)
  /\ UNCHANGED <<meta, factory_ok, marker, phase, cause, run, health, checked,
                 host_active, history>>

(* finish: digest, then the header, commit magic last, then validation.    *)
DigestMatches ==
  \A c \in 1 .. Chunks : flash[upload.slot].body[c] = upload.hdr.img

Finish ==
  /\ Serving /\ upload.state = "receiving" /\ upload.received = Chunks
  /\ \/ /\ ~DigestMatches
        /\ upload' = [upload EXCEPT !.state = "failed"]
        /\ UNCHANGED <<flash, faults, decayed>>
     \/ /\ DigestMatches
        /\ flash' = [flash EXCEPT ![upload.slot].hdr = upload.hdr]
        /\ upload' = [upload EXCEPT !.state =
                        IF upload.hdr.img \in BadVectors THEN "failed" ELSE "verified"]
        /\ decayed' = decayed \ {upload.slot}
        /\ UNCHANGED faults
     \/ /\ DigestMatches
        /\ \E left \in {NoHeader, upload.hdr} :
             flash' = [flash EXCEPT ![upload.slot].hdr = left]
        /\ upload' = [upload EXCEPT !.state = "failed"]
        /\ May("write", 1) /\ Spend(1)
        /\ UNCHANGED decayed
  /\ UNCHANGED <<meta, factory_ok, marker, phase, cause, run, health, checked,
                 host_active, accepted, last_activated, trial_boots>>

(* activate: the metadata must be what it was at begin.                    *)
Activate ==
  /\ Serving /\ upload.state = "verified" /\ ImageValid(upload.slot)
  /\ Readable(meta) /\ meta.seq = upload.metaseq
  /\ meta.cslot # upload.slot /\ meta.tslot = NoSlot
  /\ \E w \in MetaWrite(meta, [meta EXCEPT !.tslot = upload.slot,
                               !.tgen = upload.hdr.gen, !.tatt = 0]) :
       /\ meta' = w.meta
       /\ upload' = IF w.ok THEN [upload EXCEPT !.state = "activated"] ELSE upload
       /\ IF w.meta # meta
          THEN last_activated' = upload.hdr.gen /\ trial_boots' = 0
          ELSE UNCHANGED <<last_activated, trial_boots>>
       /\ May("write", w.cost) /\ Spend(w.cost)
  /\ UNCHANGED <<flash, factory_ok, marker, phase, cause, run, health, checked,
                 host_active, accepted, decayed>>

(* g100_boot_confirm.  The trial flag is never reset, so a second call     *)
(* finds the trial gone from the metadata and fails.                       *)
BootConfirm ==
  \/ /\ ~run.trial
     /\ run' = [run EXCEPT !.confirmed = TRUE]
     /\ UNCHANGED <<meta, faults, accepted>>
  \/ /\ run.trial
     /\ Readable(meta) /\ meta.tslot = run.slot /\ meta.tgen = run.gen
     /\ \E w \in MetaWrite(meta, [meta EXCEPT !.cslot = run.slot, !.cgen = run.gen,
                                  !.tslot = NoSlot, !.tgen = 0, !.tatt = 0]) :
          /\ meta' = w.meta
          /\ run' = IF w.ok THEN [run EXCEPT !.confirmed = TRUE] ELSE run
          /\ May("write", w.cost) /\ Spend(w.cost)
     /\ accepted' = accepted \cup {run.gen}

(* confirm, with the digest of the image the host takes to be running.     *)
Confirm(digest) ==
  /\ Serving /\ run.slot \in AppSlots /\ health = "ready"
  /\ flash[run.slot].hdr # NoHeader /\ flash[run.slot].hdr.img = digest
  /\ BootConfirm
  /\ UNCHANGED <<flash, factory_ok, marker, phase, cause, health, upload, checked,
                 host_active, last_activated, trial_boots, decayed>>

Abort ==
  /\ Serving /\ upload.state # "activated"
  /\ upload' = IdleUpload
  /\ UNCHANGED <<nor, marker, phase, cause, run, health, checked, faults,
                 host_active, history>>

RequestRecovery ==
  /\ Serving
  /\ upload' = [upload EXCEPT !.state = "recovery_reset"]
  /\ UNCHANGED <<nor, marker, phase, cause, run, health, checked, faults,
                 host_active, history>>

-----------------------------------------------------------------------------
(* The surroundings.                                                       *)

HostsLeave ==
  /\ host_active
  /\ host_active' = FALSE
  /\ UNCHANGED <<nor, marker, phase, cause, ram, faults, history>>

(* The backup domain may or may not keep the marker.                       *)
PowerCut ==
  /\ May("power", 1) /\ Spend(1)
  /\ marker' \in {marker, FALSE}
  /\ Restart("power")
  /\ UNCHANGED <<nor, host_active, history>>

ImageDecay(s) ==
  /\ May("image", 1) /\ Spend(1)
  /\ \E hdr \in {flash[s].hdr, NoHeader} :
       flash' = [flash EXCEPT ![s] = [hdr |-> hdr,
                                      body |-> [@.body EXCEPT ![1] = Blank]]]
  /\ decayed' = decayed \cup {s}
  /\ UNCHANGED <<meta, factory_ok, marker, phase, cause, ram, host_active,
                 accepted, last_activated, trial_boots>>

FactoryDecay ==
  /\ May("factory", 1) /\ Spend(1)
  /\ factory_ok' = FALSE
  /\ UNCHANGED <<meta, flash, marker, phase, cause, ram, host_active, history>>

(* Both sectors unreadable: what was activated before is forgotten.        *)
MetadataLost ==
  /\ May("metadata", 1) /\ Spend(1)
  /\ Readable(meta)
  /\ meta' = EmptyMeta
  /\ last_activated' = 0 /\ trial_boots' = 0
  /\ UNCHANGED <<flash, factory_ok, marker, phase, cause, ram, host_active,
                 accepted, decayed>>

-----------------------------------------------------------------------------
(* Provisioned over SWD: recovery only, or the same image in both slots.   *)
Init ==
  /\ factory_ok = TRUE
  /\ \/ /\ meta = [EmptyMeta EXCEPT !.seq = 2]
        /\ flash = [s \in AppSlots |-> [hdr |-> NoHeader,
                                        body |-> [c \in 1 .. Chunks |-> Blank]]]
        /\ accepted = {}
     \/ \E i \in Images \ BadVectors :
          /\ 1 \in Gens
          /\ meta = [EmptyMeta EXCEPT !.seq = 2, !.cslot = 0, !.cgen = 1]
          /\ flash = [s \in AppSlots |-> [hdr |-> [gen |-> 1, img |-> i],
                                          body |-> [c \in 1 .. Chunks |-> i]]]
          /\ accepted = {1}
  /\ marker = FALSE
  /\ phase = "stage0" /\ cause = "power"
  /\ run = NotRunning /\ health = "starting"
  /\ upload = IdleUpload /\ checked = FALSE
  /\ faults = MaxFaults
  /\ host_active = TRUE
  /\ last_activated = 0 /\ trial_boots = 0 /\ decayed = {}

Loop ==
  \/ BecomeReady \/ SelfConfirm \/ Fail \/ WatchdogReset \/ TrialDeadline
  \/ ActivationReset \/ RecoveryReset \/ UploadTimeout
  \/ AutoLaunch \/ AutoLaunchNothing

Request ==
  \/ \E h \in Header : Begin(h)
  \/ \E offset \in 1 .. Chunks, block \in Images : Append(offset, block)
  \/ Finish
  \/ Activate
  \/ \E digest \in Images : Confirm(digest)
  \/ Abort
  \/ RequestRecovery

Surroundings ==
  \/ HostsLeave
  \/ PowerCut
  \/ \E s \in AppSlots : ImageDecay(s)
  \/ FactoryDecay
  \/ MetadataLost

Next == Stage0 \/ Loop \/ Request \/ Surroundings

Spec == Init /\ [][Next]_vars

(* What the program and the hardware will do if nothing else happens:      *)
(* Stage 0 always runs, deadlines are acted on, and the watchdog bites     *)
(* unless a host keeps sending blocks: append feeds it.  Hosts owe nothing.*)
Fairness ==
  /\ WF_vars(Stage0)
  /\ WF_vars(~host_active /\ WatchdogReset)
  /\ WF_vars(TrialDeadline)
  /\ WF_vars(ActivationReset)
  /\ WF_vars(RecoveryReset)
  /\ WF_vars(UploadTimeout)
  /\ WF_vars(AutoLaunch \/ AutoLaunchNothing)

FairSpec == Spec /\ Fairness

-----------------------------------------------------------------------------
(* Properties.                                                             *)

(* An image the metadata names is whole and of the generation named, unless *)
(* its cells decayed: no sequence of uploads, aborts, resets, failed writes *)
(* and confirmations erases or overwrites it.                              *)
Intact(s, gen) == s \notin decayed => ImageValid(s) /\ flash[s].hdr.gen = gen

ReferencedImagesIntact ==
  Readable(meta) =>
    /\ meta.cslot \in AppSlots => Intact(meta.cslot, meta.cgen)
    /\ meta.tslot \in AppSlots => Intact(meta.tslot, meta.tgen) /\ meta.tslot # meta.cslot

(* A slot an upload may still write to is not running and not named by the *)
(* metadata, except by an activation that took effect but reported failure.*)
Uploading == upload.state \in {"receiving", "verified"}

UploadTargetUnreferenced ==
  Uploading =>
    /\ upload.slot # run.slot
    /\ Readable(meta) =>
         /\ upload.slot # meta.cslot
         /\ upload.slot = meta.tslot => upload.state = "verified"

(* An activated image is started at most twice unless it is confirmed,     *)
(* whatever resets, crashes and failed metadata writes come in between.    *)
TrialBootBudget == trial_boots <= MaxTrialAttempts

(* What is confirmed, and what is started other than as a trial, was once  *)
(* confirmed by a host while it ran as a healthy trial, or provisioned.    *)
OnlyAcceptedConfirmed ==
  /\ Readable(meta) /\ meta.cslot \in AppSlots => meta.cgen \in accepted
  /\ run.slot \in AppSlots /\ ~run.trial => run.gen \in accepted

(* A request to launch the application is used up by the reset it was made *)
(* for: no later software reset can slip past the recovery window with it. *)
RequestConsumed == marker => phase = "stage0"

(* Each activation is of a generation above all activated before, failed   *)
(* trials included, and above the confirmed one; only losing both metadata *)
(* sectors forgets.                                                        *)
FreshActivations ==
  [][last_activated' # last_activated =>
       \/ ~Readable(meta')
       \/ last_activated' > last_activated /\ last_activated' > meta.cgen]_vars

(* The confirmed generation never goes back, and no application older than *)
(* it is ever started.                                                     *)
NoRollback ==
  [][/\ Readable(meta) /\ Readable(meta') => meta'.cgen >= meta.cgen
     /\ Readable(meta) /\ phase = "stage0" /\ phase' = "run" /\ run'.slot \in AppSlots
          => run'.gen >= meta.cgen]_vars

(* What the properties rest on: the inductive invariant.                   *)

StoppedIsIdle ==
  /\ phase # "run" => run = NotRunning /\ upload = IdleUpload
  /\ run.slot \in AppSlots => run.gen \in Gens
  /\ run.slot = Factory => run.gen = 0

(* What finish has verified stays in place, or can no longer be read.      *)
VerifiedInPlace ==
  /\ Uploading => upload.hdr \in Header
  /\ upload.state = "verified" => flash[upload.slot].hdr \in {upload.hdr, NoHeader}

(* The persisted attempt count covers the starts there have been.          *)
AttemptsCharged ==
  /\ trial_boots <= MaxTrialAttempts
  /\ Readable(meta) /\ meta.tslot # NoSlot => trial_boots <= meta.tatt

(* The metadata remembers the greatest generation activated so far.        *)
ActivationsRemembered ==
  /\ ~Readable(meta) => meta = EmptyMeta /\ last_activated = 0
  /\ Readable(meta) => \E g \in {meta.cgen, meta.tgen, meta.floor} : last_activated <= g
  /\ Readable(meta) /\ meta.tslot # NoSlot => meta.tgen > meta.cgen

(* An upload is newer than all the metadata it started from remembers, and *)
(* the sequence number tells whether that is still the metadata.           *)
UploadIsNewer ==
  Uploading /\ Readable(meta) =>
    /\ meta.seq >= upload.metaseq
    /\ meta.seq = upload.metaseq =>
         \A g \in {meta.cgen, meta.tgen, meta.floor} : upload.hdr.gen > g

IndInv ==
  /\ TypeOK /\ StoppedIsIdle /\ UploadTargetUnreferenced /\ VerifiedInPlace
  /\ ReferencedImagesIntact /\ OnlyAcceptedConfirmed
  /\ AttemptsCharged /\ ActivationsRemembered /\ UploadIsNewer

(* The board keeps the promise made to its operator, through every failed  *)
(* write, reset and lost request: what the metadata says is the promise.   *)
Confirmed(m) == IF m.cslot \in AppSlots THEN m.cgen ELSE 0
Candidate(m) == IF m.tslot \in AppSlots THEN m.tgen ELSE 0
TriesLeft(m) == IF m.tslot \in AppSlots THEN MaxTrialAttempts - m.tatt ELSE 0
Burned(m)    == Larger(Larger(m.cgen, m.tgen), m.floor)

Current ==
  [role |-> IF phase # "run" THEN "off"
            ELSE IF Recovery THEN "recovery" ELSE IF run.trial THEN "trial" ELSE "good",
   gen  |-> IF phase = "run" THEN run.gen ELSE 0]

Promise == INSTANCE UpdatePromise WITH
  MaxTries  <- MaxTrialAttempts,
  good      <- Confirmed(meta),
  candidate <- Candidate(meta),
  tries     <- TriesLeft(meta),
  burned    <- Burned(meta),
  current   <- Current

KeepsPromise == Promise!Spec

(* "recovery: Reboot into independent recovery": a request that was        *)
(* answered reset_pending is followed by a reset.                          *)
PromisedReset ==
  upload.state \in {"activated", "recovery_reset"} ~> phase = "stage0"

(* Left alone, recovery hands over to a bootable confirmed application.    *)
RecoveryHandsOver ==
  (/\ ~host_active /\ Running /\ Recovery
   /\ Readable(meta) /\ ConfirmedBootable(meta)) ~> run.slot \in AppSlots

(* Left alone, a board that started a trial nobody confirmed ends up       *)
(* running its confirmed image.                                            *)
TrialFallsBack ==
  (/\ ~host_active /\ Running /\ run.trial /\ ~run.confirmed
   /\ Readable(meta) /\ ConfirmedBootable(meta))
  ~> (run.slot \in AppSlots /\ ~run.trial)
=============================================================================
