------------------------------- MODULE Settings -------------------------------
(***************************************************************************)
(* Settings and protocol instances behind /api/v1 (rj_api.c), with the     *)
(* network they configure (NetworkConfig) and the record they are saved in *)
(* (the register that ConfigStore implements).  A change of the settings   *)
(* is a transaction: PUT a candidate, validate it, apply it, and confirm   *)
(* it over the new address within a minute, or it is rolled back.          *)
(*                                                                         *)
(* Clients build a request from what they have just read.  It may come at  *)
(* once, late, or again, if a client has waited or repeats it.  LwIP takes *)
(* what is sent to the address the board has now, so that local_ip of a    *)
(* request is that address.  Refused requests change nothing and are left  *)
(* out.                                                                    *)
(***************************************************************************)
EXTENDS NetworkConfig, FiniteSets

CONSTANTS
  Instances,     \* the arrays of protocol instances
  Keys,          \* Idempotency-Keys
  None,
  MaxRevision,   \* bound of the revisions, and of the sequence numbers
  MaxLate,       \* requests that may come late or again
  MaxBoots

ASSUME SettingsAssumption ==
  /\ Instances # {} /\ Keys # {}
  /\ None \notin Configurations \cup Keys
  /\ MaxRevision \in Nat /\ MaxLate \in Nat /\ MaxBoots \in Nat \ {0}

(* Only the network of the settings matters here, so that settings are     *)
(* what they configure.                                                    *)
Default == Dhcp
NoInstances == CHOOSE i \in Instances : TRUE

(* Without a record that reads, the board starts with these.               *)
NoRecord == [settings |-> Default, instances |-> NoInstances, sequence |-> 0]

VARIABLES
  settings, settings_revision,
  instances, instances_revision,
  candidate, candidate_revision, candidate_valid,
  network_pending,   \* 0, 1: applied soon, 2: applied, to be confirmed
  applied,           \* apply_key and apply_revision
  operation,         \* operation_id and operation_state
  saved              \* the record in NOR

VARIABLES
  boot,   \* counts resets: boot_id
  late,   \* requests that may still come
  kept    \* history: settings confirmed last, or perhaps saved since

api == <<settings, settings_revision, instances, instances_revision, candidate,
         candidate_revision, candidate_valid, network_pending, applied, operation, saved>>

vars == <<network, api, boot, late, kept>>

-----------------------------------------------------------------------------
(* Requests.  base, etag and rev are what the client has read, seen is     *)
(* what it was read with, in the boot named.                               *)

Put(s) ==
  [kind |-> "put", etag |-> IF candidate = None THEN None ELSE candidate_revision,
   base |-> settings_revision, new |-> s, seen |-> settings, boot |-> boot]

Delete == [kind |-> "delete", etag |-> candidate_revision, boot |-> boot]

Validate == [kind |-> "validate", etag |-> candidate_revision, boot |-> boot]

Apply(k) ==
  [kind |-> "apply", key |-> k, rev |-> candidate_revision, seen |-> candidate,
   boot |-> boot]

Confirm == [kind |-> "confirm", id |-> operation.id, boot |-> boot]

PutInstances(i) ==
  [kind |-> "instances", base |-> instances_revision, new |-> i, seen |-> instances,
   boot |-> boot]

Fresh ==
  {Put(s) : s \in Configurations} \cup {Apply(k) : k \in Keys}
    \cup {PutInstances(i) : i \in Instances} \cup {Delete, Validate, Confirm}

(* A client makes it, and sends it later.                                  *)
Linger(m) ==
  /\ addr # NoAddress
  /\ Cardinality(late) < MaxLate
  /\ late' = late \cup {m}
  /\ UNCHANGED <<network, api, boot, kept>>

Arrives(m, kind) == m.kind = kind /\ addr # NoAddress

-----------------------------------------------------------------------------
(* g100_config_save                                                        *)

Record(s, i) == [settings |-> s, instances |-> i, sequence |-> saved.sequence + 1]

Stored(s, i) == saved # NoRecord /\ saved.settings = s /\ saved.instances = i

SaveSucceeds(s, i) ==
  \/ Stored(s, i) /\ UNCHANGED saved
  \/ ~Stored(s, i) /\ saved.sequence < MaxRevision /\ saved' = Record(s, i)

(* The caller is told of a failure, whether the record counts or not.      *)
SaveFails(s, i) ==
  /\ ~Stored(s, i)
  /\ \/ UNCHANGED saved
     \/ saved.sequence < MaxRevision /\ saved' = Record(s, i)

-----------------------------------------------------------------------------
(* Requests that are accepted.                                             *)

(* Mutation: a candidate that exists is replaced without If-Match. *)
Mut_PutCandidate(m) ==
  /\ Arrives(m, "put")
  /\ network_pending = 0
  /\ m.base = settings_revision
  /\ candidate_revision < MaxRevision
  /\ candidate' = m.new /\ candidate_valid' = FALSE
  /\ UNCHANGED candidate_revision
  /\ UNCHANGED <<settings, settings_revision, instances, instances_revision, network_pending,
                 applied, operation, saved, kept, network, boot, late>>

PutCandidate(m) ==
  /\ Arrives(m, "put")
  /\ network_pending = 0
  /\ m.etag = IF candidate = None THEN None ELSE candidate_revision
  /\ m.base = settings_revision
  /\ candidate_revision < MaxRevision
  /\ candidate' = m.new /\ candidate_valid' = FALSE
  /\ candidate_revision' = candidate_revision + 1
  /\ UNCHANGED <<settings, settings_revision, instances, instances_revision, network_pending,
                 applied, operation, saved, kept, network, boot, late>>

Forget == candidate' = None /\ candidate_valid' = FALSE

DeleteCandidate(m) ==
  /\ Arrives(m, "delete")
  /\ network_pending = 0
  /\ candidate # None /\ m.etag = candidate_revision
  /\ Forget
  /\ UNCHANGED <<settings, settings_revision, instances, instances_revision,
                 candidate_revision, network_pending, applied, operation, saved,
                 kept, network, boot, late>>

(* What PUT has let in passes settings_valid again.                        *)
ValidateCandidate(m) ==
  /\ Arrives(m, "validate")
  /\ candidate # None /\ m.etag = candidate_revision
  /\ candidate_valid' = TRUE
  /\ UNCHANGED <<settings, settings_revision, instances, instances_revision, candidate,
                 candidate_revision, network_pending, applied, operation, saved,
                 kept, network, boot, late>>

(* A key that was used last is answered with its operation and starts      *)
(* nothing.                                                                *)
ApplyCandidate(m) ==
  /\ Arrives(m, "apply")
  /\ applied.key # m.key
  /\ m.rev = candidate_revision
  /\ candidate # None /\ candidate_valid
  /\ network_pending = 0
  /\ applied' = [key |-> m.key, rev |-> candidate_revision]
  /\ operation' = [id |-> <<boot, candidate_revision>>, state |-> "queued"]
  /\ network_pending' = 1
  /\ UNCHANGED <<settings, settings_revision, instances, instances_revision, candidate,
                 candidate_revision, candidate_valid, saved, kept, network, boot, late>>

(* Mutation: an operation may be confirmed before it has been applied. *)
Mut_Confirmable(m) ==
  /\ Arrives(m, "confirm")
  /\ m.id = operation.id
  /\ operation.state # "succeeded"
  /\ network_pending # 0

Confirmable(m) ==
  /\ Arrives(m, "confirm")
  /\ m.id = operation.id
  /\ operation.state # "succeeded"
  /\ network_pending = 2

ConfirmSaved(m) ==
  /\ Confirmable(m)
  /\ settings_revision < MaxRevision
  /\ SaveSucceeds(candidate, instances)
  /\ settings' = candidate /\ settings_revision' = settings_revision + 1
  /\ Forget
  /\ network_pending' = 0
  /\ operation' = [operation EXCEPT !.state = "succeeded"]
  /\ kept' = {candidate}
  /\ UNCHANGED <<instances, instances_revision, candidate_revision, applied,
                 network, boot, late>>

(* "Previous configuration retained; network rollback remains active": in  *)
(* RAM; the record may count all the same.                                 *)
ConfirmFails(m) ==
  /\ Confirmable(m)
  /\ SaveFails(candidate, instances)
  /\ kept' = kept \cup {candidate}
  /\ UNCHANGED <<settings, settings_revision, instances, instances_revision, candidate,
                 candidate_revision, candidate_valid, network_pending, applied, operation,
                 network, boot, late>>

InstancesAllowed(m) ==
  /\ Arrives(m, "instances")
  /\ m.base = instances_revision
  /\ network_pending = 0
  /\ instances_revision < MaxRevision

InstancesSaved(m) ==
  /\ InstancesAllowed(m)
  /\ SaveSucceeds(settings, m.new)
  /\ instances' = m.new /\ instances_revision' = instances_revision + 1
  /\ UNCHANGED <<settings, settings_revision, candidate, candidate_revision,
                 candidate_valid, network_pending, applied, operation,
                 kept, network, boot, late>>

InstancesFail(m) ==
  /\ InstancesAllowed(m)
  /\ SaveFails(settings, m.new)
  /\ UNCHANGED <<settings, settings_revision, instances, instances_revision, candidate,
                 candidate_revision, candidate_valid, network_pending, applied, operation,
                 kept, network, boot, late>>

Process(m) ==
  \/ PutCandidate(m) \/ DeleteCandidate(m) \/ ValidateCandidate(m) \/ ApplyCandidate(m)
  \/ ConfirmSaved(m) \/ ConfirmFails(m)
  \/ InstancesSaved(m) \/ InstancesFail(m)

-----------------------------------------------------------------------------
(* rj_api_process                                                          *)

(* Mutation: the settings are replaced when they are applied. *)
Mut_ApplyDue ==
  /\ network_pending = 1
  /\ Configure(candidate)
  /\ network_pending' = 2
  /\ settings' = candidate
  /\ operation' = [operation EXCEPT !.state = "awaiting_confirmation"]
  /\ UNCHANGED <<settings_revision, instances, instances_revision, candidate,
                 candidate_revision, candidate_valid, applied, saved, kept, boot, late>>

(* Two seconds after the request, so that its answer is out.               *)
ApplyDue ==
  /\ network_pending = 1
  /\ Configure(candidate)
  /\ network_pending' = 2
  /\ operation' = [operation EXCEPT !.state = "awaiting_confirmation"]
  /\ UNCHANGED <<settings, settings_revision, instances, instances_revision, candidate,
                 candidate_revision, candidate_valid, applied, saved, kept, boot, late>>

(* Mutation: the network is left as it is. *)
Mut_RollBack ==
  /\ network_pending = 2
  /\ network_pending' = 0
  /\ Forget
  /\ operation' = [operation EXCEPT !.state = "rolled_back"]
  /\ UNCHANGED <<settings, settings_revision, instances, instances_revision,
                 candidate_revision, applied, saved, kept, boot, late, network>>

(* Mutation: the rollback waits for a link. *)
Mut_RollBackWithLink ==
  /\ network_pending = 2 /\ link
  /\ Configure(settings)
  /\ network_pending' = 0
  /\ Forget
  /\ operation' = [operation EXCEPT !.state = "rolled_back"]
  /\ UNCHANGED <<settings, settings_revision, instances, instances_revision,
                 candidate_revision, applied, saved, kept, boot, late>>

(* A minute has passed without a confirmation.                             *)
RollBack ==
  /\ network_pending = 2
  /\ Configure(settings)
  /\ network_pending' = 0
  /\ Forget
  /\ operation' = [operation EXCEPT !.state = "rolled_back"]
  /\ UNCHANGED <<settings, settings_revision, instances, instances_revision,
                 candidate_revision, applied, saved, kept, boot, late>>

(* A candidate lasts fifteen minutes.                                      *)
CandidateExpires ==
  /\ candidate # None /\ network_pending = 0
  /\ Forget
  /\ UNCHANGED <<settings, settings_revision, instances, instances_revision,
                 candidate_revision, network_pending, applied, operation, saved,
                 kept, network, boot, late>>

-----------------------------------------------------------------------------

Restart ==
  /\ boot < MaxBoots /\ boot' = boot + 1
  /\ settings' = saved'.settings
  /\ instances' = saved'.instances
  /\ settings_revision' = saved'.sequence
  /\ instances_revision' = settings_revision'
  /\ Forget
  /\ candidate_revision' = 0 /\ network_pending' = 0
  /\ applied' = [key |-> None, rev |-> 0]
  /\ operation' = [id |-> <<0, 0>>, state |-> ""]
  /\ Boot(settings')
  /\ UNCHANGED late

Reset == UNCHANGED <<saved, kept>> /\ Restart

(* The board is reset while it saves a confirmed change: the client gets   *)
(* no answer and knows that either may be in force.                        *)
ResetInSave(m) ==
  /\ Confirmable(m)
  /\ SaveFails(candidate, instances)
  /\ kept' = kept \cup {candidate}
  /\ Restart

-----------------------------------------------------------------------------
Init ==
  /\ NetworkInit /\ conf = Default
  /\ settings = Default /\ settings_revision = 0
  /\ instances = NoInstances /\ instances_revision = 0
  /\ candidate = None /\ candidate_revision = 0 /\ candidate_valid = FALSE
  /\ network_pending = 0
  /\ applied = [key |-> None, rev |-> 0]
  /\ operation = [id |-> <<0, 0>>, state |-> ""]
  /\ saved = NoRecord
  /\ boot = 1 /\ late = {}
  /\ kept = {Default}

NetworkChanges == Environment /\ UNCHANGED <<api, boot, late, kept>>

Next ==
  \/ \E m \in Fresh : Linger(m)
  \/ \E m \in Fresh \cup late : Process(m) \/ ResetInSave(m)
  \/ ApplyDue \/ RollBack \/ CandidateExpires
  \/ NetworkChanges
  \/ Reset

Spec == Init /\ [][Next]_vars

(* The main loop does not block: what is due is done.                      *)
FairSpec ==
  Spec /\ WF_vars(ApplyDue) /\ WF_vars(RollBack)
       /\ WF_vars(FallBack /\ UNCHANGED <<api, boot, late, kept>>)

-----------------------------------------------------------------------------
Records == [settings : Configurations, instances : Instances, sequence : 0 .. MaxRevision]
Applications == [key : Keys \cup {None}, rev : 0 .. MaxRevision]
Operations ==
  [id : (0 .. MaxBoots) \X (0 .. MaxRevision),
   state : {"", "queued", "awaiting_confirmation", "succeeded", "rolled_back"}]

TypeOK ==
  /\ NetworkTypeOK
  /\ settings \in Configurations /\ instances \in Instances
  /\ {settings_revision, instances_revision, candidate_revision} \subseteq 0 .. MaxRevision
  /\ candidate \in Configurations \cup {None} /\ candidate_valid \in BOOLEAN
  /\ network_pending \in 0 .. 2
  /\ applied \in Applications /\ applied.rev <= candidate_revision
  /\ operation \in Operations /\ saved \in Records
  /\ boot \in 1 .. MaxBoots
  /\ IsFiniteSet(late) /\ Cardinality(late) <= MaxLate
  /\ kept \subseteq Configurations

(* The network is configured by the settings, and by the candidate from    *)
(* its application until its confirmation or its rollback, and the address *)
(* and the mode agree with that, whatever link, lease, reset and late      *)
(* requests do meanwhile.                                                  *)
NetworkInUse ==
  /\ conf = IF network_pending = 2 THEN candidate ELSE settings
  /\ AddressAsConfigured

(* Requests act on what their client has read: what is applied is the      *)
(* candidate that the client who asks for it has seen, which is not        *)
(* changed until it is confirmed or rolled back; what it replaces are the  *)
(* settings its author has seen; and a PUT of instances replaces what its  *)
(* client has seen.  Within a boot, that is: revisions start again at a    *)
(* reset, from the sequence number of the record, which saving what is     *)
(* saved does not count, so that a revision may come again with another    *)
(* content.                                                                *)
AppliedAsMeant ==
  [][/\ \A m \in Fresh \cup late : m.boot = boot =>
          /\ PutCandidate(m) => m.seen = settings
          /\ ApplyCandidate(m) => m.seen = candidate
          /\ InstancesSaved(m) => m.seen = instances
     /\ network_pending # 0 /\ network_pending' # 0 => candidate' = candidate
     /\ settings' # settings => candidate' = None]_vars

(* Settings come into force by their confirmation, answered with success,  *)
(* cut short by a reset or reported as not saved (but saved all the same); *)
(* never because they were applied, and never after another was confirmed. *)
SettledByConfirmation == settings \in kept

(* Settings are replaced only by a client that reaches the board at the    *)
(* address they give it, and an unpowered link or lost lease cannot        *)
(* confirm.                                                                *)
ConfirmedWhereReachable ==
  [][settings' # settings /\ boot' = boot =>
       addr # NoAddress /\ (settings' \in Statics => addr = settings')]_vars

(* A change of the network is confirmed or rolled back; it does not hang.  *)
PendingEnds == network_pending # 0 ~> network_pending = 0

-----------------------------------------------------------------------------
(* Why the properties hold, in terms of the state alone.                   *)

(* The candidate on trial exists, and what is or may come into force has   *)
(* been confirmed.                                                         *)
TrialConfirmed ==
  /\ network_pending # 0 => candidate # None
  /\ saved.settings \in kept

(* A revision tells one content from another for as long as the board      *)
(* runs: a request of this boot that names the revision of now has been    *)
(* made from the content of now.                                           *)
Meant(m) ==
  LET current == m.boot = boot IN
  /\ m.boot \in 1 .. boot
  /\ m.kind = "put" =>
       /\ m.new \in Configurations
       /\ current => m.base \in 0 .. settings_revision
       /\ current /\ m.base = settings_revision => m.seen = settings
  /\ m.kind = "apply" =>
       /\ m.key \in Keys
       /\ current => m.rev \in 0 .. candidate_revision
       /\ current /\ m.rev = candidate_revision /\ candidate # None => m.seen = candidate
  /\ m.kind = "instances" =>
       /\ m.new \in Instances
       /\ current => m.base \in 0 .. instances_revision
       /\ current /\ m.base = instances_revision => m.seen = instances

IndInv ==
  /\ TypeOK /\ NetworkInUse /\ SettledByConfirmation
  /\ TrialConfirmed
  /\ \A m \in late : Meant(m)
=============================================================================
