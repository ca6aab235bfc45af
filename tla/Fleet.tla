------------------------------- MODULE Fleet -------------------------------
(***************************************************************************)
(* The unattended updater (installer/fleet_agent.py) next to an operator   *)
(* at the installer's user interface (controller.py, main.py): two         *)
(* processes that share the boards, the registry fleet.json and the holds  *)
(* of failed releases, under the file locks of state_lock.py.              *)
(*                                                                         *)
(* An installation over Ethernet is Install, one over SWD Provisioning;    *)
(* here they pass or fail, and a failed one may have changed the board, or *)
(* even installed the release.  A registry update is one step, being made  *)
(* under a lock and put in place by a rename; the holds are written in     *)
(* place.                                                                  *)
(***************************************************************************)
EXTENDS Integers, FiniteSets

CONSTANTS
  N,            \* registered boards, in the order of the registry
  MaxRelease,   \* releases are published in the order 1 .. MaxRelease
  Workers,      \* threads of the fan-out
  Manual        \* boards the operator installs, erases or opts in and out

ASSUME FleetAssumption ==
  /\ N \in Nat /\ MaxRelease \in Nat \ {0} /\ Workers \in Nat \ {0}
  /\ Manual \subseteq 1 .. N

Boards   == 1 .. N
Releases == 1 .. MaxRelease
None     == 0         \* no release
Off      == -1        \* not selected for this cycle

VARIABLES
  latest,    \* the release fetch_bundle returns
  registry,  \* fleet.json
  hold,      \* holds.json
  agent,     \* the fleet agent's cycle
  work,      \* where update_one is for each board of the cycle
  ui,        \* the operator's run on a board
  lock,      \* who holds the board's lock
  installed  \* the release that runs on the board, if any

VARIABLES    \* history
  held,      \* the release last saved as failed and not reviewed since
  unrecorded \* boards changed since the registry was last told of them

history == <<held, unrecorded>>
vars    == <<latest, registry, hold, agent, work, ui, lock, installed, history>>

Progress == {"waiting", "locked", "installing", "recording",
             "passed", "failed", "unreachable", "skipped"}
NoHold   == [torn |-> FALSE, release |-> None, board |-> [b \in Boards |-> None]]
Holds    == [torn : BOOLEAN, release : Releases \cup {None},
             board : [Boards -> Releases \cup {None}]]
Idle     == [stage |-> "idle", release |-> None, seen |-> [b \in Boards |-> Off],
             pending |-> {}, holds |-> NoHold, broken |-> FALSE]

Entries  == [auto : BOOLEAN, last : Releases \cup {None}]
Cycles   == [stage : {"idle", "fetch", "canary", "fanout", "save"},
             release : Releases \cup {None}, seen : [Boards -> Releases \cup {None, Off}],
             pending : SUBSET Boards, holds : Holds, broken : BOOLEAN]
UiSteps  == {"erasing", "programming", "testing", "installing", "recording"}
UiRuns   == [step : {"idle", "queued"} \cup UiSteps, release : Releases \cup {None}]

TypeOK ==
  /\ latest \in Releases
  /\ registry \in [Boards -> Entries]
  /\ hold \in Holds
  /\ agent \in Cycles
  /\ work \in [Boards -> Progress]
  /\ ui \in [Boards -> UiRuns]
  /\ lock \in [Boards -> {"free", "agent", "ui"}]
  /\ installed \in [Boards -> Releases \cup {None}]
  /\ held \in Releases \cup {None} /\ unrecorded \subseteq Boards

-----------------------------------------------------------------------------
(* The agent's cycle, under the lock "fleet-agent".                        *)

Free(by) == [b \in Boards |-> IF lock[b] = by THEN "free" ELSE lock[b]]

Active    == {b \in Boards : work[b] \in {"locked", "installing", "recording"}}
Disturbed == {b \in Boards : work[b] \in {"installing", "recording", "passed", "failed"}}
Waiting   == {b \in agent.pending : work[b] = "waiting"}

(* The cycle ends, or its exception reaches main(): all but the files goes. *)
CycleEnds ==
  /\ agent' = Idle
  /\ work' = [b \in Boards |-> "waiting"]

StartCycle ==
  /\ agent.stage = "idle"
  /\ \E b \in Boards : registry[b].auto
  /\ agent' = [Idle EXCEPT !.stage = "fetch",
                 !.seen = [b \in Boards |-> IF registry[b].auto THEN registry[b].last ELSE Off]]
  /\ UNCHANGED <<latest, registry, hold, work, ui, lock, installed, history>>

(* The release is fetched, then the holds are read; holds that do not      *)
(* parse end the cycle with an exception.                                  *)
Fetch ==
  /\ agent.stage = "fetch"
  /\ IF hold.torn \/ hold.release = latest
     THEN CycleEnds
     ELSE /\ agent' = [Idle EXCEPT !.stage = "canary", !.release = latest, !.holds = hold,
                         !.pending = {b \in Boards : /\ agent.seen[b] \notin {Off, latest}
                                                     /\ hold.board[b] # latest}]
          /\ UNCHANGED work
  /\ UNCHANGED <<latest, registry, hold, ui, lock, installed, history>>

FetchFails ==
  /\ agent.stage = "fetch"
  /\ CycleEnds
  /\ UNCHANGED <<latest, registry, hold, ui, lock, installed, history>>

(* The next canary is the first board waiting, once the ones before it     *)
(* turned out unreachable; the fan-out takes any of the rest.              *)
Turn(b) ==
  /\ b \in Waiting /\ ~agent.broken
  /\ \/ /\ agent.stage = "canary" /\ \A c \in Waiting : b <= c
        /\ \A c \in agent.pending \ Waiting : work[c] = "unreachable"
     \/ /\ agent.stage = "fanout" /\ Cardinality(Active) < Workers

-----------------------------------------------------------------------------
(* update_one.                                                             *)

(* Mutation: the board's lock is not taken. *)
Mut_Take(b) ==
  /\ Turn(b)
  /\ work' = [work EXCEPT ![b] = IF registry[b].auto THEN "locked" ELSE "skipped"]
  /\ UNCHANGED <<latest, registry, hold, agent, ui, lock, installed, history>>

(* Another operation on the board counts as unreachable; the opt-in is     *)
(* read again under the lock.                                              *)
Take(b) ==
  /\ Turn(b)
  /\ \/ /\ lock[b] # "free"
        /\ work' = [work EXCEPT ![b] = "unreachable"]
        /\ UNCHANGED lock
     \/ /\ lock[b] = "free" /\ ~registry[b].auto
        /\ work' = [work EXCEPT ![b] = "skipped"]
        /\ UNCHANGED lock
     \/ /\ lock[b] = "free" /\ registry[b].auto
        /\ work' = [work EXCEPT ![b] = "locked"]
        /\ lock' = [lock EXCEPT ![b] = "agent"]
  /\ UNCHANGED <<latest, registry, hold, agent, ui, installed, history>>

Connect(b) ==
  /\ work[b] = "locked"
  /\ work' = [work EXCEPT ![b] = "installing"]
  /\ UNCHANGED <<latest, registry, hold, agent, ui, lock, installed, history>>

Unlock(b) == lock' = [lock EXCEPT ![b] = "free"]

(* Mutation: an exception leaves the board locked. *)
Mut_DoesNotConnect(b) ==
  /\ work[b] = "locked"
  /\ work' = [work EXCEPT ![b] = "unreachable"]
  /\ UNCHANGED <<latest, registry, hold, agent, ui, lock, installed, history>>

DoesNotConnect(b) ==
  /\ work[b] = "locked"
  /\ work' = [work EXCEPT ![b] = "unreachable"]
  /\ Unlock(b)
  /\ UNCHANGED <<latest, registry, hold, agent, ui, installed, history>>

(* Authentication or installation fails, perhaps only its last answer.     *)
UpdateFails(b) ==
  /\ work[b] \in {"locked", "installing"}
  /\ \/ UNCHANGED <<installed, unrecorded>>
     \/ /\ work[b] = "installing"
        /\ installed' = [installed EXCEPT ![b] = agent.release]
        /\ unrecorded' = unrecorded \cup {b}
  /\ work' = [work EXCEPT ![b] = "failed"]
  /\ Unlock(b)
  /\ UNCHANGED <<latest, registry, hold, agent, ui, held>>

Installed(b) ==
  /\ work[b] = "installing"
  /\ work' = [work EXCEPT ![b] = "recording"]
  /\ installed' = [installed EXCEPT ![b] = agent.release]
  /\ UNCHANGED <<latest, registry, hold, agent, ui, lock, history>>

(* remember() what was installed, then let go of the board.                *)
RecordUpdate(b) ==
  /\ work[b] = "recording"
  /\ work' = [work EXCEPT ![b] = "passed"]
  /\ registry' = [registry EXCEPT ![b].last = agent.release]
  /\ unrecorded' = unrecorded \ {b}
  /\ Unlock(b)
  /\ UNCHANGED <<latest, hold, agent, ui, installed, held>>

(* remember() raises: the update counts as failed, unless remember() of    *)
(* the error raises too and ends the cycle.                                *)
RecordFails(b) ==
  /\ work[b] = "recording"
  /\ work' = [work EXCEPT ![b] = "failed"]
  /\ unrecorded' = unrecorded \cup {b}
  /\ agent' \in {agent, [agent EXCEPT !.broken = TRUE]}
  /\ Unlock(b)
  /\ UNCHANGED <<latest, registry, hold, ui, installed, held>>

ErrorNotRecorded(b) ==
  /\ work[b] \in {"failed", "unreachable"}
  /\ agent.stage \in {"canary", "fanout"} /\ ~agent.broken
  /\ agent' = [agent EXCEPT !.broken = TRUE]
  /\ UNCHANGED <<latest, registry, hold, work, ui, lock, installed, history>>

-----------------------------------------------------------------------------
(* After update_one.                                                       *)

(* Mutation: a failed canary is passed over like an unreachable one. *)
Mut_CanaryDone ==
  /\ agent.stage = "canary" /\ Active = {} /\ ~agent.broken
  /\ \/ /\ \E b \in Boards : work[b] \in {"passed", "failed"}
        /\ agent' = [agent EXCEPT !.stage = "fanout"]
     \/ /\ Waiting = {}
        /\ agent' = [agent EXCEPT !.stage = "save"]
  /\ UNCHANGED <<latest, registry, hold, work, ui, lock, installed, history>>

(* Only a canary that passed is followed by the rest.                      *)
CanaryDone ==
  /\ agent.stage = "canary" /\ Active = {} /\ ~agent.broken
  /\ \/ /\ \E b \in Boards : work[b] = "passed"
        /\ agent' = [agent EXCEPT !.stage = "fanout"]
     \/ /\ \A b \in Boards : work[b] # "passed"
        /\ Waiting = {} \/ \E b \in Boards : work[b] \in {"failed", "skipped"}
        /\ agent' = [agent EXCEPT !.stage = "save"]
  /\ UNCHANGED <<latest, registry, hold, work, ui, lock, installed, history>>

FanoutDone ==
  /\ agent.stage = "fanout" /\ Active = {} /\ Waiting = {} /\ ~agent.broken
  /\ agent' = [agent EXCEPT !.stage = "save"]
  /\ UNCHANGED <<latest, registry, hold, work, ui, lock, installed, history>>

(* The exception ends the cycle when the other threads are done.           *)
CycleBreaks ==
  /\ agent.broken /\ Active = {}
  /\ CycleEnds
  /\ UNCHANGED <<latest, registry, hold, ui, lock, installed, history>>

Failures == {b \in Boards : work[b] = "failed"}

(* Mutation: a hold is written when the canary failed, not when a later board did. *)
Mut_NewHolds ==
  IF Failures = {} \/ \E b \in Boards : work[b] = "passed" THEN agent.holds
  ELSE [agent.holds EXCEPT !.release = agent.release,
          !.board = [b \in Boards |-> IF b \in Failures THEN agent.release ELSE agent.holds.board[b]]]

(* What was read at the start of the cycle, and the failures since.        *)
NewHolds ==
  IF Failures = {} THEN agent.holds
  ELSE [agent.holds EXCEPT !.release = agent.release,
          !.board = [b \in Boards |-> IF b \in Failures THEN agent.release ELSE agent.holds.board[b]]]

Save ==
  /\ agent.stage = "save"
  /\ hold' = NewHolds
  /\ held' = IF Failures # {} THEN agent.release ELSE held
  /\ CycleEnds
  /\ UNCHANGED <<latest, registry, ui, lock, installed, unrecorded>>

(* The file is truncated and not, or not wholly, written.                  *)
SaveInterrupted ==
  /\ agent.stage = "save"
  /\ hold' = [NoHold EXCEPT !.torn = TRUE]
  /\ CycleEnds
  /\ UNCHANGED <<latest, registry, ui, lock, installed, history>>

(* The agent's process ends; the system frees its locks.                   *)
AgentStops ==
  /\ agent.stage # "idle"
  /\ unrecorded' = unrecorded \cup {b \in Boards : work[b] \in {"installing", "recording"}}
  /\ lock' = Free("agent")
  /\ CycleEnds
  /\ UNCHANGED <<latest, registry, hold, ui, installed, held>>

Agent ==
  \/ StartCycle \/ Fetch \/ FetchFails
  \/ \E b \in Boards :
       \/ Take(b) \/ Connect(b) \/ DoesNotConnect(b) \/ UpdateFails(b)
       \/ Installed(b) \/ RecordUpdate(b) \/ RecordFails(b) \/ ErrorNotRecorded(b)
  \/ CanaryDone \/ FanoutDone \/ CycleBreaks \/ Save \/ SaveInterrupted \/ AgentStops

-----------------------------------------------------------------------------
(* The operator at the user interface.                                     *)

NoRun == [step |-> "idle", release |-> None]
UiRunning == \E b \in Boards : ui[b] # NoRun

(* A batch of some registered boards.  All have one mode, and one release  *)
(* that was loaded before; here a board's mode is chosen where the modes   *)
(* part, in UiTake, UiErase and UiProgram, and its release where it gets   *)
(* it, which allows what the code does and more.                           *)
UiStart ==
  /\ ~UiRunning
  /\ \E selected \in SUBSET Manual \ {{}} :
       ui' = [b \in Boards |-> IF b \in selected THEN [NoRun EXCEPT !.step = "queued"] ELSE NoRun]
  /\ UNCHANGED <<latest, registry, hold, agent, work, lock, installed, history>>

(* A board another process works on fails at once.  A network update only  *)
(* installs; the other modes start with an erasure over SWD.               *)
UiTake(b) ==
  /\ ui[b].step = "queued"
  /\ \/ /\ lock[b] = "free"
        /\ lock' = [lock EXCEPT ![b] = "ui"]
        /\ \E step \in {"installing", "erasing"} : ui' = [ui EXCEPT ![b].step = step]
     \/ /\ lock[b] # "free"
        /\ ui' = [ui EXCEPT ![b] = NoRun]
        /\ UNCHANGED lock
  /\ UNCHANGED <<latest, registry, hold, agent, work, installed, history>>

(* The run is over; the registry is not told.                              *)
UiEnds(b) ==
  /\ ui' = [ui EXCEPT ![b] = NoRun]
  /\ Unlock(b)

(* With mode erase-only the run has passed then, and leaves the board's    *)
(* entry in the registry as it was.                                        *)
UiErase(b) ==
  /\ ui[b].step = "erasing"
  /\ installed' = [installed EXCEPT ![b] = None]
  /\ unrecorded' = unrecorded \cup {b}
  /\ \/ UiEnds(b)
     \/ ui' = [ui EXCEPT ![b].step = "programming"] /\ UNCHANGED lock
  /\ UNCHANGED <<latest, registry, hold, agent, work, held>>

(* Mode install programs the whole layout, network-install a recovery      *)
(* service, the rest being _network_install.  remember() without a release *)
(* changes nothing of a registered board.                                  *)
UiProgram(b) ==
  /\ ui[b].step = "programming"
  /\ \/ \E r \in Releases :
          /\ installed' = [installed EXCEPT ![b] = r]
          /\ ui' = [ui EXCEPT ![b].step = "testing", ![b].release = r]
     \/ /\ ui' = [ui EXCEPT ![b].step = "installing"]
        /\ UNCHANGED installed
  /\ UNCHANGED <<latest, registry, hold, agent, work, lock, history>>

(* What was installed over SWD is recorded if the board has a key and then *)
(* passes its tests over Ethernet.  A run that could not reach the board   *)
(* is partial, one without a key may pass: neither is recorded.            *)
UiTest(b) ==
  /\ ui[b].step = "testing"
  /\ \/ ui' = [ui EXCEPT ![b].step = "recording"] /\ UNCHANGED lock
     \/ UiEnds(b)
  /\ UNCHANGED <<latest, registry, hold, agent, work, installed, history>>

UiInstalled(b) ==
  /\ ui[b].step = "installing"
  /\ \E r \in Releases :
       /\ installed' = [installed EXCEPT ![b] = r]
       /\ ui' = [ui EXCEPT ![b].step = "recording", ![b].release = r]
  /\ UNCHANGED <<latest, registry, hold, agent, work, lock, history>>

UiRecord(b) ==
  /\ ui[b].step = "recording"
  /\ registry' = [registry EXCEPT ![b].last = ui[b].release]
  /\ unrecorded' = unrecorded \ {b}
  /\ UiEnds(b)
  /\ UNCHANGED <<latest, hold, agent, work, installed, held>>

(* Any step fails, before it changed the board or after.                   *)
UiFails(b) ==
  /\ ui[b].step \in {"erasing", "programming", "testing", "installing"}
  /\ \/ UNCHANGED <<installed, unrecorded>>
     \/ /\ ui[b].step \in {"programming", "installing"}
        /\ \E r \in Releases : installed' = [installed EXCEPT ![b] = r]
        /\ unrecorded' = unrecorded \cup {b}
  /\ UiEnds(b)
  /\ UNCHANGED <<latest, registry, hold, agent, work, held>>

(* remember() raises: the run fails, and the board runs what it was given. *)
UiRecordFails(b) ==
  /\ ui[b].step = "recording"
  /\ unrecorded' = unrecorded \cup {b}
  /\ UiEnds(b)
  /\ UNCHANGED <<latest, registry, hold, agent, work, installed, held>>

(* Automatic updates on or off, between runs.                              *)
SetAuto(b) ==
  /\ b \in Manual /\ ~UiRunning
  /\ registry' = [registry EXCEPT ![b].auto = ~registry[b].auto]
  /\ UNCHANGED <<latest, hold, agent, work, ui, lock, installed, history>>

(* Resume automatic updates after review: refused during a cycle.          *)
Resume ==
  /\ ~UiRunning /\ agent.stage = "idle"
  /\ hold' = NoHold
  /\ held' = None
  /\ UNCHANGED <<latest, registry, agent, work, ui, lock, installed, unrecorded>>

Operator ==
  \/ \E b \in Boards :
       \/ UiTake(b) \/ UiErase(b) \/ UiProgram(b) \/ UiTest(b) \/ UiInstalled(b)
       \/ UiRecord(b) \/ UiRecordFails(b) \/ UiFails(b) \/ SetAuto(b)
  \/ UiStart \/ Resume

(* A release is published.                                                 *)
Publish ==
  /\ latest' \in {r \in Releases : r > latest}
  /\ UNCHANGED <<registry, hold, agent, work, ui, lock, installed, history>>

Init ==
  /\ latest = 1
  /\ registry = [b \in Boards |-> [auto |-> TRUE, last |-> None]]
  /\ hold = NoHold
  /\ agent = Idle
  /\ work = [b \in Boards |-> "waiting"]
  /\ ui = [b \in Boards |-> NoRun]
  /\ lock = [b \in Boards |-> "free"]
  /\ installed = [b \in Boards |-> None]
  /\ held = None /\ unrecorded = {}

Next == Agent \/ Operator \/ Publish

Spec == Init /\ [][Next]_vars

-----------------------------------------------------------------------------
(* Properties.                                                             *)

(* "A reachable board is updated first.  Only after it passes does the     *)
(* worker fan out to the rest": until a board has passed in this cycle, at *)
(* most one has been disturbed.                                            *)
CanaryFirst ==
  \/ \A b, c \in Disturbed : b = c
  \/ \E b \in Disturbed : work[b] = "passed"

(* A board's lock is held exactly while one of the two works on it: never  *)
(* by both, and no failed or interrupted update keeps the board locked.    *)
LockedWhileWorking ==
  \A b \in Boards :
    /\ lock[b] = "agent" <=> b \in Active
    /\ lock[b] = "ui" <=> ui[b].step \in UiSteps

(* "Firmware/authentication failures hold that release": no board is       *)
(* updated to the release whose failure was saved last, until the operator *)
(* has reviewed it; and no cycle that was under way then brings back what  *)
(* the operator has cleared.  (What failed in a cycle that was interrupted *)
(* is not saved, and a later failure takes the place of the first.)        *)
HeldUntilReviewed ==
  /\ agent.release = held /\ held # None => Disturbed = {}
  /\ hold.release \in {held, None}

(* The agent passes over a board on the registry's word.  A board nobody   *)
(* works on runs what the registry records for it, except after a run that *)
(* did not end with a record: one that failed or was interrupted when it   *)
(* had changed the board, that erased it and no more, or whose             *)
(* installation over SWD was not followed by a passed test with the        *)
(* board's key.                                                            *)
RegistryIsTrue ==
  \A b \in Boards :
    lock[b] = "free" /\ b \notin unrecorded => registry[b].last = installed[b]
=============================================================================
