---------------------------- MODULE FleetProofs ----------------------------
(***************************************************************************)
(* What the fleet agent and the operator promise together, for any number  *)
(* of boards, releases and threads: one board goes first, failures stay    *)
(* held, locks are given back, and the registry tells what runs.           *)
(***************************************************************************)
EXTENDS Fleet, TLAPS

(* Outside the canary and the fan-out nobody is at work; among the boards  *)
(* tried before one passed, at most one was more than unreachable.         *)
CycleShape ==
  /\ agent.stage \in {"idle", "fetch"} => \A b \in Boards : work[b] = "waiting"
  /\ agent.stage = "save" => Active = {}
  /\ \A b \in Boards : work[b] # "waiting" => b \in agent.pending
  /\ agent.stage = "canary" =>
       \A b, c \in Boards : {work[b], work[c]} \cap {"waiting", "unreachable"} # {} \/ b = c
  /\ agent.stage = "fanout" => \E b \in Boards : work[b] = "passed"

(* What is installed and not recorded yet is known to who records it; what *)
(* is erased or programmed is noted as unrecorded.                         *)
RecordRight(b) ==
  /\ work[b] = "recording" => installed[b] = agent.release
  /\ ui[b].step \in {"testing", "recording"} => installed[b] = ui[b].release
  /\ ui[b].step \in {"programming", "testing"} => b \in unrecorded
  /\ \/ b \in unrecorded \/ work[b] = "recording" \/ ui[b].step = "recording"
     \/ registry[b].last = installed[b]

Recorded == \A b \in Boards : RecordRight(b)

(* The file has the release whose failure was saved, or is torn; a cycle   *)
(* has read this very file, and installs another release.                  *)
HoldsKept ==
  /\ hold.release = IF hold.torn THEN None ELSE held
  /\ agent.stage \in {"idle", "fetch"} => agent.release = None
  /\ agent.stage \in {"canary", "fanout", "save"} =>
       agent.holds = hold /\ ~hold.torn /\ agent.release # held

(* The inductive invariant.                                                *)
IndInv == TypeOK /\ CycleShape /\ CanaryFirst /\ LockedWhileWorking /\ Recorded /\ HoldsKept

(* What the variables of one board hold.                                   *)
LEMMA BoardTypes ==
  ASSUME TypeOK, NEW b \in Boards
  PROVE  /\ registry[b] \in Entries /\ registry[b].auto \in BOOLEAN
         /\ registry[b].last \in Releases \cup {None}
         /\ work[b] \in Progress
         /\ ui[b] \in UiRuns /\ ui[b].step \in {"idle", "queued"} \cup UiSteps
         /\ ui[b].release \in Releases \cup {None}
         /\ installed[b] \in Releases \cup {None}
<1>1. registry[b] \in Entries /\ ui[b] \in UiRuns
  BY DEF TypeOK
<1> QED BY <1>1 DEF TypeOK, Entries, UiRuns

(* What the agent's variable holds.                                        *)
LEMMA CycleTypes ==
  ASSUME TypeOK
  PROVE  /\ agent \in Cycles /\ agent.release \in Releases \cup {None}
         /\ agent.stage \in {"idle", "fetch", "canary", "fanout", "save"}
         /\ agent.holds \in Holds /\ agent.pending \subseteq Boards
BY DEF TypeOK, Cycles

(* What nothing under way looks like.                                      *)
LEMMA Blanks ==
  /\ NoHold \in Holds /\ NoHold.release = None /\ ~NoHold.torn
  /\ Idle \in Cycles /\ Idle.stage = "idle" /\ Idle.release = None
  /\ NoRun \in UiRuns /\ NoRun.step = "idle" /\ NoRun.release = None
<1>1. NoHold \in Holds
  BY DEF NoHold, Holds
<1>2. Idle \in Cycles
  BY <1>1 DEF Idle, Cycles
<1> QED BY <1>1, <1>2 DEF NoHold, Idle, NoRun, UiRuns

-----------------------------------------------------------------------------
(* Types.                                                                  *)

(* The steps of update_one keep every variable in its range.               *)
LEMMA BoardStepKeepsType ==
  ASSUME TypeOK, NEW b \in Boards,
         \/ Take(b) \/ Connect(b) \/ DoesNotConnect(b) \/ UpdateFails(b)
         \/ Installed(b) \/ RecordUpdate(b) \/ RecordFails(b) \/ ErrorNotRecorded(b)
  PROVE  TypeOK'
<1> USE BoardTypes, CycleTypes
<1>1. CASE Take(b)
  BY <1>1 DEF TypeOK, Take, Progress, history
<1>2. CASE Connect(b)
  BY <1>2 DEF TypeOK, Connect, Progress, history
<1>3. CASE DoesNotConnect(b)
  BY <1>3 DEF TypeOK, DoesNotConnect, Unlock, Progress, history
<1>4. CASE UpdateFails(b)
  BY <1>4 DEF TypeOK, UpdateFails, Unlock, Progress
<1>5. CASE Installed(b)
  BY <1>5 DEF TypeOK, Installed, Progress, history
<1>6. CASE RecordUpdate(b)
  <2>1. [registry[b] EXCEPT !.last = agent.release] \in Entries
    BY DEF Entries
  <2>2. registry' = [registry EXCEPT ![b] = [registry[b] EXCEPT !.last = agent.release]]
    BY <1>6 DEF RecordUpdate
  <2> QED BY <1>6, <2>1, <2>2 DEF TypeOK, RecordUpdate, Unlock, Progress
<1>7. CASE RecordFails(b)
  <2>1. agent' \in Cycles
    BY <1>7 DEF RecordFails, Cycles
  <2> QED BY <1>7, <2>1 DEF TypeOK, RecordFails, Unlock, Progress
<1>8. CASE ErrorNotRecorded(b)
  <2>1. agent' \in Cycles
    BY <1>8 DEF ErrorNotRecorded, Cycles
  <2> QED BY <1>8, <2>1 DEF TypeOK, ErrorNotRecorded, history
<1> QED BY <1>1, <1>2, <1>3, <1>4, <1>5, <1>6, <1>7, <1>8

(* The end of a cycle.                                                     *)
LEMMA EndKeepsType ==
  ASSUME CycleEnds
  PROVE  agent' \in Cycles /\ work' \in [Boards -> Progress]
BY Blanks DEF CycleEnds, Progress

LEMMA NewHoldsType ==
  ASSUME TypeOK
  PROVE  NewHolds \in Holds
<1>1. CASE Failures = {}
  BY <1>1, CycleTypes DEF NewHolds
<1>2. CASE Failures # {}
  <2>1. agent.holds.board \in [Boards -> Releases \cup {None}]
    BY CycleTypes DEF Holds
  <2>2. [b \in Boards |-> IF b \in Failures THEN agent.release ELSE agent.holds.board[b]]
          \in [Boards -> Releases \cup {None}]
    BY <2>1, CycleTypes
  <2> QED BY <1>2, <2>2, CycleTypes DEF NewHolds, Holds
<1> QED BY <1>1, <1>2

(* The steps of the whole cycle keep every variable in its range.          *)
LEMMA CycleStepKeepsType ==
  ASSUME TypeOK,
         \/ StartCycle \/ Fetch \/ FetchFails \/ CanaryDone \/ FanoutDone
         \/ CycleBreaks \/ Save \/ SaveInterrupted \/ AgentStops
  PROVE  TypeOK'
<1> USE BoardTypes, CycleTypes, EndKeepsType, Blanks
<1>1. CASE StartCycle
  <2>1. [b \in Boards |-> IF registry[b].auto THEN registry[b].last ELSE Off]
          \in [Boards -> Releases \cup {None, Off}]
    OBVIOUS
  <2>2. agent' \in Cycles
    BY <1>1, <2>1 DEF StartCycle, Cycles
  <2> QED BY <1>1, <2>2 DEF TypeOK, StartCycle, history
<1>2. CASE Fetch
  <2>1. agent' \in Cycles /\ work' \in [Boards -> Progress]
    <3>1. CASE CycleEnds
      BY <3>1
    <3>2. CASE ~CycleEnds
      <4>1. latest \in Releases /\ hold \in Holds
        BY DEF TypeOK
      <4>2. PICK ps \in SUBSET Boards :
              agent' = [Idle EXCEPT !.stage = "canary", !.release = latest,
                          !.holds = hold, !.pending = ps]
        BY <1>2, <3>2 DEF Fetch
      <4>3. agent' \in Cycles
        BY <4>1, <4>2 DEF Cycles
      <4>4. work' = work
        BY <1>2, <3>2 DEF Fetch
      <4> QED BY <4>3, <4>4 DEF TypeOK
    <3> QED BY <3>1, <3>2
  <2> QED BY <1>2, <2>1 DEF TypeOK, Fetch, history
<1>3. CASE FetchFails
  BY <1>3 DEF TypeOK, FetchFails, history
<1>4. CASE CanaryDone
  <2>1. agent' \in Cycles
    BY <1>4 DEF CanaryDone, Cycles
  <2> QED BY <1>4, <2>1 DEF TypeOK, CanaryDone, history
<1>5. CASE FanoutDone
  <2>1. agent' \in Cycles
    BY <1>5 DEF FanoutDone, Cycles
  <2> QED BY <1>5, <2>1 DEF TypeOK, FanoutDone, history
<1>6. CASE CycleBreaks
  BY <1>6 DEF TypeOK, CycleBreaks, history
<1>7. CASE Save
  BY <1>7, NewHoldsType DEF TypeOK, Save
<1>8. CASE SaveInterrupted
  <2>1. hold' \in Holds
    BY <1>8 DEF SaveInterrupted, Holds
  <2> QED BY <1>8, <2>1 DEF TypeOK, SaveInterrupted, history
<1>9. CASE AgentStops
  <2>1. lock' \in [Boards -> {"free", "agent", "ui"}]
    BY <1>9 DEF AgentStops, Free, TypeOK
  <2> QED BY <1>9, <2>1 DEF TypeOK, AgentStops
<1> QED BY <1>1, <1>2, <1>3, <1>4, <1>5, <1>6, <1>7, <1>8, <1>9

(* So do the operator's steps and a new release.                           *)
LEMMA OperatorStepKeepsType ==
  ASSUME TypeOK, Operator \/ Publish
  PROVE  TypeOK'
<1> USE BoardTypes, CycleTypes, Blanks
<1>1. CASE UiStart
  <2>1. PICK selected \in SUBSET Boards :
          ui' = [b \in Boards |-> IF b \in selected THEN [NoRun EXCEPT !.step = "queued"]
                                  ELSE NoRun]
    BY <1>1, FleetAssumption DEF UiStart, Boards
  <2>2. [NoRun EXCEPT !.step = "queued"] \in UiRuns
    BY DEF UiRuns
  <2>3. ui' \in [Boards -> UiRuns]
    BY <2>1, <2>2
  <2> QED BY <1>1, <2>3 DEF TypeOK, UiStart, history
<1>2. ASSUME NEW b \in Boards, UiTake(b) PROVE TypeOK'
  <2>1. ui' \in [Boards -> UiRuns]
    <3>1. CASE lock[b] = "free"
      <4>1. PICK step \in {"installing", "erasing"} :
              ui' = [ui EXCEPT ![b] = [ui[b] EXCEPT !.step = step]]
        BY <1>2, <3>1 DEF UiTake
      <4>2. step \in UiSteps
        BY DEF UiSteps
      <4>3. [ui[b] EXCEPT !.step = step] \in UiRuns
        BY <4>2 DEF UiRuns
      <4> QED BY <4>1, <4>3 DEF TypeOK
    <3>2. CASE lock[b] # "free"
      BY <1>2, <3>2 DEF UiTake, TypeOK
    <3> QED BY <3>1, <3>2
  <2>2. lock' \in [Boards -> {"free", "agent", "ui"}]
    BY <1>2 DEF UiTake, TypeOK
  <2> QED BY <1>2, <2>1, <2>2 DEF TypeOK, UiTake, history
<1>b. ASSUME NEW b \in Boards, UiErase(b) PROVE TypeOK'
  <2>1. "programming" \in UiSteps
    BY DEF UiSteps
  <2>2. [ui[b] EXCEPT !.step = "programming"] \in UiRuns
    BY <2>1 DEF UiRuns
  <2>3. /\ ui' \in {[ui EXCEPT ![b] = [ui[b] EXCEPT !.step = "programming"]],
                    [ui EXCEPT ![b] = NoRun]}
        /\ lock' \in {lock, [lock EXCEPT ![b] = "free"]}
    BY <1>b DEF UiErase, UiEnds, Unlock
  <2> QED BY <1>b, <2>2, <2>3 DEF TypeOK, UiErase
<1>c. ASSUME NEW b \in Boards, UiProgram(b) PROVE TypeOK'
  <2>1. "testing" \in UiSteps /\ "installing" \in UiSteps
    BY DEF UiSteps
  <2>2. CASE \E r \in Releases :
               /\ installed' = [installed EXCEPT ![b] = r]
               /\ ui' = [ui EXCEPT ![b] = [ui[b] EXCEPT !.step = "testing", !.release = r]]
    <3>1. PICK r \in Releases :
            /\ installed' = [installed EXCEPT ![b] = r]
            /\ ui' = [ui EXCEPT ![b] = [ui[b] EXCEPT !.step = "testing", !.release = r]]
      BY <2>2
    <3>2. [ui[b] EXCEPT !.step = "testing", !.release = r] \in UiRuns
      BY <2>1 DEF UiRuns
    <3>3. ui' \in [Boards -> UiRuns]
      BY <3>1, <3>2 DEF TypeOK
    <3>4. installed' \in [Boards -> Releases \cup {None}]
      BY <3>1 DEF TypeOK
    <3> QED BY <1>c, <3>3, <3>4 DEF TypeOK, UiProgram, history
  <2>3. CASE /\ ui' = [ui EXCEPT ![b] = [ui[b] EXCEPT !.step = "installing"]]
             /\ installed' = installed
    <3>1. [ui[b] EXCEPT !.step = "installing"] \in UiRuns
      BY <2>1 DEF UiRuns
    <3> QED BY <1>c, <2>3, <3>1 DEF TypeOK, UiProgram, history
  <2>4. \/ \E r \in Releases :
             /\ installed' = [installed EXCEPT ![b] = r]
             /\ ui' = [ui EXCEPT ![b] = [ui[b] EXCEPT !.step = "testing", !.release = r]]
        \/ /\ ui' = [ui EXCEPT ![b] = [ui[b] EXCEPT !.step = "installing"]]
           /\ installed' = installed
    BY <1>c, Zenon DEF UiProgram, TypeOK
  <2> QED BY <2>2, <2>3, <2>4
<1>d. ASSUME NEW b \in Boards, UiTest(b) PROVE TypeOK'
  <2>1. "recording" \in UiSteps
    BY DEF UiSteps
  <2>2. [ui[b] EXCEPT !.step = "recording"] \in UiRuns
    BY <2>1 DEF UiRuns
  <2>3. /\ ui' \in {[ui EXCEPT ![b] = [ui[b] EXCEPT !.step = "recording"]],
                    [ui EXCEPT ![b] = NoRun]}
        /\ lock' \in {lock, [lock EXCEPT ![b] = "free"]}
    BY <1>d DEF UiTest, UiEnds, Unlock
  <2> QED BY <1>d, <2>2, <2>3 DEF TypeOK, UiTest, history
<1>3. ASSUME NEW b \in Boards, UiInstalled(b) PROVE TypeOK'
  <2>1. "recording" \in UiSteps
    BY DEF UiSteps
  <2>2. PICK r \in Releases :
          /\ installed' = [installed EXCEPT ![b] = r]
          /\ ui' = [ui EXCEPT ![b] = [ui[b] EXCEPT !.step = "recording", !.release = r]]
    BY <1>3, Zenon DEF UiInstalled, TypeOK
  <2>3. [ui[b] EXCEPT !.step = "recording", !.release = r] \in UiRuns
    BY <2>1 DEF UiRuns
  <2> QED BY <1>3, <2>2, <2>3 DEF TypeOK, UiInstalled, history
<1>4. ASSUME NEW b \in Boards, UiRecord(b) PROVE TypeOK'
  <2>1. [registry[b] EXCEPT !.last = ui[b].release] \in Entries
    BY DEF Entries
  <2>2. registry' = [registry EXCEPT ![b] = [registry[b] EXCEPT !.last = ui[b].release]]
    BY <1>4 DEF UiRecord
  <2> QED BY <1>4, <2>1, <2>2 DEF TypeOK, UiRecord, UiEnds, Unlock
<1>5. ASSUME NEW b \in Boards, UiFails(b) PROVE TypeOK'
  BY <1>5 DEF TypeOK, UiFails, UiEnds, Unlock
<1>6. ASSUME NEW b \in Boards, UiRecordFails(b) PROVE TypeOK'
  BY <1>6 DEF TypeOK, UiRecordFails, UiEnds, Unlock
<1>7. ASSUME NEW b \in Boards, SetAuto(b) PROVE TypeOK'
  <2>1. [registry[b] EXCEPT !.auto = ~registry[b].auto] \in Entries
    BY DEF Entries
  <2>2. registry' = [registry EXCEPT ![b] = [registry[b] EXCEPT !.auto = ~registry[b].auto]]
    BY <1>7 DEF SetAuto
  <2> QED BY <1>7, <2>1, <2>2 DEF TypeOK, SetAuto, history
<1>8. CASE Resume
  BY <1>8 DEF TypeOK, Resume
<1>9. CASE Publish
  BY <1>9 DEF TypeOK, Publish, history
<1> QED BY <1>1, <1>2, <1>b, <1>c, <1>d, <1>3, <1>4, <1>5, <1>6, <1>7, <1>8, <1>9
        DEF Operator

-----------------------------------------------------------------------------
(* The canary.                                                             *)

(* What a step of update_one does to the cycle.                            *)
Advances(b, x) ==
  /\ work' = [work EXCEPT ![b] = x] /\ x # "waiting"
  /\ agent'.stage = agent.stage /\ agent'.pending = agent.pending
  /\ Turn(b) \/ b \in Active

LEMMA AdvanceKeepsShape ==
  ASSUME TypeOK, CycleShape, NEW b \in Boards, NEW x, Advances(b, x)
  PROVE  CycleShape' /\ CanaryFirst'
<1> DEFINE quiet(c) == work[c] \in {"waiting", "unreachable"}
<1>1. work'[b] = x /\ \A c \in Boards : c # b => work'[c] = work[c]
  BY DEF Advances, TypeOK
<1>2. agent.stage \in {"canary", "fanout"}
  <2>1. CASE Turn(b)
    BY <2>1 DEF Turn
  <2>2. CASE b \in Active
    BY <2>2, CycleTypes DEF CycleShape, Active
  <2> QED BY <2>1, <2>2 DEF Advances
<1>3. b \in agent.pending
  BY DEF Advances, Turn, Waiting, Active, CycleShape
<1>4. ASSUME agent.stage = "canary", NEW c \in Boards, c # b PROVE quiet(c)
  <2>1. CASE Turn(b)
    <3>1. c \in agent.pending \ Waiting => work[c] = "unreachable"
      BY <1>4, <2>1 DEF Turn
    <3> QED BY <3>1 DEF Waiting, CycleShape
  <2>2. CASE b \in Active
    BY <1>4, <2>2 DEF CycleShape, Active
  <2> QED BY <2>1, <2>2 DEF Advances
<1>5. agent.stage = "fanout" => \E c \in Boards : work'[c] = "passed"
  <2>1. work[b] # "passed"
    BY DEF Advances, Turn, Waiting, Active
  <2> QED BY <1>1, <2>1 DEF CycleShape
<1>6. CycleShape'
  <2>1. agent'.stage \notin {"idle", "fetch", "save"}
    BY <1>2 DEF Advances
  <2>2. \A c \in Boards : work'[c] # "waiting" => c \in agent'.pending
    BY <1>1, <1>3 DEF Advances, CycleShape
  <2>3. agent.stage = "canary" =>
          \A c \in Boards : c # b => work'[c] \in {"waiting", "unreachable"}
    BY <1>1, <1>4
  <2> QED BY <1>5, <2>1, <2>2, <2>3 DEF CycleShape, Advances
<1>7. CanaryFirst'
  <2>1. CASE agent.stage = "canary"
    <3>1. \A c \in Boards : c # b => work'[c] \in {"waiting", "unreachable"}
      BY <1>1, <1>4, <2>1
    <3> QED BY <3>1 DEF CanaryFirst, Disturbed
  <2>2. CASE agent.stage = "fanout"
    BY <1>5, <2>2 DEF CanaryFirst, Disturbed
  <2> QED BY <1>2, <2>1, <2>2
<1> QED BY <1>6, <1>7

(* A step after which every board waits.                                   *)
LEMMA EndKeepsShape ==
  ASSUME CycleEnds
  PROVE  CycleShape' /\ CanaryFirst'
BY DEF CycleEnds, Idle, CycleShape, CanaryFirst, Disturbed, Active

(* Every step keeps the shape of the cycle and the canary's place.         *)
LEMMA ShapeKept ==
  ASSUME TypeOK, CycleShape, CanaryFirst, Next
  PROVE  CycleShape' /\ CanaryFirst'
<1>1. CASE StartCycle
  <2>1. \A b \in Boards : work'[b] = "waiting"
    BY <1>1 DEF StartCycle, CycleShape
  <2>2. agent'.stage = "fetch"
    BY <1>1 DEF StartCycle, Idle
  <2> QED BY <2>1, <2>2 DEF CycleShape, CanaryFirst, Disturbed
<1>2. CASE Fetch
  <2>1. CASE CycleEnds
    BY <2>1, EndKeepsShape
  <2>2. CASE ~CycleEnds
    <3>1. \A b \in Boards : work'[b] = "waiting"
      BY <1>2, <2>2 DEF Fetch, CycleShape
    <3>2. agent'.stage = "canary"
      BY <1>2, <2>2 DEF Fetch, Idle
    <3> QED BY <3>1, <3>2 DEF CycleShape, CanaryFirst, Disturbed
  <2> QED BY <2>1, <2>2
<1>3. CASE CycleEnds
  BY <1>3, EndKeepsShape
<1>4. ASSUME NEW b \in Boards,
             \/ Take(b) \/ Connect(b) \/ DoesNotConnect(b) \/ UpdateFails(b)
             \/ Installed(b) \/ RecordUpdate(b) \/ RecordFails(b)
      PROVE  \E x : Advances(b, x)
  <2>1. CASE Take(b)
    BY <2>1 DEF Take, Advances
  <2>2. CASE ~Take(b)
    <3>1. b \in Active
      BY <1>4, <2>2 DEF Connect, DoesNotConnect, UpdateFails, Installed, RecordUpdate,
                        RecordFails, Active
    <3>2. agent'.stage = agent.stage /\ agent'.pending = agent.pending
      BY <1>4, <2>2, CycleTypes DEF Connect, DoesNotConnect, UpdateFails, Installed,
                                    RecordUpdate, RecordFails, Cycles
    <3>3. \E x : x # "waiting" /\ work' = [work EXCEPT ![b] = x]
      BY <1>4, <2>2 DEF Connect, DoesNotConnect, UpdateFails, Installed, RecordUpdate,
                        RecordFails
    <3> QED BY <3>1, <3>2, <3>3 DEF Advances
  <2> QED BY <2>1, <2>2
<1>5. ASSUME NEW b \in Boards, ErrorNotRecorded(b) PROVE CycleShape' /\ CanaryFirst'
  <2>1. agent'.stage = agent.stage /\ agent'.pending = agent.pending /\ work' = work
    BY <1>5, CycleTypes DEF ErrorNotRecorded, Cycles
  <2> QED BY <2>1 DEF CycleShape, CanaryFirst, Disturbed, Active
<1>6. CASE CanaryDone \/ FanoutDone
  <2>1. work' = work /\ agent'.pending = agent.pending /\ Active = {}
    BY <1>6, CycleTypes DEF CanaryDone, FanoutDone, Cycles
  <2>2. \/ agent'.stage = "save"
        \/ agent'.stage = "fanout" /\ \E b \in Boards : work[b] = "passed"
    BY <1>6, CycleTypes DEF CanaryDone, FanoutDone, Cycles
  <2> QED BY <2>1, <2>2 DEF CycleShape, CanaryFirst, Disturbed, Active
<1>7. CASE Operator \/ Publish
  <2>1. agent' = agent /\ work' = work
    BY <1>7 DEF Operator, Publish, UiStart, UiTake, UiErase, UiProgram, UiTest,
                UiInstalled, UiRecord, UiFails, UiRecordFails, SetAuto, Resume
  <2> QED BY <2>1 DEF CycleShape, CanaryFirst, Disturbed, Active
<1>8. CASE FetchFails \/ CycleBreaks \/ Save \/ SaveInterrupted \/ AgentStops
  BY <1>3, <1>8 DEF FetchFails, CycleBreaks, Save, SaveInterrupted, AgentStops
<1>9. CASE \E b \in Boards :
             \/ Take(b) \/ Connect(b) \/ DoesNotConnect(b) \/ UpdateFails(b)
             \/ Installed(b) \/ RecordUpdate(b) \/ RecordFails(b)
  BY <1>4, <1>9, AdvanceKeepsShape
<1> QED BY <1>1, <1>2, <1>5, <1>6, <1>7, <1>8, <1>9 DEF Next, Agent

-----------------------------------------------------------------------------
(* Locks and the registry.                                                 *)

(* Who holds the lock of board b.                                          *)
Working(b) == work[b] \in {"locked", "installing", "recording"}
Operated(b) ==
  ui[b].step \in {"erasing", "programming", "testing", "installing", "recording"}

BoardRight(b) ==
  /\ lock[b] = "agent" <=> Working(b)
  /\ lock[b] = "ui" <=> Operated(b)
  /\ RecordRight(b)

LEMMA BoardsRight ==
  LockedWhileWorking /\ Recorded <=> \A b \in Boards : BoardRight(b)
BY DEF LockedWhileWorking, Recorded, BoardRight, Working, Operated, UiSteps, Active

(* A step leaves board c alone.                                            *)
Untouched(c) ==
  /\ work'[c] = work[c] /\ ui'[c] = ui[c] /\ lock'[c] = lock[c]
  /\ registry'[c].last = registry[c].last /\ installed'[c] = installed[c]
  /\ c \in unrecorded' <=> c \in unrecorded

LEMMA UntouchedRight ==
  ASSUME NEW c \in Boards, BoardRight(c), Untouched(c),
         agent'.release = agent.release \/ ~Working(c)
  PROVE  BoardRight(c)'
BY DEF BoardRight, RecordRight, Untouched, Working, Operated

(* The steps of update_one at b.                                           *)
LEMMA BoardStepRight ==
  ASSUME TypeOK, NEW b \in Boards, BoardRight(b),
         \/ Take(b) \/ Connect(b) \/ DoesNotConnect(b) \/ UpdateFails(b)
         \/ Installed(b) \/ RecordUpdate(b) \/ RecordFails(b) \/ ErrorNotRecorded(b)
  PROVE  /\ agent'.release = agent.release
         /\ \A c \in Boards \ {b} : Untouched(c)
         /\ BoardRight(b)'
<1> USE BoardTypes, CycleTypes
<1>1. CASE Take(b)
  <2>1. work[b] = "waiting"
    BY <1>1 DEF Take, Turn, Waiting
  <2> QED BY <1>1, <2>1 DEF TypeOK, Take, Untouched, BoardRight, RecordRight, Working,
                            Operated, history
<1>2. CASE Connect(b)
  BY <1>2 DEF TypeOK, Connect, Untouched, BoardRight, RecordRight, Working, Operated, history
<1>3. CASE DoesNotConnect(b)
  BY <1>3 DEF TypeOK, DoesNotConnect, Unlock, Untouched, BoardRight, RecordRight, Working,
              Operated, history
<1>4. CASE UpdateFails(b)
  BY <1>4 DEF TypeOK, UpdateFails, Unlock, Untouched, BoardRight, RecordRight, Working, Operated
<1>5. CASE Installed(b)
  BY <1>5 DEF TypeOK, Installed, Untouched, BoardRight, RecordRight, Working, Operated, history
<1>6. CASE RecordUpdate(b)
  <2>1. registry' = [registry EXCEPT ![b] = [registry[b] EXCEPT !.last = agent.release]]
    BY <1>6 DEF RecordUpdate
  <2>2. registry'[b].last = agent.release
    BY <2>1 DEF TypeOK, Entries
  <2> QED BY <1>6, <2>1, <2>2 DEF TypeOK, RecordUpdate, Unlock, Untouched, BoardRight,
                                  RecordRight, Working, Operated
<1>7. CASE RecordFails(b)
  <2>1. agent'.release = agent.release
    BY <1>7 DEF RecordFails, Cycles
  <2> QED BY <1>7, <2>1 DEF TypeOK, RecordFails, Unlock, Untouched, BoardRight, RecordRight,
                            Working, Operated
<1>8. CASE ErrorNotRecorded(b)
  <2>1. agent'.release = agent.release
    BY <1>8 DEF ErrorNotRecorded, Cycles
  <2>2. work' = work /\ ui' = ui /\ lock' = lock /\ registry' = registry
        /\ installed' = installed /\ unrecorded' = unrecorded
    BY <1>8 DEF ErrorNotRecorded, history
  <2> QED BY <2>1, <2>2 DEF Untouched, BoardRight, RecordRight, Working, Operated
<1> QED BY <1>1, <1>2, <1>3, <1>4, <1>5, <1>6, <1>7, <1>8

(* The operator's steps at b.                                              *)
LEMMA UiStepRight ==
  ASSUME TypeOK, NEW b \in Boards, BoardRight(b),
         \/ UiTake(b) \/ UiErase(b) \/ UiProgram(b) \/ UiTest(b) \/ UiInstalled(b)
         \/ UiRecord(b) \/ UiRecordFails(b) \/ UiFails(b) \/ SetAuto(b)
  PROVE  /\ agent'.release = agent.release
         /\ \A c \in Boards \ {b} : Untouched(c)
         /\ BoardRight(b)'
<1> USE BoardTypes, CycleTypes
<1>1. CASE UiTake(b)
  <2>1. CASE lock[b] = "free"
    <3>1. PICK r \in UiRuns : ui' = [ui EXCEPT ![b] = r] /\ r.step \in {"installing", "erasing"}
      <4>1. PICK step \in {"installing", "erasing"} :
              ui' = [ui EXCEPT ![b] = [ui[b] EXCEPT !.step = step]]
        BY <1>1, <2>1 DEF UiTake
      <4>2. step \in UiSteps
        BY DEF UiSteps
      <4>3. [ui[b] EXCEPT !.step = step] \in UiRuns /\ [ui[b] EXCEPT !.step = step].step = step
        BY <4>2 DEF UiRuns
      <4> QED BY <4>1, <4>3
    <3>2. /\ lock' = [lock EXCEPT ![b] = "ui"]
          /\ UNCHANGED <<registry, agent, work, installed, unrecorded>>
      BY <1>1, <2>1 DEF UiTake, history
    <3> QED BY <2>1, <3>1, <3>2 DEF TypeOK, Untouched, BoardRight, RecordRight, Working, Operated
  <2>2. CASE lock[b] # "free"
    BY <1>1, <2>2, Blanks DEF TypeOK, UiTake, Untouched, BoardRight, RecordRight, Working,
                              Operated, history
  <2> QED BY <2>1, <2>2
<1>a. CASE UiErase(b)
  <2>1. /\ installed' = [installed EXCEPT ![b] = None] /\ unrecorded' = unrecorded \cup {b}
        /\ UNCHANGED <<registry, agent, work>> /\ lock[b] = "ui"
    BY <1>a DEF UiErase, BoardRight, Operated
  <2>2. CASE ui' = [ui EXCEPT ![b] = NoRun] /\ lock' = [lock EXCEPT ![b] = "free"]
    BY <2>1, <2>2, Blanks DEF TypeOK, Untouched, BoardRight, RecordRight, Working, Operated
  <2>3. CASE ui' = [ui EXCEPT ![b] = [ui[b] EXCEPT !.step = "programming"]] /\ lock' = lock
    <3>1. ui'[b].step = "programming"
      BY <2>3 DEF TypeOK, UiRuns
    <3> QED BY <2>1, <2>3, <3>1 DEF TypeOK, Untouched, BoardRight, RecordRight, Working, Operated
  <2> QED BY <1>a, <2>2, <2>3 DEF UiErase, UiEnds, Unlock
<1>b. CASE UiProgram(b)
  <2>1. /\ UNCHANGED <<registry, agent, work, lock, unrecorded>> /\ lock[b] = "ui"
        /\ b \in unrecorded /\ ~Working(b)
    BY <1>b DEF UiProgram, BoardRight, RecordRight, Operated, history
  <2>2. CASE \E r \in Releases :
               /\ installed' = [installed EXCEPT ![b] = r]
               /\ ui' = [ui EXCEPT ![b] = [ui[b] EXCEPT !.step = "testing", !.release = r]]
    <3>1. PICK r \in Releases :
            /\ installed' = [installed EXCEPT ![b] = r]
            /\ ui' = [ui EXCEPT ![b] = [ui[b] EXCEPT !.step = "testing", !.release = r]]
      BY <2>2
    <3>2. ui'[b].step = "testing" /\ ui'[b].release = r
      BY <3>1 DEF TypeOK, UiRuns
    <3> QED BY <2>1, <3>1, <3>2 DEF TypeOK, Untouched, BoardRight, RecordRight, Working, Operated
  <2>3. CASE /\ ui' = [ui EXCEPT ![b] = [ui[b] EXCEPT !.step = "installing"]]
             /\ installed' = installed
    <3>1. ui'[b].step = "installing"
      BY <2>3 DEF TypeOK, UiRuns
    <3> QED BY <2>1, <2>3, <3>1 DEF TypeOK, Untouched, BoardRight, RecordRight, Working, Operated
  <2> QED BY <1>b, <2>2, <2>3 DEF UiProgram
<1>c. CASE UiTest(b)
  <2>1. /\ UNCHANGED <<registry, agent, work, installed, unrecorded>> /\ lock[b] = "ui"
        /\ b \in unrecorded /\ ~Working(b) /\ installed[b] = ui[b].release
    BY <1>c DEF UiTest, BoardRight, RecordRight, Operated, history
  <2>2. CASE ui' = [ui EXCEPT ![b] = NoRun] /\ lock' = [lock EXCEPT ![b] = "free"]
    BY <2>1, <2>2, Blanks DEF TypeOK, Untouched, BoardRight, RecordRight, Working, Operated
  <2>3. CASE ui' = [ui EXCEPT ![b] = [ui[b] EXCEPT !.step = "recording"]] /\ lock' = lock
    <3>1. ui'[b].step = "recording" /\ ui'[b].release = ui[b].release
      BY <2>3 DEF TypeOK, UiRuns
    <3> QED BY <2>1, <2>3, <3>1 DEF TypeOK, Untouched, BoardRight, RecordRight, Working, Operated
  <2> QED BY <1>c, <2>2, <2>3 DEF UiTest, UiEnds, Unlock
<1>2. CASE UiInstalled(b)
  <2>1. PICK r \in Releases :
          /\ installed' = [installed EXCEPT ![b] = r]
          /\ ui' = [ui EXCEPT ![b] = [ui[b] EXCEPT !.step = "recording", !.release = r]]
    BY <1>2, Zenon DEF UiInstalled, TypeOK
  <2>2. ui'[b].step = "recording" /\ ui'[b].release = r
    BY <2>1 DEF TypeOK, UiRuns
  <2>3. /\ UNCHANGED <<registry, agent, work, lock, unrecorded>>
        /\ lock[b] = "ui" /\ ~Working(b)
    BY <1>2 DEF UiInstalled, BoardRight, Operated, history
  <2> QED BY <2>1, <2>2, <2>3 DEF TypeOK, Untouched, BoardRight, RecordRight, Working, Operated
<1>3. CASE UiRecord(b)
  <2>1. registry' = [registry EXCEPT ![b] = [registry[b] EXCEPT !.last = ui[b].release]]
    BY <1>3 DEF UiRecord
  <2>2. registry'[b].last = ui[b].release
    BY <2>1 DEF TypeOK, Entries
  <2> QED BY <1>3, <2>1, <2>2, Blanks DEF TypeOK, UiRecord, UiEnds, Unlock, Untouched, BoardRight,
                                          RecordRight, Working, Operated
<1>4. CASE UiRecordFails(b)
  BY <1>4, Blanks DEF TypeOK, UiRecordFails, UiEnds, Unlock, Untouched, BoardRight, RecordRight,
                      Working, Operated
<1>5. CASE UiFails(b)
  BY <1>5, Blanks DEF TypeOK, UiFails, UiEnds, Unlock, Untouched, BoardRight, RecordRight, Working,
                      Operated
<1>6. CASE SetAuto(b)
  <2>1. registry' = [registry EXCEPT ![b] = [registry[b] EXCEPT !.auto = ~registry[b].auto]]
    BY <1>6 DEF SetAuto
  <2>2. \A c \in Boards : registry'[c].last = registry[c].last
    BY <2>1 DEF TypeOK, Entries
  <2> QED BY <1>6, <2>2 DEF SetAuto, Untouched, BoardRight, RecordRight, Working, Operated,
                            history
<1> QED BY <1>1, <1>a, <1>b, <1>c, <1>2, <1>3, <1>4, <1>5, <1>6

(* A board nobody of the agent works on, before and after.                 *)
LEMMA RestingRight ==
  ASSUME NEW c \in Boards, BoardRight(c), ~Working(c), work'[c] = "waiting",
         ui' = ui, lock' = lock, registry' = registry, installed' = installed,
         unrecorded' = unrecorded
  PROVE  BoardRight(c)'
BY DEF BoardRight, RecordRight, Working, Operated

(* The steps of the whole cycle.                                           *)
LEMMA CycleStepRight ==
  ASSUME TypeOK, CycleShape, NEW c \in Boards, BoardRight(c),
         \/ StartCycle \/ Fetch \/ FetchFails \/ CanaryDone \/ FanoutDone
         \/ CycleBreaks \/ Save \/ SaveInterrupted \/ AgentStops
  PROVE  BoardRight(c)'
<1>1. CASE StartCycle
  <2>1. ~Working(c) /\ work'[c] = "waiting"
    BY <1>1 DEF StartCycle, CycleShape, Working
  <2> QED BY <1>1, <2>1, RestingRight DEF StartCycle, history
<1>2. CASE Fetch \/ FetchFails
  <2>1. ~Working(c) /\ work[c] = "waiting"
    BY <1>2 DEF Fetch, FetchFails, CycleShape, Working
  <2>2. work'[c] = "waiting"
    BY <1>2, <2>1 DEF Fetch, FetchFails, CycleEnds
  <2> QED BY <1>2, <2>1, <2>2, RestingRight DEF Fetch, FetchFails, history
<1>3. CASE CanaryDone \/ FanoutDone
  <2>1. agent'.release = agent.release
    BY <1>3, CycleTypes DEF CanaryDone, FanoutDone, Cycles
  <2>2. Untouched(c)
    BY <1>3 DEF CanaryDone, FanoutDone, Untouched, history
  <2> QED BY <2>1, <2>2, UntouchedRight
<1>4. CASE CycleBreaks \/ Save \/ SaveInterrupted
  <2>1. ~Working(c)
    BY <1>4 DEF CycleBreaks, Save, SaveInterrupted, CycleShape, Active, Working
  <2>2. work'[c] = "waiting"
    BY <1>4 DEF CycleBreaks, Save, SaveInterrupted, CycleEnds
  <2> QED BY <1>4, <2>1, <2>2, RestingRight DEF CycleBreaks, Save, SaveInterrupted, history
<1>5. CASE AgentStops
  <2>1. work'[c] = "waiting" /\ ~Working(c)'
    BY <1>5 DEF AgentStops, CycleEnds, Working
  <2>2. lock'[c] = IF lock[c] = "agent" THEN "free" ELSE lock[c]
    BY <1>5 DEF AgentStops, Free
  <2>3. c \in unrecorded' \/ (work[c] # "recording" /\ c \notin unrecorded)
    BY <1>5 DEF AgentStops
  <2>4. ui' = ui /\ registry' = registry /\ installed' = installed
    BY <1>5 DEF AgentStops
  <2> QED BY <2>1, <2>2, <2>3, <2>4 DEF BoardRight, RecordRight, Working, Operated
<1> QED BY <1>1, <1>2, <1>3, <1>4, <1>5

(* The operator's other steps, and a new release.                          *)
LEMMA OtherStepRight ==
  ASSUME TypeOK, NEW c \in Boards, BoardRight(c), UiStart \/ Resume \/ Publish
  PROVE  BoardRight(c)'
<1>1. CASE UiStart
  <2>1. ui[c].step = "idle"
    BY <1>1 DEF UiStart, UiRunning, NoRun
  <2>2. ui'[c].step \in {"idle", "queued"}
    BY <1>1 DEF UiStart, NoRun
  <2>3. work' = work /\ lock' = lock /\ registry' = registry /\ installed' = installed
        /\ unrecorded' = unrecorded /\ agent' = agent
    BY <1>1 DEF UiStart, history
  <2> QED BY <2>1, <2>2, <2>3 DEF BoardRight, RecordRight, Working, Operated
<1>2. CASE Resume \/ Publish
  BY <1>2, UntouchedRight DEF Resume, Publish, Untouched, history
<1> QED BY <1>1, <1>2

(* Every step keeps locks, registry and boards in agreement.               *)
LEMMA BoardsKept ==
  ASSUME TypeOK, CycleShape, LockedWhileWorking, Recorded, Next
  PROVE  LockedWhileWorking' /\ Recorded'
<1>1. \A c \in Boards : BoardRight(c)
  BY BoardsRight
<1>2. ASSUME NEW c \in Boards PROVE BoardRight(c)'
  <2>1. BoardRight(c)
    BY <1>1
  <2>2. ASSUME NEW b \in Boards,
               \/ Take(b) \/ Connect(b) \/ DoesNotConnect(b) \/ UpdateFails(b)
               \/ Installed(b) \/ RecordUpdate(b) \/ RecordFails(b) \/ ErrorNotRecorded(b)
        PROVE  BoardRight(c)'
    BY <1>1, <2>1, <2>2, BoardStepRight, UntouchedRight
  <2>3. ASSUME NEW b \in Boards,
               \/ UiTake(b) \/ UiErase(b) \/ UiProgram(b) \/ UiTest(b) \/ UiInstalled(b)
               \/ UiRecord(b) \/ UiRecordFails(b) \/ UiFails(b) \/ SetAuto(b)
        PROVE  BoardRight(c)'
    BY <1>1, <2>1, <2>3, UiStepRight, UntouchedRight
  <2>4. CASE \/ StartCycle \/ Fetch \/ FetchFails \/ CanaryDone \/ FanoutDone
             \/ CycleBreaks \/ Save \/ SaveInterrupted \/ AgentStops
    BY <2>1, <2>4, CycleStepRight
  <2>5. CASE UiStart \/ Resume \/ Publish
    BY <2>1, <2>5, OtherStepRight
  <2> QED BY <2>2, <2>3, <2>4, <2>5 DEF Next, Agent, Operator
<1> QED BY <1>2 DEF LockedWhileWorking, Recorded, BoardRight, RecordRight, Working, Operated,
                    UiSteps, Active

-----------------------------------------------------------------------------
(* Holds.                                                                  *)

(* The end of a cycle leaves no release.                                   *)
LEMMA EndForgets ==
  ASSUME CycleEnds
  PROVE  agent'.stage = "idle" /\ agent'.release = None
BY DEF CycleEnds, Idle

LEMMA HoldsStay ==
  ASSUME TypeOK, CycleShape, HoldsKept, Next
  PROVE  HoldsKept'
<1>1. CASE StartCycle
  BY <1>1, Blanks DEF StartCycle, HoldsKept, Idle, history
<1>2. CASE Fetch
  <2>1. hold' = hold /\ held' = held
    BY <1>2 DEF Fetch, history
  <2>2. CASE hold.torn \/ hold.release = latest
    BY <1>2, <2>1, <2>2, EndForgets DEF Fetch, HoldsKept
  <2>3. CASE ~(hold.torn \/ hold.release = latest)
    <3>1. agent'.stage = "canary" /\ agent'.release = latest /\ agent'.holds = hold
      BY <1>2, <2>3 DEF Fetch, Idle
    <3> QED BY <2>1, <2>3, <3>1 DEF HoldsKept
  <2> QED BY <2>2, <2>3
<1>3. CASE FetchFails \/ CycleBreaks \/ AgentStops
  BY <1>3, EndForgets DEF FetchFails, CycleBreaks, AgentStops, HoldsKept, history
<1>4. CASE Save
  <2>1. ~hold.torn /\ agent.holds = hold /\ hold.release = held
    BY <1>4 DEF Save, HoldsKept
  <2>2. hold'.release = held' /\ hold'.torn = FALSE
    <3>1. CASE Failures = {}
      BY <1>4, <2>1, <3>1 DEF Save, NewHolds, TypeOK, Holds
    <3>2. CASE Failures # {}
      BY <1>4, <2>1, <3>2 DEF Save, NewHolds, TypeOK, Holds
    <3> QED BY <3>1, <3>2
  <2> QED BY <1>4, <2>2, EndForgets DEF Save, HoldsKept
<1>5. CASE SaveInterrupted
  <2>1. hold'.torn /\ hold'.release = None
    BY <1>5 DEF SaveInterrupted, NoHold
  <2> QED BY <1>5, <2>1, EndForgets DEF SaveInterrupted, HoldsKept
<1>6. CASE Resume
  BY <1>6, Blanks DEF Resume, HoldsKept
<1>7. CASE CanaryDone \/ FanoutDone
  <2>1. /\ agent'.release = agent.release /\ agent'.holds = agent.holds
        /\ agent.stage \in {"canary", "fanout"} /\ agent'.stage \in {"fanout", "save"}
        /\ hold' = hold /\ held' = held
    BY <1>7, CycleTypes DEF CanaryDone, FanoutDone, Cycles, history
  <2> QED BY <2>1 DEF HoldsKept
<1>8. CASE \E b \in Boards :
             \/ Take(b) \/ Connect(b) \/ DoesNotConnect(b) \/ UpdateFails(b)
             \/ Installed(b) \/ RecordUpdate(b) \/ RecordFails(b) \/ ErrorNotRecorded(b)
  <2>1. hold' = hold /\ held' = held /\ agent' \in {agent, [agent EXCEPT !.broken = TRUE]}
    BY <1>8 DEF Take, Connect, DoesNotConnect, UpdateFails, Installed, RecordUpdate,
                RecordFails, ErrorNotRecorded, history
  <2>2. agent'.stage = agent.stage /\ agent'.release = agent.release
        /\ agent'.holds = agent.holds
    BY <2>1, CycleTypes DEF Cycles
  <2> QED BY <2>1, <2>2 DEF HoldsKept
<1>9. CASE UiStart \/ Publish \/ \E b \in Boards :
             \/ UiTake(b) \/ UiErase(b) \/ UiProgram(b) \/ UiTest(b) \/ UiInstalled(b)
             \/ UiRecord(b) \/ UiRecordFails(b) \/ UiFails(b) \/ SetAuto(b)
  <2>1. hold' = hold /\ held' = held /\ agent' = agent
    BY <1>9 DEF UiStart, Publish, UiTake, UiErase, UiProgram, UiTest, UiInstalled, UiRecord,
                UiRecordFails, UiFails, SetAuto, history
  <2> QED BY <2>1 DEF HoldsKept
<1> QED BY <1>1, <1>2, <1>3, <1>4, <1>5, <1>6, <1>7, <1>8, <1>9 DEF Next, Agent, Operator

-----------------------------------------------------------------------------
(* The invariant.                                                          *)
LEMMA InitIndInv ==
  ASSUME Init
  PROVE  IndInv
<1>1. TypeOK
  BY FleetAssumption, Blanks DEF Init, TypeOK, Entries, Releases, Progress
<1>2. CycleShape /\ CanaryFirst
  BY DEF Init, CycleShape, CanaryFirst, Disturbed, Idle
<1>3. LockedWhileWorking /\ Recorded
  BY DEF Init, LockedWhileWorking, Recorded, RecordRight, Active, UiSteps, NoRun
<1>4. HoldsKept
  BY DEF Init, HoldsKept, Idle, NoHold
<1> QED BY <1>1, <1>2, <1>3, <1>4 DEF IndInv

LEMMA NextIndInv ==
  ASSUME IndInv, [Next]_vars
  PROVE  IndInv'
<1>1. CASE Next
  <2>1. TypeOK'
    BY <1>1, BoardStepKeepsType, CycleStepKeepsType, OperatorStepKeepsType
       DEF IndInv, Next, Agent
  <2>2. CycleShape' /\ CanaryFirst'
    BY <1>1, ShapeKept DEF IndInv
  <2>3. LockedWhileWorking' /\ Recorded'
    BY <1>1, BoardsKept DEF IndInv
  <2>4. HoldsKept'
    BY <1>1, HoldsStay DEF IndInv
  <2> QED BY <2>1, <2>2, <2>3, <2>4 DEF IndInv
<1>2. CASE UNCHANGED vars
  <2> USE <1>2 DEF vars, history
  <2>1. TypeOK'
    BY DEF IndInv, TypeOK
  <2>2. CycleShape' /\ CanaryFirst'
    BY DEF IndInv, CycleShape, CanaryFirst, Disturbed, Active
  <2>3. LockedWhileWorking' /\ Recorded'
    BY DEF IndInv, LockedWhileWorking, Recorded, RecordRight, Active
  <2>4. HoldsKept'
    BY DEF IndInv, HoldsKept
  <2> QED BY <2>1, <2>2, <2>3, <2>4 DEF IndInv
<1> QED BY <1>1, <1>2

(* The invariant that the theorems follow from.                            *)
THEOREM Invariance == Spec => []IndInv
<1>1. Init => IndInv
  BY InitIndInv
<1>2. IndInv /\ [Next]_vars => IndInv'
  BY NextIndInv
<1> QED BY <1>1, <1>2, PTL DEF Spec

(* Every variable of the agent, the operator and the boards stays in its   *)
(* range.                                                                  *)
THEOREM FleetTypeCorrect == Spec => []TypeOK
<1>1. IndInv => TypeOK
  BY DEF IndInv
<1> QED BY <1>1, Invariance, PTL

(* Until a board has passed in a cycle of the agent, at most one has been  *)
(* disturbed, however many there are and whichever cannot be reached.      *)
THEOREM CanaryGoesFirst == Spec => []CanaryFirst
<1>1. IndInv => CanaryFirst
  BY DEF IndInv
<1> QED BY <1>1, Invariance, PTL

(* A board is locked exactly while the agent or the operator, and never    *)
(* both, works on it, also when updates fail or the agent stops.           *)
THEOREM LocksAreReturned == Spec => []LockedWhileWorking
<1>1. IndInv => LockedWhileWorking
  BY DEF IndInv
<1> QED BY <1>1, Invariance, PTL

(* A release whose failure was saved disturbs no board until the operator  *)
(* has reviewed it, and what he cleared does not come back.                *)
THEOREM FailuresAreHeld == Spec => []HeldUntilReviewed
<1>1. ASSUME IndInv PROVE HeldUntilReviewed
  <2>1. hold.release \in {held, None}
    BY <1>1 DEF IndInv, HoldsKept
  <2>2. ASSUME agent.release = held, held # None PROVE Disturbed = {}
    <3>1. agent.stage \in {"idle", "fetch"}
      BY <1>1, <2>2, CycleTypes DEF IndInv, HoldsKept
    <3> QED BY <1>1, <3>1 DEF IndInv, CycleShape, Disturbed
  <2> QED BY <2>1, <2>2 DEF HeldUntilReviewed
<1> QED BY <1>1, Invariance, PTL

(* The registry tells what a board runs that nobody works on, unless a run *)
(* that changed it ended without a record: a failed or interrupted one, an *)
(* erasure, or an installation over SWD that no passed test with the       *)
(* board's key followed.                                                   *)
THEOREM RegistryStaysTrue == Spec => []RegistryIsTrue
<1>1. ASSUME IndInv, NEW b \in Boards, lock[b] = "free", b \notin unrecorded
      PROVE  registry[b].last = installed[b]
  BY <1>1 DEF IndInv, LockedWhileWorking, Recorded, RecordRight, UiSteps, Active
<1>2. IndInv => RegistryIsTrue
  BY <1>1 DEF RegistryIsTrue
<1> QED BY <1>2, Invariance, PTL
=============================================================================
