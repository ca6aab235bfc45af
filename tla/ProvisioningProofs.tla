------------------------- MODULE ProvisioningProofs -------------------------
(***************************************************************************)
(* What installing over SWD promises, for any number of boards, probes and *)
(* runs, whatever an erase leaves behind, wherever runs break off and      *)
(* whatever keys are imported: new boot loaders start complete layouts     *)
(* only, with the key the host stored, or with none.                       *)
(***************************************************************************)
EXTENDS Provisioning, TLAPS

(* What a run has programmed so far: the regions S, and nothing else.      *)
Programmed(b, S, key) ==
  /\ written[b] = S
  /\ \A r \in S : flash[b][r] = "valid"
  /\ Blank(b, Regions \ S)
  /\ "access" \in S => device[b] = key

(* The regions before the next one.                                        *)
Done(mode, key, next) == {Plan(mode, key)[i] : i \in 1 .. next - 1}

(* What a run knows of its board, which nobody else changes.               *)
RunInOrder(p) ==
  LET r == run[p] IN
  /\ r.stage \notin {"stopped", "passed"} => r.uid \in Boards
  /\ r.stage # "program" => r.next = 1
  /\ r.next <= Len(Plan(r.mode, r.key))
  /\ Busy(p) => attached[p] = r.uid
  /\ Running(p) => r.key \in {0, host[r.uid]}
  /\ r.stage \in {"program", "readback", "network"} => r.mode # "erase-only"
  /\ r.stage \in {"erase internal", "blank check"} => written[r.uid] = {}
  /\ r.stage = "program" => Programmed(r.uid, Done(r.mode, r.key, r.next), r.key)
  /\ r.stage \in {"readback", "network"} => Programmed(r.uid, Planned(r.mode, r.key), r.key)

(* What StageZeroLast and KeyShared say of a board that starts.            *)
Whole(b) ==
  \E mode \in {"install", "network-install"}, key \in 0 .. keys :
    Complete(b, mode, key) /\ written[b] = Planned(mode, key)

Shares(b) ==
  IF "access" \in written[b]
    THEN device[b] # 0 /\ (device[b] = host[b] \/ b \in replaced)
    ELSE device[b] = 0

BoardInOrder(b) ==
  /\ flash[b]["access"] = "blank" => device[b] = 0
  /\ flash[b]["stage0"] = "valid" /\ written[b] # {} => Whole(b) /\ Shares(b)

(* The inductive invariant.                                                *)
IndInv ==
  /\ TypeOK
  /\ \A p \in Probes : RunInOrder(p)
  /\ \A b \in Boards : BoardInOrder(b)

-----------------------------------------------------------------------------
(* The plan: every region once, Stage 0 at its end, and an access record   *)
(* if there is a key for it.                                               *)
LEMMA PlanFacts ==
  ASSUME NEW mode, NEW key
  PROVE  /\ Len(Plan(mode, key)) \in 4 .. 5
         /\ \A i \in 1 .. Len(Plan(mode, key)) :
              /\ Plan(mode, key)[i] \in Regions
              /\ Plan(mode, key)[i] = "stage0" <=> i = Len(Plan(mode, key))
              /\ \A j \in 1 .. Len(Plan(mode, key)) :
                   Plan(mode, key)[i] = Plan(mode, key)[j] => i = j
         /\ Planned(mode, key) = {Plan(mode, key)[i] : i \in 1 .. Len(Plan(mode, key))}
         /\ "access" \in Planned(mode, key) <=> mode = "network-install" \/ key # 0
<1>1. CASE mode = "network-install"
  BY <1>1 DEF Plan, Planned, Regions, Nor
<1>2. CASE mode # "network-install" /\ key = 0
  BY <1>2 DEF Plan, Planned, Regions, Nor
<1>3. CASE mode # "network-install" /\ key # 0
  BY <1>3 DEF Plan, Planned, Regions, Nor
<1> QED BY <1>1, <1>2, <1>3

LEMMA PlanLength ==
  ASSUME NEW mode, NEW key
  PROVE  Len(Plan(mode, key)) \in Nat /\ 1 <= Len(Plan(mode, key)) /\ Len(Plan(mode, key)) <= 5
<1>1. \A n \in 4 .. 5 : n \in Nat /\ 1 <= n /\ n <= 5
  OBVIOUS
<1> QED BY <1>1, PlanFacts, Zenon

LEMMA RunFields ==
  ASSUME NEW r \in Runs
  PROVE  /\ r.stage \in Stages /\ r.uid \in Boards \cup {None} /\ r.mode \in Modes
         /\ r.key \in 0 .. keys /\ r.next \in 1 .. 5
BY DEF Runs

(* What a run's next state is.                                             *)
LEMMA ToStep ==
  ASSUME TypeOK, NEW p \in Probes, NEW stage \in Stages, To(p, stage)
  PROVE  \E r \in Runs :
           /\ run' = [run EXCEPT ![p] = r]
           /\ r.stage = stage /\ r.uid = run[p].uid /\ r.mode = run[p].mode
           /\ r.key = run[p].key /\ r.next = run[p].next
<1> DEFINE r == [run[p] EXCEPT !.stage = stage]
<1>1. run[p] \in Runs
  BY DEF TypeOK
<1>2. r \in Runs /\ r.stage = stage /\ r.uid = run[p].uid /\ r.mode = run[p].mode
      /\ r.key = run[p].key /\ r.next = run[p].next
  BY <1>1 DEF Runs
<1>3. run' = [run EXCEPT ![p] = r]
  BY DEF To
<1> QED BY <1>2, <1>3

LEMMA OverStep ==
  ASSUME TypeOK, NEW p \in Probes, NEW stage \in {"stopped", "passed"}, Over(p, stage)
  PROVE  \E r \in Runs :
           /\ run' = [run EXCEPT ![p] = r]
           /\ r.stage = stage /\ r.uid = None /\ r.next = 1
<1> DEFINE r == [Ready EXCEPT !.stage = stage]
<1>1. stage \in Stages /\ "install" \in Modes /\ 0 \in 0 .. keys /\ 1 \in 1 .. 5
  <2>1. stage \in Stages
    BY DEF Stages, Waiting
  <2>2. "install" \in Modes
    BY DEF Modes
  <2>3. 0 \in 0 .. keys /\ 1 \in 1 .. 5
    BY ProvisioningAssumption DEF TypeOK
  <2> QED BY <2>1, <2>2, <2>3
<1>2. r \in Runs /\ r.stage = stage /\ r.uid = None /\ r.next = 1
  BY <1>1 DEF Runs, Ready
<1>3. run' = [run EXCEPT ![p] = r]
  BY DEF Over
<1> QED BY <1>2, <1>3

(* A run under way works on its own board.                                 *)
LEMMA OwnBoard ==
  ASSUME IndInv, NEW p \in Probes, Running(p)
  PROVE  /\ run[p] \in Runs /\ run[p].uid \in Boards /\ RunInOrder(p)
         /\ \A q \in Probes : q # p /\ Running(q) => run[q].uid \in Boards \ {run[p].uid}
<1>1. \A q \in Probes : Running(q) => run[q].uid \in Boards
  BY DEF IndInv, RunInOrder, Running, Waiting
<1> QED BY <1>1 DEF IndInv, TypeOK

-----------------------------------------------------------------------------
(* Run p goes on with r and touches no board but its own.                  *)
StepOf(p, r) ==
  /\ run' = [run EXCEPT ![p] = r]
  /\ r \in Runs' /\ (r.stage \in Waiting \/ r.uid = run[p].uid)
  /\ attached' = attached
  /\ flash' \in [Boards -> [Regions -> Contents]]
  /\ written' \in [Boards -> SUBSET Regions]
  /\ device' \in [Boards -> 0 .. keys'] /\ host' \in [Boards -> 0 .. keys']
  /\ keys' \in 0 .. MaxKeys /\ keys <= keys'
  /\ replaced' \subseteq Boards
  /\ \A b \in Boards \ {run[p].uid} :
       /\ flash'[b] = flash[b] /\ written'[b] = written[b]
       /\ device'[b] = device[b] /\ host'[b] = host[b]
       /\ b \in replaced' <=> b \in replaced

(* A board that nothing happens to but an import stays in order.           *)
LEMMA BoardStays ==
  ASSUME NEW b, BoardInOrder(b), keys \in Nat, keys' \in Nat, keys <= keys',
         flash'[b] = flash[b], written'[b] = written[b], device'[b] = device[b],
         Shares(b) => Shares(b)'
  PROVE  BoardInOrder(b)'
<1>1. Whole(b) => Whole(b)'
  <2> SUFFICES ASSUME NEW mode \in {"install", "network-install"}, NEW key \in 0 .. keys,
                      Complete(b, mode, key), written[b] = Planned(mode, key)
               PROVE  Whole(b)'
    BY DEF Whole
  <2>1. key \in 0 .. keys' /\ Complete(b, mode, key)' /\ written'[b] = Planned(mode, key)
    BY DEF Complete
  <2> QED BY <2>1 DEF Whole
<1> QED BY <1>1 DEF BoardInOrder

(* Then only that run and that board can have come into disorder.          *)
LEMMA StepKeepsIndInv ==
  ASSUME IndInv, NEW p \in Probes, Running(p) \/ ~Locked(run[p].uid),
         NEW r, StepOf(p, r), NEW u \in Boards,
         run[p].uid = u, RunInOrder(p)', BoardInOrder(u)'
  PROVE  IndInv'
<1>a. \A q \in Probes : q # p /\ Running(q) => run[q].uid \in Boards \ {u}
  <2>1. \A q \in Probes : Running(q) => run[q].uid \in Boards
    BY DEF IndInv, RunInOrder, Running, Waiting
  <2> QED BY <2>1 DEF IndInv, TypeOK, Locked
<1>b. keys \in Nat /\ keys' \in Nat
  BY ProvisioningAssumption DEF IndInv, TypeOK, StepOf
<1>1. run'[p] = r /\ \A q \in Probes : q # p => run'[q] = run[q]
  BY DEF StepOf, IndInv, TypeOK
<1>2. \A q \in Probes : run[q] \in Runs'
  BY DEF IndInv, TypeOK, Runs, StepOf
<1>3. run' \in [Probes -> Runs']
  BY <1>1, <1>2 DEF IndInv, TypeOK, StepOf
<1>4. \A q, s \in Probes :
        run'[q].stage \notin Waiting /\ run'[s].stage \notin Waiting
        /\ run'[q].uid = run'[s].uid => q = s
  BY <1>1, <1>a DEF IndInv, TypeOK, Running, StepOf
<1>5. TypeOK'
  BY <1>3, <1>4 DEF IndInv, TypeOK, StepOf, Running
<1>6. ASSUME NEW q \in Probes, q # p PROVE RunInOrder(q)'
  <2>1. run'[q] = run[q] /\ attached'[q] = attached[q] /\ RunInOrder(q)
    BY <1>1, <1>6 DEF StepOf, IndInv
  <2>2. CASE Running(q)
    <3>1. run[q].uid \in Boards \ {u}
      BY <1>6, <1>a, <2>2
    <3>2. /\ flash'[run[q].uid] = flash[run[q].uid] /\ written'[run[q].uid] = written[run[q].uid]
          /\ device'[run[q].uid] = device[run[q].uid] /\ host'[run[q].uid] = host[run[q].uid]
      BY <3>1 DEF StepOf
    <3>3. PICK v \in Boards : v = run[q].uid
      BY <3>1
    <3>4. \A S, key : Programmed(v, S, key) => Programmed(v, S, key)'
      BY <3>2, <3>3 DEF Programmed, Blank
    <3> QED BY <2>1, <3>2, <3>3, <3>4 DEF RunInOrder, Busy, Running
  <2>3. CASE ~Running(q)
    BY <2>1, <2>3 DEF RunInOrder, Busy, Running, Waiting
  <2> QED BY <2>2, <2>3
<1>7. ASSUME NEW b \in Boards, b # u PROVE BoardInOrder(b)'
  <2>1. /\ flash'[b] = flash[b] /\ written'[b] = written[b] /\ device'[b] = device[b]
        /\ host'[b] = host[b] /\ (b \in replaced' <=> b \in replaced) /\ keys <= keys'
    BY <1>7 DEF StepOf
  <2>2. Shares(b) => Shares(b)'
    BY <2>1 DEF Shares
  <2> QED BY <1>b, <2>1, <2>2, BoardStays DEF IndInv
<1> QED BY <1>5, <1>6, <1>7 DEF IndInv

LEMMA BoardsStay ==
  ASSUME IndInv, UNCHANGED <<flash, written, device, host, keys, replaced>>
  PROVE  \A b \in Boards : BoardInOrder(b)'
<1>1. keys \in Nat /\ keys' \in Nat /\ keys <= keys'
  BY ProvisioningAssumption DEF IndInv, TypeOK
<1>2. \A b \in Boards : Shares(b) => Shares(b)'
  BY DEF Shares
<1> QED BY <1>1, <1>2, BoardStays DEF IndInv

(* A run that is over asks nothing of its board.                           *)
LEMMA OverInOrder ==
  ASSUME IndInv, NEW p \in Probes, NEW stage \in {"stopped", "passed"}, Over(p, stage)
  PROVE  RunInOrder(p)'
<1>1. PICK r \in Runs : /\ run' = [run EXCEPT ![p] = r]
                       /\ r.stage = stage /\ r.uid = None /\ r.next = 1
  BY OverStep DEF IndInv
<1>2. run'[p].stage = stage /\ run'[p].next = 1
  BY <1>1 DEF IndInv, TypeOK
<1>3. run'[p].next <= Len(Plan(run'[p].mode, run'[p].key))
  BY <1>2, PlanLength
<1> QED BY <1>2, <1>3 DEF RunInOrder, Busy, Running, Waiting

LEMMA OverKeepsIndInv ==
  ASSUME IndInv, NEW p \in Probes, Running(p), NEW stage \in {"stopped", "passed"},
         Over(p, stage), UNCHANGED <<attached, flash, written, device, host, keys, replaced>>
  PROVE  IndInv'
<1>1. PICK r \in Runs : /\ run' = [run EXCEPT ![p] = r]
                       /\ r.stage = stage /\ r.uid = None /\ r.next = 1
  BY OverStep DEF IndInv
<1>2. StepOf(p, r)
  BY <1>1 DEF StepOf, Waiting, Runs, IndInv, TypeOK
<1>3. PICK u \in Boards : u = run[p].uid
  BY OwnBoard
<1>4. BoardInOrder(u)'
  BY BoardsStay
<1> QED BY <1>2, <1>3, <1>4, OverInOrder, StepKeepsIndInv

-----------------------------------------------------------------------------
LEMMA InitIndInv == Init => IndInv
<1> SUFFICES ASSUME Init PROVE IndInv
  OBVIOUS
<1>1. \A p \in Probes : run[p] = Ready
  BY DEF Init
<1>2. Ready \in Runs /\ Ready.stage = "stopped" /\ Ready.next = 1
  <2>1. "stopped" \in Stages /\ "install" \in Modes /\ 0 \in 0 .. keys /\ 1 \in 1 .. 5
    BY DEF Init, Stages, Waiting, Modes
  <2> QED BY <2>1 DEF Runs, Ready
<1>3. TypeOK
  <2>1. run \in [Probes -> Runs]
    BY <1>2 DEF Init
  <2>2. \A p \in Probes : ~Running(p)
    BY <1>1, <1>2 DEF Running, Waiting
  <2>3. /\ flash \in [Boards -> [Regions -> Contents]]
        /\ written \in [Boards -> SUBSET Regions]
    BY DEF Init, Contents
  <2>4. keys \in 0 .. MaxKeys /\ device \in [Boards -> 0 .. keys]
        /\ host \in [Boards -> 0 .. keys]
    BY ProvisioningAssumption DEF Init
  <2> QED BY <2>1, <2>2, <2>3, <2>4 DEF Init, TypeOK
<1>4. ASSUME NEW p \in Probes PROVE RunInOrder(p)
  <2>1. 1 <= Len(Plan(run[p].mode, run[p].key))
    BY PlanLength
  <2> QED BY <1>1, <1>2, <2>1 DEF RunInOrder, Busy, Running, Waiting
<1>5. \A b \in Boards : BoardInOrder(b)
  <2>1. \A b \in Boards : flash[b]["access"] = "other" /\ written[b] = {}
    BY DEF Init, Regions, Nor
  <2> QED BY <2>1 DEF BoardInOrder
<1> QED BY <1>3, <1>4, <1>5 DEF IndInv

(* Cables are not moved in the middle of a session.                        *)
LEMMA MoveKeepsIndInv ==
  ASSUME IndInv, NEW p \in Probes, NEW b \in Boards, Move(p, b) PROVE IndInv'
<1>1. /\ attached' \in [Probes -> Boards]
      /\ \A q \in Probes : attached'[q] = IF q = p THEN b
                                          ELSE IF attached[q] = b THEN attached[p]
                                          ELSE attached[q]
  BY DEF Move, IndInv, TypeOK
<1>2. \A q, s \in Probes : attached'[q] = attached'[s] => q = s
  BY <1>1 DEF Move, IndInv, TypeOK
<1>3. TypeOK'
  BY <1>1, <1>2 DEF Move, IndInv, TypeOK, Runs, Running
<1>4. ASSUME NEW q \in Probes PROVE RunInOrder(q)'
  <2>1. Busy(q) => attached'[q] = attached[q]
    BY <1>1 DEF Move
  <2>2. RunInOrder(q) /\ UNCHANGED <<flash, written, device, host, keys, run, replaced>>
    BY DEF Move, IndInv
  <2>3. Busy(q)' <=> Busy(q)
    BY <2>2 DEF Busy
  <2> QED BY <2>1, <2>2, <2>3 DEF RunInOrder, Running, Programmed, Blank
<1>5. \A c \in Boards : BoardInOrder(c)'
  BY BoardsStay DEF Move
<1> QED BY <1>3, <1>4, <1>5 DEF IndInv

LEMMA SameRun ==
  ASSUME NEW q, run'[q] = run[q]
  PROVE  (Busy(q)' <=> Busy(q)) /\ (Running(q)' <=> Running(q))
BY DEF Busy, Running

(* Runs that were not under way, and change no board.                      *)
LEMMA IdleKeepsIndInv ==
  ASSUME IndInv, NEW p \in Probes, ~Running(p), NEW r \in Runs,
         run' = [run EXCEPT ![p] = r],
         UNCHANGED <<attached, flash, written, device, host, keys, replaced>>,
         r.stage \in Waiting, r.next = 1,
         r.stage = "inspected" => r.uid \in Boards
  PROVE  IndInv'
<1>1. run'[p] = r /\ \A q \in Probes : q # p => run'[q] = run[q]
  BY DEF IndInv, TypeOK
<1>2. Runs' = Runs
  BY DEF Runs
<1>3. run' \in [Probes -> Runs']
  BY <1>1, <1>2 DEF IndInv, TypeOK
<1>4. \A q, s \in Probes : Running(q)' /\ Running(s)' /\ run'[q].uid = run'[s].uid => q = s
  BY <1>1 DEF IndInv, TypeOK, Running, Waiting
<1>5. TypeOK'
  BY <1>3, <1>4 DEF IndInv, TypeOK
<1>6. ASSUME NEW q \in Probes PROVE RunInOrder(q)'
  <2>1. CASE q = p
    <3>1. 1 <= Len(Plan(r.mode, r.key))
      BY PlanLength
    <3> QED BY <1>1, <2>1, <3>1 DEF RunInOrder, Busy, Running, Waiting
  <2>2. CASE q # p
    <3>1. RunInOrder(q)
      BY DEF IndInv
    <3>b. run'[q] = run[q]
      BY <1>1, <2>2
    <3>2. (Busy(q)' <=> Busy(q)) /\ (Running(q)' <=> Running(q))
      BY <3>b, SameRun
    <3>3. \A v, S, key : Programmed(v, S, key)' <=> Programmed(v, S, key)
      BY DEF Programmed, Blank
    <3> QED BY <3>1, <3>b, <3>2, <3>3 DEF RunInOrder
  <2> QED BY <2>1, <2>2
<1>7. \A b \in Boards : BoardInOrder(b)'
  BY BoardsStay
<1> QED BY <1>5, <1>6, <1>7 DEF IndInv

LEMMA InspectKeepsIndInv ==
  ASSUME IndInv, NEW p \in Probes, Inspect(p) PROVE IndInv'
<1> DEFINE r == [Ready EXCEPT !.stage = "inspected", !.uid = attached[p]]
<1>1. /\ "inspected" \in Stages /\ "install" \in Modes /\ 0 \in 0 .. keys /\ 1 \in 1 .. 5
      /\ attached[p] \in Boards
  BY ProvisioningAssumption DEF Stages, Waiting, Modes, IndInv, TypeOK
<1>2. r \in Runs /\ r.stage = "inspected" /\ r.uid = attached[p] /\ r.next = 1
  BY <1>1 DEF Runs, Ready
<1>3. run' = [run EXCEPT ![p] = r]
  BY DEF Inspect
<1> HIDE DEF r
<1> QED BY <1>1, <1>2, <1>3, IdleKeepsIndInv DEF Inspect, Waiting

(* A run begins with the lock of its board and with a key the host stores. *)
LEMMA BeginKeepsIndInv ==
  ASSUME IndInv, NEW p \in Probes, NEW mode \in Modes, Begin(p, mode) PROVE IndInv'
<1>1. /\ run[p] \in Runs /\ run[p].stage = "inspected" /\ run[p].next = 1
      /\ run[p].uid \in Boards /\ ~Running(p)
      /\ UNCHANGED <<attached, flash, written, device, replaced>>
  BY DEF Begin, IndInv, TypeOK, RunInOrder, Running, Waiting
<1>2. PICK u \in Boards : u = run[p].uid
  BY <1>1
<1>3. CASE ~Locked(run[p].uid) /\ EnsureKey(p, mode)
  <2>1. PICK key, kept :
          /\ kept = IF mode = "erase-only" THEN 0 ELSE key
          /\ key \in {0, host[u], keys + 1}
          /\ IF key = keys + 1
               THEN /\ host[u] = 0 /\ keys < MaxKeys /\ keys' = key
                    /\ host' = [host EXCEPT ![u] = key]
               ELSE UNCHANGED <<host, keys>>
          /\ run' = [run EXCEPT ![p].stage = "backup", ![p].mode = mode, ![p].key = kept]
    BY <1>2, <1>3 DEF EnsureKey
  <2>2. /\ keys \in Nat /\ host \in [Boards -> 0 .. keys] /\ keys \in 0 .. MaxKeys
        /\ device \in [Boards -> 0 .. keys]
    BY ProvisioningAssumption DEF IndInv, TypeOK
  <2>3. /\ keys' \in 0 .. MaxKeys /\ keys' \in Nat /\ keys <= keys'
        /\ host' \in [Boards -> 0 .. keys'] /\ device' \in [Boards -> 0 .. keys']
        /\ \A b \in Boards : b # u => host'[b] = host[b]
        /\ kept \in 0 .. keys' /\ kept \in {0, host'[u]}
        /\ host[u] # 0 => host' = host
    BY <1>1, <2>1, <2>2, ProvisioningAssumption
  <2> DEFINE r == [run[p] EXCEPT !.stage = "backup", !.mode = mode, !.key = kept]
  <2>4. /\ r \in Runs' /\ r.stage = "backup" /\ r.uid = u /\ r.mode = mode
        /\ r.key = kept /\ r.next = 1
    <3>1. "backup" \in Stages
      BY DEF Stages
    <3> QED BY <1>1, <1>2, <2>3, <3>1 DEF Runs
  <2>5. run' = [run EXCEPT ![p] = r]
    BY <2>1 DEF IndInv, TypeOK
  <2> HIDE DEF r
  <2>6. StepOf(p, r)
    BY <1>1, <1>2, <2>3, <2>4, <2>5 DEF StepOf, IndInv, TypeOK
  <2>7. Shares(u) => Shares(u)'
    BY <1>1, <2>3 DEF Shares
  <2>8. BoardInOrder(u)'
    BY <1>1, <2>2, <2>3, <2>7, BoardStays DEF IndInv
  <2>9. run'[p] = r /\ 1 <= Len(Plan(mode, kept))
    BY <2>5, PlanLength DEF IndInv, TypeOK
  <2>10. RunInOrder(p)'
    BY <1>1, <1>2, <2>3, <2>4, <2>9 DEF RunInOrder, Busy, Running, Waiting
  <2> QED BY <1>2, <1>3, <2>6, <2>8, <2>10, StepKeepsIndInv
<1>4. CASE Over(p, "stopped") /\ UNCHANGED <<host, keys>>
  <2>1. PICK r \in Runs : /\ run' = [run EXCEPT ![p] = r]
                         /\ r.stage = "stopped" /\ r.uid = None /\ r.next = 1
    BY <1>4, OverStep DEF IndInv
  <2> QED BY <1>1, <1>4, <2>1, IdleKeepsIndInv DEF Waiting
<1> QED BY <1>3, <1>4 DEF Begin

(* A key is imported only for a board no run works on, and only a board    *)
(* with another key of its own loses what it shares with the host.         *)
LEMMA ImportKeepsIndInv ==
  ASSUME IndInv, NEW b \in Boards, Import(b) PROVE IndInv'
<1>1. PICK key \in 1 .. keys :
        /\ host' = [host EXCEPT ![b] = key]
        /\ replaced' = IF device[b] \in {0, key} THEN replaced \ {b} ELSE replaced \cup {b}
        /\ UNCHANGED <<attached, flash, written, device, keys, run>>
  BY DEF Import, Imported
<1>2. keys \in Nat /\ keys' \in Nat /\ keys <= keys' /\ key \in 0 .. keys /\ key # 0
  BY <1>1, ProvisioningAssumption DEF IndInv, TypeOK
<1>3. TypeOK'
  BY <1>1, <1>2 DEF IndInv, TypeOK, Runs, Running
<1>4. ASSUME NEW q \in Probes PROVE RunInOrder(q)'
  <2>1. Running(q) => host'[run[q].uid] = host[run[q].uid]
    <3>1. Running(q) => run[q].uid \in Boards /\ run[q].uid # b
      BY OwnBoard DEF Import, Locked
    <3> QED BY <1>1, <3>1 DEF IndInv, TypeOK
  <2> QED BY <1>1, <2>1 DEF IndInv, RunInOrder, Busy, Running, Programmed, Blank
<1>5. ASSUME NEW c \in Boards PROVE BoardInOrder(c)'
  <2>1. /\ host'[c] = IF c = b THEN key ELSE host[c]
        /\ c # b => (c \in replaced' <=> c \in replaced)
        /\ c = b => (c \in replaced' <=> device[b] \notin {0, key})
    BY <1>1 DEF IndInv, TypeOK
  <2>2. Shares(c) => Shares(c)'
    BY <1>1, <2>1 DEF Shares
  <2>3. flash'[c] = flash[c] /\ written'[c] = written[c] /\ device'[c] = device[c]
    BY <1>1
  <2> QED BY <1>2, <2>2, <2>3, BoardStays DEF IndInv
<1> QED BY <1>3, <1>4, <1>5 DEF IndInv

-----------------------------------------------------------------------------
(* A step that leaves all boards as they are.                              *)
LEMMA ToKeepsIndInv ==
  ASSUME IndInv, NEW p \in Probes, Running(p), run[p].stage # "program",
         NEW stage \in {"erase", "program", "network"}, To(p, stage),
         UNCHANGED <<attached, flash, written, device, host, keys, replaced>>,
         stage \in {"program", "network"} => run[p].mode # "erase-only",
         stage = "program" => Programmed(run[p].uid, {}, run[p].key),
         stage = "network" =>
           Programmed(run[p].uid, Planned(run[p].mode, run[p].key), run[p].key)
  PROVE  IndInv'
<1>1. stage \in Stages
  BY DEF Stages
<1>2. PICK r \in Runs :
        /\ run' = [run EXCEPT ![p] = r]
        /\ r.stage = stage /\ r.uid = run[p].uid /\ r.mode = run[p].mode
        /\ r.key = run[p].key /\ r.next = run[p].next
  BY <1>1, ToStep DEF IndInv
<1>3. PICK u \in Boards : u = run[p].uid
  BY OwnBoard
<1>4. StepOf(p, r)
  BY <1>2 DEF StepOf, Runs, IndInv, TypeOK
<1>5. BoardInOrder(u)'
  BY BoardsStay
<1>6. run'[p] = r /\ RunInOrder(p) /\ r.next = 1
  BY <1>2 DEF IndInv, TypeOK, RunInOrder
<1>7. \A S, key : Programmed(u, S, key) => Programmed(u, S, key)'
  BY DEF Programmed, Blank
<1>8. Done(r.mode, r.key, 1) = {}
  BY DEF Done
<1>9. ~Busy(p)'
  <2>1. run'[p].stage # "erase internal" /\ run'[p].next = 1
    BY <1>2, <1>6
  <2>2. ASSUME NEW n, n = 1 PROVE ~(n > 1)
    BY <2>2
  <2>3. ~(run'[p].next > 1)
    BY <2>1, <2>2, Zenon
  <2> QED BY <2>1, <2>3, Zenon DEF Busy
<1>10. RunInOrder(p)'
  BY <1>2, <1>3, <1>6, <1>7, <1>8, <1>9 DEF RunInOrder, Running, Waiting
<1> QED BY <1>3, <1>4, <1>5, <1>10, StepKeepsIndInv

LEMMA BackupKeepsIndInv ==
  ASSUME IndInv, NEW p \in Probes, Backup(p) PROVE IndInv'
<1>1. Running(p)
  BY DEF Backup, Running, Waiting
<1> QED BY <1>1, ToKeepsIndInv DEF Backup

LEMMA BlankCheckKeepsIndInv ==
  ASSUME IndInv, NEW p \in Probes, BlankCheck(p) PROVE IndInv'
<1>1. Running(p) /\ RunInOrder(p)
  BY OwnBoard DEF BlankCheck, Running, Waiting
<1>2. CASE Over(p, "stopped") \/ Over(p, "passed")
  BY <1>1, <1>2, OverKeepsIndInv DEF BlankCheck
<1>3. CASE /\ Blank(attached[p], Regions) /\ run[p].mode # "erase-only"
           /\ To(p, "program")
  <2>1. Programmed(run[p].uid, {}, run[p].key)
    BY <1>1, <1>3 DEF BlankCheck, Session, RunInOrder, Programmed, Blank
  <2> QED BY <1>1, <1>3, <2>1, ToKeepsIndInv DEF BlankCheck
<1> QED BY <1>2, <1>3 DEF BlankCheck

LEMMA ReadbackKeepsIndInv ==
  ASSUME IndInv, NEW p \in Probes, Readback(p) PROVE IndInv'
<1>1. Running(p) /\ RunInOrder(p)
  BY OwnBoard DEF Readback, Running, Waiting
<1>2. CASE Over(p, "stopped")
  BY <1>1, <1>2, OverKeepsIndInv DEF Readback
<1>3. CASE To(p, "network")
  <2>1. /\ Programmed(run[p].uid, Planned(run[p].mode, run[p].key), run[p].key)
        /\ run[p].mode # "erase-only"
    BY <1>1 DEF Readback, RunInOrder
  <2> QED BY <1>1, <1>3, <2>1, ToKeepsIndInv DEF Readback
<1> QED BY <1>2, <1>3 DEF Readback

LEMMA EndKeepsIndInv ==
  ASSUME IndInv, NEW p \in Probes, Network(p) \/ Fail(p) PROVE IndInv'
<1>1. Running(p)
  BY DEF Network, Fail, Running, Waiting
<1> QED BY <1>1, OverKeepsIndInv DEF Network, Fail

(* An erase leaves nothing of what was programmed before.                  *)
LEMMA EraseNorKeepsIndInv ==
  ASSUME IndInv, NEW p \in Probes, EraseNor(p) PROVE IndInv'
<1>1. Running(p) /\ RunInOrder(p)
  BY OwnBoard DEF EraseNor, Running, Waiting
<1>2. PICK u \in Boards : u = run[p].uid /\ u = attached[p]
  BY <1>1, OwnBoard DEF EraseNor, Session
<1>3. PICK left \in Leavings :
        flash' = [flash EXCEPT ![u] = [q \in Regions |->
                    IF q \in Nor \ left THEN "blank"
                    ELSE IF q = "stage0" THEN flash[u][q] ELSE "other"]]
  BY <1>2 DEF EraseNor
<1>4. PICK r \in Runs :
        /\ run' = [run EXCEPT ![p] = r]
        /\ r.stage = "erase internal" /\ r.uid = run[p].uid /\ r.mode = run[p].mode
        /\ r.key = run[p].key /\ r.next = run[p].next
  <2>1. "erase internal" \in Stages
    BY DEF Stages
  <2> QED BY <2>1, ToStep DEF EraseNor, IndInv
<1>5. flash' \in [Boards -> [Regions -> Contents]]
  <2>1. [q \in Regions |-> IF q \in Nor \ left THEN "blank"
                          ELSE IF q = "stage0" THEN flash[u][q] ELSE "other"]
          \in [Regions -> Contents]
    BY DEF IndInv, TypeOK, Contents
  <2> QED BY <1>3, <2>1 DEF IndInv, TypeOK
<1>6. /\ written' = [written EXCEPT ![u] = {}] /\ UNCHANGED <<attached, host, keys>>
      /\ device' \in [Boards -> 0 .. keys]
      /\ device'[u] = IF flash'[u]["access"] = "blank" THEN 0 ELSE device[u]
      /\ replaced' \subseteq Boards
      /\ \A b \in Boards \ {u} :
           device'[b] = device[b] /\ (b \in replaced' <=> b \in replaced)
  <2>1. /\ written' = [written EXCEPT ![u] = {}] /\ UNCHANGED <<attached, host, keys>>
        /\ device' = [device EXCEPT ![u] = IF flash'[u]["access"] = "blank" THEN 0
                                           ELSE device[u]]
        /\ replaced' = replaced \ {u}
    BY <1>2 DEF EraseNor
  <2>2. 0 \in 0 .. keys
    BY ProvisioningAssumption DEF IndInv, TypeOK
  <2> QED BY <2>1, <2>2 DEF IndInv, TypeOK
<1>7. StepOf(p, r)
  <2>1. r \in Runs' /\ r.uid = run[p].uid
    BY <1>4, <1>6 DEF Runs
  <2>2. written' \in [Boards -> SUBSET Regions] /\ keys' \in 0 .. MaxKeys /\ keys <= keys'
    BY <1>6, ProvisioningAssumption DEF IndInv, TypeOK
  <2>3. \A b \in Boards \ {u} : flash'[b] = flash[b] /\ written'[b] = written[b]
    BY <1>3, <1>6 DEF IndInv, TypeOK
  <2> QED BY <1>2, <1>4, <1>5, <1>6, <2>1, <2>2, <2>3 DEF StepOf, IndInv, TypeOK
<1>8. written'[u] = {}
  BY <1>6 DEF IndInv, TypeOK
<1>9. BoardInOrder(u)'
  BY <1>6, <1>8 DEF BoardInOrder
<1>10. run'[p] = r /\ run[p].stage = "erase"
  BY <1>4 DEF IndInv, TypeOK, EraseNor
<1>11. RunInOrder(p)'
  BY <1>1, <1>2, <1>4, <1>6, <1>8, <1>10 DEF RunInOrder, Busy, Running, Waiting
<1> QED BY <1>1, <1>2, <1>7, <1>9, <1>11, StepKeepsIndInv

LEMMA EraseInternalKeepsIndInv ==
  ASSUME IndInv, NEW p \in Probes, EraseInternal(p) PROVE IndInv'
<1>1. Running(p) /\ RunInOrder(p) /\ Busy(p)
  BY OwnBoard DEF EraseInternal, Running, Waiting, Busy
<1>2. PICK u \in Boards : u = run[p].uid /\ u = attached[p] /\ written[u] = {}
  BY <1>1, OwnBoard DEF EraseInternal, RunInOrder
<1>3. /\ \/ flash' = [flash EXCEPT ![u]["stage0"] = "blank"]
         \/ flash' = [flash EXCEPT ![u]["stage0"] = "other"]
      /\ To(p, "blank check") \/ Over(p, "stopped")
  BY <1>2 DEF EraseInternal
<1>4. UNCHANGED <<attached, written, device, host, keys, replaced>>
  BY DEF EraseInternal
<1>5. /\ flash' \in [Boards -> [Regions -> Contents]]
      /\ flash'[u]["access"] = flash[u]["access"]
      /\ \A b \in Boards \ {u} : flash'[b] = flash[b]
  <2>1. ASSUME NEW to \in Contents, flash' = [flash EXCEPT ![u]["stage0"] = to]
        PROVE  /\ flash' \in [Boards -> [Regions -> Contents]]
               /\ flash'[u]["access"] = flash[u]["access"]
               /\ \A b \in Boards \ {u} : flash'[b] = flash[b]
    BY <2>1 DEF IndInv, TypeOK, Regions, Nor
  <2>2. "blank" \in Contents /\ "other" \in Contents
    BY DEF Contents
  <2> QED BY <1>3, <2>1, <2>2
<1>6. ASSUME NEW r \in Runs, run' = [run EXCEPT ![p] = r],
             r.stage \in Waiting \/ r.uid = run[p].uid, RunInOrder(p)'
      PROVE  IndInv'
  <2>1. StepOf(p, r)
    <3>1. r \in Runs' /\ keys <= keys'
      BY <1>4, ProvisioningAssumption DEF Runs, IndInv, TypeOK
    <3> QED BY <1>2, <1>4, <1>5, <1>6, <3>1 DEF StepOf, IndInv, TypeOK
  <2>2. BoardInOrder(u)'
    BY <1>2, <1>4, <1>5 DEF BoardInOrder, IndInv
  <2> QED BY <1>1, <1>2, <1>6, <2>1, <2>2, StepKeepsIndInv
<1>7. CASE To(p, "blank check")
  <2>1. "blank check" \in Stages
    BY DEF Stages
  <2>2. PICK r \in Runs :
          /\ run' = [run EXCEPT ![p] = r]
          /\ r.stage = "blank check" /\ r.uid = run[p].uid /\ r.mode = run[p].mode
          /\ r.key = run[p].key /\ r.next = run[p].next
    BY <1>7, <2>1, ToStep DEF IndInv
  <2>3. run'[p] = r /\ run[p].stage = "erase internal"
    BY <2>2 DEF IndInv, TypeOK, EraseInternal
  <2>4. RunInOrder(p)'
    BY <1>1, <1>2, <1>4, <2>2, <2>3 DEF RunInOrder, Busy, Running, Waiting
  <2> QED BY <1>6, <2>2, <2>4
<1>8. CASE Over(p, "stopped")
  <2>1. PICK r \in Runs : /\ run' = [run EXCEPT ![p] = r]
                         /\ r.stage = "stopped" /\ r.uid = None /\ r.next = 1
    BY <1>8, OverStep DEF IndInv
  <2> QED BY <1>6, <1>8, <2>1, OverInOrder DEF Waiting
<1> QED BY <1>3, <1>7, <1>8

-----------------------------------------------------------------------------
(* The plan, one region further.                                           *)
LEMMA PlanAdvances ==
  ASSUME NEW mode, NEW key, NEW n \in 1 .. Len(Plan(mode, key))
  PROVE  /\ Done(mode, key, 1) = {}
         /\ Done(mode, key, n + 1) = Done(mode, key, n) \cup {Plan(mode, key)[n]}
         /\ n = Len(Plan(mode, key)) => Done(mode, key, n + 1) = Planned(mode, key)
         /\ Plan(mode, key)[n] \notin Done(mode, key, n) /\ "stage0" \notin Done(mode, key, n)
         /\ Done(mode, key, n) \subseteq Regions /\ Plan(mode, key)[n] \in Regions
<1>1. Len(Plan(mode, key)) \in Nat /\ n \in Nat /\ 1 .. n - 1 \subseteq 1 .. Len(Plan(mode, key))
  BY PlanFacts
<1>2. 1 .. (n + 1) - 1 = (1 .. n - 1) \cup {n} /\ 1 .. 1 - 1 = {} /\ n \notin 1 .. n - 1
  BY <1>1
<1>3. Done(mode, key, 1) = {} /\ Done(mode, key, n + 1) = Done(mode, key, n) \cup {Plan(mode, key)[n]}
  BY <1>2 DEF Done
<1>4. ASSUME n = Len(Plan(mode, key)) PROVE Done(mode, key, n + 1) = Planned(mode, key)
  <2>1. 1 .. (n + 1) - 1 = 1 .. Len(Plan(mode, key))
    BY <1>1, <1>4
  <2> QED BY <2>1, PlanFacts DEF Done
<1>5. Plan(mode, key)[n] \notin Done(mode, key, n)
  BY <1>1, <1>2, PlanFacts DEF Done
<1>6. "stage0" \notin Done(mode, key, n)
  <2>1. \A i \in 1 .. n - 1 : i \in 1 .. Len(Plan(mode, key)) /\ i # Len(Plan(mode, key))
    BY <1>1
  <2> QED BY <2>1, PlanFacts DEF Done
<1>7. Done(mode, key, n) \subseteq Regions /\ Plan(mode, key)[n] \in Regions
  BY <1>1, PlanFacts DEF Done
<1> QED BY <1>3, <1>4, <1>5, <1>6, <1>7

(* The next region is erased until the run programs it, Stage 0 to the end.*)
LEMMA ProgramRegionKeepsIndInv ==
  ASSUME IndInv, NEW p \in Probes, ProgramRegion(p) PROVE IndInv'
<1>1. /\ Running(p) /\ RunInOrder(p) /\ run[p] \in Runs /\ run[p].stage = "program"
      /\ UNCHANGED <<attached, host, keys, replaced>>
  BY OwnBoard DEF ProgramRegion, Running, Waiting
<1>2. PICK u \in Boards : u = run[p].uid /\ u = attached[p]
  BY <1>1, OwnBoard DEF ProgramRegion, Session
<1>3. PICK mode \in Modes, n \in 1 .. 5, key \in 0 .. keys :
        mode = run[p].mode /\ n = run[p].next /\ key = run[p].key
  BY <1>1, RunFields
<1>a. PICK R, S, last : R = Plan(mode, key)[n] /\ S = Done(mode, key, n) /\ last = Len(Plan(mode, key))
  OBVIOUS
<1>4. /\ n \in 1 .. last /\ last \in 4 .. 5 /\ mode # "erase-only"
      /\ key \in {0, host[u]} /\ (mode = "network-install" => key # 0)
      /\ Programmed(u, S, key)
  <2>1. last \in 4 .. 5
    BY <1>a, PlanFacts
  <2>2. /\ n <= last /\ mode # "erase-only" /\ key \in {0, host[u]}
        /\ Programmed(u, S, key)
    BY <1>1, <1>2, <1>3, <1>a DEF RunInOrder
  <2>3. mode = "network-install" => key # 0
    BY <1>3 DEF ProgramRegion
  <2> QED BY <2>1, <2>2, <2>3
<1>5. /\ S \in SUBSET Regions /\ R \in Regions \ S /\ "stage0" \notin S
      /\ Done(mode, key, n + 1) = S \cup {R} /\ (n = last => S \cup {R} = Planned(mode, key))
      /\ (R = "stage0" <=> n = last)
  BY <1>a, <1>4, PlanAdvances, PlanFacts
<1>6. /\ flash[u]["stage0"] = "blank"
      /\ "access" \notin S => flash[u]["access"] = "blank" /\ device[u] = 0
  BY <1>4, <1>5 DEF Programmed, Blank, Regions, Nor, IndInv, BoardInOrder
<1>7. /\ written' = [written EXCEPT ![u] = @ \cup {R}]
      /\ \/ /\ flash' = [flash EXCEPT ![u][R] = "valid"]
            /\ device' = [device EXCEPT ![u] = IF R = "access" THEN key ELSE device[u]]
            /\ IF n < last
                 THEN run' = [run EXCEPT ![p].next = n + 1]
                 ELSE run' = [run EXCEPT ![p].next = 1, ![p].stage =
                                IF mode = "install" THEN "readback" ELSE "network"]
         \/ /\ flash' = [flash EXCEPT ![u][R] = "other"]
            /\ Over(p, "stopped") /\ UNCHANGED device
  BY <1>2, <1>3, <1>a DEF ProgramRegion
<1>8. keys \in 0 .. MaxKeys /\ keys \in Nat /\ keys' = keys /\ Runs' = Runs
  BY <1>1, ProvisioningAssumption DEF IndInv, TypeOK, Runs
<1>b. ASSUME NEW content \in Contents, flash' = [flash EXCEPT ![u][R] = content]
      PROVE  /\ flash' \in [Boards -> [Regions -> Contents]]
             /\ flash'[u][R] = content /\ \A q \in Regions \ {R} : flash'[u][q] = flash[u][q]
             /\ \A b \in Boards \ {u} : flash'[b] = flash[b]
  BY <1>5, <1>b DEF IndInv, TypeOK
<1>c. /\ written' \in [Boards -> SUBSET Regions] /\ written'[u] = S \cup {R}
      /\ \A b \in Boards \ {u} : written'[b] = written[b]
  BY <1>4, <1>5, <1>7 DEF IndInv, TypeOK, Programmed
<1>9. CASE flash' = [flash EXCEPT ![u][R] = "other"] /\ Over(p, "stopped") /\ UNCHANGED device
  <2>1. /\ flash' \in [Boards -> [Regions -> Contents]] /\ written' \in [Boards -> SUBSET Regions]
        /\ flash'[u][R] = "other" /\ \A q \in Regions \ {R} : flash'[u][q] = flash[u][q]
        /\ \A b \in Boards \ {u} : flash'[b] = flash[b] /\ written'[b] = written[b]
    <3>1. "other" \in Contents
      BY DEF Contents
    <3> QED BY <1>9, <1>b, <1>c, <3>1
  <2>2. PICK r \in Runs : /\ run' = [run EXCEPT ![p] = r]
                         /\ r.stage = "stopped" /\ r.uid = None /\ r.next = 1
    BY <1>9, OverStep DEF IndInv
  <2>3. StepOf(p, r)
    BY <1>1, <1>2, <1>8, <1>9, <2>1, <2>2 DEF StepOf, Waiting, IndInv, TypeOK
  <2>4. BoardInOrder(u)'
    <3>1. flash'[u]["stage0"] # "valid"
      BY <1>6, <2>1 DEF Regions
    <3>2. flash'[u]["access"] = "blank" => flash[u]["access"] = "blank" /\ device'[u] = device[u]
      BY <1>9, <2>1 DEF Regions, Nor
    <3> QED BY <3>1, <3>2 DEF BoardInOrder, IndInv
  <2> QED BY <1>1, <1>2, <1>9, <2>3, <2>4, OverInOrder, StepKeepsIndInv
<1>10. CASE /\ flash' = [flash EXCEPT ![u][R] = "valid"]
            /\ device' = [device EXCEPT ![u] = IF R = "access" THEN key ELSE device[u]]
            /\ IF n < last
                 THEN run' = [run EXCEPT ![p].next = n + 1]
                 ELSE run' = [run EXCEPT ![p].next = 1, ![p].stage =
                                IF mode = "install" THEN "readback" ELSE "network"]
  <2>1. /\ device' \in [Boards -> 0 .. keys] /\ (R = "access" => device'[u] = key)
        /\ (R # "access" => device'[u] = device[u])
        /\ ("access" \in S => device'[u] = device[u])
        /\ \A b \in Boards \ {u} : device'[b] = device[b]
    BY <1>4, <1>5, <1>10 DEF IndInv, TypeOK, Programmed
  <2>2. /\ flash' \in [Boards -> [Regions -> Contents]] /\ written' \in [Boards -> SUBSET Regions]
        /\ written'[u] = S \cup {R} /\ Programmed(u, S \cup {R}, key)'
        /\ flash'[u][R] = "valid" /\ \A q \in Regions \ {R} : flash'[u][q] = flash[u][q]
        /\ \A b \in Boards \ {u} : flash'[b] = flash[b] /\ written'[b] = written[b]
    <3>1. "valid" \in Contents
      BY DEF Contents
    <3>2. /\ flash' \in [Boards -> [Regions -> Contents]] /\ flash'[u][R] = "valid"
          /\ \A q \in Regions \ {R} : flash'[u][q] = flash[u][q]
          /\ \A b \in Boards \ {u} : flash'[b] = flash[b]
      BY <1>10, <1>b, <3>1
    <3>3. Programmed(u, S \cup {R}, key)'
      <4>1. /\ \A q \in S : flash[u][q] = "valid"
            /\ \A q \in Regions \ S : flash[u][q] = "blank"
            /\ "access" \in S => device[u] = key
        BY <1>4 DEF Programmed, Blank
      <4>2. \A q \in S \cup {R} : flash'[u][q] = "valid"
        BY <1>5, <3>2, <4>1
      <4>3. \A q \in Regions \ (S \cup {R}) : flash'[u][q] = "blank"
        BY <3>2, <4>1
      <4>4. "access" \in S \cup {R} => device'[u] = key
        BY <2>1, <4>1
      <4> QED BY <1>c, <4>2, <4>3, <4>4 DEF Programmed, Blank
    <3> QED BY <1>c, <3>2, <3>3
  <2>3. BoardInOrder(u)'
    <3>1. flash'[u]["access"] = "blank" => device'[u] = 0
      <4>1. R = "access" => flash'[u]["access"] = "valid"
        BY <2>2
      <4>2. R # "access" => flash'[u]["access"] = flash[u]["access"] /\ device'[u] = device[u]
        BY <2>1, <2>2 DEF Regions, Nor
      <4> QED BY <4>1, <4>2 DEF IndInv, BoardInOrder
    <3>2. CASE n = last
      <4>1. Complete(u, mode, key)' /\ written'[u] = Planned(mode, key)
        BY <1>5, <2>2, <3>2 DEF Complete, Programmed
      <4>2. mode \in {"install", "network-install"}
        BY <1>3, <1>4 DEF Modes
      <4>3. Whole(u)'
        BY <1>8, <4>1, <4>2 DEF Whole
      <4>4. CASE "access" \in Planned(mode, key)
        <5>1. key # 0 /\ key = host[u]
          BY <1>4, <4>4, PlanFacts
        <5>2. device'[u] = key /\ "access" \in written'[u]
          BY <1>5, <2>2, <3>2, <4>4 DEF Programmed
        <5> QED BY <1>1, <3>1, <4>3, <5>1, <5>2 DEF BoardInOrder, Shares
      <4>5. CASE "access" \notin Planned(mode, key)
        <5>1. "access" \notin S /\ R # "access" /\ "access" \notin written'[u]
          BY <1>5, <3>2, <4>1, <4>5
        <5>2. device'[u] = 0
          BY <1>6, <2>1, <5>1
        <5> QED BY <3>1, <4>3, <5>1, <5>2 DEF BoardInOrder, Shares
      <4> QED BY <4>4, <4>5
    <3>3. CASE n # last
      <4>1. flash'[u]["stage0"] = "blank"
        BY <1>5, <1>6, <2>2, <3>3 DEF Regions
      <4> QED BY <3>1, <4>1 DEF BoardInOrder
    <3> QED BY <3>2, <3>3
  <2>4. ASSUME NEW r \in Runs, run' = [run EXCEPT ![p] = r], r.uid = u, RunInOrder(p)'
        PROVE  IndInv'
    <3>1. StepOf(p, r)
      BY <1>1, <1>2, <1>8, <2>1, <2>2, <2>4 DEF StepOf, IndInv, TypeOK
    <3> QED BY <1>1, <1>2, <2>3, <2>4, <3>1, StepKeepsIndInv
  <2>5. attached'[p] = u /\ key \in {0, host'[u]}
    BY <1>1, <1>2, <1>4
  <2>6. CASE n < last
    <3> DEFINE r == [run[p] EXCEPT !.next = n + 1]
    <3>1. n + 1 \in 1 .. 5 /\ n + 1 <= last
      BY <1>4, <2>6
    <3>2. /\ r \in Runs /\ r.stage = "program" /\ r.uid = u /\ r.mode = mode
          /\ r.key = key /\ r.next = n + 1
      BY <1>1, <1>2, <1>3, <3>1 DEF Runs
    <3>3. run' = [run EXCEPT ![p] = r]
      BY <1>10, <2>6
    <3> HIDE DEF r
    <3>4. run'[p] = r
      BY <3>3 DEF IndInv, TypeOK
    <3>5. RunInOrder(p)'
      <4>1. /\ run'[p].stage = "program" /\ run'[p].uid = u /\ run'[p].mode = mode
            /\ run'[p].key = key /\ run'[p].next = n + 1
        BY <3>2, <3>4
      <4>2. n + 1 <= Len(Plan(mode, key)) /\ Programmed(u, Done(mode, key, n + 1), key)'
        BY <1>5, <1>a, <2>2, <3>1
      <4> QED BY <1>4, <2>5, <4>1, <4>2 DEF RunInOrder, Busy, Running, Waiting
    <3> QED BY <2>4, <3>2, <3>3, <3>5
  <2>7. CASE ~(n < last)
    <3> DEFINE stage == IF mode = "install" THEN "readback" ELSE "network"
               r == [run[p] EXCEPT !.next = 1, !.stage = stage]
    <3>1. stage \in Stages /\ stage \in {"readback", "network"}
      BY DEF Stages
    <3>2. run' = [run EXCEPT ![p] = r]
      BY <1>10, <2>7 DEF IndInv, TypeOK
    <3> HIDE DEF stage
    <3>a. 1 \in 1 .. 5
      OBVIOUS
    <3>3. /\ r \in Runs /\ r.stage = stage /\ r.uid = u /\ r.mode = mode
          /\ r.key = key /\ r.next = 1
      BY <1>1, <1>2, <1>3, <3>1, <3>a DEF Runs
    <3> HIDE DEF r
    <3>4. run'[p] = r /\ n = last
      BY <1>4, <2>7, <3>2 DEF IndInv, TypeOK
    <3>5. Programmed(u, Planned(mode, key), key)'
      BY <1>5, <2>2, <3>4
    <3>6. RunInOrder(p)'
      <4>1. /\ run'[p].stage \in {"readback", "network"} /\ run'[p].uid = u
            /\ run'[p].mode = mode /\ run'[p].key = key /\ run'[p].next = 1
        BY <3>1, <3>3, <3>4
      <4>2. 1 <= Len(Plan(mode, key))
        BY <1>a, <1>4
      <4> QED BY <1>4, <2>5, <3>5, <4>1, <4>2 DEF RunInOrder, Busy, Running, Waiting
    <3> QED BY <2>4, <3>2, <3>3, <3>6
  <2> QED BY <2>6, <2>7
<1> QED BY <1>7, <1>9, <1>10

-----------------------------------------------------------------------------
LEMMA NextIndInv == IndInv /\ [Next]_vars => IndInv'
<1> SUFFICES ASSUME IndInv, [Next]_vars PROVE IndInv'
  OBVIOUS
<1>1. ASSUME NEW p \in Probes, Run(p) PROVE IndInv'
  BY <1>1, InspectKeepsIndInv, BeginKeepsIndInv, BackupKeepsIndInv,
     EraseNorKeepsIndInv, EraseInternalKeepsIndInv, BlankCheckKeepsIndInv,
     ProgramRegionKeepsIndInv, ReadbackKeepsIndInv, EndKeepsIndInv DEF Run
<1>2. ASSUME NEW p \in Probes, NEW b \in Boards, Move(p, b) PROVE IndInv'
  BY <1>2, MoveKeepsIndInv
<1>3. ASSUME NEW b \in Boards, Import(b) PROVE IndInv'
  BY <1>3, ImportKeepsIndInv
<1>4. CASE UNCHANGED vars
  <2>1. TypeOK'
    BY <1>4 DEF vars, IndInv, TypeOK, Runs, Running
  <2>2. \A p \in Probes : (Busy(p)' <=> Busy(p)) /\ (Running(p)' <=> Running(p))
    BY <1>4 DEF vars, Busy, Running
  <2>3. \A b, S, key : Programmed(b, S, key)' <=> Programmed(b, S, key)
    BY <1>4 DEF vars, Programmed, Blank
  <2>4. \A p \in Probes : RunInOrder(p)'
    BY <1>4, <2>2, <2>3 DEF vars, IndInv, RunInOrder
  <2>5. \A b \in Boards : BoardInOrder(b)'
    BY <1>4, BoardsStay DEF vars
  <2> QED BY <2>1, <2>4, <2>5 DEF IndInv
<1> QED BY <1>1, <1>2, <1>3, <1>4 DEF Next

(* The invariant that the theorems follow from.                            *)
THEOREM Invariance == Spec => []IndInv
BY InitIndInv, NextIndInv, PTL DEF Spec

(* Types, and that no two runs are about the same board.                   *)
THEOREM ProvisioningTypeCorrect == Spec => []TypeOK
<1>1. IndInv => TypeOK
  BY DEF IndInv
<1> QED BY <1>1, Invariance, PTL

(* A new boot loader is never beside half a layout.                        *)
THEOREM LayoutsAreComplete == Spec => []StageZeroLast
<1>1. IndInv => StageZeroLast
  BY DEF IndInv, BoardInOrder, Whole, StageZeroLast
<1> QED BY <1>1, Invariance, PTL

(* A board that a new boot loader starts holds the key its host stored for *)
(* it, unless the operator has imported another one since, and none if its *)
(* package came without: whatever broke off, was repeated or left behind.  *)
THEOREM KeysAreShared == Spec => []KeyShared
<1>1. IndInv => KeyShared
  BY DEF IndInv, BoardInOrder, Shares, KeyShared
<1> QED BY <1>1, Invariance, PTL

(* Erasing and programming happen in sessions with the run's own board.    *)
THEOREM BoardsAreConfirmed == Spec => OnlyConfirmedBoards
<1> DEFINE Works(p, b) == /\ run[p].uid = b
                          /\ run[p].stage \in {"erase", "erase internal", "program"}
<1>1. ASSUME IndInv, [Next]_vars
      PROVE  [\A b \in Boards : flash'[b] # flash[b] => \E p \in Probes : Works(p, b)]_vars
  <2> SUFFICES ASSUME Next, NEW b \in Boards, flash'[b] # flash[b]
               PROVE  \E p \in Probes : Works(p, b)
    BY <1>1
  <2>1. PICK p \in Probes : EraseNor(p) \/ EraseInternal(p) \/ ProgramRegion(p)
    BY DEF Next, Run, Inspect, Begin, Backup, BlankCheck, Readback, Network, Fail,
           Move, Import, Imported
  <2>2. CASE EraseNor(p)
    <3>1. attached[p] = b
      BY <2>2, <1>1 DEF EraseNor, IndInv, TypeOK
    <3> QED BY <2>2, <3>1 DEF EraseNor, Session
  <2>3. CASE EraseInternal(p)
    <3>1. attached[p] = b
      BY <2>3, <1>1 DEF EraseInternal, IndInv, TypeOK
    <3>2. attached[p] = run[p].uid /\ run[p].stage = "erase internal"
      BY <2>3, <1>1 DEF EraseInternal, IndInv, RunInOrder, Busy
    <3> QED BY <3>1, <3>2
  <2>4. CASE ProgramRegion(p)
    <3>1. attached[p] = b
      BY <2>4, <1>1 DEF ProgramRegion, IndInv, TypeOK
    <3> QED BY <2>4, <3>1 DEF ProgramRegion, Session
  <2> QED BY <2>1, <2>2, <2>3, <2>4
<1> QED BY <1>1, Invariance, PTL DEF Spec, OnlyConfirmedBoards

(* A run passes by the blank check of an erase or the test of a network.   *)
LEMMA PassedBy ==
  ASSUME IndInv, Next, NEW p \in Probes, run[p].stage # "passed", run'[p].stage = "passed"
  PROVE  \/ Network(p)
         \/ BlankCheck(p) /\ run[p].mode = "erase-only" /\ Blank(attached[p], Regions)
<1>1. PICK q \in Probes : Run(q)
  BY DEF Next, Move, Import, Imported
<1>2. /\ run[p] \in Runs /\ Ready.stage = "stopped"
      /\ \A r : run' = [run EXCEPT ![q] = r] => q = p /\ r.stage = "passed"
  BY DEF IndInv, TypeOK, Ready
<1>3. /\ ~To(q, "backup") /\ ~To(q, "erase") /\ ~To(q, "erase internal")
      /\ ~To(q, "blank check") /\ ~To(q, "program") /\ ~To(q, "network")
  <2>1. ASSUME NEW stage, stage # "passed", run' = [run EXCEPT ![q].stage = stage] PROVE FALSE
    BY <1>2, <2>1 DEF IndInv, TypeOK, Runs
  <2> QED BY <2>1 DEF To
<1>4. ~Over(q, "stopped") /\ (Over(q, "passed") => q = p)
  <2>1. ASSUME Over(q, "stopped") PROVE FALSE
    <3> DEFINE r == [Ready EXCEPT !.stage = "stopped"]
    <3>1. r.stage = "stopped" /\ run' = [run EXCEPT ![q] = r]
      BY <2>1 DEF Over, Ready
    <3> QED BY <1>2, <3>1
  <2>2. ASSUME Over(q, "passed") PROVE q = p
    BY <1>2, <2>2 DEF Over
  <2> QED BY <2>1, <2>2
<1>5. ~Inspect(q)
  BY <1>2 DEF Inspect, Ready
<1>6. \A mode \in Modes : ~Begin(q, mode)
  <2> SUFFICES ASSUME NEW mode \in Modes, Begin(q, mode) PROVE FALSE
    OBVIOUS
  <2>1. PICK key : run' = [run EXCEPT ![q].stage = "backup", ![q].mode = mode, ![q].key = key]
    BY <1>4 DEF Begin, EnsureKey
  <2> QED BY <1>2, <2>1 DEF IndInv, TypeOK, Runs
<1>8. ~ProgramRegion(q)
  <2> SUFFICES ASSUME ProgramRegion(q) PROVE FALSE
    OBVIOUS
  <2>1. run[q] \in Runs /\ run[q].stage = "program"
    BY DEF ProgramRegion, IndInv, TypeOK
  <2>2. ASSUME NEW n, run' = [run EXCEPT ![q].next = n] PROVE FALSE
    BY <1>2, <2>1, <2>2 DEF IndInv, TypeOK, Runs
  <2>3. ASSUME NEW stage \in {"readback", "network"},
               run' = [run EXCEPT ![q].next = 1, ![q].stage = stage]
        PROVE  FALSE
    BY <1>2, <2>1, <2>3 DEF IndInv, TypeOK, Runs
  <2>4. \/ run' = [run EXCEPT ![q].next = run[q].next + 1]
        \/ run' = [run EXCEPT ![q].next = 1, ![q].stage = "readback"]
        \/ run' = [run EXCEPT ![q].next = 1, ![q].stage = "network"]
    BY <1>4 DEF ProgramRegion
  <2> QED BY <2>2, <2>3, <2>4
<1>9. ~Backup(q) /\ ~EraseNor(q) /\ ~EraseInternal(q) /\ ~Readback(q) /\ ~Fail(q)
  BY <1>3, <1>4 DEF Backup, EraseNor, EraseInternal, Readback, Fail
<1>10. CASE BlankCheck(q)
  BY <1>3, <1>4, <1>10 DEF BlankCheck
<1>11. CASE Network(q)
  BY <1>4, <1>11 DEF Network
<1> QED BY <1>1, <1>5, <1>6, <1>8, <1>9, <1>10, <1>11 DEF Run

(* A run passes only with its board as planned.                            *)
THEOREM PassesAsPlanned == Spec => PassedAsPlanned
<1>1. ASSUME IndInv, [Next]_vars
      PROVE  [\A p \in Probes :
                run[p].stage # "passed" /\ run'[p].stage = "passed" =>
                  LET b == run[p].uid
                      planned == IF run[p].mode = "erase-only" THEN {}
                                 ELSE Planned(run[p].mode, run[p].key)
                  IN /\ \A r \in planned : flash[b][r] = "valid"
                     /\ Blank(b, Regions \ planned)]_vars
  <2> SUFFICES ASSUME Next, NEW p \in Probes, run[p].stage # "passed", run'[p].stage = "passed"
               PROVE  LET b == run[p].uid
                          planned == IF run[p].mode = "erase-only" THEN {}
                                     ELSE Planned(run[p].mode, run[p].key)
                      IN /\ \A r \in planned : flash[b][r] = "valid"
                         /\ Blank(b, Regions \ planned)
    BY <1>1
  <2>1. CASE Network(p)
    BY <1>1, <2>1 DEF Network, IndInv, RunInOrder, Programmed
  <2>2. CASE BlankCheck(p) /\ run[p].mode = "erase-only" /\ Blank(attached[p], Regions)
    BY <2>2 DEF BlankCheck, Session, Blank
  <2> QED BY <1>1, <2>1, <2>2, PassedBy
<1> QED BY <1>1, Invariance, PTL DEF Spec, PassedAsPlanned
=============================================================================
