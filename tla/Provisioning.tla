---------------------------- MODULE Provisioning ---------------------------
(***************************************************************************)
(* Installing a board over its ST-LINK probe: hardware.py, the runs of     *)
(* controller.py that use it, and the update key of credentials.py.        *)
(*                                                                         *)
(* Several runs are under way, of one installer or of several on the same  *)
(* host.  A run holds its board's lock; every OpenOCD session of it checks *)
(* the board's UID first, because cables are moved between sessions.  A    *)
(* session can break off anywhere: it fails, times out or loses power.     *)
(***************************************************************************)
EXTENDS Integers, Sequences

CONSTANTS
  Boards,
  Probes,
  MaxKeys, \* bound on the keys ever made
  Leavings, \* sets of regions an incomplete mass erase may leave as they are
  None     \* no board

VARIABLES
  attached, \* the board each probe is wired to; unplugged, a session fails
  flash,    \* the boards' regions: erased, as programmed, or anything else
  written,  \* regions programmed since the board's last erase began
  device,   \* the key in a board's access record, or 0
  host,     \* the key the host stores for a board, or 0
  keys,     \* keys made so far
  run,      \* the run of each probe
  replaced  \* history: boards for which another key than theirs was imported
            \* since their last erase began

vars == <<attached, flash, written, device, host, keys, run, replaced>>

(* The boards' NOR: the recovery image, both application images, the       *)
(* access record, both metadata sectors, and all the rest.                 *)
Nor == {"factory", "applications", "access", "metadata", "rest"}
Regions == Nor \cup {"stage0"}

ASSUME ProvisioningAssumption ==
  None \notin Boards /\ MaxKeys \in Nat \ {0} /\ Leavings \subseteq SUBSET Nor

Modes == {"install", "network-install", "erase-only"}

(* Mutation: Stage 0 goes first. *)
Mut_Plan(mode, key) ==
  CASE mode = "network-install" -> <<"stage0", "factory", "access", "metadata">>
    [] mode # "network-install" /\ key = 0 ->
         <<"stage0", "factory", "applications", "metadata">>
    [] OTHER -> <<"stage0", "factory", "applications", "access", "metadata">>

(* prepare_install and the order of program: Ethernet installation leaves  *)
(* A and B to the recovery service, and a package without one, which is    *)
(* installed without a key, puts the application in the factory slot.      *)
Plan(mode, key) ==
  CASE mode = "network-install" -> <<"factory", "access", "metadata", "stage0">>
    [] mode # "network-install" /\ key = 0 ->
         <<"factory", "applications", "metadata", "stage0">>
    [] OTHER -> <<"factory", "applications", "access", "metadata", "stage0">>

Planned(mode, key) == {Plan(mode, key)[i] : i \in DOMAIN Plan(mode, key)}
Complete(b, mode, key) == \A r \in Planned(mode, key) : flash[b][r] = "valid"
Blank(b, S) == \A r \in S : flash[b][r] = "blank"

(* A run that failed, or could not reach its board in the end, stopped.    *)
Waiting == {"stopped", "inspected", "passed"}
Ready == [stage |-> "stopped", uid |-> None, mode |-> "install", key |-> 0, next |-> 1]
Running(p) == run[p].stage \notin Waiting
Locked(b) == \E p \in Probes : Running(p) /\ run[p].uid = b

Contents == {"blank", "valid", "other"}

Stages == Waiting \cup {"backup", "erase", "erase internal", "blank check",
                        "program", "readback", "network"}

Runs == [stage : Stages, uid : Boards \cup {None}, mode : Modes, key : 0 .. keys, next : 1 .. 5]

TypeOK ==
  /\ attached \in [Probes -> Boards]
  /\ \A p, q \in Probes : attached[p] = attached[q] => p = q
  /\ flash \in [Boards -> [Regions -> Contents]]
  /\ written \in [Boards -> SUBSET Regions]
  /\ device \in [Boards -> 0 .. keys]
  /\ host \in [Boards -> 0 .. keys]
  /\ keys \in 0 .. MaxKeys
  /\ replaced \subseteq Boards
  /\ run \in [Probes -> Runs]
  /\ \A p, q \in Probes : Running(p) /\ Running(q) /\ run[p].uid = run[q].uid => p = q

Init ==
  /\ attached \in [Probes -> Boards]
  /\ \A p, q \in Probes : attached[p] = attached[q] => p = q
  /\ flash = [b \in Boards |-> [r \in Regions |-> "other"]]
  /\ written = [b \in Boards |-> {}]
  /\ device \in [Boards -> 0 .. 1] \* another installer's
  /\ host = [b \in Boards |-> 0]
  /\ keys = 1
  /\ replaced = {}
  /\ run = [p \in Probes |-> Ready]

-----------------------------------------------------------------------------
To(p, stage) == run' = [run EXCEPT ![p].stage = stage]
Over(p, stage) == run' = [run EXCEPT ![p] = [Ready EXCEPT !.stage = stage]]

(* Mutation: the session trusts the probe. *)
Mut_Session(p) == p \in Probes

(* uid_guard: the session is with the board the run is about.              *)
Session(p) == attached[p] = run[p].uid

(* In the middle of a session: a cable moved here ends it.                 *)
Busy(p) == run[p].stage = "erase internal" \/ (run[p].stage = "program" /\ run[p].next > 1)

(* A cable is moved to another board, whose probe takes the first.         *)
Move(p, b) ==
  /\ attached[p] # b
  /\ \A q \in Probes : q = p \/ attached[q] = b => ~Busy(q)
  /\ attached' = [q \in Probes |-> CASE q = p -> b
                                    [] q # p /\ attached[q] = b -> attached[p]
                                    [] OTHER -> attached[q]]
  /\ UNCHANGED <<flash, written, device, host, keys, run, replaced>>

(* Controller.inspect, of one board.                                       *)
Inspect(p) ==
  /\ ~Running(p)
  /\ run' = [run EXCEPT ![p] = [Ready EXCEPT !.stage = "inspected", !.uid = attached[p]]]
  /\ UNCHANGED <<attached, flash, written, device, host, keys, replaced>>

(* ensure_key, if the release that was loaded has a recovery service: the  *)
(* stored key, or a new one, stored and read back.  A run of an older      *)
(* package, or one that erases with none loaded, goes on without a key,    *)
(* whatever the host has stored; erasing has no use for one.               *)
EnsureKey(p, mode) ==
  \E key \in {0, host[run[p].uid], keys + 1} :
    /\ IF key = keys + 1
         THEN /\ host[run[p].uid] = 0
              /\ keys < MaxKeys
              /\ keys' = key
              /\ host' = [host EXCEPT ![run[p].uid] = key]
         ELSE UNCHANGED <<host, keys>>
    /\ run' = [run EXCEPT ![p].stage = "backup", ![p].mode = mode,
                          ![p].key = IF mode = "erase-only" THEN 0 ELSE key]

(* Controller.start with what was inspected, and _run_board: with the      *)
(* board's lock the run has its key before anything else, or it fails.     *)
Begin(p, mode) ==
  /\ run[p].stage = "inspected"
  /\ \/ ~Locked(run[p].uid) /\ EnsureKey(p, mode)
     \/ Locked(run[p].uid) /\ Over(p, "stopped") /\ UNCHANGED <<host, keys>>
  /\ UNCHANGED <<attached, flash, written, device, replaced>>

(* full_backup: two reads that agree.                                      *)
Backup(p) ==
  /\ run[p].stage = "backup"
  /\ Session(p)
  /\ To(p, "erase")
  /\ UNCHANGED <<attached, flash, written, device, host, keys, replaced>>

(* erase_all: the NOR first.  A mass erase may leave something, and the    *)
(* session may break off after it.                                         *)
EraseNor(p) ==
  /\ run[p].stage = "erase"
  /\ Session(p)
  /\ \E left \in Leavings :
       flash' = [flash EXCEPT ![attached[p]] =
                   [r \in Regions |-> IF r \in Nor \ left THEN "blank"
                                      ELSE IF r = "stage0" THEN flash[attached[p]][r]
                                      ELSE "other"]]
  /\ written' = [written EXCEPT ![attached[p]] = {}]
  /\ device' = [device EXCEPT ![attached[p]] =
                  IF flash'[attached[p]]["access"] = "blank" THEN 0
                  ELSE device[attached[p]]]
  /\ replaced' = replaced \ {attached[p]}
  /\ To(p, "erase internal")
  /\ UNCHANGED <<attached, host, keys>>

(* Stage 0 is kept until the NOR has been erased.                          *)
EraseInternal(p) ==
  /\ run[p].stage = "erase internal"
  /\ \/ flash' = [flash EXCEPT ![attached[p]]["stage0"] = "blank"] /\ To(p, "blank check")
     \/ flash' = [flash EXCEPT ![attached[p]]["stage0"] = "other"] /\ Over(p, "stopped")
  /\ UNCHANGED <<attached, written, device, host, keys, replaced>>

(* Mutation: erase-only is done once the erase command is. *)
Mut_BlankCheck(p) ==
  /\ run[p].stage = "blank check"
  /\ Session(p)
  /\ IF run[p].mode = "erase-only" THEN Over(p, "passed")
     ELSE IF Blank(attached[p], Regions) THEN To(p, "program") ELSE Over(p, "stopped")
  /\ UNCHANGED <<attached, flash, written, device, host, keys, replaced>>

(* verify_post_write without an expectation.                               *)
BlankCheck(p) ==
  /\ run[p].stage = "blank check"
  /\ Session(p)
  /\ IF ~Blank(attached[p], Regions) THEN Over(p, "stopped")
     ELSE IF run[p].mode = "erase-only" THEN Over(p, "passed") ELSE To(p, "program")
  /\ UNCHANGED <<attached, flash, written, device, host, keys, replaced>>

(* program, one write of it, with its readback: an image or metadata       *)
(* sector gets its magic last, so what breaks off half way is not valid.   *)
(* prepare_install refuses an Ethernet installation without a key.         *)
ProgramRegion(p) ==
  /\ run[p].stage = "program"
  /\ run[p].mode = "network-install" => run[p].key # 0
  /\ Session(p)
  /\ LET b == attached[p]
         plan == Plan(run[p].mode, run[p].key)
         r == plan[run[p].next]
     IN /\ written' = [written EXCEPT ![b] = @ \cup {r}]
        /\ \/ /\ flash' = [flash EXCEPT ![b][r] = "valid"]
              /\ device' = [device EXCEPT ![b] = IF r = "access" THEN run[p].key ELSE @]
              /\ IF run[p].next < Len(plan)
                   THEN run' = [run EXCEPT ![p].next = run[p].next + 1]
                   ELSE run' = [run EXCEPT ![p].next = 1, ![p].stage =
                                  IF run[p].mode = "install" THEN "readback" ELSE "network"]
           \/ /\ flash' = [flash EXCEPT ![b][r] = "other"]
              /\ Over(p, "stopped")
              /\ UNCHANGED device
  /\ UNCHANGED <<attached, host, keys, replaced>>

(* verify_post_write against the whole planned content.                    *)
Readback(p) ==
  /\ run[p].stage = "readback"
  /\ Session(p)
  /\ LET planned == Planned(run[p].mode, run[p].key)
     IN IF Complete(attached[p], run[p].mode, run[p].key) /\ Blank(attached[p], Regions \ planned)
          THEN To(p, "network") ELSE Over(p, "stopped")
  /\ UNCHANGED <<attached, flash, written, device, host, keys, replaced>>

(* The board, wherever its probe is now, is found on Ethernet and answers  *)
(* with the run's key, which Ethernet installation loads again from the    *)
(* host.  test_runtime asks for none.  Any other outcome is a failure.     *)
Network(p) ==
  /\ run[p].stage = "network"
  /\ LET key == IF run[p].mode = "network-install" THEN host[run[p].uid] ELSE run[p].key
     IN key # 0 => device[run[p].uid] = key
  /\ Over(p, "passed")
  /\ UNCHANGED <<attached, flash, written, device, host, keys, replaced>>

(* A session is refused or breaks off, or the rest of the run fails; the   *)
(* lock goes back, also when the installer itself dies.                    *)
Fail(p) ==
  /\ Running(p)
  /\ Over(p, "stopped")
  /\ UNCHANGED <<attached, flash, written, device, host, keys, replaced>>

(* The operator chose some board's access record, of any time.             *)
Imported(b, key) ==
  /\ host' = [host EXCEPT ![b] = key]
  /\ replaced' = IF device[b] \in {0, key} THEN replaced \ {b} ELSE replaced \cup {b}
  /\ UNCHANGED <<attached, flash, written, device, keys, run>>

(* Mutation: the board's lock is not taken. *)
Mut_Import(b) == \E key \in 1 .. keys : Imported(b, key)

(* /api/fleet/import of any well-formed access record with the board's     *)
(* UID: the board itself is not asked.  Its lock is taken.                 *)
Import(b) ==
  /\ ~Locked(b)
  /\ \E key \in 1 .. keys : Imported(b, key)

-----------------------------------------------------------------------------
Run(p) ==
  \/ Inspect(p)
  \/ \E mode \in Modes : Begin(p, mode)
  \/ Backup(p) \/ EraseNor(p) \/ EraseInternal(p) \/ BlankCheck(p)
  \/ ProgramRegion(p) \/ Readback(p) \/ Network(p) \/ Fail(p)

Next ==
  \/ \E p \in Probes : Run(p) \/ \E b \in Boards : Move(p, b)
  \/ \E b \in Boards : Import(b)

Spec == Init /\ [][Next]_vars

-----------------------------------------------------------------------------
(* Stage 0 is written last, so an incomplete external layout cannot be     *)
(* booted through a new boot loader: an installation that breaks off, or   *)
(* several, of packages with and without a key, never leaves a board that  *)
(* starts half of it.                                                      *)
StageZeroLast ==
  \A b \in Boards :
    flash[b]["stage0"] = "valid" /\ written[b] # {} =>
      \E mode \in {"install", "network-install"}, key \in 0 .. keys :
        Complete(b, mode, key) /\ written[b] = Planned(mode, key)

(* A board started by a new boot loader answers to the key its host has    *)
(* stored, through broken runs and repeated ones, unless the operator has  *)
(* imported another key for it since it got its own.  A board installed    *)
(* without a key answers to none: no earlier owner's record has survived.  *)
KeyShared ==
  \A b \in Boards :
    flash[b]["stage0"] = "valid" /\ written[b] # {} =>
      IF "access" \in written[b]
        THEN device[b] # 0 /\ (device[b] = host[b] \/ b \in replaced)
        ELSE device[b] = 0

(* Only a board that was inspected and confirmed is changed, by the run    *)
(* that holds it and that has its backup, however cables are moved.        *)
OnlyConfirmedBoards ==
  [][\A b \in Boards :
       flash'[b] # flash[b] =>
         \E p \in Probes : /\ run[p].uid = b
                           /\ run[p].stage \in {"erase", "erase internal", "program"}]_vars

(* A run that passes leaves its board as planned: wholly erased, or with   *)
(* the complete layout and nothing else (but what Install then puts there).*)
PassedAsPlanned ==
  [][\A p \in Probes :
       run[p].stage # "passed" /\ run'[p].stage = "passed" =>
         LET b == run[p].uid
             planned == IF run[p].mode = "erase-only" THEN {}
                        ELSE Planned(run[p].mode, run[p].key)
         IN /\ \A r \in planned : flash[b][r] = "valid"
            /\ Blank(b, Regions \ planned)]_vars
=============================================================================
