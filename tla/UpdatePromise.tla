---------------------------- MODULE UpdatePromise ----------------------------
(***************************************************************************)
(* What over-the-network update promises to whoever operates a board: a    *)
(* new generation is tried a bounded number of times, becomes the one the  *)
(* board falls back on only by being accepted while it runs, and gives way *)
(* to the previous one otherwise; the board never runs anything else, and  *)
(* what was tried once is never offered again.  BootUpdate, with slots,    *)
(* uploads, metadata writes and faults, refines this.                      *)
(***************************************************************************)
EXTENDS Integers

CONSTANTS
  MaxGen,   \* generations are 1 .. MaxGen
  MaxTries  \* starts of a candidate; G100_MAX_TRIAL_ATTEMPTS in the code

Gens == 1 .. MaxGen
None == 0

VARIABLES
  good,       \* the accepted generation the board falls back on, or None
  candidate,  \* the generation on trial, or None
  tries,      \* starts the candidate has left
  burned,     \* everything up to it was on offer before
  current     \* what the board runs: its role and generation

vars == <<good, candidate, tries, burned, current>>

Off        == [role |-> "off", gen |-> 0]
InRecovery == [role |-> "recovery", gen |-> 0]
Trying(g)  == [role |-> "trial", gen |-> g]
Using(g)   == [role |-> "good", gen |-> g]

Init ==
  /\ good \in Gens \cup {None}
  /\ burned = good
  /\ candidate = None /\ tries = 0
  /\ current = Off

(* A generation never offered before, while nothing else is on trial.      *)
Offer(g) ==
  /\ current # Off
  /\ candidate = None /\ g > burned
  /\ candidate' = g /\ tries' = MaxTries /\ burned' = g
  /\ UNCHANGED <<good, current>>

(* Every start of the candidate uses up a try first.                       *)
StartTrial ==
  /\ current = Off /\ candidate # None /\ tries > 0
  /\ tries' = tries - 1
  /\ current' \in {Trying(candidate), Off}
  /\ UNCHANGED <<good, candidate, burned>>

Drop       == candidate' = None /\ tries' = 0
UseUp      == tries > 0 /\ tries' = tries - 1 /\ UNCHANGED candidate
Keep       == UNCHANGED <<candidate, tries>>

(* Falling back, which is meant to drop the candidate.                     *)
FallBack ==
  /\ current = Off
  /\ Drop \/ UseUp \/ Keep
  /\ \/ good # None /\ current' = Using(good)
     \/ current' \in {InRecovery, Off}
  /\ UNCHANGED <<good, burned>>

Accept ==
  /\ candidate # None /\ current = Trying(candidate)
  /\ good' = candidate /\ Drop
  /\ UNCHANGED <<burned, current>>

(* Recovery may drop a spoilt candidate and disown a damaged good image.   *)
Repair ==
  /\ current = InRecovery
  /\ Drop \/ Keep
  /\ good' \in {good, None}
  /\ UNCHANGED <<burned, current>>

Stop == current' = Off /\ UNCHANGED <<good, candidate, tries, burned>>

(* The memory of it all is lost.                                           *)
Forget ==
  /\ good' = None /\ Drop /\ burned' = 0
  /\ UNCHANGED current

Next ==
  \/ \E g \in Gens : Offer(g)
  \/ StartTrial \/ FallBack \/ Accept \/ Repair \/ Stop \/ Forget

Spec == Init /\ [][Next]_vars
=============================================================================
