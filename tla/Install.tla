------------------------------ MODULE Install ------------------------------
(***************************************************************************)
(* install() of installer/ethernet.py, run by several hosts against the    *)
(* board of BootUpdate: status, abort, begin, the chunks, finish,          *)
(* activate, the wait for the candidate and its confirmation.              *)
(*                                                                         *)
(* An exchange with the board is one step: the handler runs, and its       *)
(* answer reaches the host or is lost.  What the host read stays with it   *)
(* while other hosts and the board go on.  A request that arrives after    *)
(* its sender stopped waiting is the subject of OtaAuth.  Waiting times    *)
(* are choices, as in BootUpdate.                                          *)
(***************************************************************************)
EXTENDS BootUpdate

CONSTANTS
  Hosts,
  Payload,  \* the image each host installs
  Attempts  \* of a call before it raises; 3 in the code

ASSUME InstallAssumption ==
  /\ Payload \in [Hosts -> Images]
  /\ Attempts \in Nat \ {0}

VARIABLES
  host,  \* where each install() is, its client and what it read
  proven \* history: the generations confirmed so far, each with its image

installVars == <<vars, host, proven>>

Calls == {"status", "abort", "begin", "chunk", "finish", "activate", "watch", "confirm"}

(* "unproven": the wait for the candidate ran out before a confirmation.   *)
Outcomes == {"passed", "failed", "unproven"}

(* A nonce is stale once the board restarted or another host's request     *)
(* advanced the sequence number.                                           *)
HostState ==
  [pc : Calls \cup Outcomes, nonce : {"none", "current", "stale"},
   tries : 0 .. Attempts - 1, gen : 0 .. MaxGen + 1, offset : 1 .. Chunks]

InstallTypeOK ==
  /\ host \in [Hosts -> HostState]
  /\ proven \subseteq Gens \X Images

-----------------------------------------------------------------------------
(* The client.                                                             *)

Expire(s) == IF s.nonce = "current" THEN [s EXCEPT !.nonce = "stale"] ELSE s

(* The next call; install() ended needs neither its client nor its offset. *)
GoTo(s, pc) ==
  IF pc \in Calls THEN [s EXCEPT !.pc = pc, !.tries = 0]
  ELSE [s EXCEPT !.pc = pc, !.tries = 0, !.nonce = "none", !.offset = 1]

(* Mutation: a confirmation without an answer sends the host back to wait. *)
Mut_NoAnswer(s) ==
  IF s.pc \in {"activate", "watch", "confirm"}
  THEN [GoTo(s, "watch") EXCEPT !.nonce = "none"]
  ELSE IF s.tries + 1 < Attempts
       THEN [s EXCEPT !.tries = @ + 1, !.nonce = "none"]
       ELSE GoTo(s, "failed")

(* What a call without an answer leads to: activate is not retried but     *)
(* settled by watching, watching goes on, and anything else is tried again *)
(* with a fresh challenge while there are attempts left.                   *)
NoAnswer(s) ==
  IF s.pc \in {"activate", "watch"}
  THEN [GoTo(s, "watch") EXCEPT !.nonce = "none"]
  ELSE IF s.tries + 1 < Attempts
       THEN [s EXCEPT !.tries = @ + 1, !.nonce = "none"]
       ELSE GoTo(s, "failed")

(* The board answers h with s, or the answer is lost; either way every     *)
(* other client's sequence number is behind now.                           *)
Answered(h, s) ==
  \E t \in {s, NoAnswer(host[h])} :
    host' = [g \in Hosts |-> IF g = h THEN t ELSE Expire(host[g])]

Calling(h, pc) == host[h].pc = pc /\ host[h].nonce = "current" /\ Serving

Challenge(h) ==
  /\ host[h].pc \in Calls /\ host[h].nonce = "none" /\ Serving
  /\ host' = [host EXCEPT ![h].nonce = "current"]
  /\ UNCHANGED vars

(* The connection fails before the board has the request.                  *)
ConnectionFails(h) ==
  /\ host[h].pc \in Calls
  /\ host' = [host EXCEPT ![h] = NoAnswer(@)]
  /\ UNCHANGED vars

(* An answer the client cannot authenticate ends install().                *)
Unauthenticated(h) ==
  /\ host[h].pc \in Calls /\ host[h].nonce = "stale" /\ Serving
  /\ host' = [host EXCEPT ![h] = GoTo(@, "failed")]
  /\ UNCHANGED vars

(* The board refuses what BootUpdate does not admit, or repeats an answer. *)
NothingChanges(request) == ~ENABLED request /\ UNCHANGED vars

-----------------------------------------------------------------------------
(* install().                                                              *)

HeaderOf(h) == [gen |-> host[h].gen, img |-> Payload[h]]

RunsPayload(h) ==
  /\ run.slot \in AppSlots
  /\ flash[run.slot].hdr # NoHeader /\ flash[run.slot].hdr.img = Payload[h]

AlreadyCurrent(h) == RunsPayload(h) /\ run.confirmed /\ health = "ready"

Floor == CHOOSE n \in KnownGenerations(meta) : \A g \in KnownGenerations(meta) : g <= n

(* pack() refuses a generation out of range.                               *)
Packed(s) == GoTo(s, IF s.gen \in Gens THEN "begin" ELSE "failed")

StatusCall(h) ==
  /\ Calling(h, "status")
  /\ UNCHANGED vars
  /\ LET s == [host[h] EXCEPT !.gen = Floor + 1] IN
     Answered(h, IF AlreadyCurrent(h) THEN [GoTo(s, "passed") EXCEPT !.gen = run.gen]
                 ELSE IF meta.tslot # NoSlot THEN GoTo(s, "failed")
                 ELSE IF upload.state \in {"receiving", "verified", "failed"}
                      THEN GoTo(s, "abort") ELSE Packed(s))

AbortCall(h) ==
  /\ Calling(h, "abort")
  /\ \/ Abort /\ Answered(h, Packed(host[h]))
     \/ NothingChanges(Abort) /\ Answered(h, GoTo(host[h], "failed"))

(* A repeated begin joins the upload it started.                           *)
BeginCall(h) ==
  /\ Calling(h, "begin")
  /\ LET begun == GoTo(host[h], "chunk")
         refused == GoTo(host[h], "failed")
     IN \/ Begin(HeaderOf(h))
           /\ Answered(h, IF upload'.state = "receiving" THEN begun ELSE refused)
        \/ NothingChanges(Begin(HeaderOf(h)))
           /\ Answered(h, IF Uploading /\ upload.hdr = HeaderOf(h) THEN begun ELSE refused)

(* A repeated chunk is acknowledged if it is there already; the host wants *)
(* the acknowledgement to end where its chunk ends.                        *)
ChunkCall(h) ==
  LET offset == host[h].offset
      next == IF offset < Chunks THEN [GoTo(host[h], "chunk") EXCEPT !.offset = @ + 1]
              ELSE GoTo(host[h], "finish")
      there == /\ upload.state = "receiving" /\ upload.received = offset
               /\ flash[upload.slot].body[offset] = Payload[h]
      refused == GoTo(host[h], "failed")
  IN /\ Calling(h, "chunk")
     /\ \/ Append(offset, Payload[h])
           /\ Answered(h, IF upload'.state = "receiving" THEN next ELSE refused)
        \/ NothingChanges(Append(offset, Payload[h]))
           /\ Answered(h, IF there THEN next ELSE refused)

FinishCall(h) ==
  LET then(state) == GoTo(host[h], IF state = "verified" THEN "activate" ELSE "failed")
  IN /\ Calling(h, "finish")
     /\ \/ Finish /\ Answered(h, then(upload'.state))
        \/ NothingChanges(Finish) /\ Answered(h, then(upload.state))

ActivateCall(h) ==
  /\ Calling(h, "activate")
  /\ \/ Activate
        /\ Answered(h, IF upload'.state = "activated"
                       THEN [GoTo(host[h], "watch") EXCEPT !.nonce = "none"]
                       ELSE GoTo(host[h], "failed"))
     \/ NothingChanges(Activate) /\ Answered(h, GoTo(host[h], "failed"))

(* Every turn of the wait connects anew.                                   *)
WatchCall(h) ==
  /\ Calling(h, "watch")
  /\ UNCHANGED vars
  /\ LET again == [host[h] EXCEPT !.nonce = "none"] IN
     Answered(h, IF Recovery \/ run.gen # host[h].gen THEN again
                 ELSE IF ~RunsPayload(h) THEN GoTo(host[h], "failed")
                 ELSE IF health # "ready" THEN again
                 ELSE GoTo(host[h], "confirm"))

WaitOver(h) ==
  /\ host[h].pc = "watch"
  /\ host' = [host EXCEPT ![h] = GoTo(@, "unproven")]
  /\ UNCHANGED vars

(* Mutation: the answer to confirm is not looked at. *)
Mut_ConfirmCall(h) ==
  /\ Calling(h, "confirm")
  /\ \/ Confirm(Payload[h]) \/ NothingChanges(Confirm(Payload[h]))
  /\ Answered(h, GoTo(host[h], "passed"))

ConfirmCall(h) ==
  /\ Calling(h, "confirm")
  /\ \/ Confirm(Payload[h])
        /\ Answered(h, IF run'.confirmed /\ meta'.cgen = host[h].gen /\ meta'.tslot = NoSlot
                       THEN GoTo(host[h], "passed") ELSE GoTo(host[h], "failed"))
     \/ NothingChanges(Confirm(Payload[h])) /\ Answered(h, GoTo(host[h], "failed"))

HostStep(h) ==
  \/ Challenge(h) \/ ConnectionFails(h) \/ Unauthenticated(h)
  \/ StatusCall(h) \/ AbortCall(h) \/ BeginCall(h) \/ ChunkCall(h) \/ FinishCall(h)
  \/ ActivateCall(h) \/ WatchCall(h) \/ WaitOver(h) \/ ConfirmCall(h)

(* The generation the metadata confirms, with the image in its slot.       *)
ConfirmedNow ==
  {<<meta.cgen, flash[s].hdr.img>> : s \in AppSlots \cap {meta.cslot}}

(* A restart invalidates every nonce.                                      *)
BoardStep ==
  /\ Stage0 \/ Loop \/ PowerCut
  /\ host' = IF phase' = "stage0" THEN [h \in Hosts |-> Expire(host[h])] ELSE host

InstallInit ==
  /\ Init
  /\ host = [h \in Hosts |-> [pc |-> "status", nonce |-> "none", tries |-> 0,
                              gen |-> 0, offset |-> 1]]
  /\ proven = ConfirmedNow

InstallNext ==
  /\ BoardStep \/ \E h \in Hosts : HostStep(h)
  /\ proven' = proven \cup ConfirmedNow'

InstallSpec == InstallInit /\ [][InstallNext]_installVars

-----------------------------------------------------------------------------
(* Properties.                                                             *)

(* install() returns passed only when the board's confirmed image is whole *)
(* and is this host's payload in the generation this host gave it, however *)
(* many answers were lost and whatever other hosts did meanwhile.          *)
PassedIsInstalled ==
  [][\A h \in Hosts : host[h].pc # "passed" /\ host'[h].pc = "passed" =>
       /\ Readable(meta') /\ ConfirmedBootable(meta)'
       /\ flash'[meta'.cslot].hdr = [gen |-> host'[h].gen, img |-> Payload[h]]]_installVars

(* Hosts that raced for a generation never got two images confirmed in it. *)
OneImagePerGeneration ==
  \A p, q \in proven : p[1] = q[1] => p[2] = q[2]

(* "Candidate did not pass authenticated runtime checks; rollback remains   *)
(* enabled": a host that gave up waiting left its candidate unconfirmed,    *)
(* also when it never heard the answer to activate.                         *)
RollbackRemains ==
  \A h \in Hosts :
    host[h].pc = "unproven" => <<host[h].gen, Payload[h]>> \notin proven

-----------------------------------------------------------------------------
(* Why the properties hold: with the invariant of BootUpdate, inductive.   *)

(* While neither image nor metadata decays, both are there.                *)
Undamaged == Readable(meta) /\ decayed = {}

(* What says it is confirmed is what the metadata confirms.                *)
RunsConfirmed ==
  run.slot \in AppSlots /\ (run.confirmed \/ ~run.trial)
    => meta.cslot = run.slot /\ meta.cgen = run.gen

(* All that was confirmed before is of an older generation.                *)
ProvenRemembered ==
  /\ ConfirmedNow \subseteq proven
  /\ \A p \in proven : p[1] <= meta.cgen /\ (p[1] = meta.cgen => p \in ConfirmedNow)

(* From the packing of its image on, a host has a generation.              *)
Packaged == Calls \ {"status", "abort"}
PackagedInRange == \A h \in Hosts : host[h].pc \in Packaged => host[h].gen \in Gens

(* A host that has not asked for a confirmation has none.                  *)
Unasked == (Calls \ {"status", "confirm"}) \cup {"unproven"}
UnaskedUnproven ==
  \A h \in Hosts : host[h].pc \in Unasked => <<host[h].gen, Payload[h]>> \notin proven

InstallInv ==
  /\ IndInv /\ InstallTypeOK
  /\ Undamaged /\ RunsConfirmed
  /\ ProvenRemembered /\ OneImagePerGeneration
  /\ PackagedInRange
=============================================================================
