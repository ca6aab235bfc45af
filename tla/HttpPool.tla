----------------------------- MODULE HttpPool ------------------------------
(***************************************************************************)
(* The connections of the HTTP server (http_api.c): two slots for requests *)
(* and responses, handed to the TCP connections LwIP accepts, and the      *)
(* callbacks LwIP makes for them from the main loop.                       *)
(*                                                                         *)
(* LwIP is external: it accepts, delivers, acknowledges, polls and gives   *)
(* connections up in any order, and after tcp_close goes on calling back   *)
(* whatever is still registered.  Sizes are in segments.                   *)
(***************************************************************************)
EXTENDS Integers

CONSTANTS
  Pcbs,        \* TCP connections LwIP may have at a time
  Slots,       \* connections[]; two in the code
  RequestMax,  \* segments a request may take
  ResponseMax, \* segments a response may take
  SendBuffer,  \* segments LwIP keeps unacknowledged
  None         \* no slot

ASSUME HttpAssumption ==
  /\ None \notin Slots
  /\ RequestMax \in Nat \ {0} /\ ResponseMax \in Nat \ {0} /\ SendBuffer \in Nat \ {0}

VARIABLES
  pcb,  \* LwIP's connections
  slot, \* connections[]
  fresh \* slots whose last_activity is less than 5 s ago

vars == <<pcb, slot, fresh>>

FreeSlot == [in_use |-> FALSE, responding |-> FALSE, used |-> 0,
             size |-> 0, queued |-> 0, acknowledged |-> 0]

(* A closing connection is one the board closed with tcp_close.  For the   *)
(* properties it keeps the responses it was given, the segments of theirs  *)
(* not yet written, and whether its client had closed first.               *)
NoPcb == [state |-> "none", arg |-> None, unacked |-> 0,
          answers |-> 0, unsent |-> 0, ended |-> FALSE]

States == {"none", "open", "closing"}

Connections == [state : States, arg : Slots \cup {None}, unacked : 0 .. SendBuffer,
                answers : 0 .. 1, unsent : 0 .. ResponseMax, ended : BOOLEAN]

SlotContents == [in_use : BOOLEAN, responding : BOOLEAN, used : 0 .. RequestMax,
                 size : 0 .. ResponseMax, queued : 0 .. ResponseMax,
                 acknowledged : 0 .. ResponseMax]

(* A connection is answered at most once: what follows its request is      *)
(* never taken for another one.                                            *)
TypeOK ==
  /\ pcb \in [Pcbs -> Connections]
  /\ slot \in [Slots -> SlotContents]
  /\ fresh \subseteq Slots

Registered(p) == pcb[p].state = "open" /\ pcb[p].arg # None
Slot(p) == slot[pcb[p].arg]
Active(p) == fresh' = fresh \cup {pcb[p].arg}

-----------------------------------------------------------------------------
(* What a callback may do to its connection, now b, and its slot.          *)

(* Mutation: the callbacks stay registered. *)
Mut_Close(p, b) ==
  /\ slot' = [slot EXCEPT ![b.arg] = FreeSlot]
  /\ pcb' = [pcb EXCEPT ![p] = [b EXCEPT !.state = "closing"]]

(* connection_free, then tcp_close.                                        *)
Close(p, b) ==
  /\ slot' = [slot EXCEPT ![b.arg] = FreeSlot]
  /\ pcb' = [pcb EXCEPT ![p] = [b EXCEPT !.state = "closing", !.arg = None]]

(* connection_free, then tcp_abort: an error, or tcp_close failed.         *)
Abort(p) ==
  /\ slot' = [slot EXCEPT ![pcb[p].arg] = FreeSlot]
  /\ pcb' = [pcb EXCEPT ![p] = NoPcb]

(* LwIP takes up to the room it has, or less when it is out of memory.     *)
Write(p, b, c) ==
  \E n \in 0 .. (SendBuffer - b.unacked) :
    /\ n <= c.size - c.queued
    /\ slot' = [slot EXCEPT ![b.arg] = [c EXCEPT !.queued = c.queued + n]]
    /\ pcb' = [pcb EXCEPT ![p] = [b EXCEPT !.unacked = b.unacked + n,
                                           !.unsent = b.unsent - n]]

(* Mutation: closed when all that was queued is acknowledged. *)
Mut_Pump(p, b, c) ==
  \/ (c.acknowledged < c.queued \/ c.queued = 0) /\ Write(p, b, c)
  \/ c.acknowledged = c.queued /\ c.queued > 0 /\ (Close(p, b) \/ Abort(p))
  \/ c.queued < c.size /\ Abort(p)

(* pump_response: writes what it can, gives up on an error of tcp_write,   *)
(* and closes when the whole response is acknowledged.                     *)
Pump(p, b, c) ==
  \/ c.acknowledged < c.size /\ Write(p, b, c)
  \/ c.acknowledged = c.size /\ (Close(p, b) \/ Abort(p))
  \/ c.queued < c.size /\ Abort(p)

(* send_response: the request is done with; too long a response is an      *)
(* error.                                                                  *)
Respond(p) ==
  \/ \E size \in 1 .. ResponseMax :
       Pump(p, [pcb[p] EXCEPT !.answers = @ + 1, !.unsent = size],
            [Slot(p) EXCEPT !.responding = TRUE, !.size = size, !.queued = 0,
                            !.acknowledged = 0])
  \/ Abort(p)

-----------------------------------------------------------------------------
(* LwIP's callbacks.                                                       *)

(* accept_connection: the connection takes a free slot; with none free it  *)
(* is aborted, and nothing has changed.                                    *)
Accept(p) ==
  /\ pcb[p].state = "none"
  /\ \E s \in Slots :
       /\ ~slot[s].in_use
       /\ pcb' = [pcb EXCEPT ![p] = [NoPcb EXCEPT !.state = "open", !.arg = s]]
       /\ slot' = [slot EXCEPT ![s] = [FreeSlot EXCEPT !.in_use = TRUE]]
       /\ fresh' = fresh \cup {s}

(* receive_request, a segment: discarded once there is a response; else    *)
(* the request is still incomplete, or answered: with an error if it is    *)
(* too large or malformed.                                                 *)
Receive(p) ==
  /\ Registered(p)
  /\ Active(p)
  /\ \/ Slot(p).responding /\ UNCHANGED <<slot, pcb>>
     \/ /\ ~Slot(p).responding
        /\ Slot(p).used < RequestMax
        /\ slot' = [slot EXCEPT ![pcb[p].arg].used = @ + 1]
        /\ UNCHANGED pcb
     \/ ~Slot(p).responding /\ Respond(p)

(* receive_request, no packet: the client closed its side, whatever of the *)
(* response is outstanding; or with an error.                              *)
ReceiveEnd(p) ==
  /\ Registered(p)
  /\ Close(p, [pcb[p] EXCEPT !.ended = TRUE]) \/ Abort(p)
  /\ UNCHANGED fresh

(* response_sent: n segments were acknowledged.                            *)
ResponseSent(p) ==
  /\ Registered(p) /\ Slot(p).responding
  /\ \E n \in 1 .. pcb[p].unacked :
       Pump(p, [pcb[p] EXCEPT !.unacked = @ - n], [Slot(p) EXCEPT !.acknowledged = @ + n])
  /\ Active(p)

(* Mutation: a response in progress is not given up. *)
Mut_Poll(p) ==
  /\ Registered(p)
  /\ \/ pcb[p].arg \notin fresh /\ ~Slot(p).responding /\ Abort(p)
     \/ Slot(p).responding /\ Pump(p, pcb[p], Slot(p))
  /\ UNCHANGED fresh

(* connection_poll, once a second: five idle seconds end the connection,   *)
(* and what could not be written is tried again.                           *)
Poll(p) ==
  /\ Registered(p)
  /\ \/ pcb[p].arg \notin fresh /\ Abort(p)
     \/ /\ pcb[p].arg \in fresh
        /\ Slot(p).responding
        /\ Pump(p, pcb[p], Slot(p))
  /\ UNCHANGED fresh

(* connection_error: LwIP gave the connection up, after a reset, lost      *)
(* retransmissions or for its memory.                                      *)
PcbFails(p) ==
  /\ pcb[p].state # "none"
  /\ pcb' = [pcb EXCEPT ![p] = NoPcb]
  /\ slot' = [s \in Slots |-> IF s = pcb[p].arg THEN FreeSlot ELSE slot[s]]
  /\ UNCHANGED fresh

(* LwIP finishes a connection that was closed.                             *)
Closed(p) ==
  /\ pcb[p].state = "closing"
  /\ pcb[p].arg = None
  /\ pcb' = [pcb EXCEPT ![p] = NoPcb]
  /\ UNCHANGED <<slot, fresh>>

(* Five seconds without activity pass for a slot.                          *)
Elapse(s) ==
  /\ s \in fresh
  /\ fresh' = fresh \ {s}
  /\ UNCHANGED <<pcb, slot>>

-----------------------------------------------------------------------------
Init ==
  /\ pcb = [p \in Pcbs |-> NoPcb]
  /\ slot = [s \in Slots |-> FreeSlot]
  /\ fresh = {}

Client(p) == Receive(p) \/ ReceiveEnd(p) \/ ResponseSent(p)

Next ==
  \/ \E p \in Pcbs : Accept(p) \/ Client(p) \/ Poll(p) \/ PcbFails(p) \/ Closed(p)
  \/ \E s \in Slots : Elapse(s)

Spec == Init /\ [][Next]_vars

(* LwIP polls a registered connection every second, and time passes.       *)
FairSpec ==
  /\ Spec
  /\ \A p \in Pcbs : WF_vars(Poll(p))
  /\ \A s \in Slots : WF_vars(Elapse(s))

-----------------------------------------------------------------------------
(* A slot in use belongs to one connection that LwIP still calls back for, *)
(* and no other connection can reach it: none is lost with its connection, *)
(* and no callback of an old connection touches the next one's request.    *)
SlotsOwned ==
  /\ \A s \in Slots : slot[s].in_use <=> \E p \in Pcbs : pcb[p].arg = s
  /\ \A p, q \in Pcbs : pcb[p].arg = pcb[q].arg => p = q \/ pcb[p].arg = None
  /\ \A p \in Pcbs : pcb[p].state = "open" <=> pcb[p].arg # None

(* A connection the board closes of its own accord was given its response, *)
(* whole: a client never takes a truncated answer for a complete one.      *)
AnsweredWhole ==
  \A p \in Pcbs :
    pcb[p].state = "closing" /\ ~pcb[p].ended => pcb[p].answers = 1 /\ pcb[p].unsent = 0

(* A connection whose client has stopped sending and acknowledging gives   *)
(* its slot back: silent clients cannot hold the server for ever.          *)
SlotsReclaimed ==
  \A p \in Pcbs :
    []<><<Client(p)>>_vars \/ (pcb[p].arg # None ~> pcb[p].arg = None)
=============================================================================
