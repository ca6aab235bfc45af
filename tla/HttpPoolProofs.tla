--------------------------- MODULE HttpPoolProofs ---------------------------
(***************************************************************************)
(* What the pool of connections promises, for any number of connections    *)
(* and slots and any sizes: no slot is lost or shared, and a response the  *)
(* board ends was sent whole.                                              *)
(***************************************************************************)
EXTENDS HttpPool, TLAPS

(* What connection b and its slot c know of one response agrees: nothing   *)
(* of it is lost or counted twice between queueing and acknowledgement.    *)
Agree(b, c) ==
  \/ /\ ~c.responding
     /\ b.answers = 0 /\ b.unacked = 0 /\ b.unsent = 0
  \/ /\ c.responding
     /\ b.answers = 1
     /\ c.queued <= c.size /\ b.unsent = c.size - c.queued
     /\ c.acknowledged + b.unacked = c.queued

SlotsAgree == \A p \in Pcbs : pcb[p].arg # None => Agree(pcb[p], slot[pcb[p].arg])

(* The inductive invariant.                                                *)
IndInv == TypeOK /\ SlotsOwned /\ AnsweredWhole /\ SlotsAgree

(* A response that was given, and written to its end.                      *)
Whole(b) == b.state = "closing" /\ ~b.ended => b.answers = 1 /\ b.unsent = 0

(* What a callback leaves of its connection b and slot c: they still       *)
(* belong together, or they have parted and the slot is free.              *)
Leaves(s, b, c) ==
  /\ b \in Connections /\ c \in SlotContents
  /\ \/ b.state = "open" /\ b.arg = s /\ c.in_use /\ Agree(b, c)
     \/ b.state # "open" /\ b.arg = None /\ ~c.in_use /\ Whole(b)

-----------------------------------------------------------------------------
(* The fields of a connection and of a slot.                               *)
LEMMA ConnectionFields ==
  ASSUME NEW b \in Connections
  PROVE  /\ b.state \in States /\ b.arg \in Slots \cup {None}
         /\ b.unacked \in 0 .. SendBuffer /\ b.answers \in 0 .. 1
         /\ b.unsent \in 0 .. ResponseMax /\ b.ended \in BOOLEAN
BY DEF Connections

LEMMA SlotFields ==
  ASSUME NEW c \in SlotContents
  PROVE  /\ c.in_use \in BOOLEAN /\ c.responding \in BOOLEAN
         /\ c.used \in 0 .. RequestMax /\ c.size \in 0 .. ResponseMax
         /\ c.queued \in 0 .. ResponseMax /\ c.acknowledged \in 0 .. ResponseMax
BY DEF SlotContents

(* A free slot and a connection that is none.                              *)
LEMMA Blanks ==
  /\ FreeSlot \in SlotContents /\ ~FreeSlot.in_use /\ ~FreeSlot.responding
  /\ NoPcb \in Connections /\ NoPcb.state = "none" /\ NoPcb.arg = None
  /\ NoPcb.unacked = 0 /\ NoPcb.answers = 0 /\ NoPcb.unsent = 0
BY HttpAssumption DEF FreeSlot, SlotContents, NoPcb, Connections, States

(* What the invariant says of an open connection.                          *)
LEMMA OpenConnection ==
  ASSUME IndInv, NEW p \in Pcbs, pcb[p].state = "open" \/ pcb[p].arg # None
  PROVE  /\ pcb[p] \in Connections /\ pcb[p].state = "open" /\ pcb[p].arg \in Slots
         /\ slot[pcb[p].arg] \in SlotContents /\ slot[pcb[p].arg].in_use
         /\ Agree(pcb[p], slot[pcb[p].arg])
<1>1. pcb[p] \in Connections
  BY DEF IndInv, TypeOK
<1>2. pcb[p].state = "open" /\ pcb[p].arg # None
  BY DEF IndInv, SlotsOwned
<1>3. pcb[p].arg \in Slots
  BY <1>1, <1>2, ConnectionFields
<1> QED BY <1>1, <1>2, <1>3 DEF IndInv, TypeOK, SlotsOwned, SlotsAgree

(* A callback that leaves its connection and slot in order leaves the      *)
(* whole pool in order: it touches no other.                               *)
LEMMA CallbackKeepsIndInv ==
  ASSUME IndInv, NEW p \in Pcbs, NEW b, NEW c, pcb[p].arg \in Slots,
         Leaves(pcb[p].arg, b, c),
         pcb' = [pcb EXCEPT ![p] = b], slot' = [slot EXCEPT ![pcb[p].arg] = c],
         fresh' \subseteq Slots
  PROVE  IndInv'
<1> DEFINE s == pcb[p].arg
<1>1. b \in Connections /\ c \in SlotContents
  BY DEF Leaves
<1>2. TypeOK'
  BY <1>1 DEF IndInv, TypeOK
<1>3. pcb'[p] = b /\ slot'[s] = c
  BY DEF IndInv, TypeOK
<1>4. \A q \in Pcbs : q # p => pcb'[q] = pcb[q] /\ pcb[q].arg # s
  BY HttpAssumption DEF IndInv, TypeOK, SlotsOwned
<1>5. \A t \in Slots : t # s => slot'[t] = slot[t]
  BY DEF IndInv, TypeOK
<1>6. \/ b.state = "open" /\ b.arg = s /\ c.in_use /\ Agree(b, c)
      \/ b.state # "open" /\ b.arg = None /\ ~c.in_use /\ Whole(b)
  BY DEF Leaves
<1>7. \A q \in Pcbs : pcb[q].arg = None \/ pcb[q].arg \in Slots
  BY ConnectionFields DEF IndInv, TypeOK
<1>8. SlotsOwned'
  <2>1. ASSUME NEW t \in Slots PROVE slot'[t].in_use <=> \E q \in Pcbs : pcb'[q].arg = t
    <3>1. CASE t = s
      BY <1>3, <1>4, <1>6, <3>1, HttpAssumption
    <3>2. CASE t # s
      <4>1. slot'[t].in_use <=> \E q \in Pcbs : pcb[q].arg = t
        BY <1>5, <3>2 DEF IndInv, SlotsOwned
      <4>2. \A q \in Pcbs : pcb[q].arg = t <=> pcb'[q].arg = t
        BY <1>3, <1>4, <1>6, <3>2, HttpAssumption
      <4> QED BY <4>1, <4>2
    <3> QED BY <3>1, <3>2
  <2>2. ASSUME NEW q \in Pcbs, NEW r \in Pcbs, pcb'[q].arg = pcb'[r].arg
        PROVE  q = r \/ pcb'[q].arg = None
    <3>1. CASE q # p /\ r # p
      BY <1>4, <2>2, <3>1 DEF IndInv, SlotsOwned
    <3>2. CASE q = p \/ r = p
      BY <1>3, <1>4, <1>6, <2>2, <3>2
    <3> QED BY <3>1, <3>2
  <2>3. ASSUME NEW q \in Pcbs PROVE pcb'[q].state = "open" <=> pcb'[q].arg # None
    <3>1. CASE q = p
      BY <1>3, <1>6, <3>1, HttpAssumption
    <3>2. CASE q # p
      BY <1>4, <3>2 DEF IndInv, SlotsOwned
    <3> QED BY <3>1, <3>2
  <2> QED BY <2>1, <2>2, <2>3 DEF SlotsOwned
<1>9. AnsweredWhole'
  <2> SUFFICES ASSUME NEW q \in Pcbs PROVE Whole(pcb'[q])
    BY DEF AnsweredWhole, Whole
  <2>1. CASE q = p
    BY <1>3, <1>6, <2>1 DEF Whole
  <2>2. CASE q # p
    BY <1>4, <2>2 DEF IndInv, AnsweredWhole, Whole
  <2> QED BY <2>1, <2>2
<1>10. SlotsAgree'
  <2> SUFFICES ASSUME NEW q \in Pcbs, pcb'[q].arg # None
               PROVE  Agree(pcb'[q], slot'[pcb'[q].arg])
    BY DEF SlotsAgree, Agree
  <2>1. CASE q = p
    BY <1>3, <1>6, <2>1
  <2>2. CASE q # p
    BY <1>4, <1>5, <1>7, <2>2 DEF IndInv, SlotsAgree
  <2> QED BY <2>1, <2>2
<1> QED BY <1>2, <1>8, <1>9, <1>10 DEF IndInv

-----------------------------------------------------------------------------
(* An open connection is closed with its response whole or its client      *)
(* gone, or aborted.                                                       *)
LEMMA CloseKeepsIndInv ==
  ASSUME IndInv, NEW p \in Pcbs, pcb[p].state = "open", NEW b \in Connections,
         b.arg = pcb[p].arg, b.ended \/ (b.answers = 1 /\ b.unsent = 0),
         Close(p, b), fresh' \subseteq Slots
  PROVE  IndInv'
<1> DEFINE d == [b EXCEPT !.state = "closing", !.arg = None]
<1>1. d \in Connections /\ d.state = "closing" /\ d.arg = None /\ Whole(d)
  BY ConnectionFields DEF Connections, States, Whole
<1>2. Leaves(pcb[p].arg, d, FreeSlot)
  BY <1>1, Blanks DEF Leaves
<1>3. pcb' = [pcb EXCEPT ![p] = d] /\ slot' = [slot EXCEPT ![pcb[p].arg] = FreeSlot]
  BY DEF Close
<1> HIDE DEF d
<1> QED BY <1>2, <1>3, OpenConnection, CallbackKeepsIndInv

LEMMA AbortKeepsIndInv ==
  ASSUME IndInv, NEW p \in Pcbs, pcb[p].state = "open", Abort(p), fresh' \subseteq Slots
  PROVE  IndInv'
<1>1. Leaves(pcb[p].arg, NoPcb, FreeSlot)
  BY Blanks DEF Leaves, Whole
<1> QED BY <1>1, OpenConnection, CallbackKeepsIndInv DEF Abort

(* pump_response, from any connection and slot that agree on a response.   *)
LEMMA PumpKeepsIndInv ==
  ASSUME IndInv, NEW p \in Pcbs, pcb[p].state = "open",
         NEW b \in Connections, b.state = "open", b.arg = pcb[p].arg,
         NEW c \in SlotContents, c.in_use, c.responding, Agree(b, c),
         Pump(p, b, c), fresh' \subseteq Slots
  PROVE  IndInv'
<1>1. /\ b.unacked \in 0 .. SendBuffer /\ b.answers = 1 /\ b.unsent = c.size - c.queued
      /\ c.queued <= c.size /\ c.acknowledged + b.unacked = c.queued
      /\ c.size \in 0 .. ResponseMax /\ c.queued \in 0 .. ResponseMax
      /\ c.acknowledged \in 0 .. ResponseMax
  BY ConnectionFields, SlotFields DEF Agree
<1>2. CASE Write(p, b, c)
  <2>1. PICK n \in 0 .. (SendBuffer - b.unacked) :
          /\ n <= c.size - c.queued
          /\ slot' = [slot EXCEPT ![b.arg] = [c EXCEPT !.queued = c.queued + n]]
          /\ pcb' = [pcb EXCEPT ![p] = [b EXCEPT !.unacked = b.unacked + n,
                                                 !.unsent = b.unsent - n]]
    BY <1>2 DEF Write
  <2> DEFINE d == [b EXCEPT !.unacked = b.unacked + n, !.unsent = b.unsent - n]
             e == [c EXCEPT !.queued = c.queued + n]
  <2>2. /\ d \in Connections /\ d.state = "open" /\ d.arg = pcb[p].arg
        /\ d.unacked = b.unacked + n /\ d.unsent = b.unsent - n /\ d.answers = 1
    <3>1. b.unacked + n \in 0 .. SendBuffer /\ b.unsent - n \in 0 .. ResponseMax
      BY <1>1, <2>1, HttpAssumption
    <3>2. d.unacked = b.unacked + n /\ d.unsent = b.unsent - n
      BY DEF Connections
    <3> QED BY <1>1, <3>1, <3>2 DEF Connections
  <2>3. /\ e \in SlotContents /\ e.in_use /\ e.responding /\ e.queued = c.queued + n
        /\ e.size = c.size /\ e.acknowledged = c.acknowledged
    BY <1>1, <2>1, HttpAssumption DEF SlotContents
  <2> HIDE DEF d, e
  <2>4. Agree(d, e)
    BY <1>1, <2>1, <2>2, <2>3 DEF Agree
  <2>5. Leaves(pcb[p].arg, d, e)
    BY <2>2, <2>3, <2>4 DEF Leaves
  <2>6. pcb' = [pcb EXCEPT ![p] = d] /\ slot' = [slot EXCEPT ![pcb[p].arg] = e]
    BY <2>1 DEF d, e
  <2> QED BY <2>5, <2>6, OpenConnection, CallbackKeepsIndInv
<1>3. CASE c.acknowledged = c.size /\ Close(p, b)
  <2>1. b.unsent = 0
    BY <1>1, <1>3
  <2> QED BY <1>1, <1>3, <2>1, CloseKeepsIndInv
<1>4. CASE Abort(p)
  BY <1>4, AbortKeepsIndInv
<1> QED BY <1>2, <1>3, <1>4 DEF Pump

(* send_response, on a request that was not answered yet.                  *)
LEMMA RespondKeepsIndInv ==
  ASSUME IndInv, NEW p \in Pcbs, pcb[p].state = "open", ~Slot(p).responding, Respond(p),
         fresh' \subseteq Slots
  PROVE  IndInv'
<1>1. CASE Abort(p)
  BY <1>1, AbortKeepsIndInv
<1>2. ASSUME NEW size \in 1 .. ResponseMax,
             Pump(p, [pcb[p] EXCEPT !.answers = @ + 1, !.unsent = size],
                  [Slot(p) EXCEPT !.responding = TRUE, !.size = size, !.queued = 0,
                                  !.acknowledged = 0])
      PROVE  IndInv'
  <2> DEFINE b == [pcb[p] EXCEPT !.answers = @ + 1, !.unsent = size]
             c == [Slot(p) EXCEPT !.responding = TRUE, !.size = size, !.queued = 0,
                                  !.acknowledged = 0]
  <2>1. /\ pcb[p] \in Connections /\ Slot(p) \in SlotContents /\ Slot(p).in_use
        /\ pcb[p].answers = 0 /\ pcb[p].unacked = 0
    BY OpenConnection DEF Slot, Agree
  <2>2. /\ b \in Connections /\ b.state = "open" /\ b.arg = pcb[p].arg
        /\ b.answers = 1 /\ b.unacked = 0 /\ b.unsent = size
    <3>1. /\ size \in 0 .. ResponseMax /\ pcb[p].answers + 1 = 1 /\ 1 \in 0 .. 1
      BY <2>1, HttpAssumption
    <3>2. b = [pcb[p] EXCEPT !.answers = 1, !.unsent = size]
      BY <3>1
    <3> HIDE DEF b
    <3> QED BY <2>1, <3>1, <3>2 DEF Connections
  <2>3. /\ c \in SlotContents /\ c.in_use /\ c.responding /\ c.size = size
        /\ c.queued = 0 /\ c.acknowledged = 0
    <3>1. size \in 0 .. ResponseMax /\ 0 \in 0 .. ResponseMax
      BY HttpAssumption
    <3> QED BY <2>1, <3>1 DEF SlotContents
  <2>4. Pump(p, b, c)
    BY <1>2
  <2> HIDE DEF b, c
  <2>5. Agree(b, c)
    BY <2>2, <2>3 DEF Agree
  <2> QED BY <2>2, <2>3, <2>4, <2>5, PumpKeepsIndInv
<1> QED BY <1>1, <1>2 DEF Respond

-----------------------------------------------------------------------------
LEMMA InitIndInv == Init => IndInv
<1> SUFFICES ASSUME Init PROVE IndInv
  OBVIOUS
<1>1. \A p \in Pcbs : pcb[p] = NoPcb
  BY DEF Init
<1>2. \A s \in Slots : slot[s] = FreeSlot
  BY DEF Init
<1>3. TypeOK
  BY Blanks DEF Init, TypeOK
<1>4. SlotsOwned
  BY <1>1, <1>2, Blanks, HttpAssumption DEF SlotsOwned
<1> QED BY <1>1, <1>3, <1>4, Blanks DEF IndInv, AnsweredWhole, SlotsAgree

(* A connection is new to LwIP and takes a slot that was free: no other    *)
(* connection knew it.                                                     *)
LEMMA AcceptKeepsIndInv ==
  ASSUME IndInv, NEW p \in Pcbs, Accept(p) PROVE IndInv'
<1>1. PICK s \in Slots :
        /\ ~slot[s].in_use
        /\ pcb' = [pcb EXCEPT ![p] = [NoPcb EXCEPT !.state = "open", !.arg = s]]
        /\ slot' = [slot EXCEPT ![s] = [FreeSlot EXCEPT !.in_use = TRUE]]
        /\ fresh' = fresh \cup {s}
  BY DEF Accept
<1> DEFINE b == [NoPcb EXCEPT !.state = "open", !.arg = s]
           c == [FreeSlot EXCEPT !.in_use = TRUE]
<1>2. /\ b \in Connections /\ b.state = "open" /\ b.arg = s
      /\ b.unacked = 0 /\ b.answers = 0 /\ b.unsent = 0
  BY Blanks DEF Connections, States
<1>3. c \in SlotContents /\ c.in_use /\ ~c.responding
  BY Blanks DEF SlotContents
<1>4. pcb' = [pcb EXCEPT ![p] = b] /\ slot' = [slot EXCEPT ![s] = c]
  BY <1>1
<1> HIDE DEF b, c
<1>5. TypeOK'
  <2>1. fresh' \subseteq Slots
    BY <1>1 DEF IndInv, TypeOK
  <2> QED BY <1>2, <1>3, <1>4, <2>1 DEF IndInv, TypeOK
<1>6. pcb'[p] = b /\ slot'[s] = c
  BY <1>4 DEF IndInv, TypeOK
<1>7. \A q \in Pcbs : q # p => pcb'[q] = pcb[q]
  BY <1>4 DEF IndInv, TypeOK
<1>8. \A t \in Slots : t # s => slot'[t] = slot[t]
  BY <1>4 DEF IndInv, TypeOK
<1>9. \A q \in Pcbs : pcb[q].arg # s
  BY <1>1 DEF IndInv, SlotsOwned
<1>10. pcb[p].arg = None
  BY DEF Accept, IndInv, SlotsOwned
<1>11. SlotsOwned'
  <2>1. ASSUME NEW t \in Slots PROVE slot'[t].in_use <=> \E q \in Pcbs : pcb'[q].arg = t
    <3>1. CASE t = s
      BY <1>2, <1>3, <1>6, <3>1
    <3>2. CASE t # s
      <4>1. slot'[t].in_use <=> \E q \in Pcbs : pcb[q].arg = t
        BY <1>8, <3>2 DEF IndInv, SlotsOwned
      <4>2. \A q \in Pcbs : pcb[q].arg = t <=> pcb'[q].arg = t
        BY <1>2, <1>6, <1>7, <1>10, <3>2, HttpAssumption
      <4> QED BY <4>1, <4>2
    <3> QED BY <3>1, <3>2
  <2>2. ASSUME NEW q \in Pcbs, NEW r \in Pcbs, pcb'[q].arg = pcb'[r].arg
        PROVE  q = r \/ pcb'[q].arg = None
    <3>1. CASE q # p /\ r # p
      BY <1>7, <2>2, <3>1 DEF IndInv, SlotsOwned
    <3>2. CASE q = p \/ r = p
      BY <1>2, <1>6, <1>7, <1>9, <2>2, <3>2
    <3> QED BY <3>1, <3>2
  <2>3. ASSUME NEW q \in Pcbs PROVE pcb'[q].state = "open" <=> pcb'[q].arg # None
    <3>1. CASE q = p
      BY <1>2, <1>6, <3>1, HttpAssumption
    <3>2. CASE q # p
      BY <1>7, <3>2 DEF IndInv, SlotsOwned
    <3> QED BY <3>1, <3>2
  <2> QED BY <2>1, <2>2, <2>3 DEF SlotsOwned
<1>12. AnsweredWhole'
  BY <1>2, <1>6, <1>7 DEF IndInv, AnsweredWhole
<1>13. SlotsAgree'
  <2> SUFFICES ASSUME NEW q \in Pcbs, pcb'[q].arg # None
               PROVE  Agree(pcb'[q], slot'[pcb'[q].arg])
    BY DEF SlotsAgree, Agree
  <2>1. CASE q = p
    BY <1>2, <1>3, <1>6, <2>1 DEF Agree
  <2>2. CASE q # p
    <3>1. pcb'[q] = pcb[q] /\ pcb[q].arg # s /\ pcb[q].arg # None
      BY <1>7, <1>9, <2>2
    <3>2. slot'[pcb[q].arg] = slot[pcb[q].arg]
      BY <1>8, <3>1, OpenConnection
    <3> QED BY <3>1, <3>2 DEF IndInv, SlotsAgree
  <2> QED BY <2>1, <2>2
<1> QED BY <1>5, <1>11, <1>12, <1>13 DEF IndInv

(* A connection that goes without a slot takes nothing with it.            *)
LEMMA GoneKeepsIndInv ==
  ASSUME IndInv, NEW p \in Pcbs, pcb[p].arg = None, pcb' = [pcb EXCEPT ![p] = NoPcb],
         UNCHANGED <<slot, fresh>>
  PROVE  IndInv'
<1>1. TypeOK'
  BY Blanks DEF IndInv, TypeOK
<1>2. pcb'[p] = NoPcb
  BY DEF IndInv, TypeOK
<1>3. \A q \in Pcbs : q # p => pcb'[q] = pcb[q]
  BY DEF IndInv, TypeOK
<1>4. \A q \in Pcbs : pcb'[q].arg = pcb[q].arg
  BY <1>2, <1>3, Blanks
<1>5. SlotsOwned'
  <2>1. \A q \in Pcbs : pcb'[q].state = "open" <=> pcb'[q].arg # None
    BY <1>2, <1>3, Blanks DEF IndInv, SlotsOwned
  <2> QED BY <1>4, <2>1 DEF IndInv, SlotsOwned
<1>6. AnsweredWhole'
  BY <1>2, <1>3, Blanks DEF IndInv, AnsweredWhole
<1>7. SlotsAgree'
  BY <1>2, <1>3, Blanks DEF IndInv, SlotsAgree
<1> QED BY <1>1, <1>5, <1>6, <1>7 DEF IndInv

LEMMA PcbFailsKeepsIndInv ==
  ASSUME IndInv, NEW p \in Pcbs, PcbFails(p) PROVE IndInv'
<1>1. CASE pcb[p].arg = None
  <2>1. slot' = slot
    BY <1>1, HttpAssumption DEF PcbFails, IndInv, TypeOK
  <2> QED BY <1>1, <2>1, GoneKeepsIndInv DEF PcbFails
<1>2. CASE pcb[p].arg # None
  <2>1. pcb[p].state = "open"
    BY <1>2, OpenConnection
  <2>2. slot' = [slot EXCEPT ![pcb[p].arg] = FreeSlot]
    BY DEF PcbFails, IndInv, TypeOK
  <2>3. fresh' \subseteq Slots
    BY DEF PcbFails, IndInv, TypeOK
  <2> QED BY <2>1, <2>2, <2>3, AbortKeepsIndInv DEF PcbFails, Abort
<1> QED BY <1>1, <1>2

(* Neither LwIP's calls nor the passing of time break the invariant.       *)
LEMMA ReceiveKeepsIndInv ==
  ASSUME IndInv, NEW p \in Pcbs, Receive(p) PROVE IndInv'
<1>1. /\ pcb[p].state = "open" /\ pcb[p].arg \in Slots /\ fresh' \subseteq Slots
      /\ pcb[p] \in Connections /\ Slot(p) \in SlotContents /\ Slot(p).in_use
      /\ Agree(pcb[p], Slot(p))
  BY OpenConnection DEF Receive, Registered, Active, Slot, IndInv, TypeOK
<1>2. CASE UNCHANGED <<slot, pcb>>
  BY <1>1, <1>2 DEF IndInv, TypeOK, SlotsOwned, AnsweredWhole, SlotsAgree
<1>3. CASE /\ ~Slot(p).responding /\ Slot(p).used < RequestMax
           /\ slot' = [slot EXCEPT ![pcb[p].arg].used = @ + 1]
           /\ UNCHANGED pcb
  <2> DEFINE c == [Slot(p) EXCEPT !.used = Slot(p).used + 1]
  <2>1. c \in SlotContents /\ c.in_use /\ ~c.responding
    BY <1>1, <1>3, HttpAssumption DEF SlotContents
  <2>2. slot' = [slot EXCEPT ![pcb[p].arg] = c]
    BY <1>3 DEF Slot
  <2> HIDE DEF c
  <2>3. pcb' = [pcb EXCEPT ![p] = pcb[p]]
    BY <1>3 DEF IndInv, TypeOK
  <2>4. Agree(pcb[p], c)
    BY <1>1, <1>3, <2>1 DEF Agree
  <2>5. Leaves(pcb[p].arg, pcb[p], c)
    BY <1>1, <2>1, <2>4 DEF Leaves
  <2> QED BY <1>1, <2>2, <2>3, <2>5, CallbackKeepsIndInv
<1>4. CASE ~Slot(p).responding /\ Respond(p)
  BY <1>1, <1>4, RespondKeepsIndInv
<1> QED BY <1>2, <1>3, <1>4 DEF Receive

LEMMA ReceiveEndKeepsIndInv ==
  ASSUME IndInv, NEW p \in Pcbs, ReceiveEnd(p) PROVE IndInv'
<1>1. pcb[p].state = "open" /\ pcb[p] \in Connections /\ fresh' \subseteq Slots
  BY OpenConnection DEF ReceiveEnd, Registered, IndInv, TypeOK
<1> DEFINE b == [pcb[p] EXCEPT !.ended = TRUE]
<1>2. b \in Connections /\ b.arg = pcb[p].arg /\ b.ended
  BY <1>1 DEF Connections
<1>3. Close(p, b) \/ Abort(p)
  BY DEF ReceiveEnd
<1> HIDE DEF b
<1> QED BY <1>1, <1>2, <1>3, CloseKeepsIndInv, AbortKeepsIndInv

LEMMA ResponseSentKeepsIndInv ==
  ASSUME IndInv, NEW p \in Pcbs, ResponseSent(p) PROVE IndInv'
<1>1. PICK n \in 1 .. pcb[p].unacked :
        Pump(p, [pcb[p] EXCEPT !.unacked = @ - n], [Slot(p) EXCEPT !.acknowledged = @ + n])
  BY DEF ResponseSent
<1>2. /\ pcb[p].state = "open" /\ fresh' \subseteq Slots
      /\ pcb[p] \in Connections /\ Slot(p) \in SlotContents /\ Slot(p).in_use
      /\ Slot(p).responding /\ Agree(pcb[p], Slot(p))
  BY OpenConnection DEF ResponseSent, Registered, Active, Slot, IndInv, TypeOK
<1> DEFINE b == [pcb[p] EXCEPT !.unacked = @ - n]
           c == [Slot(p) EXCEPT !.acknowledged = @ + n]
<1>3. /\ pcb[p].unacked \in 0 .. SendBuffer /\ pcb[p].answers = 1
      /\ pcb[p].unsent = Slot(p).size - Slot(p).queued /\ Slot(p).queued <= Slot(p).size
      /\ Slot(p).acknowledged + pcb[p].unacked = Slot(p).queued
      /\ Slot(p).acknowledged \in 0 .. ResponseMax /\ Slot(p).queued \in 0 .. ResponseMax
      /\ Slot(p).size \in 0 .. ResponseMax
  BY <1>2, ConnectionFields, SlotFields DEF Agree
<1>4. /\ b \in Connections /\ b.state = "open" /\ b.arg = pcb[p].arg /\ b.answers = 1
      /\ b.unacked = pcb[p].unacked - n /\ b.unsent = pcb[p].unsent
  BY <1>2, <1>3, HttpAssumption DEF Connections
<1>5. /\ c \in SlotContents /\ c.in_use /\ c.responding /\ c.queued = Slot(p).queued
      /\ c.size = Slot(p).size /\ c.acknowledged = Slot(p).acknowledged + n
  BY <1>2, <1>3, HttpAssumption DEF SlotContents
<1>6. Pump(p, b, c)
  BY <1>1
<1> HIDE DEF b, c
<1>7. Agree(b, c)
  BY <1>3, <1>4, <1>5, HttpAssumption DEF Agree
<1> QED BY <1>2, <1>4, <1>5, <1>6, <1>7, PumpKeepsIndInv

LEMMA PollKeepsIndInv ==
  ASSUME IndInv, NEW p \in Pcbs, Poll(p) PROVE IndInv'
<1>1. /\ pcb[p].state = "open" /\ fresh' \subseteq Slots
      /\ pcb[p] \in Connections /\ Slot(p) \in SlotContents /\ Slot(p).in_use
      /\ Agree(pcb[p], Slot(p))
  BY OpenConnection DEF Poll, Registered, Slot, IndInv, TypeOK
<1>2. CASE Abort(p)
  BY <1>1, <1>2, AbortKeepsIndInv
<1>3. CASE Slot(p).responding /\ Pump(p, pcb[p], Slot(p))
  BY <1>1, <1>3, PumpKeepsIndInv
<1> QED BY <1>2, <1>3 DEF Poll

LEMMA NextIndInv == IndInv /\ [Next]_vars => IndInv'
<1> SUFFICES ASSUME IndInv, [Next]_vars PROVE IndInv'
  OBVIOUS
<1>1. ASSUME NEW p \in Pcbs, Accept(p) PROVE IndInv'
  BY <1>1, AcceptKeepsIndInv
<1>2. ASSUME NEW p \in Pcbs, Client(p) PROVE IndInv'
  BY <1>2, ReceiveKeepsIndInv, ReceiveEndKeepsIndInv, ResponseSentKeepsIndInv DEF Client
<1>3. ASSUME NEW p \in Pcbs, Poll(p) PROVE IndInv'
  BY <1>3, PollKeepsIndInv
<1>4. ASSUME NEW p \in Pcbs, PcbFails(p) PROVE IndInv'
  BY <1>4, PcbFailsKeepsIndInv
<1>5. ASSUME NEW p \in Pcbs, Closed(p) PROVE IndInv'
  BY <1>5, GoneKeepsIndInv DEF Closed
<1>6. ASSUME NEW s \in Slots, Elapse(s) PROVE IndInv'
  BY <1>6 DEF Elapse, IndInv, TypeOK, SlotsOwned, AnsweredWhole, SlotsAgree
<1>7. CASE UNCHANGED vars
  BY <1>7 DEF vars, IndInv, TypeOK, SlotsOwned, AnsweredWhole, SlotsAgree
<1> QED BY <1>1, <1>2, <1>3, <1>4, <1>5, <1>6, <1>7 DEF Next

(* The invariant that the theorems follow from.                            *)
THEOREM Invariance == Spec => []IndInv
BY InitIndInv, NextIndInv, PTL DEF Spec

-----------------------------------------------------------------------------

(* Connections and slots always have their types: in particular, what is   *)
(* queued fits the response and the send buffer, and nothing is answered   *)
(* twice.                                                                  *)
THEOREM HttpTypeCorrect == Spec => []TypeOK
<1>1. IndInv => TypeOK
  BY DEF IndInv
<1> QED BY <1>1, Invariance, PTL

(* No slot is lost with its connection, and none is shared.                *)
THEOREM SlotsAreOwned == Spec => []SlotsOwned
<1>1. IndInv => SlotsOwned
  BY DEF IndInv
<1> QED BY <1>1, Invariance, PTL

(* A response the board ends was sent whole.                               *)
THEOREM AnswersAreWhole == Spec => []AnsweredWhole
<1>1. IndInv => AnsweredWhole
  BY DEF IndInv
<1> QED BY <1>1, Invariance, PTL
=============================================================================
