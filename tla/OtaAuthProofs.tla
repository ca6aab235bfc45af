--------------------------- MODULE OtaAuthProofs ----------------------------
(***************************************************************************)
(* What authentication promises, for any number of hosts, calls, attempts  *)
(* and resets: nothing is carried out twice or out of order, and an answer *)
(* is for the attempt that gets it.                                        *)
(***************************************************************************)
EXTENDS OtaAuth, TLAPS

(* Numbers of one boot are ordered by the board, boots by their nonces.    *)
Before(m, n) == m.nonce < n.nonce \/ (m.nonce = n.nonce /\ m.seq < n.seq)
NotAfter(m, n) == m.nonce < n.nonce \/ (m.nonce = n.nonce /\ m.seq <= n.seq)

(* Requests carry numbers the board has named, in the order of attempts.   *)
SentInOrder ==
  /\ \A m \in sent :
       /\ m.id <= client[m.host].id /\ m.call <= client[m.host].call
       /\ 1 <= m.nonce /\ m.nonce <= boot /\ 1 <= m.seq
       /\ m.nonce = boot => ready /\ m.seq <= sequence
       /\ client[m.host].nonce # NoNonce => NotAfter(m, client[m.host])
       /\ m.call = client[m.host].call => m.action = client[m.host].action
  /\ \A m, n \in sent : m.host = n.host =>
       /\ m.id = n.id => m = n
       /\ m.id < n.id => NotAfter(m, n)
       /\ m.id # n.id /\ m.call = n.call => m.action \in Retried

(* Where a client stands towards its session and the requests it has sent. *)
SessionKnown ==
  /\ ready => 1 <= sequence
  /\ \A h \in Hosts :
       LET c == client[h] IN
       /\ c.nonce <= boot
       /\ c.nonce # NoNonce => 1 <= c.seq
       /\ c.nonce = boot => ready /\ c.seq <= sequence
       /\ c.phase = "waiting" => c.nonce # NoNonce /\ Attempt(h) \in sent
       /\ c.phase = "waiting" /\ reply[h] \in {"signed", "damaged"} /\ c.nonce = boot
            => c.seq < sequence
       /\ c.phase \in {"calling", "waiting"} => 1 <= c.left
       /\ c.phase \in {"calling", "waiting"} /\ c.action \notin Retried => c.left = 1
       /\ c.phase = "calling" /\ c.action \notin Retried =>
            \A m \in sent : m.host = h => m.call < c.call

(* The board accepts numbers one after the other.                          *)
LogInOrder ==
  /\ \A i \in 1 .. Len(log) :
       /\ log[i] \in sent
       /\ log[i].nonce = boot => log[i].seq < sequence
  /\ \A i, j \in 1 .. Len(log) : i < j => Before(log[i], log[j])
  /\ \A k \in 1 .. sequence - 1 :
       \E i \in 1 .. Len(log) : log[i].nonce = boot /\ log[i].seq = k

IndInv ==
  /\ TypeOK
  /\ SentInOrder
  /\ SessionKnown
  /\ LogInOrder
  /\ GenuineAnswer
  /\ RefusedForCause

-----------------------------------------------------------------------------

(* What TypeOK says of the fields.                                         *)
LEMMA Fields ==
  ASSUME TypeOK
  PROVE  /\ boot \in Nat /\ boot # 0 /\ sequence \in Nat
         /\ \A h \in Hosts :
              /\ client[h].nonce \in Nat /\ client[h].seq \in Nat
              /\ client[h].call \in Nat /\ client[h].id \in Nat
              /\ client[h].left \in 0 .. MaxAttempts /\ client[h].left \in Nat
              /\ client[h].action \in Actions
         /\ \A m \in sent :
              /\ m \in Request /\ m.host \in Hosts /\ m.action \in Actions
              /\ m.nonce \in Nat /\ m.seq \in Nat
              /\ m.call \in Nat /\ m.id \in Nat
<1>1. boot \in Nat /\ boot # 0 /\ sequence \in Nat
  BY AuthAssumption DEF TypeOK
<1>2. ASSUME NEW h \in Hosts
      PROVE  /\ client[h].nonce \in Nat /\ client[h].seq \in Nat
             /\ client[h].call \in Nat /\ client[h].id \in Nat
             /\ client[h].left \in 0 .. MaxAttempts /\ client[h].left \in Nat
             /\ client[h].action \in Actions
  <2>1. client[h] \in Session
    BY DEF TypeOK
  <2>2. client[h].left \in 0 .. MaxAttempts
    BY <2>1 DEF Session
  <2>3. client[h].left \in Nat
    BY <2>2
  <2>4. /\ client[h].nonce \in Nat /\ client[h].seq \in Nat
        /\ client[h].call \in Nat /\ client[h].id \in Nat
        /\ client[h].action \in Actions
    BY <2>1 DEF Session
  <2> QED BY <2>2, <2>3, <2>4
<1>3. ASSUME NEW m \in sent
      PROVE  /\ m \in Request /\ m.host \in Hosts /\ m.action \in Actions
             /\ m.nonce \in Nat /\ m.seq \in Nat
             /\ m.call \in Nat /\ m.id \in Nat
  BY DEF TypeOK, Request
<1> QED BY <1>1, <1>2, <1>3

LEMMA InitIndInv == Init => IndInv
<1> SUFFICES ASSUME Init PROVE IndInv
  OBVIOUS
<1>1. TypeOK
  <2>1. (CHOOSE a \in Actions : TRUE) \in Actions
    BY AuthAssumption
  <2>2. client \in [Hosts -> Session]
    <3> DEFINE a0 == CHOOSE a \in Actions : TRUE
    <3>1. a0 \in Actions
      BY <2>1
    <3>2. client = [h \in Hosts |-> [phase |-> "idle", nonce |-> 0, seq |-> 0,
                                     call |-> 0, id |-> 0, left |-> 0, action |-> a0]]
      BY DEF Init, NoNonce
    <3> HIDE DEF a0
    <3>3. 0 \in 0 .. MaxAttempts
      BY AuthAssumption
    <3>4. "idle" \in Phases
      BY DEF Phases
    <3> QED BY <3>1, <3>2, <3>3, <3>4 DEF Session
  <2>3. boot \in Nat \ {0} /\ ready \in BOOLEAN /\ sequence \in 0 .. MaxSequence
    <3>1. MaxSequence \in Nat
      BY AuthAssumption
    <3>2. boot = 1 /\ ready = FALSE /\ sequence = 0
      BY DEF Init
    <3>3. ready \in BOOLEAN
      BY <3>2
    <3>4. 1 \in Nat \ {0} /\ 0 \in 0 .. MaxSequence
      BY <3>1
    <3> QED BY <3>2, <3>3, <3>4
  <2>5. sent \subseteq Request /\ log \in Seq(Request)
    BY DEF Init
  <2>4. reply \in [Hosts -> {"none", "signed", "refused", "damaged"}]
    BY DEF Init
  <2> QED BY <2>2, <2>3, <2>4, <2>5 DEF TypeOK
<1>2. SentInOrder
  BY DEF SentInOrder, Init
<1>3. SessionKnown
  BY DEF SessionKnown, Init, NoNonce
<1>4. LogInOrder
  BY DEF LogInOrder, Init
<1>5. GenuineAnswer /\ RefusedForCause
  BY DEF GenuineAnswer, RefusedForCause, Init
<1> QED BY <1>1, <1>2, <1>3, <1>4, <1>5 DEF IndInv

(* An attempt changes with its client only.                                *)
LEMMA SameAttempt ==
  ASSUME NEW h \in Hosts, client'[h] = client[h]
  PROVE  Attempt(h)' = Attempt(h)
BY DEF Attempt

(* One client at a time changes.                                           *)
LEMMA Update ==
  ASSUME client \in [Hosts -> Session], NEW h \in Hosts, NEW v \in Session,
         client' = [client EXCEPT ![h] = v]
  PROVE  /\ client' \in [Hosts -> Session] /\ client'[h] = v
         /\ \A g \in Hosts : g # h => client'[g] = client[g]
OBVIOUS

(* Only a client that waits or is answered has an answer to account for.   *)
LEMMA NothingNew ==
  ASSUME GenuineAnswer, RefusedForCause, UNCHANGED <<boot, reply, log>>,
         \A h \in Hosts : client'[h].phase \in {"waiting", "answered"} =>
           client'[h] = client[h]
  PROVE  GenuineAnswer' /\ RefusedForCause'
<1>1. GenuineAnswer'
  BY DEF GenuineAnswer
<1>2. RefusedForCause'
  BY DEF RefusedForCause
<1> QED BY <1>1, <1>2

LEMMA CallKeeps ==
  ASSUME IndInv, NEW h \in Hosts, NEW a \in Actions, NEW renew \in BOOLEAN,
         Call(h, a, renew)
  PROVE  IndInv'
<1> DEFINE c == client[h]
           d == client'[h]
<1>0. UNCHANGED <<boot, ready, sequence, reply, sent, log>>
  BY DEF Call
<1>1. c \in Session /\ client \in [Hosts -> Session]
  BY DEF TypeOK, IndInv
<1>2. PICK l \in 0 .. MaxAttempts, x \in Nat :
        /\ 1 <= l /\ (a \notin Retried => l = 1)
        /\ x = c.nonce \/ x = NoNonce
        /\ client' = [client EXCEPT ![h] =
             [client[h] EXCEPT !.phase = "calling", !.call = client[h].call + 1,
                               !.action = a, !.nonce = x, !.left = l]]
  <2>1. /\ c.nonce \in Nat /\ NoNonce \in Nat
        /\ 1 \in 0 .. MaxAttempts /\ MaxAttempts \in 0 .. MaxAttempts
        /\ 1 <= MaxAttempts
    <3>1. MaxAttempts \in Nat /\ MaxAttempts # 0
      BY AuthAssumption
    <3> QED BY <1>1, <3>1 DEF Session, NoNonce
  <2> DEFINE ll == IF a \in Retried THEN MaxAttempts ELSE 1
             xx == IF renew THEN NoNonce ELSE client[h].nonce
  <2>2. ll \in 0 .. MaxAttempts /\ 1 <= ll /\ (a \notin Retried => ll = 1)
    BY <2>1
  <2>3. xx \in Nat /\ (xx = c.nonce \/ xx = NoNonce)
    BY <2>1
  <2>4. client' = [client EXCEPT ![h] =
             [client[h] EXCEPT !.phase = "calling", !.call = client[h].call + 1,
                               !.action = a, !.nonce = xx, !.left = ll]]
    BY DEF Call
  <2> HIDE DEF ll, xx
  <2> QED BY <2>2, <2>3, <2>4
<1>3. /\ d = [client[h] EXCEPT !.phase = "calling", !.call = client[h].call + 1,
                               !.action = a, !.nonce = x, !.left = l]
      /\ \A g \in Hosts : g # h => client'[g] = client[g]
      /\ client' \in [Hosts -> Session]
  <2>1. [client[h] EXCEPT !.phase = "calling", !.call = client[h].call + 1,
                          !.action = a, !.nonce = x, !.left = l] \in Session
    <3>1. client[h].call + 1 \in Nat
      BY Fields DEF IndInv
    <3>2. "calling" \in Phases
      BY DEF Phases
    <3> QED BY <1>1, <3>1, <3>2 DEF Session
  <2> QED BY <1>1, <1>2, <2>1
<1>4. /\ d.id = c.id /\ d.call = c.call + 1 /\ d.action = a
      /\ d.phase = "calling" /\ d.seq = c.seq /\ d.nonce = x /\ d.left = l
  BY <1>1, <1>3 DEF Session
<1>5. TypeOK'
  BY <1>0, <1>3 DEF TypeOK, IndInv
<1> HIDE DEF c, d
<1>6. SentInOrder'
  <2>1. ASSUME NEW m \in sent
        PROVE  /\ m.id <= client'[m.host].id /\ m.call <= client'[m.host].call
               /\ client'[m.host].nonce # NoNonce => NotAfter(m, client'[m.host])
               /\ m.call = client'[m.host].call => m.action = client'[m.host].action
    <3>1. m.host \in Hosts /\ m.call \in Nat /\ c.call \in Nat
      BY Fields DEF IndInv, c
    <3>2. CASE m.host # h
      BY <1>3, <3>1, <3>2 DEF IndInv, SentInOrder
    <3>3. CASE m.host = h
      <4>1. /\ m.id <= c.id /\ m.call <= c.call
            /\ c.nonce # NoNonce => NotAfter(m, c)
        BY <3>3 DEF IndInv, SentInOrder, c
      <4>2. m.id <= d.id /\ m.call <= d.call /\ m.call # d.call
        BY <1>4, <3>1, <4>1
      <4>3. d.nonce # NoNonce => NotAfter(m, d)
        BY <1>2, <1>4, <4>1 DEF NotAfter
      <4> QED BY <3>3, <4>2, <4>3 DEF d
    <3> QED BY <3>2, <3>3
  <2> QED BY <1>0, <2>1 DEF SentInOrder, IndInv
<1>7. SessionKnown'
  <2>1. ASSUME NEW m \in sent, m.host = h PROVE m.call < d.call
    <3>1. m.call <= c.call /\ m.call \in Nat /\ c.call \in Nat
      BY <2>1, Fields DEF IndInv, SentInOrder, c
    <3> QED BY <1>4, <3>1
  <2>2. /\ d.nonce <= boot
        /\ d.nonce # NoNonce => 1 <= d.seq
        /\ d.nonce = boot => ready /\ d.seq <= sequence
    BY <1>2, <1>4, Fields DEF SessionKnown, IndInv, NoNonce, c
  <2>3. \A g \in Hosts : g # h => Attempt(g)' = Attempt(g)
    BY <1>3, SameAttempt
  <2> QED BY <1>0, <1>2, <1>3, <1>4, <2>1, <2>2, <2>3 DEF SessionKnown, IndInv, d
<1>8. LogInOrder'
  BY <1>0 DEF LogInOrder, IndInv
<1>9. GenuineAnswer' /\ RefusedForCause'
  <2>1. \A g \in Hosts : client'[g].phase \in {"waiting", "answered"} =>
          client'[g] = client[g]
    BY <1>3, <1>4 DEF d
  <2> QED BY <1>0, <2>1, NothingNew DEF IndInv
<1> QED BY <1>5, <1>6, <1>7, <1>8, <1>9 DEF IndInv

LEMMA ChallengeKeeps ==
  ASSUME IndInv, NEW h \in Hosts, Challenge(h)
  PROVE  IndInv'
<1> DEFINE c == client[h]
           d == client'[h]
<1>0. UNCHANGED <<boot, reply, sent, log>> /\ ready' = TRUE
  BY DEF Challenge
<1>1. /\ c \in Session /\ client \in [Hosts -> Session]
      /\ boot \in Nat /\ sequence \in Nat /\ boot # 0
  BY Fields DEF TypeOK, IndInv
<1>2. /\ sequence' \in 0 .. MaxSequence /\ sequence' \in Nat
      /\ 1 <= sequence' /\ (ready => sequence' = sequence)
  BY <1>1, AuthAssumption DEF TypeOK, SessionKnown, IndInv, Challenge
<1>3. client' = [client EXCEPT ![h] =
                   [client[h] EXCEPT !.nonce = boot, !.seq = sequence']]
  BY <1>1 DEF Challenge
<1>4. /\ d = [client[h] EXCEPT !.nonce = boot, !.seq = sequence']
      /\ \A g \in Hosts : g # h => client'[g] = client[g]
      /\ client' \in [Hosts -> Session]
  <2>1. [client[h] EXCEPT !.nonce = boot, !.seq = sequence'] \in Session
    BY <1>1, <1>2 DEF Session
  <2> QED BY <1>1, <1>3, <2>1
<1>5. /\ d.id = c.id /\ d.call = c.call /\ d.action = c.action
      /\ d.phase = "calling" /\ c.phase = "calling"
      /\ d.seq = sequence' /\ d.nonce = boot /\ d.left = c.left
  <2>1. c.phase = "calling"
    BY DEF Challenge
  <2> QED BY <1>1, <1>4, <2>1 DEF Session
<1>6. TypeOK'
  BY <1>0, <1>2, <1>4 DEF TypeOK, IndInv
<1> HIDE DEF c, d
<1>7. SentInOrder'
  <2>1. ASSUME NEW m \in sent
        PROVE  /\ m.id <= client'[m.host].id /\ m.call <= client'[m.host].call
               /\ m.nonce = boot => m.seq <= sequence'
               /\ client'[m.host].nonce # NoNonce => NotAfter(m, client'[m.host])
               /\ m.call = client'[m.host].call => m.action = client'[m.host].action
    <3>1. m.host \in Hosts /\ m.nonce \in Nat /\ m.seq \in Nat
      BY Fields DEF IndInv
    <3>2. m.nonce <= boot /\ (m.nonce = boot => m.seq <= sequence')
      BY <1>2 DEF SentInOrder, IndInv
    <3>3. CASE m.host # h
      BY <1>4, <3>1, <3>2, <3>3 DEF IndInv, SentInOrder
    <3>4. CASE m.host = h
      <4>1. NotAfter(m, d)
        BY <1>1, <1>5, <3>1, <3>2 DEF NotAfter
      <4> QED BY <1>5, <3>2, <3>4, <4>1 DEF IndInv, SentInOrder, c, d
    <3> QED BY <3>3, <3>4
  <2> QED BY <1>0, <2>1 DEF SentInOrder, IndInv
<1>8. SessionKnown'
  <2>1. \A g \in Hosts : g # h => Attempt(g)' = Attempt(g)
    BY <1>4, SameAttempt
  <2>2. \A g \in Hosts : client[g].nonce = boot => ready /\ client[g].seq <= sequence'
    BY <1>2 DEF SessionKnown, IndInv
  <2>3. \A g \in Hosts : client[g].nonce = boot => sequence' = sequence
    BY <1>2 DEF SessionKnown, IndInv
  <2>4. ASSUME NEW g \in Hosts, g # h
        PROVE  LET k == client'[g] IN
               /\ k.nonce <= boot'
               /\ k.nonce # NoNonce => 1 <= k.seq
               /\ k.nonce = boot' => ready' /\ k.seq <= sequence'
               /\ k.phase = "waiting" => k.nonce # NoNonce /\ Attempt(g)' \in sent'
               /\ k.phase = "waiting" /\ reply'[g] \in {"signed", "damaged"} /\ k.nonce = boot'
                    => k.seq < sequence'
               /\ k.phase \in {"calling", "waiting"} => 1 <= k.left
               /\ k.phase \in {"calling", "waiting"} /\ k.action \notin Retried => k.left = 1
               /\ k.phase = "calling" /\ k.action \notin Retried =>
                    \A m \in sent' : m.host = g => m.call < k.call
    BY <1>0, <1>4, <2>1, <2>2, <2>3, <2>4 DEF SessionKnown, IndInv
  <2>5. LET k == client'[h] IN
               /\ k.nonce <= boot'
               /\ k.nonce # NoNonce => 1 <= k.seq
               /\ k.nonce = boot' => ready' /\ k.seq <= sequence'
               /\ k.phase # "waiting"
               /\ k.phase \in {"calling", "waiting"} => 1 <= k.left
               /\ k.phase \in {"calling", "waiting"} /\ k.action \notin Retried => k.left = 1
               /\ k.phase = "calling" /\ k.action \notin Retried =>
                    \A m \in sent' : m.host = h => m.call < k.call
    BY <1>0, <1>1, <1>2, <1>5 DEF SessionKnown, IndInv, c, d
  <2> QED BY <1>0, <1>2, <2>4, <2>5 DEF SessionKnown
<1>9. LogInOrder'
  <2>1. CASE ready
    BY <1>0, <1>2, <2>1 DEF LogInOrder, IndInv
  <2>2. CASE ~ready
    <3>1. \A i \in 1 .. Len(log) : log[i].nonce # boot
      BY <2>2 DEF LogInOrder, SentInOrder, IndInv
    <3>2. sequence' = 1
      BY <2>2 DEF Challenge
    <3> QED BY <1>0, <3>1, <3>2 DEF LogInOrder, IndInv
  <2> QED BY <2>1, <2>2
<1>10. GenuineAnswer' /\ RefusedForCause'
  <2>1. \A g \in Hosts : client'[g].phase \in {"waiting", "answered"} =>
          client'[g] = client[g]
    BY <1>4, <1>5 DEF d
  <2> QED BY <1>0, <2>1, NothingNew DEF IndInv
<1> QED BY <1>6, <1>7, <1>8, <1>9, <1>10 DEF IndInv

LEMMA PostKeeps ==
  ASSUME IndInv, NEW h \in Hosts, Post(h)
  PROVE  IndInv'
<1> USE AuthAssumption DEF Post, IndInv
<1> DEFINE c == client[h]
           n == Attempt(h)'
<1>1. c \in Session /\ boot \in Nat /\ sequence \in Nat /\ c.nonce # NoNonce
  BY DEF TypeOK
<1>2. /\ client' \in [Hosts -> Session]
      /\ client'[h].id = c.id + 1 /\ client'[h].call = c.call /\ client'[h].action = c.action
      /\ client'[h].phase = "waiting" /\ client'[h].seq = c.seq
      /\ client'[h].nonce = c.nonce /\ client'[h].left = c.left
      /\ \A g \in Hosts : g # h => client'[g] = client[g]
  <2> DEFINE v == [client[h] EXCEPT !.phase = "waiting", !.id = client[h].id + 1]
  <2>1. c.id + 1 \in Nat
    BY Fields
  <2>2. /\ v \in Session /\ v.id = c.id + 1 /\ v.call = c.call /\ v.action = c.action
        /\ v.phase = "waiting" /\ v.seq = c.seq /\ v.nonce = c.nonce /\ v.left = c.left
    <3>1. "waiting" \in Phases
      BY DEF Phases
    <3> HIDE DEF Post, IndInv
    <3> QED BY <1>1, <2>1, <3>1 DEF Session
  <2>3. client' = [client EXCEPT ![h] = v] /\ client \in [Hosts -> Session]
    BY DEF TypeOK
  <2> HIDE DEF v, Post, IndInv
  <2> QED BY <2>2, <2>3, Update
<1>3. /\ n \in Request
      /\ n.host = h /\ n.id = c.id + 1 /\ n.call = c.call /\ n.action = c.action
      /\ n.nonce = c.nonce /\ n.seq = c.seq
  BY <1>1, <1>2 DEF Attempt, Request, Session
<1>4. TypeOK'
  BY <1>2, <1>3 DEF TypeOK
<1>5. \A m \in sent :
        /\ m \in Request
        /\ m.host = h => m.id < n.id /\ m.id # n.id /\ NotAfter(m, n)
        /\ m.host = h /\ m.call = n.call => m.action = n.action /\ n.action \in Retried
  <2> SUFFICES ASSUME NEW m \in sent
               PROVE  /\ m \in Request
                      /\ m.host = h => m.id < n.id /\ m.id # n.id /\ NotAfter(m, n)
                      /\ m.host = h /\ m.call = n.call =>
                           m.action = n.action /\ n.action \in Retried
    OBVIOUS
  <2>1. m \in Request
    BY DEF TypeOK
  <2>2. m.host = h => m.id <= c.id /\ NotAfter(m, c)
    BY <1>1 DEF SentInOrder
  <2>3. m.host = h /\ m.call = c.call => m.action = c.action /\ c.action \in Retried
    BY <1>1, <2>1 DEF SentInOrder, SessionKnown, Request, Session
  <2> QED BY <1>1, <1>3, <2>1, <2>2, <2>3 DEF Request, Session, NotAfter
<1>6. /\ 1 <= n.nonce /\ n.nonce <= boot /\ 1 <= n.seq
      /\ n.nonce = boot => ready /\ n.seq <= sequence
  BY <1>1, <1>3 DEF SessionKnown, Session, NoNonce
<1>7. SentInOrder'
  <2>1. ASSUME NEW m \in sent
        PROVE  /\ m.id <= client'[m.host].id /\ m.call <= client'[m.host].call
               /\ client'[m.host].nonce # NoNonce => NotAfter(m, client'[m.host])
               /\ m.call = client'[m.host].call => m.action = client'[m.host].action
    BY <1>1, <1>2, <1>3, <1>5, <2>1 DEF SentInOrder, NotAfter, Request, Session
  <2>2. NotAfter(n, client'[h])
    BY <1>1, <1>2, <1>3 DEF NotAfter, Session
  <2>3. /\ n.id <= client'[n.host].id /\ n.call <= client'[n.host].call
        /\ n.action = client'[n.host].action
    BY <1>1, <1>2, <1>3 DEF Session
  <2>4. sent' = sent \cup {n}
    OBVIOUS
  <2> HIDE DEF n, Post
  <2>5. boot' = boot /\ ready' = ready /\ sequence' = sequence
    BY DEF Post
  <2>6. \A m \in sent' :
          /\ m.id <= client'[m.host].id /\ m.call <= client'[m.host].call
          /\ 1 <= m.nonce /\ m.nonce <= boot /\ 1 <= m.seq
          /\ m.nonce = boot => ready /\ m.seq <= sequence
          /\ client'[m.host].nonce # NoNonce => NotAfter(m, client'[m.host])
          /\ m.call = client'[m.host].call => m.action = client'[m.host].action
    BY <1>3, <1>6, <2>1, <2>2, <2>3, <2>4 DEF SentInOrder
  <2>7. \A m, k \in sent' : m.host = k.host =>
          /\ m.id = k.id => m = k
          /\ m.id < k.id => NotAfter(m, k)
          /\ m.id # k.id /\ m.call = k.call => m.action \in Retried
    <3>1. \A m, k \in sent : m.host = k.host =>
          /\ m.id = k.id => m = k
          /\ m.id < k.id => NotAfter(m, k)
          /\ m.id # k.id /\ m.call = k.call => m.action \in Retried
      BY DEF SentInOrder
    <3>2. \A m \in sent : m.host = h => ~(n.id < m.id)
      BY <1>3, <1>5 DEF Request
    <3>3. n.id \in Nat
      BY <1>3 DEF Request
    <3> QED BY <1>3, <1>5, <2>4, <3>1, <3>2, <3>3
  <2> QED BY <2>5, <2>6, <2>7 DEF SentInOrder
<1>8. SessionKnown'
  <2>1. ASSUME NEW g \in Hosts, g # h
        PROVE  Attempt(g)' = Attempt(g) /\ reply'[g] = reply[g]
    BY <1>2, <2>1 DEF Attempt, TypeOK
  <2>2. ASSUME NEW g \in Hosts, g # h
        PROVE  client[g].phase = "calling" /\ client[g].action \notin Retried =>
                 \A m \in sent' : m.host = g => m.call < client[g].call
    BY <1>3, <2>2 DEF SessionKnown
  <2>3. n \in sent' /\ reply'[h] = "none"
    BY DEF TypeOK
  <2> QED BY <1>1, <1>2, <2>1, <2>2, <2>3 DEF SessionKnown, NoNonce
<1>9. LogInOrder'
  BY DEF LogInOrder
<1>10. GenuineAnswer' /\ RefusedForCause'
  <2>1. reply'[h] = "none" /\ \A g \in Hosts : g # h => reply'[g] = reply[g]
    BY DEF TypeOK
  <2> QED BY <1>2, <2>1 DEF GenuineAnswer, RefusedForCause
<1> QED BY <1>4, <1>7, <1>8, <1>9, <1>10

(* A call ends, or an attempt fails.                                       *)
LEMMA EndingKeeps ==
  ASSUME IndInv, NEW h \in Hosts,
         ChallengeRefused(h) \/ Answered(h) \/ Unauthenticated(h) \/ ConnectionFails(h)
  PROVE  IndInv'
<1> USE AuthAssumption DEF IndInv
<1> DEFINE c == client[h]
           d == client'[h]
<1>0. UNCHANGED <<boot, ready, sequence, reply, sent, log>>
  BY DEF ChallengeRefused, Answered, Unauthenticated, ConnectionFails
<1>1. /\ c \in Session /\ client \in [Hosts -> Session]
      /\ boot \in Nat /\ sequence \in Nat /\ boot # 0
  BY Fields DEF TypeOK
<1>2. c.phase \in {"calling", "waiting"}
  BY DEF ChallengeRefused, Answered, Unauthenticated, ConnectionFails
<1>3. 1 <= c.left
  BY <1>2 DEF SessionKnown
<1>4. /\ client' \in [Hosts -> Session]
      /\ d.id = c.id /\ d.call = c.call /\ d.action = c.action
      /\ \A g \in Hosts : g # h => client'[g] = client[g]
      /\ \/ d.nonce = NoNonce
         \/ d.nonce = c.nonce /\ d.seq = c.seq
         \/ Answered(h) /\ d.nonce = c.nonce /\ d.seq = c.seq + 1
      /\ d.phase # "waiting"
      /\ d.phase = "answered" => Answered(h)
      /\ d.phase = "calling" => 1 < c.left /\ d.left = c.left - 1
  <2>5. {"answered", "unauthenticated", "gave up", "calling"} \subseteq Phases
    BY DEF Phases
  <2>0. /\ c.seq + 1 \in Nat /\ NoNonce \in Nat /\ c.left - 1 \in 0 .. MaxAttempts
        /\ c.left = 1 \/ 1 < c.left
    <3>1. c.seq \in Nat /\ c.left \in 0 .. MaxAttempts
      BY Fields
    <3>2. MaxAttempts \in Nat
      BY AuthAssumption
    <3> HIDE DEF IndInv, c
    <3>3. c.left - 1 \in 0 .. MaxAttempts /\ (c.left = 1 \/ 1 < c.left)
      BY <1>3, <3>1, <3>2
    <3> QED BY <3>1, <3>3 DEF NoNonce
  <2>1. CASE ChallengeRefused(h)
    <3> DEFINE v == [client[h] EXCEPT !.phase = "unauthenticated"]
    <3>1. v \in Session /\ v.phase = "unauthenticated"
          /\ v.id = c.id /\ v.call = c.call /\ v.action = c.action
          /\ v.nonce = c.nonce /\ v.seq = c.seq
      BY <1>1, <2>5 DEF Session
    <3>2. client' = [client EXCEPT ![h] = v]
      BY <2>1 DEF ChallengeRefused
    <3> HIDE DEF v
    <3> QED BY <1>1, <3>1, <3>2, Update
  <2>2. CASE Answered(h)
    <3> DEFINE v == [client[h] EXCEPT !.phase = "answered", !.seq = client[h].seq + 1]
    <3>1. v \in Session /\ v.phase = "answered"
          /\ v.id = c.id /\ v.call = c.call /\ v.action = c.action
          /\ v.nonce = c.nonce /\ v.seq = c.seq + 1
      BY <1>1, <2>0, <2>5 DEF Session
    <3>2. client' = [client EXCEPT ![h] = v]
      BY <2>2 DEF Answered
    <3> HIDE DEF v
    <3> QED BY <1>1, <2>2, <3>1, <3>2, Update
  <2>3. CASE Unauthenticated(h)
    <3> DEFINE v == [client[h] EXCEPT !.phase = "unauthenticated"]
    <3>1. v \in Session /\ v.phase = "unauthenticated"
          /\ v.id = c.id /\ v.call = c.call /\ v.action = c.action
          /\ v.nonce = c.nonce /\ v.seq = c.seq
      BY <1>1, <2>5 DEF Session
    <3>2. client' = [client EXCEPT ![h] = v]
      BY <2>3 DEF Unauthenticated
    <3> HIDE DEF v
    <3> QED BY <1>1, <3>1, <3>2, Update
  <2>4. CASE ConnectionFails(h)
    <3> DEFINE p == IF client[h].left = 1 THEN "gave up" ELSE "calling"
               v == [client[h] EXCEPT !.left = client[h].left - 1, !.nonce = NoNonce,
                                      !.phase = p]
    <3>1. client' = [client EXCEPT ![h] = v]
      BY <2>4 DEF ConnectionFails
    <3>2. /\ p \in Phases /\ p # "waiting" /\ p # "answered"
          /\ p = "calling" => 1 < c.left
      BY <2>0, <2>5
    <3> HIDE DEF p
    <3>3. v \in Session /\ v.phase = p /\ v.nonce = NoNonce /\ v.left = c.left - 1
          /\ v.id = c.id /\ v.call = c.call /\ v.action = c.action
      BY <1>1, <2>0, <3>2 DEF Session
    <3> HIDE DEF v
    <3> QED BY <1>1, <3>1, <3>2, <3>3, Update
  <2> QED BY <2>1, <2>2, <2>3, <2>4
<1>5. d.phase = "calling" => 1 < c.left
  BY <1>4
<1>6. Answered(h) => /\ c.phase = "waiting" /\ reply[h] = "signed"
                     /\ c.nonce # NoNonce
                     /\ c.nonce = boot => c.seq < sequence
  BY DEF Answered, SessionKnown
<1>7. TypeOK'
  BY <1>0, <1>4 DEF TypeOK
<1>8. SentInOrder'
  <2>1. ASSUME NEW m \in sent
        PROVE  /\ m.id <= client'[m.host].id /\ m.call <= client'[m.host].call
               /\ client'[m.host].nonce # NoNonce => NotAfter(m, client'[m.host])
               /\ m.call = client'[m.host].call => m.action = client'[m.host].action
    <3>1. m \in Request
      BY DEF TypeOK
    <3>2. CASE m.host # h
      BY <1>4, <3>1, <3>2 DEF SentInOrder, Request
    <3>3. CASE m.host = h
      <4>1. c.nonce # NoNonce => NotAfter(m, c)
        BY <3>3 DEF SentInOrder
      <4>2. d.nonce # NoNonce => NotAfter(m, d)
        <5>1. /\ m.seq \in Nat /\ m.nonce \in Nat
              /\ c.seq \in Nat /\ c.nonce \in Nat
          BY Fields
        <5>2. d.nonce # NoNonce => d.nonce = c.nonce /\ (d.seq = c.seq \/ d.seq = c.seq + 1)
          BY <1>4
        <5> HIDE DEF IndInv, c, d
        <5> QED BY <4>1, <5>1, <5>2 DEF NotAfter
      <4> QED BY <1>4, <3>3, <4>2 DEF SentInOrder
    <3> QED BY <3>2, <3>3
  <2> QED BY <1>0, <2>1 DEF SentInOrder
<1>9. SessionKnown'
  <2>1. \A g \in Hosts : g # h => Attempt(g)' = Attempt(g)
    BY <1>4 DEF Attempt
  <2>2. /\ d.nonce <= boot
        /\ d.nonce # NoNonce => 1 <= d.seq
        /\ d.nonce = boot => ready /\ d.seq <= sequence
    <3>1. c.seq \in Nat /\ c.nonce \in Nat
      BY Fields
    <3>2. /\ c.nonce <= boot
          /\ c.nonce # NoNonce => 1 <= c.seq
          /\ c.nonce = boot => ready /\ c.seq <= sequence
      BY DEF SessionKnown
    <3>3. \/ d.nonce = NoNonce
          \/ d.nonce = c.nonce /\ d.seq = c.seq
          \/ Answered(h) /\ d.nonce = c.nonce /\ d.seq = c.seq + 1
      BY <1>4
    <3> HIDE DEF IndInv, c, d
    <3> QED BY <1>1, <1>6, <3>1, <3>2, <3>3 DEF NoNonce
  <2>3. d.phase = "calling" => 1 <= d.left /\ d.action \in Retried
    BY <1>1, <1>2, <1>4, <1>5 DEF SessionKnown, Session
  <2> QED BY <1>0, <1>4, <1>5, <2>1, <2>2, <2>3 DEF SessionKnown
<1>10. LogInOrder'
  BY <1>0 DEF LogInOrder
<1>11. GenuineAnswer'
  <2>1. d.phase = "answered" => c.phase = "waiting" /\ reply[h] = "signed"
    BY <1>4, <1>6
  <2> QED BY <1>0, <1>4, <1>5, <2>1 DEF GenuineAnswer
<1>12. RefusedForCause'
  BY <1>0, <1>4, <1>5 DEF RefusedForCause
<1> QED BY <1>7, <1>8, <1>9, <1>10, <1>11, <1>12

LEMMA AcceptKeeps ==
  ASSUME IndInv, NEW m \in sent, Accept(m)
  PROVE  IndInv'
<1> USE AuthAssumption DEF Accept, Genuine, IndInv
<1>1. /\ m \in Request /\ boot \in Nat /\ sequence \in Nat /\ m.host \in Hosts
      /\ m.seq = sequence /\ m.nonce = boot /\ sequence' = sequence + 1
      /\ log \in Seq(Request) /\ Len(log) \in Nat
  BY DEF TypeOK, Request
<1>2. /\ log' \in Seq(Request) /\ Len(log') = Len(log) + 1
      /\ log'[Len(log) + 1] = m
      /\ \A i \in 1 .. Len(log) : log'[i] = log[i]
  BY <1>1
<1>3. /\ reply' \in [Hosts -> {"none", "signed", "refused", "damaged"}]
      /\ \A g \in Hosts : reply'[g] = reply[g]
           \/ (g = m.host /\ client[g].phase = "waiting" /\ client[g].id = m.id
                 /\ reply'[g] = "signed")
  BY <1>1 DEF Respond, TypeOK
<1>4. TypeOK'
  BY <1>1, <1>2, <1>3 DEF TypeOK
<1>5. SentInOrder'
  <2>1. \A k \in sent : k.nonce = boot => k.seq <= sequence + 1
    BY <1>1 DEF SentInOrder, TypeOK, Request
  <2> QED BY <1>1, <2>1 DEF SentInOrder
<1>6. ASSUME NEW g \in Hosts, client[g].phase = "waiting", g = m.host, client[g].id = m.id
      PROVE  m = Attempt(g)
  BY <1>6 DEF SessionKnown, SentInOrder, Attempt
<1>7. SessionKnown'
  <2>1. \A g \in Hosts : Attempt(g)' = Attempt(g) /\ client[g] \in Session
    BY DEF Attempt, TypeOK
  <2>2. ASSUME NEW g \in Hosts, client[g].phase = "waiting", client[g].nonce = boot,
               reply'[g] \in {"signed", "damaged"}
        PROVE  client[g].seq < sequence + 1
    BY <1>1, <2>1, <2>2 DEF SessionKnown, Session
  <2>3. \A g \in Hosts : client[g].nonce = boot => client[g].seq <= sequence + 1
    BY <1>1, <2>1 DEF SessionKnown, Session
  <2> QED BY <1>1, <2>1, <2>2, <2>3 DEF SessionKnown
<1>8. LogInOrder'
  <2>1. \A i \in 1 .. Len(log) :
          log[i] \in Request /\ log[i] \in sent /\ Before(log[i], m)
    <3> SUFFICES ASSUME NEW i \in 1 .. Len(log)
                 PROVE  log[i] \in Request /\ log[i] \in sent /\ Before(log[i], m)
      OBVIOUS
    <3>1. log[i] \in sent /\ log[i] \in Request
      BY <1>1 DEF LogInOrder
    <3>2. log[i].nonce <= boot /\ (log[i].nonce = boot => log[i].seq < sequence)
      BY <3>1 DEF LogInOrder, SentInOrder
    <3>3. log[i].nonce \in Nat /\ log[i].seq \in Nat
      BY <3>1, Fields
    <3>4. m.seq = sequence /\ m.nonce = boot /\ boot \in Nat /\ sequence \in Nat
      BY <1>1
    <3> HIDE DEF IndInv, Accept, Genuine
    <3>5. Before(log[i], m)
      BY <3>2, <3>3, <3>4 DEF Before
    <3> QED BY <3>1, <3>5
  <2>2. \A i \in 1 .. Len(log') :
          /\ log'[i] \in sent
          /\ log'[i].nonce = boot => log'[i].seq < sequence'
    <3>1. \A i \in 1 .. Len(log) : log[i].nonce = boot => log[i].seq < sequence + 1
      <4> SUFFICES ASSUME NEW i \in 1 .. Len(log), log[i].nonce = boot
                   PROVE  log[i].seq < sequence + 1
        OBVIOUS
      <4>1. log[i].seq < sequence /\ log[i].seq \in Nat
        BY <2>1, Fields DEF LogInOrder
      <4> QED BY <1>1, <4>1
    <3> QED BY <1>1, <1>2, <2>1, <3>1
  <2>3. \A i, j \in 1 .. Len(log') : i < j => Before(log'[i], log'[j])
    <3> SUFFICES ASSUME NEW i \in 1 .. Len(log'), NEW j \in 1 .. Len(log'), i < j
                 PROVE  Before(log'[i], log'[j])
      OBVIOUS
    <3>1. i \in 1 .. Len(log) /\ (j \in 1 .. Len(log) \/ j = Len(log) + 1)
      BY <1>1, <1>2
    <3> QED BY <1>1, <1>2, <2>1, <3>1 DEF LogInOrder
  <2>4. \A k \in 1 .. sequence' - 1 :
          \E i \in 1 .. Len(log') : log'[i].nonce = boot /\ log'[i].seq = k
    <3> SUFFICES ASSUME NEW k \in 1 .. sequence' - 1
                 PROVE  \E i \in 1 .. Len(log') : log'[i].nonce = boot /\ log'[i].seq = k
      OBVIOUS
    <3>1. CASE k = sequence
      <4>1. Len(log) + 1 \in 1 .. Len(log')
        BY <1>1, <1>2
      <4> QED BY <1>1, <1>2, <3>1, <4>1
    <3>2. CASE k # sequence
      <4>1. k \in 1 .. sequence - 1
        BY <1>1, <3>2
      <4>2. PICK i \in 1 .. Len(log) : log[i].nonce = boot /\ log[i].seq = k
        BY <4>1 DEF LogInOrder
      <4>3. i \in 1 .. Len(log')
        BY <1>1, <1>2
      <4> QED BY <1>2, <4>2, <4>3
    <3> QED BY <3>1, <3>2
  <2> QED BY <2>2, <2>3, <2>4 DEF LogInOrder
<1>9. \A i \in 1 .. Len(log) : i \in 1 .. Len(log')
  BY <1>1, <1>2
<1>10. GenuineAnswer'
  <2> SUFFICES ASSUME NEW g \in Hosts,
                      (client[g].phase = "waiting" /\ reply'[g] = "signed")
                        \/ client[g].phase = "answered"
               PROVE  \E i \in 1 .. Len(log') :
                        /\ log'[i].host = g /\ log'[i].id = client[g].id
                        /\ log'[i].call = client[g].call
                        /\ log'[i].action = client[g].action
    BY DEF GenuineAnswer
  <2>1. CASE reply'[g] = reply[g]
    <3>1. PICK i \in 1 .. Len(log) :
                 /\ log[i].host = g /\ log[i].id = client[g].id
                 /\ log[i].call = client[g].call
                 /\ log[i].action = client[g].action
      BY <2>1 DEF GenuineAnswer
    <3> QED BY <1>2, <1>9, <3>1
  <2>2. CASE reply'[g] # reply[g]
    <3>1. m = Attempt(g)
      BY <1>3, <1>6, <2>2
    <3>2. Len(log) + 1 \in 1 .. Len(log')
      BY <1>1, <1>2
    <3> QED BY <1>2, <3>1, <3>2 DEF Attempt
  <2> QED BY <2>1, <2>2
<1>11. RefusedForCause'
  <2> SUFFICES ASSUME NEW g \in Hosts, client[g].phase = "waiting", reply'[g] = "refused"
               PROVE  \/ client[g].nonce < boot
                      \/ client[g].seq = MaxSequence
                      \/ \E i \in 1 .. Len(log') : /\ log'[i].nonce = client[g].nonce
                                                   /\ log'[i].seq = client[g].seq
    BY DEF RefusedForCause
  <2>1. reply[g] = "refused"
    BY <1>3
  <2>2. CASE \E i \in 1 .. Len(log) :
               log[i].nonce = client[g].nonce /\ log[i].seq = client[g].seq
    BY <1>2, <1>9, <2>2
  <2> QED BY <2>1, <2>2 DEF RefusedForCause
<1> QED BY <1>4, <1>5, <1>7, <1>8, <1>10, <1>11

LEMMA RefuseKeeps ==
  ASSUME IndInv, NEW m \in sent, Refuse(m)
  PROVE  IndInv'
<1> USE AuthAssumption DEF Refuse, IndInv
<1>1. m \in Request /\ boot \in Nat /\ sequence \in Nat /\ m.host \in Hosts
  BY DEF TypeOK, Request
<1>2. /\ reply' \in [Hosts -> {"none", "signed", "refused", "damaged"}]
      /\ \A g \in Hosts : reply'[g] = reply[g]
           \/ (g = m.host /\ client[g].phase = "waiting" /\ client[g].id = m.id
                 /\ reply'[g] = "refused")
  BY <1>1 DEF Respond, TypeOK
<1>3. TypeOK'
  BY <1>2 DEF TypeOK
<1>4. SentInOrder' /\ LogInOrder'
  BY DEF SentInOrder, LogInOrder
<1>5. SessionKnown'
  <2>1. \A g \in Hosts : Attempt(g)' = Attempt(g)
    BY DEF Attempt
  <2> QED BY <1>2, <2>1 DEF SessionKnown
<1>6. GenuineAnswer'
  BY <1>2 DEF GenuineAnswer
<1>7. RefusedForCause'
  <2> SUFFICES ASSUME NEW g \in Hosts, client[g].phase = "waiting", reply'[g] = "refused"
               PROVE  \/ client[g].nonce < boot
                      \/ client[g].seq = MaxSequence
                      \/ \E i \in 1 .. Len(log) : /\ log[i].nonce = client[g].nonce
                                                  /\ log[i].seq = client[g].seq
    BY DEF RefusedForCause
  <2>1. CASE reply[g] = "refused"
    BY <2>1 DEF RefusedForCause
  <2>2. CASE reply[g] # "refused"
    <3>1. m = Attempt(g)
      BY <1>2, <2>2 DEF SessionKnown, SentInOrder, Attempt
    <3>2. m.nonce = client[g].nonce /\ m.seq = client[g].seq
      BY <3>1 DEF Attempt
    <3>3. CASE m.nonce # boot
      BY <1>1, <3>2, <3>3 DEF SentInOrder, Request
    <3>4. CASE m.nonce = boot /\ m.seq = MaxSequence
      BY <3>2, <3>4
    <3>5. CASE m.nonce = boot /\ m.seq # MaxSequence
      <4>1. ready /\ m.seq <= sequence /\ 1 <= m.seq
        BY <3>5 DEF SentInOrder
      <4>2. m.seq # sequence
        BY <3>5, <4>1 DEF Genuine, TypeOK
      <4>3. m.seq \in 1 .. sequence - 1
        BY <1>1, <4>1, <4>2 DEF Request
      <4> QED BY <3>2, <3>5, <4>3 DEF LogInOrder
    <3> QED BY <3>3, <3>4, <3>5
  <2> QED BY <2>1, <2>2
<1> QED BY <1>3, <1>4, <1>5, <1>6, <1>7

LEMMA DamageKeeps ==
  ASSUME IndInv, NEW h \in Hosts, ReplyDamaged(h)
  PROVE  IndInv'
<1> USE DEF ReplyDamaged, IndInv
<1>1. /\ reply' \in [Hosts -> {"none", "signed", "refused", "damaged"}]
      /\ \A g \in Hosts : reply'[g] = reply[g] \/ (g = h /\ reply'[g] = "damaged")
  BY DEF TypeOK
<1>2. TypeOK'
  BY <1>1 DEF TypeOK
<1>3. SentInOrder' /\ LogInOrder'
  BY DEF SentInOrder, LogInOrder
<1>4. SessionKnown'
  <2>1. \A g \in Hosts : Attempt(g)' = Attempt(g)
    BY DEF Attempt
  <2>2. reply[h] = "signed"
    OBVIOUS
  <2> QED BY <1>1, <2>1, <2>2 DEF SessionKnown
<1>5. GenuineAnswer' /\ RefusedForCause'
  BY <1>1 DEF GenuineAnswer, RefusedForCause
<1> QED BY <1>2, <1>3, <1>4, <1>5

LEMMA ResetKeeps == ASSUME IndInv, Reset PROVE IndInv'
<1> USE AuthAssumption DEF Reset, IndInv
<1>1. /\ boot \in Nat /\ boot # 0 /\ boot' = boot + 1 /\ sequence' = 0 /\ ~ready'
      /\ \A h \in Hosts : client[h] \in Session
      /\ \A m \in sent : m \in Request
  BY Fields DEF TypeOK
<1>2. TypeOK'
  <2>1. MaxSequence \in Nat
    BY AuthAssumption
  <2>2. 0 \in 0 .. MaxSequence /\ boot + 1 \in Nat \ {0}
    BY <1>1, <2>1
  <2> QED BY <2>2 DEF TypeOK
<1>3. SentInOrder'
  <2>1. \A m \in sent : m.nonce <= boot + 1 /\ m.nonce # boot + 1
    BY <1>1 DEF SentInOrder, Request
  <2> QED BY <1>1, <2>1 DEF SentInOrder
<1>4. SessionKnown'
  <2>1. \A h \in Hosts : /\ client[h].nonce <= boot + 1 /\ client[h].nonce # boot + 1
                         /\ Attempt(h)' = Attempt(h)
    <3> SUFFICES ASSUME NEW h \in Hosts
                 PROVE  /\ client[h].nonce <= boot + 1 /\ client[h].nonce # boot + 1
                        /\ Attempt(h)' = Attempt(h)
      OBVIOUS
    <3>1. client[h].nonce <= boot /\ client[h].nonce \in Nat
      BY Fields DEF SessionKnown
    <3>2. Attempt(h)' = Attempt(h)
      BY SameAttempt
    <3> QED BY <1>1, <3>1, <3>2
  <2> QED BY <1>1, <2>1 DEF SessionKnown
<1>5. LogInOrder'
  <2>1. \A i \in 1 .. Len(log) : log[i].nonce # boot + 1
    BY <1>1 DEF LogInOrder, SentInOrder, Request
  <2> QED BY <1>1, <2>1 DEF LogInOrder
<1>6. GenuineAnswer'
  BY DEF GenuineAnswer
<1>7. RefusedForCause'
  <2>1. \A h \in Hosts : client[h].nonce < boot => client[h].nonce < boot + 1
    BY <1>1 DEF Session
  <2> QED BY <1>1, <2>1 DEF RefusedForCause
<1> QED BY <1>2, <1>3, <1>4, <1>5, <1>6, <1>7

LEMMA NextIndInv == IndInv /\ [Next]_vars => IndInv'
<1> SUFFICES ASSUME IndInv, [Next]_vars PROVE IndInv'
  OBVIOUS
<1>1. ASSUME NEW h \in Hosts, NEW a \in Actions, NEW renew \in BOOLEAN, Call(h, a, renew)
      PROVE  IndInv'
  BY <1>1, CallKeeps
<1>2. ASSUME NEW h \in Hosts, Challenge(h) PROVE IndInv'
  BY <1>2, ChallengeKeeps
<1>3. ASSUME NEW h \in Hosts, Post(h) PROVE IndInv'
  BY <1>3, PostKeeps
<1>4. ASSUME NEW h \in Hosts,
             ChallengeRefused(h) \/ Answered(h) \/ Unauthenticated(h) \/ ConnectionFails(h)
      PROVE  IndInv'
  BY <1>4, EndingKeeps
<1>5. ASSUME NEW h \in Hosts, ReplyDamaged(h) PROVE IndInv'
  BY <1>5, DamageKeeps
<1>6. ASSUME NEW m \in sent, Accept(m) \/ Refuse(m) PROVE IndInv'
  BY <1>6, AcceptKeeps, RefuseKeeps
<1>7. CASE Reset
  BY <1>7, ResetKeeps
<1>8. CASE UNCHANGED vars
  BY <1>8 DEF vars, IndInv, TypeOK, SentInOrder, SessionKnown, LogInOrder, GenuineAnswer,
              RefusedForCause, Attempt
<1> QED BY <1>1, <1>2, <1>3, <1>4, <1>5, <1>6, <1>7, <1>8 DEF Next

THEOREM Invariance == Spec => []IndInv
BY InitIndInv, NextIndInv, PTL DEF Spec

-----------------------------------------------------------------------------

(* The log is ordered by nonce and number, requests of a host by both and  *)
(* by attempt, so the two orders agree.                                    *)
LEMMA LogOrder ==
  ASSUME IndInv, NEW i \in 1 .. Len(log), NEW j \in 1 .. Len(log), i < j
  PROVE  /\ <<log[i].nonce, log[i].seq>> # <<log[j].nonce, log[j].seq>>
         /\ log[i].host = log[j].host => log[i].id < log[j].id
<1>1. log[i] \in sent /\ log[j] \in sent /\ Before(log[i], log[j])
  BY DEF IndInv, LogInOrder
<1>2. log[i] \in Request /\ log[j] \in Request
  BY <1>1 DEF IndInv, TypeOK
<1>3. /\ log[i].nonce \in Nat /\ log[i].seq \in Nat /\ log[i].id \in Nat
      /\ log[j].nonce \in Nat /\ log[j].seq \in Nat /\ log[j].id \in Nat
  BY <1>2 DEF Request
<1>4. ~NotAfter(log[j], log[i])
  BY <1>1, <1>3 DEF Before, NotAfter
<1>5. <<log[i].nonce, log[i].seq>> # <<log[j].nonce, log[j].seq>>
  BY <1>1, <1>3 DEF Before
<1>6. ASSUME log[i].host = log[j].host PROVE log[i].id < log[j].id
  <2>1. log[i].id # log[j].id
    BY <1>1, <1>5, <1>6 DEF IndInv, SentInOrder
  <2>2. ~(log[j].id < log[i].id)
    BY <1>1, <1>4, <1>6 DEF IndInv, SentInOrder
  <2> QED BY <1>3, <2>1, <2>2
<1> QED BY <1>5, <1>6

(* Every record of the model keeps its type.                               *)
THEOREM AuthTypeCorrect == Spec => []TypeOK
<1>1. IndInv => TypeOK
  BY DEF IndInv
<1> QED BY <1>1, Invariance, PTL

(* No number and no attempt is accepted twice, whatever is repeated.       *)
THEOREM AcceptedAtMostOnce == Spec => []AtMostOnce
<1>1. IndInv => AtMostOnce
  <2> SUFFICES ASSUME IndInv, NEW i \in 1 .. Len(log), NEW j \in 1 .. Len(log), i # j
               PROVE  /\ <<log[i].nonce, log[i].seq>> # <<log[j].nonce, log[j].seq>>
                      /\ <<log[i].host, log[i].id>> # <<log[j].host, log[j].id>>
    BY DEF AtMostOnce
  <2>1. log[i] \in sent /\ log[j] \in sent
    BY DEF IndInv, LogInOrder
  <2>2. log[i].id \in Nat /\ log[j].id \in Nat
    BY <2>1 DEF IndInv, TypeOK, Request
  <2>3. CASE i < j
    BY <2>2, <2>3, LogOrder
  <2>4. CASE j < i
    BY <2>2, <2>4, LogOrder
  <2> QED BY <2>3, <2>4
<1> QED BY <1>1, Invariance, PTL

(* A late request is never accepted after a later one of the same host.    *)
THEOREM NeverOvertaken == Spec => []NoOvertaking
<1>1. IndInv => NoOvertaking
  BY LogOrder DEF NoOvertaking
<1> QED BY <1>1, Invariance, PTL

(* What is not retried is carried out once at most.                        *)
THEOREM NotRetriedOnce == Spec => []OnceUnlessRetried
<1>1. IndInv => OnceUnlessRetried
  <2> SUFFICES ASSUME IndInv, NEW i \in 1 .. Len(log), NEW j \in 1 .. Len(log), i # j,
                      log[i].host = log[j].host, log[i].call = log[j].call
               PROVE  log[i].action \in Retried
    BY DEF OnceUnlessRetried
  <2>1. log[i] \in sent /\ log[j] \in sent
    BY DEF IndInv, LogInOrder
  <2>2. log[i].id \in Nat /\ log[j].id \in Nat
    BY <2>1 DEF IndInv, TypeOK, Request
  <2>3. log[i].id # log[j].id
    <3>1. CASE i < j
      BY <2>2, <3>1, LogOrder
    <3>2. CASE j < i
      BY <2>2, <3>2, LogOrder
    <3> QED BY <3>1, <3>2
  <2> QED BY <2>1, <2>3 DEF IndInv, SentInOrder
<1> QED BY <1>1, Invariance, PTL

(* An answer that a client accepts is for the attempt that gets it.        *)
THEOREM AnswersAreGenuine == Spec => []GenuineAnswer
<1>1. IndInv => GenuineAnswer
  BY DEF IndInv
<1> QED BY <1>1, Invariance, PTL

(* A refusal means a reset, used-up numbers, or a number already taken.    *)
THEOREM RefusalsHaveCause == Spec => []RefusedForCause
<1>1. IndInv => RefusedForCause
  BY DEF IndInv
<1> QED BY <1>1, Invariance, PTL
=============================================================================
