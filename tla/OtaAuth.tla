------------------------------- MODULE OtaAuth -------------------------------
(***************************************************************************)
(* Authenticated requests between update clients (Client.call of           *)
(* installer/ethernet.py) and the board (ota_auth.c), over a network that  *)
(* loses, delays and repeats requests, loses and cuts short replies, and a *)
(* board that is reset at any time.  Keys are not modelled: who holds the  *)
(* board's key makes valid codes, and a code fits one request only.        *)
(*                                                                         *)
(* Each request has a connection of its own, so a reply can only reach the *)
(* request it is for; but the board may get to see a request long after    *)
(* the client has stopped waiting for it.                                  *)
(***************************************************************************)
EXTENDS Naturals, Sequences, FiniteSets

CONSTANTS
  Hosts,
  Actions,      \* what a request asks for
  Retried,      \* actions called with retry=True
  MaxAttempts,  \* 3 in the code
  MaxSequence,  \* UINT32_MAX in the code
  MaxCalls,     \* calls of one host
  MaxRequests,  \* attempts of all hosts
  MaxBoots      \* boots of the board

ASSUME AuthAssumption ==
  /\ Actions # {} /\ Retried \subseteq Actions
  /\ MaxAttempts \in Nat \ {0}
  /\ MaxSequence \in Nat /\ MaxSequence > 1
  /\ MaxCalls \in Nat /\ MaxRequests \in Nat
  /\ MaxBoots \in Nat \ {0}

VARIABLES
  boot,     \* this boot of the board, which names the nonce it draws
  ready,    \* the nonce of this boot has been drawn
  sequence, \* the number the board accepts next
  client,   \* the session and the call of each host
  reply,    \* what has come back on the connection a host waits for
  sent      \* requests the network may still deliver, once more each time

VARIABLES
  log       \* history: the requests the board has accepted

vars == <<boot, ready, sequence, client, reply, sent, log>>

NoNonce == 0      \* b"" in the client

Request ==
  [host : Hosts, call : Nat, id : Nat, action : Actions, nonce : Nat, seq : Nat]

Phases == {"idle", "calling", "waiting", "answered", "unauthenticated", "gave up"}

(* An attempt has the number id; left counts the attempts of this call.    *)
Session ==
  [phase : Phases,
   nonce : Nat, seq : Nat, call : Nat, id : Nat, action : Actions,
   left  : 0 .. MaxAttempts]

TypeOK ==
  /\ boot \in Nat \ {0}
  /\ ready \in BOOLEAN
  /\ sequence \in 0 .. MaxSequence
  /\ client \in [Hosts -> Session]
  /\ reply \in [Hosts -> {"none", "signed", "refused", "damaged"}]
  /\ sent \subseteq Request
  /\ log \in Seq(Request)

-----------------------------------------------------------------------------
(* The client.                                                             *)

Free(h) == client[h].phase \in {"idle", "answered", "unauthenticated", "gave up"}

(* Mutation: retry=False is ignored. *)
Mut_Call(h, a, renew) ==
  /\ Free(h)
  /\ client[h].call < MaxCalls
  /\ client' = [client EXCEPT ![h] =
       [client[h] EXCEPT !.phase = "calling", !.call = client[h].call + 1, !.action = a,
                         !.nonce = IF renew THEN NoNonce ELSE client[h].nonce,
                         !.left  = MaxAttempts]]
  /\ UNCHANGED <<boot, ready, sequence, reply, sent, log>>

(* A call on the client at hand, or on a new one (connect).                *)
Call(h, a, renew) ==
  /\ Free(h)
  /\ client[h].call < MaxCalls
  /\ client' = [client EXCEPT ![h] =
       [client[h] EXCEPT !.phase = "calling", !.call = client[h].call + 1, !.action = a,
                         !.nonce = IF renew THEN NoNonce ELSE client[h].nonce,
                         !.left  = IF a \in Retried THEN MaxAttempts ELSE 1]]
  /\ UNCHANGED <<boot, ready, sequence, reply, sent, log>>

(* GET status: the board draws its nonce when it is first asked.           *)
Challenge(h) ==
  /\ client[h].phase = "calling" /\ client[h].nonce = NoNonce
  /\ ready' = TRUE
  /\ sequence' = IF ready THEN sequence ELSE 1
  /\ sequence' # MaxSequence
  /\ client' = [client EXCEPT ![h] =
       [client[h] EXCEPT !.nonce = boot, !.seq = sequence']]
  /\ UNCHANGED <<boot, reply, sent, log>>

(* auth_ready is false: the random generator failed, or the numbers of     *)
(* this boot are used up.                                                  *)
ChallengeRefused(h) ==
  /\ client[h].phase = "calling" /\ client[h].nonce = NoNonce
  /\ ready => sequence = MaxSequence
  /\ client' = [client EXCEPT ![h].phase = "unauthenticated"]
  /\ UNCHANGED <<boot, ready, sequence, reply, sent, log>>

Attempt(h) ==
  LET c == client[h] IN
    [host |-> h, call |-> c.call, id |-> c.id, action |-> c.action,
     nonce |-> c.nonce, seq |-> c.seq]

Post(h) ==
  /\ client[h].phase = "calling" /\ client[h].nonce # NoNonce
  /\ Cardinality(sent) < MaxRequests
  /\ client' = [client EXCEPT ![h] =
       [client[h] EXCEPT !.phase = "waiting", !.id = client[h].id + 1]]
  /\ sent' = sent \cup {Attempt(h)'}
  /\ reply' = [reply EXCEPT ![h] = "none"]
  /\ UNCHANGED <<boot, ready, sequence, log>>

(* A reply whose code verifies: success or an error of the service.        *)
Answered(h) ==
  /\ client[h].phase = "waiting" /\ reply[h] = "signed"
  /\ client' = [client EXCEPT ![h] =
       [client[h] EXCEPT !.phase = "answered", !.seq = client[h].seq + 1]]
  /\ UNCHANGED <<boot, ready, sequence, reply, sent, log>>

(* AuthenticationError is not retried.                                     *)
Unauthenticated(h) ==
  /\ client[h].phase = "waiting" /\ reply[h] \in {"refused", "damaged"}
  /\ client' = [client EXCEPT ![h].phase = "unauthenticated"]
  /\ UNCHANGED <<boot, ready, sequence, reply, sent, log>>

(* Mutation: the session is kept over a lost reply. *)
Mut_ConnectionFails(h) ==
  /\ client[h].phase \in {"calling", "waiting"}
  /\ client' = [client EXCEPT ![h] =
       [client[h] EXCEPT !.left = client[h].left - 1,
                         !.phase = IF client[h].left = 1 THEN "gave up" ELSE "calling",
                         !.seq = IF client[h].phase = "waiting"
                                 THEN client[h].seq + 1 ELSE client[h].seq]]
  /\ UNCHANGED <<boot, ready, sequence, reply, sent, log>>

(* OSError of the challenge or of the request, the client's timeout         *)
(* included: the session is dropped and, while attempts are left, the next *)
(* one asks for a new challenge.                                           *)
ConnectionFails(h) ==
  /\ client[h].phase \in {"calling", "waiting"}
  /\ client' = [client EXCEPT ![h] =
       [client[h] EXCEPT !.left = client[h].left - 1, !.nonce = NoNonce,
                         !.phase = IF client[h].left = 1 THEN "gave up" ELSE "calling"]]
  /\ UNCHANGED <<boot, ready, sequence, reply, sent, log>>

-----------------------------------------------------------------------------
(* The board.                                                              *)

(* Mutation: the number of the request is not compared. *)
Mut_Genuine(m) == ready /\ m.nonce = boot /\ sequence # MaxSequence

(* g100_auth_request: the code is over this boot's nonce and number.       *)
Genuine(m) ==
  /\ ready /\ sequence # MaxSequence
  /\ m.seq = sequence /\ m.nonce = boot

(* What goes back on the connection of m, if its client still waits there  *)
(* and nothing has come back yet.                                          *)
Respond(m, r) ==
  LET h == m.host IN
    reply' = IF client[h].phase = "waiting" /\ client[h].id = m.id /\ reply[h] = "none"
             THEN [reply EXCEPT ![h] = r] ELSE reply

(* Mutation: the number is not used up. *)
Mut_Accept(m) ==
  /\ m \in sent /\ Genuine(m)
  /\ log' = Append(log, m)
  /\ Respond(m, "signed")
  /\ UNCHANGED <<boot, ready, sequence, client, sent>>

(* The number is used up whatever the service makes of the request.        *)
Accept(m) ==
  /\ m \in sent /\ Genuine(m)
  /\ sequence' = sequence + 1
  /\ log' = Append(log, m)
  /\ Respond(m, "signed")
  /\ UNCHANGED <<boot, ready, client, sent>>

(* Mutation: a refusal is signed for the request accepted before it. *)
Mut_Refuse(m) ==
  /\ m \in sent /\ ~Genuine(m)
  /\ Respond(m, "signed")
  /\ UNCHANGED <<boot, ready, sequence, client, sent, log>>

(* 401, and no code on the reply.                                          *)
Refuse(m) ==
  /\ m \in sent /\ ~Genuine(m)
  /\ Respond(m, "refused")
  /\ UNCHANGED <<boot, ready, sequence, client, sent, log>>

(* The reply is cut short, by a reset or by the network.                   *)
ReplyDamaged(h) ==
  /\ client[h].phase = "waiting" /\ reply[h] = "signed"
  /\ reply' = [reply EXCEPT ![h] = "damaged"]
  /\ UNCHANGED <<boot, ready, sequence, client, sent, log>>

Reset ==
  /\ boot < MaxBoots
  /\ boot' = boot + 1
  /\ ready' = FALSE /\ sequence' = 0
  /\ UNCHANGED <<client, reply, sent, log>>

-----------------------------------------------------------------------------
Init ==
  /\ boot = 1 /\ ready = FALSE /\ sequence = 0
  /\ client = [h \in Hosts |-> [phase |-> "idle", nonce |-> NoNonce, seq |-> 0,
                                call |-> 0, id |-> 0, left |-> 0,
                                action |-> CHOOSE a \in Actions : TRUE]]
  /\ reply = [h \in Hosts |-> "none"]
  /\ sent = {} /\ log = <<>>

Next ==
  \/ \E h \in Hosts :
       \/ \E a \in Actions, renew \in BOOLEAN : Call(h, a, renew)
       \/ Challenge(h) \/ ChallengeRefused(h) \/ Post(h)
       \/ Answered(h) \/ Unauthenticated(h) \/ ConnectionFails(h)
       \/ ReplyDamaged(h)
  \/ \E m \in sent : Accept(m) \/ Refuse(m)
  \/ Reset

Spec == Init /\ [][Next]_vars

-----------------------------------------------------------------------------
(* "Accepted request sequence numbers cannot be replayed": whatever the    *)
(* network repeats, no number of a boot and no attempt is accepted twice.  *)
AtMostOnce ==
  \A i, j \in 1 .. Len(log) : i # j =>
    /\ <<log[i].nonce, log[i].seq>> # <<log[j].nonce, log[j].seq>>
    /\ <<log[i].host, log[i].id>> # <<log[j].host, log[j].id>>

(* The board takes a host's requests in the order they were made: one the  *)
(* host has given up, and that arrives late, is not accepted after a later *)
(* one, over resets too.                                                   *)
NoOvertaking ==
  \A i, j \in 1 .. Len(log) :
    i < j /\ log[i].host = log[j].host => log[i].id < log[j].id

(* activate is sent with retry=False: a call that is not retried is        *)
(* carried out at most once.                                               *)
OnceUnlessRetried ==
  \A i, j \in 1 .. Len(log) :
    i # j /\ log[i].host = log[j].host /\ log[i].call = log[j].call
      => log[i].action \in Retried

(* A client that accepts an answer gets it from a board that has carried   *)
(* out this very attempt.                                                  *)
GenuineAnswer ==
  \A h \in Hosts :
    (client[h].phase = "waiting" /\ reply[h] = "signed") \/ client[h].phase = "answered"
      => \E i \in 1 .. Len(log) :
           /\ log[i].host = h /\ log[i].id = client[h].id
           /\ log[i].call = client[h].call /\ log[i].action = client[h].action

(* An attempt is refused only if the board has been reset since the        *)
(* challenge, has used all its numbers, or has accepted a request with     *)
(* this number: another host's, or an earlier attempt that came late.  A   *)
(* client that is alone, is not reset and loses no connection is never     *)
(* refused.                                                                *)
RefusedForCause ==
  \A h \in Hosts :
    client[h].phase = "waiting" /\ reply[h] = "refused" =>
      \/ client[h].nonce < boot
      \/ client[h].seq = MaxSequence
      \/ \E i \in 1 .. Len(log) :
           log[i].nonce = client[h].nonce /\ log[i].seq = client[h].seq
=============================================================================
