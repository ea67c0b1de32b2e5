------------------------------ MODULE Endpoint ------------------------------
(***************************************************************************)
(* A consumer endpoint on RabbitMQ (infra/rabbitmq): the main queue, the   *)
(* retry tiers that dead-letter back into it, the DLQ, and the consumer    *)
(* goroutines that settle each delivery with Ack, Retry or DeadLetter      *)
(* (consumer.go).  The notifications, mailer and onboarding.saga queues    *)
(* are three such endpoints.                                               *)
(*                                                                         *)
(* A queue is a bag of copies; a copy is a message and its x-attempts      *)
(* header.  Queues are not ordered: tiers and requeues reorder anyway.     *)
(***************************************************************************)
EXTENDS Integers, FiniteSets

CONSTANTS
  Msgs,        \* messages published to the endpoint
  Poison,      \* the ones the handler cannot decode
  Workers,     \* consumer goroutines
  Tiers,       \* RetryPolicy.Tiers
  FaultKinds,  \* kinds of failure that can happen, of AllFaults
  MaxFaults    \* bound: failures in a behaviour

(* publish: a publish is refused, or accepted without the confirm arriving; *)
(* disconnect: the channel closes and unacked copies return to the queue;   *)
(* crash: the consumer's process dies; upstream: a message arrives twice.   *)
(* The others are the handlers' own (Redis and SMTP).                       *)
AllFaults == {"publish", "disconnect", "crash", "upstream",
              "dedup", "unmark", "expire", "smtp", "shutdown"}

ASSUME EndpointAssumption ==
  /\ Poison \subseteq Msgs
  /\ Tiers \in Nat
  /\ FaultKinds \subseteq AllFaults
  /\ MaxFaults \in Nat

VARIABLES
  main,      \* copies in the main queue
  delayed,   \* copies in retry tier att - 1, until its TTL runs out
  parked,    \* copies in the DLQ
  held,      \* being handled: goroutine -> copy
  detached,  \* goroutines whose channel closed, and copy returned, meanwhile
  sent,      \* messages published so far
  acked,     \* messages a handler decided to ack
  faults     \* failures so far

queues == <<main, delayed, parked>>
evars  == <<main, delayed, parked, held, detached, sent, acked, faults>>

Copy == [msg: Msgs, att: 0..Tiers]

TypeOK ==
  /\ main \in [Copy -> Nat]
  /\ delayed \in [Copy -> Nat]
  /\ parked \in [Copy -> Nat]
  /\ DOMAIN held \subseteq Workers
  /\ held \in [DOMAIN held -> Copy]
  /\ detached \subseteq DOMAIN held
  /\ sent \subseteq Msgs
  /\ acked \subseteq Msgs
  /\ faults \in 0..MaxFaults

Init ==
  /\ main    = [c \in Copy |-> 0]
  /\ delayed = [c \in Copy |-> 0]
  /\ parked  = [c \in Copy |-> 0]
  /\ held    = [w \in {} |-> 0]
  /\ detached = {} /\ sent = {} /\ acked = {}
  /\ faults = 0

Inc(bag, c) == [bag EXCEPT ![c] = @ + 1]
Dec(bag, c) == [bag EXCEPT ![c] = @ - 1]
Drop(f, x)  == [z \in DOMAIN f \ {x} |-> f[z]]
Hold(w, c)  == [z \in DOMAIN held \cup {w} |-> IF z = w THEN c ELSE held[z]]

Fault(kind) == kind \in FaultKinds /\ faults < MaxFaults /\ faults' = faults + 1

(***************************************************************************)
(* Into and out of the queues                                              *)
(***************************************************************************)
First(m) == [msg |-> m, att |-> 0]

(* A publisher's message arrives; x-attempts is not set, which reads as 0.  *)
(* A message arrives again when its publisher missed the confirm.           *)
Arrive(m) ==
  /\ IF m \in sent THEN Fault("upstream") ELSE UNCHANGED faults
  /\ sent' = sent \cup {m}
  /\ main' = Inc(main, First(m))
  /\ UNCHANGED <<delayed, parked, held, detached, acked>>

(* The broker hands a copy to an idle goroutine. *)
Deliver(w, c) ==
  /\ w \notin DOMAIN held
  /\ main[c] > 0
  /\ main' = Dec(main, c)
  /\ held' = Hold(w, c)
  /\ UNCHANGED <<delayed, parked, detached, sent, acked, faults>>

(* The tier's TTL runs out and the copy is dead-lettered to the main queue. *)
Expire(c) ==
  /\ delayed[c] > 0
  /\ delayed' = Dec(delayed, c)
  /\ main' = Inc(main, c)
  /\ UNCHANGED <<parked, held, detached, sent, acked, faults>>

(* The delivery's channel closes: the broker requeues the copy, while the   *)
(* handler, which has not noticed, goes on working on it.                   *)
Detach(w) ==
  /\ w \in DOMAIN held \ detached
  /\ Fault("disconnect")
  /\ main' = Inc(main, held[w])
  /\ detached' = detached \cup {w}
  /\ UNCHANGED <<delayed, parked, held, sent, acked>>

(* w is done with its copy; Returned is the main queue with that copy put   *)
(* back, unless the broker has already done so.                             *)
Release(w)  == held' = Drop(held, w) /\ detached' = detached \ {w}
Returned(w) == IF w \in detached THEN main ELSE Inc(main, held[w])

(* The process of goroutine w dies before the copy is settled. *)
Crash(w) ==
  /\ w \in DOMAIN held
  /\ Fault("crash")
  /\ main' = Returned(w)
  /\ Release(w)
  /\ UNCHANGED <<delayed, parked, sent, acked>>

(***************************************************************************)
(* Settling a delivery: a handler's last call.  On a closed channel the    *)
(* ack and the nack fail, which is only logged.                            *)
(***************************************************************************)
Ack(w) ==
  /\ w \in DOMAIN held
  /\ acked' = acked \cup {held[w].msg}
  /\ Release(w)
  /\ UNCHANGED <<main, delayed, parked, sent, faults>>

(* Mutant: the original is acked whether or not the publish succeeded. *)
ForwardAcksAnyway(w, bag, c) ==
  \/ bag' = Inc(bag, c) /\ UNCHANGED <<main, faults>>
  \/ bag' \in {bag, Inc(bag, c)} /\ UNCHANGED main /\ Fault("publish")

(* Publish a copy to bag, wait for the confirm, then ack the original.  On *)
(* an error, which the broker may return late for a copy it took, the      *)
(* original is nacked with requeue and keeps its attempt count.            *)
Forward(w, bag, c) ==
  \/ bag' = Inc(bag, c) /\ UNCHANGED <<main, faults>>
  \/ bag' \in {bag, Inc(bag, c)} /\ main' = Returned(w) /\ Fault("publish")

DeadLetter(w) ==
  /\ w \in DOMAIN held
  /\ Release(w)
  /\ Forward(w, parked, held[w])
  /\ UNCHANGED <<delayed, sent, acked>>

(* Mutant: the last tier is never used. *)
RetryOffByOne(w) ==
  /\ w \in DOMAIN held
  /\ IF held[w].att + 1 >= Tiers
       THEN DeadLetter(w)
       ELSE /\ Release(w)
            /\ Forward(w, delayed, [held[w] EXCEPT !.att = @ + 1])
            /\ UNCHANGED <<parked, sent, acked>>

(* Retry: the tier matching the attempt count, or the DLQ past the last. *)
Retry(w) ==
  /\ w \in DOMAIN held
  /\ IF held[w].att + 1 > Tiers
       THEN DeadLetter(w)
       ELSE /\ Release(w)
            /\ Forward(w, delayed, [held[w] EXCEPT !.att = @ + 1])
            /\ UNCHANGED <<parked, sent, acked>>

(***************************************************************************)
(* Specification: any handler that dead-letters poison and acks or retries *)
(* the rest.                                                               *)
(***************************************************************************)
Handle(w) ==
  /\ w \in DOMAIN held
  /\ IF held[w].msg \in Poison THEN DeadLetter(w) ELSE Ack(w) \/ Retry(w)

(* A call the handler makes to another system fails; it goes on. *)
Stumble(kind) ==
  /\ Fault(kind)
  /\ UNCHANGED <<main, delayed, parked, held, detached, sent, acked>>

Next ==
  \/ \E m \in Msgs : Arrive(m)
  \/ \E c \in Copy : Expire(c) \/ \E w \in Workers : Deliver(w, c)
  \/ \E w \in Workers : Handle(w) \/ Detach(w) \/ Crash(w)
  \/ \E kind \in FaultKinds : Stumble(kind)

Spec == Init /\ [][Next]_evars

(* The broker delivers what it holds and expires what it delays, and every  *)
(* handler returns (SMTP, Redis and publish calls have timeouts).           *)
Fairness ==
  /\ \A c \in Copy : WF_evars(Expire(c))
  /\ \A w \in Workers : WF_evars(\E c \in Copy : Deliver(w, c)) /\ WF_evars(Handle(w))

FairSpec == Spec /\ Fairness

(***************************************************************************)
(* Properties                                                              *)
(***************************************************************************)
InFlight(m) ==
  \E c \in Copy : /\ c.msg = m
                  /\ \/ main[c] > 0
                     \/ delayed[c] > 0
                     \/ \E w \in DOMAIN held \ detached : held[w] = c

Parked(m) == \E c \in Copy : c.msg = m /\ parked[c] > 0

(* No message is lost: until a handler decides to ack it, a copy is in the  *)
(* main queue, in a tier, in a worker's hands or in the DLQ, whatever       *)
(* publish, confirm, ack or connection fails (NFR3, consumer.go).           *)
NothingLost == \A m \in sent : m \in acked \/ InFlight(m) \/ Parked(m)

(* A message reaches the DLQ because it is poison or because it used up     *)
(* every tier: a requeue after a failed publish does not cost an attempt.   *)
ParkedIsExhausted ==
  \A c \in Copy : parked[c] > 0 => c.msg \in Poison \/ c.att = Tiers
=============================================================================
