------------------------------ MODULE Notifier ------------------------------
(***************************************************************************)
(* The notifier (worker/notifier): goroutines that take a domain event off *)
(* the notifications endpoint, mark its envelope id in Redis with SET NX   *)
(* (infra/redis/dedup.go), publish the email command and settle the event. *)
(* Redis, the commands exchange and the event's own queue are three        *)
(* systems with no transaction across them, so process is split after each *)
(* call to one of them.                                                    *)
(***************************************************************************)
EXTENDS Endpoint

VARIABLES
  pc,         \* goroutine -> where process is, from MarkProcessed on
  marked,     \* events whose dedup key is in Redis
  confirmed,  \* event -> publishes of its command the broker confirmed
  taken,      \* event -> copies of its command the commands exchange took
  orphaned,   \* history: events whose key or copy a goroutine left behind
  forgotten   \* history: events whose dedup key expired

nvars == <<pc, marked, confirmed, taken, orphaned, forgotten>>
vars  == <<main, delayed, parked, held, detached, sent, acked, faults,
           pc, marked, confirmed, taken, orphaned, forgotten>>

(* "retry" is a failed publish whose dedup key has been dealt with. *)
Steps == {"publish", "unmark", "retry"}

NTypeOK ==
  /\ TypeOK
  /\ DOMAIN pc \subseteq DOMAIN held
  /\ pc \in [DOMAIN pc -> Steps]
  /\ marked \subseteq Msgs
  /\ confirmed \in [Msgs -> Nat]
  /\ taken \in [Msgs -> Nat]
  /\ orphaned \subseteq Msgs
  /\ forgotten \subseteq Msgs

NInit ==
  /\ Init
  /\ pc = [w \in {} |-> 0]
  /\ marked = {}
  /\ confirmed = [m \in Msgs |-> 0]
  /\ taken = [m \in Msgs |-> 0]
  /\ orphaned = {} /\ forgotten = {}

Goto(w, step) == [z \in DOMAIN pc \cup {w} |-> IF z = w THEN step ELSE pc[z]]

(* Goroutine w has just been handed event m. *)
Fresh(w) == w \in DOMAIN held /\ w \notin DOMAIN pc
At(w, step) == w \in DOMAIN pc /\ pc[w] = step

(* Mutant: what cannot be decoded is acked. *)
AckPoison(w) ==
  /\ Fresh(w) /\ held[w].msg \in Poison
  /\ Ack(w)
  /\ UNCHANGED nvars

(* An envelope that cannot be decoded, or of an unknown type: dead-letter. *)
RejectPoison(w) ==
  /\ Fresh(w) /\ held[w].msg \in Poison
  /\ DeadLetter(w)
  /\ UNCHANGED nvars

(* Mutant: SET without NX. *)
MarkAlways(w) ==
  /\ Fresh(w) /\ held[w].msg \notin Poison
  /\ marked' = marked \cup {held[w].msg}
  /\ pc' = Goto(w, "publish")
  /\ UNCHANGED <<confirmed, taken, orphaned, forgotten>> /\ UNCHANGED evars

(* MarkProcessed sets the key; the event goes on to be published. *)
MarkProcessed(w) ==
  /\ Fresh(w) /\ held[w].msg \notin Poison
  /\ held[w].msg \notin marked
  /\ marked' = marked \cup {held[w].msg}
  /\ pc' = Goto(w, "publish")
  /\ UNCHANGED <<confirmed, taken, orphaned, forgotten>> /\ UNCHANGED evars

(* The key was there: a duplicate, acked without a command. *)
SkipDuplicate(w) ==
  /\ Fresh(w) /\ held[w].msg \in marked \ Poison
  /\ Ack(w)
  /\ UNCHANGED nvars

(* Redis does not answer.  The key may have been set all the same, and then *)
(* nobody publishes the event or rolls the key back.                        *)
MarkError(w) ==
  /\ Fresh(w) /\ held[w].msg \notin Poison
  /\ Fault("dedup")
  /\ marked' \in {marked, marked \cup {held[w].msg}}
  /\ orphaned' = orphaned \cup (marked' \ marked)
  /\ pc' = Goto(w, "retry")
  /\ UNCHANGED <<confirmed, taken, forgotten>>
  /\ UNCHANGED <<main, delayed, parked, held, detached, sent, acked>>

(* Mutant: process goes on after the ack. *)
PublishFallsThrough(w) ==
  /\ At(w, "publish")
  /\ taken' = [taken EXCEPT ![held[w].msg] = @ + 1]
  /\ confirmed' = [confirmed EXCEPT ![held[w].msg] = @ + 1]
  /\ Ack(w)
  /\ UNCHANGED <<pc, marked, orphaned, forgotten>>

(* The broker confirms the command and the event is acked. *)
PublishConfirmed(w) ==
  /\ At(w, "publish")
  /\ taken' = [taken EXCEPT ![held[w].msg] = @ + 1]
  /\ confirmed' = [confirmed EXCEPT ![held[w].msg] = @ + 1]
  /\ pc' = Drop(pc, w)
  /\ Ack(w)
  /\ UNCHANGED <<marked, orphaned, forgotten>>

(* Publish returns an error: refused, or taken with the confirm lost. *)
PublishError(w) ==
  /\ At(w, "publish")
  /\ Fault("publish")
  /\ \/ UNCHANGED taken
     \/ taken' = [taken EXCEPT ![held[w].msg] = @ + 1]
  /\ pc' = Goto(w, "unmark")
  /\ UNCHANGED <<marked, confirmed, orphaned, forgotten>>
  /\ UNCHANGED <<main, delayed, parked, held, detached, sent, acked>>

(* Mutant: the key is not rolled back. *)
UnmarkNothing(w) ==
  /\ At(w, "unmark")
  /\ pc' = Goto(w, "retry")
  /\ UNCHANGED <<marked, confirmed, taken, orphaned, forgotten>> /\ UNCHANGED evars

(* Mutant: an event whose publish failed is acked. *)
AckFailedEvent(w) ==
  /\ At(w, "retry")
  /\ Ack(w)
  /\ pc' = Drop(pc, w)
  /\ UNCHANGED <<marked, confirmed, taken, orphaned, forgotten>>

(* The rollback of the dedup key, whose own failure is only logged. *)
Unmark(w) ==
  /\ At(w, "unmark")
  /\ \/ marked' = marked \ {held[w].msg} /\ UNCHANGED <<faults, orphaned>>
     \/ UNCHANGED marked /\ Fault("unmark") /\ orphaned' = orphaned \cup {held[w].msg}
  /\ pc' = Goto(w, "retry")
  /\ UNCHANGED <<confirmed, taken, forgotten>>
  /\ UNCHANGED <<main, delayed, parked, held, detached, sent, acked>>

(* On a closed channel the requeue after a failed retry is not possible,    *)
(* and the copy the broker redelivered may have been skipped meanwhile.     *)
RetryEvent(w) ==
  /\ At(w, "retry")
  /\ Retry(w)
  /\ pc' = Drop(pc, w)
  /\ orphaned' = IF w \in detached THEN orphaned \cup {held[w].msg} ELSE orphaned
  /\ UNCHANGED <<marked, confirmed, taken, forgotten>>

(* The notifier dies: the event is redelivered, the dedup key stays. *)
Die(w) ==
  /\ Crash(w)
  /\ pc' = Drop(pc, w)
  /\ orphaned' = IF w \in DOMAIN pc THEN orphaned \cup {held[w].msg} ELSE orphaned
  /\ UNCHANGED <<marked, confirmed, taken, forgotten>>

(* The dedup key's TTL runs out, or Redis loses it. *)
ForgetKey(m) ==
  /\ Fault("expire")
  /\ m \in marked
  /\ marked' = marked \ {m}
  /\ forgotten' = forgotten \cup {m}
  /\ UNCHANGED <<pc, confirmed, taken, orphaned>>
  /\ UNCHANGED <<main, delayed, parked, held, detached, sent, acked>>

Process(w) ==
  \/ RejectPoison(w) \/ MarkProcessed(w) \/ SkipDuplicate(w) \/ MarkError(w)
  \/ PublishConfirmed(w) \/ PublishError(w) \/ Unmark(w) \/ RetryEvent(w)

NNext ==
  \/ \E m \in Msgs : Arrive(m) /\ UNCHANGED nvars
  \/ \E c \in Copy : Expire(c) /\ UNCHANGED nvars
  \/ \E c \in Copy, w \in Workers : Deliver(w, c) /\ UNCHANGED nvars
  \/ \E w \in Workers : Process(w) \/ Die(w)
  \/ \E w \in Workers : Detach(w) /\ UNCHANGED nvars
  \/ \E m \in Msgs : ForgetKey(m)

NSpec == NInit /\ [][NNext]_vars

(* As in Endpoint: the broker delivers and expires, process returns. *)
NFairness ==
  /\ \A c \in Copy : WF_vars(Expire(c) /\ UNCHANGED nvars)
  /\ \A w \in Workers :
       /\ WF_vars(\E c \in Copy : Deliver(w, c) /\ UNCHANGED nvars)
       /\ WF_vars(Process(w))

NFairSpec == NSpec /\ NFairness

(***************************************************************************)
(* Properties                                                              *)
(***************************************************************************)
(* An event is published at most once with success: once the broker has     *)
(* confirmed its command, no redelivery, duplicate, retry or restart makes  *)
(* the notifier publish it again, unless its dedup key expired              *)
(* (system_design.md, Idempotency).                                         *)
ConfirmedAtMostOnce ==
  \A m \in Msgs \ forgotten : confirmed[m] <= 1

(* An event's command reached the broker, or the event is still on its way, *)
(* being worked on or parked in the DLQ.                                    *)
Accounted(m) ==
  \/ taken[m] > 0 \/ InFlight(m) \/ Parked(m)
  \/ \E w \in DOMAIN pc : held[w].msg = m

(* The window in which an event can be lost is the one between its dedup    *)
(* key and its command: only a goroutine that dies in it, or loses Redis or *)
(* its channel, leaves an event unaccounted for.  Failed publishes,         *)
(* duplicates, expired keys and redeliveries alone lose nothing.            *)
EventIsNotLost == \A m \in sent \ orphaned : Accounted(m)

(* Every event that is not orphaned ends as a command or in the DLQ. *)
EveryEventSettles ==
  \A m \in Msgs : (m \in sent) ~> (taken[m] > 0 \/ Parked(m) \/ m \in orphaned)

(* The notifier is a handler as Endpoint has them: whatever path process    *)
(* takes, it settles each delivery once, and in the end, dead-letters what  *)
(* it cannot decode and never acks it, and touches the queues in no other   *)
(* way.                                                                     *)
ImplementsEndpoint == FairSpec

(* system_design.md:125: an event is acked only after its command is        *)
(* published; "a crash in between causes broker redelivery, never loss".    *)
NeverLost == \A m \in sent : Accounted(m)
=============================================================================
