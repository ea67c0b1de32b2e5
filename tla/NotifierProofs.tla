--------------------------- MODULE NotifierProofs ---------------------------
(***************************************************************************)
(* Proofs about Notifier: the guarantees of its endpoint carry over, and   *)
(* no event is published twice with success unless its dedup key expired,  *)
(* for any number of goroutines, redeliveries and failures.                *)
(***************************************************************************)
EXTENDS Notifier, EndpointProofs

(* Goroutines between MarkProcessed and the outcome of the publish or the   *)
(* rollback: the ones that own their event's dedup key.                     *)
Owner(w) == w \in DOMAIN pc /\ pc[w] \in {"publish", "unmark"}

(* Unless its key expired, an event has one owner, its key is set and       *)
(* nothing was confirmed while it has one; and a confirmed event's key is   *)
(* set.                                                                     *)
KeyIsOwned ==
  /\ \A v, w \in DOMAIN pc :
       Owner(v) /\ Owner(w) /\ held[v].msg = held[w].msg /\ held[w].msg \notin forgotten => v = w
  /\ \A w \in DOMAIN pc :
       Owner(w) /\ held[w].msg \notin forgotten
         => held[w].msg \in marked /\ confirmed[held[w].msg] = 0
  /\ \A m \in Msgs \ forgotten : confirmed[m] = 0 \/ (confirmed[m] = 1 /\ m \in marked)

NTypes ==
  /\ DOMAIN pc \subseteq DOMAIN held
  /\ pc \in [DOMAIN pc -> Steps]
  /\ marked \subseteq Msgs
  /\ confirmed \in [Msgs -> Nat]
  /\ taken \in [Msgs -> Nat]
  /\ orphaned \subseteq Msgs
  /\ forgotten \subseteq Msgs

(* What the endpoint and the types need, and the inductive invariant for    *)
(* ConfirmedAtMostOnce.                                                     *)
NBase == EInv /\ NTypes
NInv  == NBase /\ KeyIsOwned

(* Moving a goroutine on changes its own place only. *)
LEMMA GotoFacts ==
  ASSUME NTypes, NEW w \in DOMAIN held, NEW step \in Steps,
         pc' = Goto(w, step), held' = held
  PROVE  /\ DOMAIN pc' = DOMAIN pc \cup {w} /\ DOMAIN pc' \subseteq DOMAIN held'
         /\ pc' \in [DOMAIN pc' -> Steps]
         /\ pc'[w] = step
         /\ \A v \in DOMAIN pc : v # w => pc'[v] = pc[v]
  BY DEF NTypes, Goto

(* A goroutine is done with its event; its copy and place are forgotten. *)
LEMMA DoneFacts ==
  ASSUME NTypes, TypeOK, NEW w \in DOMAIN held, Release(w),
         pc' = Drop(pc, w) \/ (w \notin DOMAIN pc /\ pc' = pc)
  PROVE  /\ DOMAIN pc' = DOMAIN pc \ {w} /\ DOMAIN pc' \subseteq DOMAIN held'
         /\ pc' \in [DOMAIN pc' -> Steps]
         /\ \A v \in DOMAIN pc' : pc'[v] = pc[v] /\ held'[v] = held[v]
<1>1. /\ DOMAIN held' = DOMAIN held \ {w}
      /\ \A v \in DOMAIN held \ {w} : held'[v] = held[v]
  BY ReleaseFacts
<1>2. /\ DOMAIN pc' = DOMAIN pc \ {w}
      /\ \A v \in DOMAIN pc \ {w} : pc'[v] = pc[v]
      /\ pc' \in [DOMAIN pc' -> Steps]
  BY DEF Drop, NTypes
<1> QED BY <1>1, <1>2 DEF NTypes

(* Every way of settling a delivery releases it. *)
LEMMA SettlingReleases ==
  ASSUME NEW w, Ack(w) \/ DeadLetter(w) \/ Retry(w) \/ Crash(w)
  PROVE  w \in DOMAIN held /\ Release(w)
  BY DEF Ack, DeadLetter, Retry, Crash

(* The notifier starts idle, with no key marked and nothing published. *)
LEMMA InitNInv == NInit => NInv
<1> SUFFICES ASSUME NInit PROVE NInv
  OBVIOUS
<1>1. EInv
  BY InitEInv DEF NInit
<1>2. NTypes
  BY DEF NInit, NTypes, Init
<1>3. KeyIsOwned
  BY DEF NInit, KeyIsOwned
<1> QED BY <1>1, <1>2, <1>3 DEF NInv, NBase

(* Where process has gone on from MarkProcessed, its event is no poison. *)
PoisonIsRejected == \A w \in DOMAIN pc : w \in DOMAIN held /\ held[w].msg \notin Poison

(* Every step of the notifier is a step of its endpoint, or leaves it alone. *)
LEMMA NextEndpoint == PoisonIsRejected /\ [NNext]_vars => [Next]_evars
<1> SUFFICES ASSUME PoisonIsRejected, [NNext]_vars PROVE [Next]_evars
  OBVIOUS
<1>1. ASSUME NEW w \in Workers, Process(w) PROVE [Next]_evars
  <2>1. CASE RejectPoison(w)
    BY <2>1 DEF RejectPoison, Fresh, Handle, Next
  <2>2. CASE MarkProcessed(w)
    BY <2>2 DEF MarkProcessed
  <2>3. CASE SkipDuplicate(w)
    BY <2>3 DEF SkipDuplicate, Fresh, Handle, Next
  <2>4. CASE MarkError(w)
    BY <2>4 DEF MarkError, Stumble, Fault, Next
  <2>5. CASE PublishConfirmed(w)
    BY <2>5 DEF PublishConfirmed, At, PoisonIsRejected, Handle, Next
  <2>6. CASE PublishError(w)
    BY <2>6 DEF PublishError, Stumble, Fault, Next
  <2>7. CASE Unmark(w)
    BY <2>7 DEF Unmark, Stumble, Fault, Next, evars
  <2>8. CASE RetryEvent(w)
    BY <2>8 DEF RetryEvent, At, PoisonIsRejected, Handle, Next
  <2> QED BY <1>1, <2>1, <2>2, <2>3, <2>4, <2>5, <2>6, <2>7, <2>8 DEF Process
<1>2. ASSUME NEW w \in Workers, Die(w) \/ Detach(w) PROVE [Next]_evars
  BY <1>2 DEF Die, Next
<1>3. ASSUME NEW m \in Msgs, Arrive(m) PROVE [Next]_evars
  BY <1>3 DEF Next
<1>4. ASSUME NEW m \in Msgs, ForgetKey(m) PROVE [Next]_evars
  BY <1>4 DEF ForgetKey, Stumble, Fault, Next
<1>5. ASSUME NEW c \in Copy, Expire(c) \/ \E w \in Workers : Deliver(w, c) PROVE [Next]_evars
  BY <1>5 DEF Next
<1>6. CASE UNCHANGED vars
  BY <1>6 DEF vars, evars
<1> QED BY <1>1, <1>2, <1>3, <1>4, <1>5, <1>6 DEF NNext

(* Steps of the broker: a goroutine's place and event stay as they are. *)
LEMMA BrokerStep ==
  ASSUME NBase, UNCHANGED nvars,
         \/ UNCHANGED held
         \/ \E w \in Workers, c \in Copy : Deliver(w, c)
  PROVE  NTypes' /\ (KeyIsOwned => KeyIsOwned')
<1>1. /\ DOMAIN held \subseteq DOMAIN held'
      /\ \A v \in DOMAIN held : held'[v] = held[v]
  BY DEF Deliver, Hold
<1>2. NTypes'
  BY <1>1 DEF NBase, NTypes, nvars
<1>3. \A v \in DOMAIN pc : held'[v] = held[v] /\ pc'[v] = pc[v]
  BY <1>1 DEF NBase, NTypes, nvars
<1> QED BY <1>2, <1>3 DEF KeyIsOwned, Owner, nvars

(* A goroutine that is not an owner, or whose key stays with nobody,        *)
(* settles its event.                                                       *)
LEMMA DoneStep ==
  ASSUME NBase, NEW w \in Workers, Ack(w) \/ DeadLetter(w) \/ Retry(w) \/ Crash(w),
         pc' = Drop(pc, w) \/ (w \notin DOMAIN pc /\ pc' = pc),
         orphaned' \subseteq Msgs, UNCHANGED <<marked, confirmed, taken, forgotten>>
  PROVE  NTypes' /\ (KeyIsOwned => KeyIsOwned')
<1>1. w \in DOMAIN held /\ Release(w) /\ TypeOK /\ NTypes
  BY SettlingReleases DEF NBase, EInv
<1>2. /\ DOMAIN pc' = DOMAIN pc \ {w} /\ DOMAIN pc' \subseteq DOMAIN held'
      /\ pc' \in [DOMAIN pc' -> Steps]
      /\ \A v \in DOMAIN pc' : pc'[v] = pc[v] /\ held'[v] = held[v]
  BY <1>1, DoneFacts
<1> QED BY <1>1, <1>2 DEF NTypes, KeyIsOwned, Owner

(* The types after a step of process that goes on to another one. *)
LEMMA GotoStep ==
  ASSUME NBase, NEW w \in DOMAIN held, NEW step \in Steps,
         pc' = Goto(w, step), held' = held,
         marked' \subseteq Msgs, orphaned' \subseteq Msgs, taken' \in [Msgs -> Nat],
         UNCHANGED <<confirmed, forgotten>>
  PROVE  NTypes'
  BY GotoFacts DEF NBase, NTypes

(* The inductive step for process: one case for each of its steps. *)
LEMMA ProcessNInv ==
  ASSUME NBase, NEW w \in Workers, Process(w)
  PROVE  NTypes' /\ (KeyIsOwned => KeyIsOwned')
<1> DEFINE m == held[w].msg
<1>1. w \in DOMAIN held => held[w] \in Copy /\ m \in Msgs
  BY DEF NBase, EInv, TypeOK, Copy
<1>2. w \in DOMAIN pc => w \in DOMAIN held
  BY DEF NBase, NTypes
<1>3. NTypes
  BY DEF NBase
<1>4. CASE RejectPoison(w)
  BY <1>3, <1>4, DoneStep DEF RejectPoison, Fresh, nvars, NTypes
<1>5. CASE SkipDuplicate(w)
  BY <1>3, <1>5, DoneStep DEF SkipDuplicate, Fresh, nvars, NTypes
<1>6. CASE RetryEvent(w)
  <2>1. w \in DOMAIN pc /\ orphaned' \subseteq Msgs
    BY <1>1, <1>2, <1>3, <1>6 DEF RetryEvent, At, NTypes
  <2> QED BY <1>6, <2>1, DoneStep DEF RetryEvent
<1>7. CASE MarkProcessed(w)
  <2>1. /\ w \in DOMAIN held /\ w \notin DOMAIN pc /\ m \in Msgs /\ m \notin marked
        /\ marked' = marked \cup {m} /\ pc' = Goto(w, "publish")
        /\ UNCHANGED <<held, confirmed, taken, orphaned, forgotten>>
    BY <1>1, <1>7 DEF MarkProcessed, Fresh, evars
  <2>2. NTypes'
    BY <1>3, <2>1, GotoStep DEF NTypes, Steps
  <2>3. /\ DOMAIN pc' = DOMAIN pc \cup {w} /\ pc'[w] = "publish"
        /\ \A v \in DOMAIN pc : v # w => pc'[v] = pc[v]
    BY <1>3, <2>1, GotoFacts DEF Steps
  <2>4. ASSUME KeyIsOwned PROVE KeyIsOwned'
    <3>1. m \notin forgotten =>
            confirmed[m] = 0 /\ \A v \in DOMAIN pc : Owner(v) => held[v].msg # m
      BY <2>1, <2>4 DEF KeyIsOwned
    <3> QED BY <2>1, <2>3, <2>4, <3>1 DEF KeyIsOwned, Owner
  <2> QED BY <2>2, <2>4
<1>8. CASE MarkError(w)
  <2>1. /\ w \in DOMAIN held /\ w \notin DOMAIN pc /\ m \in Msgs
        /\ marked' \in {marked, marked \cup {m}} /\ pc' = Goto(w, "retry")
        /\ orphaned' = orphaned \cup (marked' \ marked)
        /\ UNCHANGED <<held, confirmed, taken, forgotten>>
    BY <1>1, <1>8 DEF MarkError, Fresh
  <2>2. NTypes'
    BY <1>3, <2>1, GotoStep DEF NTypes, Steps
  <2>3. /\ DOMAIN pc' = DOMAIN pc \cup {w} /\ pc'[w] = "retry"
        /\ \A v \in DOMAIN pc : v # w => pc'[v] = pc[v]
    BY <1>3, <2>1, GotoFacts DEF Steps
  <2>4. KeyIsOwned => KeyIsOwned'
    BY <2>1, <2>3 DEF KeyIsOwned, Owner
  <2> QED BY <2>2, <2>4
<1>9. CASE PublishConfirmed(w)
  <2>1. /\ w \in DOMAIN held /\ w \in DOMAIN pc /\ pc[w] = "publish" /\ m \in Msgs
        /\ taken' = [taken EXCEPT ![m] = @ + 1]
        /\ confirmed' = [confirmed EXCEPT ![m] = @ + 1]
        /\ pc' = Drop(pc, w) /\ Release(w) /\ UNCHANGED <<marked, orphaned, forgotten>>
    BY <1>1, <1>2, <1>9 DEF PublishConfirmed, At, Ack
  <2>2. /\ DOMAIN pc' = DOMAIN pc \ {w} /\ DOMAIN pc' \subseteq DOMAIN held'
        /\ pc' \in [DOMAIN pc' -> Steps]
        /\ \A v \in DOMAIN pc' : pc'[v] = pc[v] /\ held'[v] = held[v]
    BY <1>3, <2>1, DoneFacts DEF NBase, EInv
  <2>3. NTypes'
    BY <1>3, <2>1, <2>2 DEF NTypes
  <2>4. ASSUME KeyIsOwned PROVE KeyIsOwned'
    <3>1. Owner(w) /\ (m \notin forgotten => m \in marked /\ confirmed[m] = 0)
      BY <2>1, <2>4 DEF KeyIsOwned, Owner
    <3>2. m \notin forgotten => \A v \in DOMAIN pc' : Owner(v) => held[v].msg # m
      BY <2>1, <2>2, <2>4, <3>1 DEF KeyIsOwned
    <3>3. /\ m \notin forgotten => confirmed'[m] = 1
          /\ \A n \in Msgs : n # m => confirmed'[n] = confirmed[n]
      BY <1>3, <2>1, <3>1 DEF NTypes
    <3> HIDE DEF m
    <3>4. \A n \in Msgs \ forgotten : confirmed'[n] = 0 \/ (confirmed'[n] = 1 /\ n \in marked')
      BY <2>1, <2>4, <3>1, <3>3 DEF KeyIsOwned
    <3>5. \A v \in DOMAIN pc' : Owner(v)' => Owner(v) /\ held'[v].msg \in Msgs /\ held'[v].msg = held[v].msg
      BY <2>2, <2>1 DEF Owner, NBase, EInv, TypeOK, Copy, NTypes
    <3> QED BY <2>1, <2>2, <2>4, <3>2, <3>3, <3>4, <3>5 DEF KeyIsOwned
  <2> QED BY <2>3, <2>4
<1>10. CASE PublishError(w)
  <2>1. /\ w \in DOMAIN held /\ w \in DOMAIN pc /\ pc[w] = "publish" /\ m \in Msgs
        /\ taken' \in {taken, [taken EXCEPT ![m] = @ + 1]}
        /\ pc' = Goto(w, "unmark")
        /\ UNCHANGED <<held, marked, confirmed, orphaned, forgotten>>
    BY <1>1, <1>2, <1>10 DEF PublishError, At
  <2>2. taken' \in [Msgs -> Nat]
    BY <1>3, <2>1 DEF NTypes
  <2>3. NTypes'
    BY <1>3, <2>1, <2>2, GotoStep DEF NTypes, Steps
  <2>4. /\ DOMAIN pc' = DOMAIN pc \cup {w} /\ pc'[w] = "unmark"
        /\ \A v \in DOMAIN pc : v # w => pc'[v] = pc[v]
    BY <1>3, <2>1, GotoFacts DEF Steps
  <2>5. KeyIsOwned => KeyIsOwned'
    BY <2>1, <2>4 DEF KeyIsOwned, Owner
  <2> QED BY <2>3, <2>5
<1>11. CASE Unmark(w)
  <2>1. /\ w \in DOMAIN held /\ w \in DOMAIN pc /\ pc[w] = "unmark" /\ m \in Msgs
        /\ marked' \in {marked, marked \ {m}}
        /\ pc' = Goto(w, "retry") /\ orphaned' \subseteq Msgs
        /\ UNCHANGED <<held, taken, confirmed, forgotten>>
    BY <1>1, <1>2, <1>3, <1>11 DEF Unmark, At, NTypes
  <2>2. NTypes'
    BY <1>3, <2>1, GotoStep DEF NTypes, Steps
  <2>3. /\ DOMAIN pc' = DOMAIN pc \cup {w} /\ pc'[w] = "retry"
        /\ \A v \in DOMAIN pc : v # w => pc'[v] = pc[v]
    BY <1>3, <2>1, GotoFacts DEF Steps
  <2>4. ASSUME KeyIsOwned PROVE KeyIsOwned'
    <3>1. m \notin forgotten =>
            confirmed[m] = 0 /\ \A v \in DOMAIN pc : Owner(v) /\ v # w => held[v].msg # m
      BY <2>1, <2>4 DEF KeyIsOwned, Owner
    <3> QED BY <2>1, <2>3, <2>4, <3>1 DEF KeyIsOwned, Owner
  <2> QED BY <2>2, <2>4
<1> QED
  BY <1>4, <1>5, <1>6, <1>7, <1>8, <1>9, <1>10, <1>11 DEF Process

(* The dedup key of a confirmed event survives every step but ForgetKey,    *)
(* which takes the event out of KeyIsOwned.                                 *)
LEMMA NextNotifier ==
  ASSUME NBase, [NNext]_vars
  PROVE  NTypes' /\ (KeyIsOwned => KeyIsOwned')
<1>1. ASSUME NEW w \in Workers, Process(w) PROVE NTypes' /\ (KeyIsOwned => KeyIsOwned')
  BY <1>1, ProcessNInv
<1>2. ASSUME NEW w \in Workers, Die(w) PROVE NTypes' /\ (KeyIsOwned => KeyIsOwned')
  <2>1. w \in DOMAIN held => held[w].msg \in Msgs
    BY DEF NBase, EInv, TypeOK, Copy
  <2>2. orphaned' \subseteq Msgs /\ (pc' = Drop(pc, w))
    BY <1>2, <2>1 DEF Die, NBase, NTypes
  <2> QED BY <1>2, <2>2, DoneStep DEF Die
<1>3. ASSUME NEW w \in Workers, Detach(w), UNCHANGED nvars
      PROVE  NTypes' /\ (KeyIsOwned => KeyIsOwned')
  BY <1>3, BrokerStep DEF Detach
<1>4. ASSUME NEW m \in Msgs, Arrive(m), UNCHANGED nvars
      PROVE  NTypes' /\ (KeyIsOwned => KeyIsOwned')
  BY <1>4, BrokerStep DEF Arrive
<1>5. ASSUME NEW c \in Copy, UNCHANGED nvars,
             Expire(c) \/ \E w \in Workers : Deliver(w, c)
      PROVE  NTypes' /\ (KeyIsOwned => KeyIsOwned')
  BY <1>5, BrokerStep DEF Expire
<1>6. CASE UNCHANGED vars
  BY <1>6, BrokerStep DEF vars, nvars
<1>7. ASSUME NEW m \in Msgs, ForgetKey(m) PROVE NTypes' /\ (KeyIsOwned => KeyIsOwned')
  <2>1. NTypes'
    BY <1>7 DEF ForgetKey, NBase, NTypes
  <2>2. KeyIsOwned => KeyIsOwned'
    BY <1>7 DEF ForgetKey, KeyIsOwned, Owner
  <2> QED BY <2>1, <2>2
<1> QED BY <1>1, <1>2, <1>3, <1>4, <1>5, <1>6, <1>7 DEF NNext

(* A goroutine gets past MarkProcessed with no poison. *)
LEMMA NextRejects == NBase /\ PoisonIsRejected /\ [NNext]_vars => PoisonIsRejected'
<1> SUFFICES ASSUME NBase, PoisonIsRejected, [NNext]_vars PROVE PoisonIsRejected'
  OBVIOUS
<1>1. TypeOK /\ NTypes
  BY DEF NBase, EInv
<1>2. ASSUME NEW w \in Workers, NEW step \in Steps, w \in DOMAIN held,
             held[w].msg \notin Poison, pc' = Goto(w, step), held' = held
      PROVE  PoisonIsRejected'
  BY <1>1, <1>2, GotoFacts DEF PoisonIsRejected
<1>3. ASSUME NEW w \in Workers, w \in DOMAIN held, Release(w),
             pc' = Drop(pc, w) \/ (w \notin DOMAIN pc /\ pc' = pc)
      PROVE  PoisonIsRejected'
  <2>1. /\ DOMAIN pc' = DOMAIN pc \ {w} /\ DOMAIN pc' \subseteq DOMAIN held'
        /\ \A v \in DOMAIN pc' : held'[v] = held[v]
    BY <1>1, <1>3, DoneFacts
  <2> QED BY <2>1 DEF PoisonIsRejected
<1>4. ASSUME NEW w \in Workers, Process(w) PROVE PoisonIsRejected'
  <2>1. CASE RejectPoison(w) \/ SkipDuplicate(w)
    <3>1. w \in DOMAIN held /\ Release(w)
      BY <2>1, SettlingReleases DEF RejectPoison, SkipDuplicate
    <3>2. w \notin DOMAIN pc /\ pc' = pc
      BY <2>1 DEF RejectPoison, SkipDuplicate, Fresh, nvars
    <3> QED BY <1>3, <3>1, <3>2
  <2>2. CASE MarkProcessed(w) \/ MarkError(w)
    BY <1>2, <2>2 DEF MarkProcessed, MarkError, Fresh, Steps, evars
  <2>3. CASE PublishConfirmed(w) \/ RetryEvent(w)
    <3>1. w \in DOMAIN held /\ Release(w)
      BY <2>3, SettlingReleases DEF PublishConfirmed, RetryEvent
    <3>2. pc' = Drop(pc, w)
      BY <2>3 DEF PublishConfirmed, RetryEvent
    <3> QED BY <1>3, <3>1, <3>2
  <2>4. CASE PublishError(w) \/ Unmark(w)
    BY <1>2, <2>4 DEF PublishError, Unmark, At, PoisonIsRejected, Steps
  <2> QED BY <1>4, <2>1, <2>2, <2>3, <2>4 DEF Process
<1>5. ASSUME NEW w \in Workers, Die(w) PROVE PoisonIsRejected'
  BY <1>3, <1>5, SettlingReleases DEF Die
<1>6. ASSUME UNCHANGED pc,
             \/ UNCHANGED held
             \/ \E w \in Workers, c \in Copy : Deliver(w, c)
      PROVE  PoisonIsRejected'
  <2>1. /\ DOMAIN held \subseteq DOMAIN held'
        /\ \A v \in DOMAIN held : held'[v] = held[v]
    BY <1>6 DEF Deliver, Hold
  <2> QED BY <1>6, <2>1 DEF PoisonIsRejected
<1>7. ASSUME NEW w \in Workers, Detach(w), UNCHANGED nvars PROVE PoisonIsRejected'
  BY <1>6, <1>7 DEF Detach, nvars
<1>8. ASSUME NEW m \in Msgs, (Arrive(m) /\ UNCHANGED nvars) \/ ForgetKey(m)
      PROVE  PoisonIsRejected'
  BY <1>6, <1>8 DEF Arrive, ForgetKey, nvars
<1>9. ASSUME NEW c \in Copy, UNCHANGED nvars,
             Expire(c) \/ \E w \in Workers : Deliver(w, c)
      PROVE  PoisonIsRejected'
  BY <1>6, <1>9 DEF Expire, nvars
<1>10. CASE UNCHANGED vars
  BY <1>6, <1>10 DEF vars
<1> QED BY <1>4, <1>5, <1>7, <1>8, <1>9, <1>10 DEF NNext

(* Types and the endpoint's guarantees, whatever Redis forgets. *)
THEOREM NotifierBase == NSpec => [](NBase /\ PoisonIsRejected)
<1>1. NInit => NBase /\ PoisonIsRejected
  BY InitNInv DEF NInv, NInit, PoisonIsRejected
<1>2. NBase /\ PoisonIsRejected /\ [NNext]_vars => (NBase /\ PoisonIsRejected)'
  BY NextEndpoint, NextEInv, NextNotifier, NextRejects DEF NBase
<1> QED BY <1>1, <1>2, PTL DEF NSpec

(* The notifier implements its endpoint: its initial states are the         *)
(* endpoint's, and every step of process, on every path through Redis and   *)
(* publish errors, is one the endpoint allows or leaves the queues alone.   *)
THEOREM NotifierRefinesEndpoint == NSpec => Spec
<1>1. NInit => Init
  BY DEF NInit
<1>2. PoisonIsRejected /\ [NNext]_vars => [Next]_evars
  BY NextEndpoint
<1> QED BY <1>1, <1>2, NotifierBase, PTL DEF NSpec, Spec

(* Type correctness of the notifier. *)
THEOREM NotifierTypeCorrect == NSpec => []NTypeOK
<1>1. NBase => NTypeOK
  BY DEF NBase, EInv, NTypes, NTypeOK
<1> QED BY <1>1, NotifierBase, PTL

(* The notifier, too, loses no event before it has decided to ack it: what  *)
(* is proved of the endpoint holds of what implements it.                   *)
THEOREM NotifierLosesNothing == NSpec => []NothingLost
  BY NotifierRefinesEndpoint, EndpointLosesNothing, PTL

(* No event's command is confirmed twice unless its dedup key expired, for  *)
(* any redeliveries, duplicates, failures and restarts.                     *)
THEOREM NotifierConfirmsOnce == NSpec => []ConfirmedAtMostOnce
<1>1. NInit => NInv
  BY InitNInv
<1>2. NBase /\ KeyIsOwned /\ NBase' /\ [NNext]_vars => KeyIsOwned'
  BY NextNotifier
<1>3. NInv => ConfirmedAtMostOnce
  BY DEF NInv, NBase, NTypes, KeyIsOwned, ConfirmedAtMostOnce
<1> QED BY <1>1, <1>2, <1>3, NotifierBase, PTL DEF NSpec, NInv

(***************************************************************************)
(* No event is lost but in the window between its key and its command.     *)
(***************************************************************************)
(* A dedup key is set for a reason: the event's command reached the broker, *)
(* or a goroutine is about to publish it or to roll the key back, or the    *)
(* key was left behind.                                                     *)
MarkedIsOwned ==
  \A m \in marked \ orphaned :
    taken[m] > 0 \/ \E w \in DOMAIN pc : Owner(w) /\ held[w].msg = m

(* The inductive invariant. *)
Custody == MarkedIsOwned /\ EventIsNotLost

(* EventIsNotLost, copy by copy. *)
LEMMA NotLostByCopy ==
  EventIsNotLost <=>
    \A m \in sent \ orphaned : \/ taken[m] > 0
                               \/ \E c \in Copy : c.msg = m /\ Here(c)
                               \/ \E w \in DOMAIN pc : held[w].msg = m
  BY DEF EventIsNotLost, Accounted, InFlight, Parked, Here

(* Custody is kept by a step that keeps the copies and the goroutines of    *)
(* every event, but for the ones it publishes or orphans.                   *)
LEMMA CustodyKept ==
  ASSUME Custody, NEW m,
         sent' = sent, orphaned \subseteq orphaned', marked' \subseteq marked,
         \A n \in Msgs : taken[n] > 0 => taken'[n] > 0,
         marked \subseteq Msgs, sent \subseteq Msgs,
         \A v \in DOMAIN pc : held[v].msg # m =>
           v \in DOMAIN pc' /\ held'[v] = held[v] /\ (Owner(v) => Owner(v)'),
         \A c \in Copy : c.msg # m /\ Here(c) => \E d \in Copy : d.msg = c.msg /\ Here(d)',
         m \in marked' \ orphaned' =>
           taken'[m] > 0 \/ \E w \in DOMAIN pc' : Owner(w)' /\ held'[w].msg = m,
         m \in sent \ orphaned' => \/ taken'[m] > 0
                                   \/ \E c \in Copy : c.msg = m /\ Here(c)'
                                   \/ \E w \in DOMAIN pc' : held'[w].msg = m
  PROVE  Custody'
<1>1. MarkedIsOwned'
  BY DEF Custody, MarkedIsOwned
<1>2. \A n \in sent \ orphaned : \/ taken[n] > 0
                                 \/ \E c \in Copy : c.msg = n /\ Here(c)
                                 \/ \E w \in DOMAIN pc : held[w].msg = n
  BY NotLostByCopy DEF Custody
<1>3. \A n \in sent' \ orphaned' : \/ taken'[n] > 0
                                   \/ \E c \in Copy : c.msg = n /\ Here(c)'
                                   \/ \E w \in DOMAIN pc' : held'[w].msg = n
  BY <1>2
<1>4. EventIsNotLost'
  BY <1>3 DEF EventIsNotLost, Accounted, InFlight, Parked, Here
<1> QED BY <1>1, <1>4 DEF Custody

(* The broker keeps the copies, and process does nothing. *)
LEMMA BrokerCustody ==
  ASSUME NBase, Custody, UNCHANGED nvars, KeepsCopies,
         \/ UNCHANGED held
         \/ \E w \in Workers, c \in Copy : Deliver(w, c),
         \A m \in sent' \ sent : \E d \in Copy : d.msg = m /\ Here(d)'
  PROVE  Custody'
<1>1. \A v \in DOMAIN pc : v \in DOMAIN pc' /\ pc'[v] = pc[v] /\ held'[v] = held[v]
  BY DEF NBase, NTypes, nvars, Deliver, Hold
<1>2. MarkedIsOwned'
  BY <1>1 DEF Custody, MarkedIsOwned, Owner, nvars
<1>3. \A n \in sent \ orphaned : \/ taken[n] > 0
                                 \/ \E c \in Copy : c.msg = n /\ Here(c)
                                 \/ \E w \in DOMAIN pc : held[w].msg = n
  BY NotLostByCopy DEF Custody
<1>4. \A n \in sent' \ orphaned' : \/ taken'[n] > 0
                                   \/ \E c \in Copy : c.msg = n /\ Here(c)'
                                   \/ \E w \in DOMAIN pc' : held'[w].msg = n
  BY <1>1, <1>3 DEF KeepsCopies, nvars
<1>5. EventIsNotLost'
  BY <1>4 DEF EventIsNotLost, Accounted, InFlight, Parked, Here
<1> QED BY <1>2, <1>5 DEF Custody

(* A goroutine goes on with its event, whose key it has set, keeps, gives   *)
(* back or leaves behind.                                                   *)
LEMMA GotoCustody ==
  ASSUME NBase, Custody, NEW w \in DOMAIN held, NEW step \in Steps, pc' = Goto(w, step),
         UNCHANGED <<main, delayed, parked, held, detached, sent>>,
         orphaned \subseteq orphaned', marked' \subseteq marked \cup {held[w].msg},
         \A n \in Msgs : taken[n] > 0 => taken'[n] > 0,
         \/ held[w].msg \notin marked' \ orphaned'
         \/ step \in {"publish", "unmark"}
         \/ w \notin DOMAIN pc /\ held[w].msg \in marked
  PROVE  Custody'
<1> DEFINE m == held[w].msg
<1>1. /\ DOMAIN pc' = DOMAIN pc \cup {w}
      /\ pc'[w] = step
      /\ \A v \in DOMAIN pc : v # w => pc'[v] = pc[v]
  BY GotoFacts DEF NBase
<1>2. marked \subseteq Msgs /\ sent \subseteq Msgs /\ m \in Msgs
  BY DEF NBase, NTypes, EInv, TypeOK, Copy
<1>3. \A v \in DOMAIN pc : v # w => Owner(v) <=> Owner(v)'
  BY <1>1 DEF Owner
<1>4. MarkedIsOwned'
  <2>1. ASSUME NEW n \in marked' \ orphaned', n # m
        PROVE  taken'[n] > 0 \/ \E v \in DOMAIN pc' : Owner(v)' /\ held'[v].msg = n
    BY <1>1, <1>2, <1>3, <2>1 DEF Custody, MarkedIsOwned
  <2>2. ASSUME m \in marked' \ orphaned'
        PROVE  taken'[m] > 0 \/ \E v \in DOMAIN pc' : Owner(v)' /\ held'[v].msg = m
    <3>1. CASE step \in {"publish", "unmark"}
      BY <1>1, <3>1 DEF Owner
    <3>2. CASE w \notin DOMAIN pc /\ m \in marked
      BY <1>1, <1>2, <1>3, <2>2, <3>2 DEF Custody, MarkedIsOwned
    <3> QED BY <2>2, <3>1, <3>2
  <2> QED BY <2>1, <2>2 DEF MarkedIsOwned
<1>5. \A n \in sent \ orphaned : \/ taken[n] > 0
                                 \/ \E c \in Copy : c.msg = n /\ Here(c)
                                 \/ \E v \in DOMAIN pc : held[v].msg = n
  BY NotLostByCopy DEF Custody
<1>6. \A c \in Copy : Here(c) => Here(c)'
  BY DEF Here
<1>7. \A n \in sent' \ orphaned' : \/ taken'[n] > 0
                                   \/ \E c \in Copy : c.msg = n /\ Here(c)'
                                   \/ \E v \in DOMAIN pc' : held'[v].msg = n
  BY <1>1, <1>2, <1>5, <1>6
<1>8. EventIsNotLost'
  BY <1>7 DEF EventIsNotLost, Accounted, InFlight, Parked, Here
<1> QED BY <1>4, <1>8 DEF Custody

(* A goroutine is done with its event: it orphaned it, or its command is    *)
(* out, or a copy of it was kept, or it is a duplicate of one in custody.   *)
LEMMA DoneCustody ==
  ASSUME NBase, Custody, NEW w \in DOMAIN held, Release(w),
         pc' = Drop(pc, w) \/ (w \notin DOMAIN pc /\ pc' = pc),
         UNCHANGED <<marked, sent>>, orphaned \subseteq orphaned',
         \A n \in Msgs : taken[n] > 0 => taken'[n] > 0,
         \A c \in Copy : c.msg # held[w].msg /\ Here(c) =>
                           \E d \in Copy : d.msg = c.msg /\ Here(d)',
         \/ held[w].msg \in orphaned'
         \/ taken'[held[w].msg] > 0
         \/ KeepsCopies /\ ~Owner(w) /\ (w \in DOMAIN pc => w \notin detached)
         \/ w \notin DOMAIN pc /\ held[w].msg \in marked
  PROVE  Custody'
<1> DEFINE m == held[w].msg
<1>1. /\ DOMAIN pc' = DOMAIN pc \ {w}
      /\ \A v \in DOMAIN pc' : pc'[v] = pc[v] /\ held'[v] = held[v]
  BY DoneFacts DEF NBase, EInv
<1>2. marked \subseteq Msgs /\ sent \subseteq Msgs /\ m \in Msgs /\ held[w] \in Copy
  BY DEF NBase, NTypes, EInv, TypeOK, Copy
<1>3. \A v \in DOMAIN pc : v # w => /\ v \in DOMAIN pc' /\ held'[v] = held[v]
                                    /\ Owner(v) => Owner(v)'
  BY <1>1 DEF Owner
<1>4. CASE m \in orphaned' \/ taken'[m] > 0
  <2>1. \A v \in DOMAIN pc : held[v].msg # m =>
          v \in DOMAIN pc' /\ held'[v] = held[v] /\ (Owner(v) => Owner(v)')
    BY <1>3
  <2> QED BY <1>2, <1>4, <2>1, CustodyKept
<1>5. CASE m \notin orphaned' /\ KeepsCopies /\ ~Owner(w) /\ (w \in DOMAIN pc => w \notin detached)
  <2>1. m \in marked => taken[m] > 0 \/ \E v \in DOMAIN pc : v # w /\ Owner(v) /\ held[v].msg = m
    BY <1>5 DEF Custody, MarkedIsOwned
  <2>2. m \in marked => taken'[m] > 0 \/ \E v \in DOMAIN pc' : Owner(v)' /\ held'[v].msg = m
    BY <1>2, <1>3, <2>1
  <2>3. m \in sent => \/ taken[m] > 0
                      \/ \E c \in Copy : c.msg = m /\ Here(c)
                      \/ \E v \in DOMAIN pc : v # w /\ held[v].msg = m
    <3>1. w \in DOMAIN pc => Here(held[w])
      BY <1>5 DEF Here
    <3> QED BY <1>2, <1>5, <3>1, NotLostByCopy DEF Custody
  <2>4. m \in sent => \/ taken'[m] > 0
                      \/ \E c \in Copy : c.msg = m /\ Here(c)'
                      \/ \E v \in DOMAIN pc' : held'[v].msg = m
    BY <1>2, <1>3, <1>5, <2>3 DEF KeepsCopies
  <2>5. \A v \in DOMAIN pc : held[v].msg # m =>
          v \in DOMAIN pc' /\ held'[v] = held[v] /\ (Owner(v) => Owner(v)')
    BY <1>3
  <2> QED BY <1>2, <2>2, <2>4, <2>5, CustodyKept
<1>6. CASE m \notin orphaned' /\ w \notin DOMAIN pc /\ m \in marked
  <2>1. taken[m] > 0 \/ \E v \in DOMAIN pc : v # w /\ Owner(v) /\ held[v].msg = m
    BY <1>6 DEF Custody, MarkedIsOwned
  <2>2. taken'[m] > 0 \/ \E v \in DOMAIN pc' : Owner(v)' /\ held'[v].msg = m
    BY <1>2, <1>3, <2>1
  <2>3. \A v \in DOMAIN pc : held[v].msg # m =>
          v \in DOMAIN pc' /\ held'[v] = held[v] /\ (Owner(v) => Owner(v)')
    BY <1>3
  <2> QED BY <1>2, <2>2, <2>3, CustodyKept
<1> QED BY <1>4, <1>5, <1>6

(* The inductive step for process: one case for each of its steps. *)
LEMMA ProcessCustody ==
  ASSUME NBase, Custody, NEW w \in Workers, Process(w)
  PROVE  Custody'
<1> DEFINE m == held[w].msg
<1>1. w \in DOMAIN held => m \in Msgs
  BY DEF NBase, EInv, TypeOK, Copy
<1>2. w \in DOMAIN pc => w \in DOMAIN held
  BY DEF NBase, NTypes
<1>3. EInv /\ NTypes /\ taken \in [Msgs -> Nat]
  BY DEF NBase, NTypes
<1>4. CASE RejectPoison(w)
  <2>1. /\ w \in DOMAIN held /\ w \notin DOMAIN pc /\ DeadLetter(w) /\ m \in Poison
        /\ pc' = pc /\ UNCHANGED <<marked, sent, orphaned, taken>>
    BY <1>4 DEF RejectPoison, Fresh, DeadLetter, nvars
  <2>2. KeepsCopies /\ Release(w) /\ ~Owner(w)
    BY <1>3, <2>1, DeadLetterEInv, SettlingReleases DEF Owner
  <2> QED BY <2>1, <2>2, DoneCustody DEF KeepsCopies
<1>5. CASE SkipDuplicate(w)
  <2>1. /\ w \in DOMAIN held /\ w \notin DOMAIN pc /\ Ack(w) /\ m \in marked
        /\ pc' = pc /\ UNCHANGED <<marked, sent, orphaned, taken>>
    BY <1>5 DEF SkipDuplicate, Fresh, Ack, nvars
  <2>2. Release(w) /\ \A d \in Copy : Here(d) => Here(d)' \/ d = held[w]
    BY <1>3, <2>1, AckEInv, SettlingReleases
  <2> QED BY <2>1, <2>2, DoneCustody
<1>6. CASE PublishConfirmed(w)
  <2>1. /\ w \in DOMAIN held /\ Ack(w) /\ m \in Msgs
        /\ taken' = [taken EXCEPT ![m] = @ + 1]
        /\ pc' = Drop(pc, w) /\ UNCHANGED <<marked, sent, orphaned>>
    BY <1>1, <1>2, <1>6 DEF PublishConfirmed, At, Ack
  <2>2. Release(w) /\ \A d \in Copy : Here(d) => Here(d)' \/ d = held[w]
    BY <1>3, <2>1, AckEInv, SettlingReleases
  <2>3. taken'[m] > 0 /\ \A n \in Msgs : taken[n] > 0 => taken'[n] > 0
    BY <1>3, <2>1
  <2> QED BY <2>1, <2>2, <2>3, DoneCustody
<1>7. CASE RetryEvent(w)
  <2>1. /\ w \in DOMAIN held /\ Retry(w) /\ pc[w] = "retry"
        /\ orphaned' = IF w \in detached THEN orphaned \cup {m} ELSE orphaned
        /\ pc' = Drop(pc, w) /\ UNCHANGED <<marked, taken>>
    BY <1>2, <1>7 DEF RetryEvent, At
  <2>2. UNCHANGED sent
    BY <2>1 DEF Retry, DeadLetter
  <2>3. KeepsCopies /\ Release(w) /\ ~Owner(w)
    BY <1>3, <2>1, RetryEInv, SettlingReleases DEF Owner
  <2> QED BY <2>1, <2>2, <2>3, DoneCustody DEF KeepsCopies
<1>8. CASE MarkProcessed(w)
  <2>1. /\ w \in DOMAIN held /\ marked' = marked \cup {m} /\ pc' = Goto(w, "publish")
        /\ UNCHANGED <<main, delayed, parked, held, detached, sent, taken, orphaned>>
    BY <1>8 DEF MarkProcessed, Fresh, evars
  <2> QED BY <2>1, GotoCustody DEF Steps
<1>9. CASE MarkError(w)
  <2>1. /\ w \in DOMAIN held \ DOMAIN pc /\ pc' = Goto(w, "retry")
        /\ marked' \in {marked, marked \cup {m}} /\ orphaned' = orphaned \cup (marked' \ marked)
        /\ UNCHANGED <<main, delayed, parked, held, detached, sent, taken>>
    BY <1>9 DEF MarkError, Fresh
  <2> QED BY <2>1, GotoCustody DEF Steps
<1>10. CASE PublishError(w)
  <2>1. /\ w \in DOMAIN held /\ pc' = Goto(w, "unmark") /\ m \in Msgs
        /\ taken' \in {taken, [taken EXCEPT ![m] = @ + 1]}
        /\ UNCHANGED <<main, delayed, parked, held, detached, sent, marked, orphaned>>
    BY <1>1, <1>2, <1>10 DEF PublishError, At
  <2>2. \A n \in Msgs : taken[n] > 0 => taken'[n] > 0
    BY <1>3, <2>1
  <2> QED BY <2>1, <2>2, GotoCustody DEF Steps
<1>11. CASE Unmark(w)
  <2>1. /\ w \in DOMAIN held /\ pc' = Goto(w, "retry")
        /\ \/ marked' = marked \ {m} /\ orphaned' = orphaned
           \/ marked' = marked /\ orphaned' = orphaned \cup {m}
        /\ UNCHANGED <<main, delayed, parked, held, detached, sent, taken>>
    BY <1>2, <1>11 DEF Unmark, At
  <2> QED BY <2>1, GotoCustody DEF Steps
<1> QED
  BY <1>4, <1>5, <1>6, <1>7, <1>8, <1>9, <1>10, <1>11 DEF Process

(* The inductive step for the whole notifier. *)
LEMMA NextCustody == NBase /\ Custody /\ [NNext]_vars => Custody'
<1> SUFFICES ASSUME NBase, Custody, [NNext]_vars PROVE Custody'
  OBVIOUS
<1>1. EInv /\ NTypes
  BY DEF NBase
<1>2. ASSUME NEW w \in Workers, Process(w) PROVE Custody'
  BY <1>2, ProcessCustody
<1>3. ASSUME NEW w \in Workers, Die(w) PROVE Custody'
  <2>1. /\ w \in DOMAIN held /\ Crash(w) /\ pc' = Drop(pc, w)
        /\ orphaned' = IF w \in DOMAIN pc THEN orphaned \cup {held[w].msg} ELSE orphaned
        /\ UNCHANGED <<marked, taken, sent>>
    BY <1>3 DEF Die, Crash
  <2>2. KeepsCopies /\ Release(w)
    BY <1>1, <2>1, CrashEInv, SettlingReleases
  <2>3. w \notin DOMAIN pc => ~Owner(w)
    BY DEF Owner
  <2> QED BY <2>1, <2>2, <2>3, DoneCustody DEF KeepsCopies
<1>4. ASSUME NEW w \in Workers, Detach(w), UNCHANGED nvars PROVE Custody'
  <2>1. KeepsCopies
    BY <1>1, <1>4, DetachEInv
  <2>2. UNCHANGED <<held, sent>>
    BY <1>4 DEF Detach
  <2> QED BY <1>4, <2>1, <2>2, BrokerCustody
<1>5. ASSUME NEW m \in Msgs, Arrive(m), UNCHANGED nvars PROVE Custody'
  <2>1. KeepsCopies /\ \E d \in Copy : d.msg = m /\ Here(d)'
    BY <1>1, <1>5, ArriveEInv
  <2>2. UNCHANGED held /\ sent' = sent \cup {m}
    BY <1>5 DEF Arrive
  <2> QED BY <1>5, <2>1, <2>2, BrokerCustody
<1>6. ASSUME NEW c \in Copy, Expire(c), UNCHANGED nvars PROVE Custody'
  <2>1. KeepsCopies
    BY <1>1, <1>6, ExpireEInv
  <2>2. UNCHANGED <<held, sent>>
    BY <1>6 DEF Expire
  <2> QED BY <1>6, <2>1, <2>2, BrokerCustody
<1>7. ASSUME NEW c \in Copy, NEW w \in Workers, Deliver(w, c), UNCHANGED nvars PROVE Custody'
  <2>1. KeepsCopies
    BY <1>1, <1>7, DeliverEInv
  <2>2. UNCHANGED sent
    BY <1>7 DEF Deliver
  <2> QED BY <1>7, <2>1, <2>2, BrokerCustody
<1>8. ASSUME NEW m \in Msgs, ForgetKey(m) PROVE Custody'
  BY <1>8 DEF ForgetKey, Custody, MarkedIsOwned, Owner, EventIsNotLost, Accounted, InFlight, Parked
<1>9. CASE UNCHANGED vars
  BY <1>9 DEF vars, Custody, MarkedIsOwned, Owner, EventIsNotLost, Accounted, InFlight, Parked
<1> QED BY <1>2, <1>3, <1>4, <1>5, <1>6, <1>7, <1>8, <1>9 DEF NNext

(* Until its command is out, an event is on its way, worked on or parked,   *)
(* unless a goroutine died, or lost Redis or its channel, between the       *)
(* event's dedup key and its command.                                       *)
THEOREM NotifierKeepsEvents == NSpec => []EventIsNotLost
<1>1. NInit => Custody
  BY DEF NInit, Init, Custody, MarkedIsOwned, EventIsNotLost
<1>2. NBase /\ Custody /\ [NNext]_vars => Custody'
  BY NextCustody
<1>3. Custody => EventIsNotLost
  BY DEF Custody
<1> QED BY <1>1, <1>2, <1>3, NotifierBase, PTL DEF NSpec
=============================================================================
