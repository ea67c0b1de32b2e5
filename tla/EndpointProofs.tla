--------------------------- MODULE EndpointProofs ---------------------------
(***************************************************************************)
(* Proofs about Endpoint: its type invariant, that no message is lost, and *)
(* that only poison and exhausted messages are parked, for any number of   *)
(* messages, goroutines, tiers and failures.  The lemmas are about one     *)
(* action each, so that the handlers built on Endpoint can cite them.      *)
(***************************************************************************)
EXTENDS Endpoint, TLAPS

(* The inductive invariant. *)
EInv == TypeOK /\ NothingLost /\ ParkedIsExhausted

(* A copy c that will still be handled, or waits for an operator. *)
Here(c) ==
  \/ main[c] > 0
  \/ delayed[c] > 0
  \/ parked[c] > 0
  \/ \E w \in DOMAIN held \ detached : held[w] = c

(* A step that takes no copy away without leaving another copy of the same  *)
(* message.                                                                 *)
KeepsCopies == \A c \in Copy : Here(c) => \E d \in Copy : d.msg = c.msg /\ Here(d)'

(* What Inc and Dec do to a queue. *)
LEMMA IncFacts ==
  ASSUME NEW bag \in [Copy -> Nat], NEW c \in Copy
  PROVE  /\ Inc(bag, c) \in [Copy -> Nat]
         /\ Inc(bag, c)[c] > 0
         /\ \A d \in Copy : bag[d] > 0 => Inc(bag, c)[d] > 0
         /\ \A d \in Copy : d # c => Inc(bag, c)[d] = bag[d]
  BY DEF Inc

(* Taking a copy out of a queue keeps it a queue and the other copies. *)
LEMMA DecFacts ==
  ASSUME NEW bag \in [Copy -> Nat], NEW c \in Copy, bag[c] > 0
  PROVE  /\ Dec(bag, c) \in [Copy -> Nat]
         /\ \A d \in Copy : d # c => Dec(bag, c)[d] = bag[d]
  BY DEF Dec

(* NothingLost, copy by copy. *)
LEMMA LostByCopy ==
  NothingLost <=> \A m \in sent : m \in acked \/ \E c \in Copy : c.msg = m /\ Here(c)
  BY DEF NothingLost, InFlight, Parked, Here

(* NothingLost is kept by a step that replaces every copy it takes away by  *)
(* another copy of the same message, or acks it.                            *)
LEMMA KeepCopies ==
  ASSUME NothingLost,
         acked \subseteq acked',
         \A m \in sent' \ sent : \E d \in Copy : d.msg = m /\ Here(d)',
         \A c \in Copy : Here(c) => \/ c.msg \in acked'
                                    \/ \E d \in Copy : d.msg = c.msg /\ Here(d)'
  PROVE  NothingLost'
<1>1. \A m \in sent : m \in acked \/ \E c \in Copy : c.msg = m /\ Here(c)
  BY LostByCopy
<1>2. \A m \in sent' : m \in acked' \/ \E c \in Copy : c.msg = m /\ Here(c)'
  BY <1>1
<1> QED BY <1>2 DEF NothingLost, InFlight, Parked, Here

(* A message that arrives (again) is in the main queue. *)
LEMMA ArriveEInv ==
  ASSUME EInv, NEW m \in Msgs, Arrive(m)
  PROVE  EInv' /\ KeepsCopies /\ \E d \in Copy : d.msg = m /\ Here(d)'
<1>1. First(m) \in Copy /\ First(m).msg = m
  BY EndpointAssumption DEF First, Copy
<1>2. /\ main' \in [Copy -> Nat] /\ main'[First(m)] > 0
      /\ \A d \in Copy : main[d] > 0 => main'[d] > 0
  BY <1>1, IncFacts DEF EInv, TypeOK, Arrive
<1>3. TypeOK'
  BY <1>2, EndpointAssumption DEF EInv, TypeOK, Arrive, Fault
<1>4. \A c \in Copy : Here(c) => Here(c)'
  BY <1>2 DEF Arrive, Here
<1>5. Here(First(m))'
  BY <1>2 DEF Here
<1>6. NothingLost'
  BY <1>1, <1>4, <1>5, KeepCopies DEF EInv, Arrive
<1> QED BY <1>1, <1>3, <1>4, <1>5, <1>6 DEF EInv, Arrive, ParkedIsExhausted, KeepsCopies

(* A delivery moves a copy from the main queue to an attached goroutine. *)
LEMMA DeliverEInv ==
  ASSUME EInv, NEW w \in Workers, NEW c \in Copy, Deliver(w, c) PROVE EInv' /\ KeepsCopies
<1>1. /\ main' \in [Copy -> Nat]
      /\ \A d \in Copy : d # c => main'[d] = main[d]
  BY DecFacts DEF EInv, TypeOK, Deliver
<1>2. /\ DOMAIN held' = DOMAIN held \cup {w}
      /\ held'[w] = c
      /\ \A v \in DOMAIN held : held'[v] = held[v]
      /\ held' \in [DOMAIN held' -> Copy]
  BY DEF EInv, TypeOK, Deliver, Hold
<1>3. TypeOK'
  BY <1>1, <1>2 DEF EInv, TypeOK, Deliver
<1>4. w \notin detached' /\ detached' = detached
  BY DEF EInv, TypeOK, Deliver
<1>5. Here(c)'
  BY <1>2, <1>4 DEF Here
<1>6. \A d \in Copy : d # c /\ Here(d) => Here(d)'
  BY <1>1, <1>2, <1>4 DEF Here, Deliver
<1>7. NothingLost'
  BY <1>5, <1>6, KeepCopies DEF EInv, Deliver
<1> QED BY <1>3, <1>5, <1>6, <1>7 DEF EInv, Deliver, ParkedIsExhausted, KeepsCopies

(* A tier whose TTL runs out hands its copy to the main queue. *)
LEMMA ExpireEInv == ASSUME EInv, NEW c \in Copy, Expire(c) PROVE EInv' /\ KeepsCopies
<1>1. /\ delayed' \in [Copy -> Nat]
      /\ \A d \in Copy : d # c => delayed'[d] = delayed[d]
  BY DecFacts DEF EInv, TypeOK, Expire
<1>2. /\ main' \in [Copy -> Nat] /\ main'[c] > 0
      /\ \A d \in Copy : main[d] > 0 => main'[d] > 0
  BY IncFacts DEF EInv, TypeOK, Expire
<1>3. TypeOK'
  BY <1>1, <1>2 DEF EInv, TypeOK, Expire
<1>4. \A d \in Copy : Here(d) => Here(d)'
  BY <1>1, <1>2 DEF Here, Expire
<1>5. NothingLost'
  BY <1>4, KeepCopies DEF EInv, Expire
<1> QED BY <1>3, <1>4, <1>5 DEF EInv, Expire, ParkedIsExhausted, KeepsCopies

(* A closed channel returns the copy its goroutine goes on working on. *)
LEMMA DetachEInv == ASSUME EInv, NEW w \in Workers, Detach(w) PROVE EInv' /\ KeepsCopies
<1>1. held[w] \in Copy
  BY DEF EInv, TypeOK, Detach
<1>2. /\ main' \in [Copy -> Nat] /\ main'[held[w]] > 0
      /\ \A d \in Copy : main[d] > 0 => main'[d] > 0
  BY <1>1, IncFacts DEF EInv, TypeOK, Detach
<1>3. TypeOK'
  BY <1>2, EndpointAssumption DEF EInv, TypeOK, Detach, Fault
<1>4. \A d \in Copy : Here(d) => Here(d)'
  BY <1>2 DEF Here, Detach
<1>5. NothingLost'
  BY <1>4, KeepCopies DEF EInv, Detach
<1> QED BY <1>3, <1>4, <1>5 DEF EInv, Detach, ParkedIsExhausted, KeepsCopies

(* A goroutine lets go of its copy. *)
LEMMA ReleaseFacts ==
  ASSUME TypeOK, NEW w \in DOMAIN held, Release(w)
  PROVE  /\ held[w] \in Copy
         /\ DOMAIN held' = DOMAIN held \ {w}
         /\ held' \in [DOMAIN held' -> Copy]
         /\ DOMAIN held' \subseteq Workers
         /\ detached' \subseteq DOMAIN held'
         /\ \A v \in DOMAIN held \ {w} : held'[v] = held[v] /\ (v \in detached' <=> v \in detached)
  BY DEF TypeOK, Release, Drop

(* Returned puts the copy back unless the broker has done so.  Either way   *)
(* no copy is worse off, and w's copy was counted while w was attached.     *)
LEMMA ReturnedFacts ==
  ASSUME TypeOK, NEW w \in DOMAIN held, main' = Returned(w)
  PROVE  /\ main' \in [Copy -> Nat]
         /\ \A d \in Copy : main[d] > 0 => main'[d] > 0
         /\ w \notin detached => main'[held[w]] > 0
<1>1. held[w] \in Copy /\ main \in [Copy -> Nat]
  BY DEF TypeOK
<1> QED BY <1>1, IncFacts DEF Returned

(* Releasing a copy whose place is taken by a returned one. *)
LEMMA ReleaseReturned ==
  ASSUME EInv, NEW w \in DOMAIN held, Release(w), main' = Returned(w),
         UNCHANGED <<sent, acked>>,
         \A d \in Copy : delayed[d] > 0 => delayed'[d] > 0,
         \A d \in Copy : parked[d] > 0 => parked'[d] > 0
  PROVE  NothingLost' /\ KeepsCopies
<1>1. TypeOK
  BY DEF EInv
<1>2. \A d \in Copy : Here(d) => Here(d)'
  BY <1>1, ReleaseFacts, ReturnedFacts DEF Here
<1> QED BY <1>2, KeepCopies DEF EInv, KeepsCopies

(* Releasing a copy for which another copy d of the message was put in a    *)
(* tier or in the DLQ.                                                      *)
LEMMA ReleaseForwarded ==
  ASSUME EInv, NEW w \in DOMAIN held, Release(w), NEW d \in Copy,
         d.msg = held[w].msg,
         UNCHANGED <<main, sent, acked>>,
         \A e \in Copy : delayed[e] > 0 => delayed'[e] > 0,
         \A e \in Copy : parked[e] > 0 => parked'[e] > 0,
         delayed'[d] > 0 \/ parked'[d] > 0
  PROVE  NothingLost' /\ KeepsCopies
<1>1. TypeOK
  BY DEF EInv
<1>2. Here(d)'
  BY DEF Here
<1>3. \A e \in Copy : Here(e) => Here(e)' \/ e = held[w]
  BY <1>1, ReleaseFacts DEF Here
<1> QED BY <1>2, <1>3, KeepCopies DEF EInv, KeepsCopies

(* One more failure stays within the bound. *)
LEMMA FaultFacts == ASSUME TypeOK, NEW kind, Fault(kind) PROVE faults' \in 0..MaxFaults
  BY EndpointAssumption DEF TypeOK, Fault

(* The types after a release whose copy went back to the main queue. *)
LEMMA ReleaseType ==
  ASSUME TypeOK, NEW w \in DOMAIN held, Release(w), main' = Returned(w),
         NEW kind, Fault(kind),
         UNCHANGED <<sent, acked>>,
         delayed' \in [Copy -> Nat], parked' \in [Copy -> Nat]
  PROVE  TypeOK'
<1>1. main' \in [Copy -> Nat]
  BY ReturnedFacts
<1>2. faults' \in 0..MaxFaults
  BY FaultFacts
<1>3. /\ DOMAIN held' \subseteq Workers /\ held' \in [DOMAIN held' -> Copy]
      /\ detached' \subseteq DOMAIN held'
  BY ReleaseFacts
<1>4. sent' \subseteq Msgs /\ acked' \subseteq Msgs
  BY DEF TypeOK
<1> QED BY <1>1, <1>2, <1>3, <1>4 DEF TypeOK

(* A process that dies returns the copy, unless the broker already has. *)
LEMMA CrashEInv == ASSUME EInv, NEW w \in Workers, Crash(w) PROVE EInv' /\ KeepsCopies
<1>1. TypeOK /\ w \in DOMAIN held /\ Release(w) /\ main' = Returned(w)
  BY DEF EInv, Crash
<1>2. TypeOK'
  <2>1. /\ Fault("crash") /\ UNCHANGED <<sent, acked>>
        /\ delayed' \in [Copy -> Nat] /\ parked' \in [Copy -> Nat]
    BY <1>1 DEF Crash, TypeOK
  <2> QED BY <1>1, <2>1, ReleaseType
<1>3. NothingLost' /\ KeepsCopies
  BY <1>1, ReleaseReturned DEF Crash
<1> QED BY <1>2, <1>3 DEF EInv, Crash, ParkedIsExhausted

(* Ack lets go of a copy whose message a handler is done with. *)
LEMMA AckEInv ==
  ASSUME EInv, NEW w \in Workers, Ack(w)
  PROVE  EInv' /\ \A d \in Copy : Here(d) => Here(d)' \/ d = held[w]
<1>1. TypeOK /\ w \in DOMAIN held /\ Release(w)
  BY DEF EInv, Ack
<1>2. held[w] \in Copy /\ held[w].msg \in Msgs
  BY <1>1 DEF TypeOK, Copy
<1>3. TypeOK'
  BY <1>1, <1>2, ReleaseFacts DEF TypeOK, Ack
<1>4. \A d \in Copy : Here(d) => Here(d)' \/ d = held[w]
  BY <1>1, ReleaseFacts DEF Here, Ack
<1>5. NothingLost'
  BY <1>4, KeepCopies DEF EInv, Ack
<1> QED BY <1>3, <1>4, <1>5 DEF EInv, Ack, ParkedIsExhausted

(* DeadLetter is only called for poison and for exhausted copies. *)
LEMMA DeadLetterEInv ==
  ASSUME EInv, NEW w \in Workers, DeadLetter(w),
         held[w].msg \in Poison \/ held[w].att = Tiers
  PROVE  EInv' /\ KeepsCopies
<1>1. /\ TypeOK /\ w \in DOMAIN held /\ Release(w)
      /\ UNCHANGED <<delayed, sent, acked>>
      /\ parked' \in {parked, Inc(parked, held[w])}
  BY DEF EInv, DeadLetter, Forward
<1>2. held[w] \in Copy
  BY <1>1 DEF TypeOK
<1>3. /\ parked' \in [Copy -> Nat]
      /\ \A e \in Copy : parked[e] > 0 => parked'[e] > 0
      /\ \A e \in Copy : e # held[w] => parked'[e] = parked[e]
  BY <1>1, <1>2, IncFacts DEF TypeOK
<1>4. ParkedIsExhausted'
  BY <1>3 DEF EInv, ParkedIsExhausted
<1>5. CASE parked' = Inc(parked, held[w]) /\ UNCHANGED <<main, faults>>
  <2>1. TypeOK'
    BY <1>1, <1>3, <1>5, ReleaseFacts DEF TypeOK
  <2>2. parked'[held[w]] > 0
    BY <1>1, <1>2, <1>5, IncFacts DEF TypeOK
  <2>3. NothingLost' /\ KeepsCopies
    BY <1>1, <1>2, <1>3, <1>5, <2>2, ReleaseForwarded
  <2> QED BY <1>4, <2>1, <2>3 DEF EInv
<1>6. CASE main' = Returned(w) /\ Fault("publish")
  <2>1. TypeOK'
    <3>1. delayed' \in [Copy -> Nat]
      BY <1>1 DEF TypeOK
    <3> QED BY <1>1, <1>3, <1>6, <3>1, ReleaseType
  <2>2. NothingLost' /\ KeepsCopies
    BY <1>1, <1>3, <1>6, ReleaseReturned
  <2> QED BY <1>4, <2>1, <2>2 DEF EInv
<1> QED BY <1>5, <1>6 DEF DeadLetter, Forward

(* Retry moves the copy to a tier, to the DLQ or back to the main queue. *)
LEMMA RetryEInv == ASSUME EInv, NEW w \in Workers, Retry(w) PROVE EInv' /\ KeepsCopies
<1> DEFINE c == [held[w] EXCEPT !.att = @ + 1]
<1>1. TypeOK /\ w \in DOMAIN held /\ held[w] \in Copy /\ Tiers \in Nat
  BY EndpointAssumption DEF EInv, TypeOK, Retry
<1>2. CASE held[w].att + 1 > Tiers
  <2>1. held[w].att = Tiers
    BY <1>1, <1>2 DEF Copy
  <2> QED BY <1>2, <2>1, DeadLetterEInv DEF Retry
<1>3. CASE ~(held[w].att + 1 > Tiers)
  <2>1. c \in Copy /\ c.msg = held[w].msg
    BY <1>1, <1>3 DEF Copy
  <2>2. Release(w) /\ UNCHANGED <<parked, sent, acked>> /\ Forward(w, delayed, c)
    BY <1>3 DEF Retry
  <2> HIDE DEF c
  <2>3. delayed' \in {delayed, Inc(delayed, c)}
    BY <2>2 DEF Forward
  <2>4. /\ delayed' \in [Copy -> Nat]
        /\ \A e \in Copy : delayed[e] > 0 => delayed'[e] > 0
    BY <1>1, <2>1, <2>3, IncFacts DEF TypeOK
  <2>5. CASE delayed' = Inc(delayed, c) /\ UNCHANGED <<main, faults>>
    <3>1. TypeOK'
      BY <1>1, <2>2, <2>4, <2>5, ReleaseFacts DEF TypeOK
    <3>2. delayed'[c] > 0
      BY <1>1, <2>1, <2>5, IncFacts DEF TypeOK
    <3>3. NothingLost' /\ KeepsCopies
      BY <1>1, <2>1, <2>2, <2>4, <2>5, <3>2, ReleaseForwarded
    <3> QED BY <2>2, <3>1, <3>3 DEF EInv, ParkedIsExhausted
  <2>6. CASE main' = Returned(w) /\ Fault("publish")
    <3>1. TypeOK'
      <4>1. parked' \in [Copy -> Nat]
        BY <1>1, <2>2 DEF TypeOK
      <4> QED BY <1>1, <2>2, <2>4, <2>6, <4>1, ReleaseType
    <3>2. NothingLost' /\ KeepsCopies
      BY <1>1, <2>2, <2>4, <2>6, ReleaseReturned
    <3> QED BY <2>2, <3>1, <3>2 DEF EInv, ParkedIsExhausted
  <2> QED BY <2>2, <2>5, <2>6 DEF Forward
<1> QED BY <1>2, <1>3

(* A handler's own failure leaves the queues alone. *)
LEMMA StumbleEInv == ASSUME EInv, NEW kind, Stumble(kind) PROVE EInv'
<1>1. faults' \in 0..MaxFaults
  BY FaultFacts DEF EInv, Stumble
<1>2. TypeOK'
  BY <1>1 DEF EInv, TypeOK, Stumble
<1> QED BY <1>2 DEF EInv, Stumble, NothingLost, ParkedIsExhausted, InFlight, Parked

(* The endpoint starts with empty queues. *)
LEMMA InitEInv == Init => EInv
<1> SUFFICES ASSUME Init PROVE EInv
  OBVIOUS
<1>1. TypeOK
  BY EndpointAssumption DEF Init, TypeOK
<1>2. NothingLost /\ ParkedIsExhausted
  BY DEF Init, NothingLost, ParkedIsExhausted
<1> QED BY <1>1, <1>2 DEF EInv

(* A step that leaves the endpoint alone keeps its invariant. *)
LEMMA StutterEInv == EInv /\ UNCHANGED evars => EInv'
  BY DEF EInv, evars, TypeOK, NothingLost, ParkedIsExhausted, InFlight, Parked

(* The inductive step: one case for each action of the endpoint. *)
LEMMA NextEInv == EInv /\ [Next]_evars => EInv'
<1> SUFFICES ASSUME EInv, [Next]_evars PROVE EInv'
  OBVIOUS
<1>1. ASSUME NEW m \in Msgs, Arrive(m) PROVE EInv'
  BY <1>1, ArriveEInv
<1>2. ASSUME NEW c \in Copy, Expire(c) PROVE EInv'
  BY <1>2, ExpireEInv
<1>3. ASSUME NEW c \in Copy, NEW w \in Workers, Deliver(w, c) PROVE EInv'
  BY <1>3, DeliverEInv
<1>4. ASSUME NEW w \in Workers, Handle(w) PROVE EInv'
  BY <1>4, AckEInv, RetryEInv, DeadLetterEInv DEF Handle
<1>5. ASSUME NEW w \in Workers, Detach(w) \/ Crash(w) PROVE EInv'
  BY <1>5, DetachEInv, CrashEInv
<1>6. ASSUME NEW kind \in FaultKinds, Stumble(kind) PROVE EInv'
  BY <1>6, StumbleEInv
<1> QED BY <1>1, <1>2, <1>3, <1>4, <1>5, <1>6, StutterEInv DEF Next

(* The endpoint's invariant holds in every state. *)
THEOREM EndpointInvariance == Spec => []EInv
  BY InitEInv, NextEInv, PTL DEF Spec

(* Type correctness of the queues and of the goroutines' deliveries. *)
THEOREM EndpointTypeCorrect == Spec => []TypeOK
  BY EndpointInvariance, PTL DEF EInv

(* Until a handler acks it, a message is in a queue, a tier, a goroutine's  *)
(* hands or the DLQ, for any failures of publishes, acks and connections.   *)
THEOREM EndpointLosesNothing == Spec => []NothingLost
  BY EndpointInvariance, PTL DEF EInv

(* Only poison and messages that used up every tier are parked. *)
THEOREM EndpointParksExhausted == Spec => []ParkedIsExhausted
  BY EndpointInvariance, PTL DEF EInv
=============================================================================
