-------------------------- MODULE OnboardingProofs --------------------------
(***************************************************************************)
(* Proofs about Onboarding for every set of subscribers, tokens, requests  *)
(* and rows: the inductive invariant IInv, and what follows from it.  Then *)
(* about Onboarding inside Pipeline, for any number of failures: what a    *)
(* settled saga says about the email.                                      *)
(***************************************************************************)
EXTENDS Pipeline, TLAPS

(* A subscription row written by Put is the new one, the others are kept. *)
LEMMA PutFacts ==
  ASSUME NEW f, NEW x, NEW y
  PROVE  /\ DOMAIN Put(f, x, y) = DOMAIN f \cup {x}
         /\ Put(f, x, y)[x] = y
         /\ \A z \in DOMAIN f : z # x => Put(f, x, y)[z] = f[z]
  BY DEF Put

(* What a request leaves behind when it ends. *)
LEMMA DropFacts ==
  ASSUME NEW f, NEW x
  PROVE  /\ DOMAIN Drop(f, x) = DOMAIN f \ {x}
         /\ \A z \in DOMAIN f \ {x} : Drop(f, x)[z] = f[z]
  BY DEF Drop

(* PendingIsTracked read row by row. *)
LEMMA TrackedRowByRow ==
  PendingIsTracked <=>
    \A i \in DOMAIN rows : rows[i].deleted = "no" /\ rows[i].status = "pending" =>
      /\ rows[i].token \in DOMAIN saga
      /\ saga[rows[i].token] \in {"awaiting_delivery", "completed"}
  BY DEF PendingIsTracked, PendingTokens, Live

(* The same for the next state. *)
LEMMA TrackedRowByRowNext ==
  PendingIsTracked' <=>
    \A i \in DOMAIN rows' : rows'[i].deleted = "no" /\ rows'[i].status = "pending" =>
      /\ rows'[i].token \in DOMAIN saga'
      /\ saga'[rows'[i].token] \in {"awaiting_delivery", "completed"}
  BY DEF PendingIsTracked, PendingTokens, Live

(* Init satisfies the invariant: every table is empty. *)
LEMMA InitIInv == Init => IInv
  BY MaxFaultsAssumption
  DEF Init, IInv, TypeOK, RequestsWellFormed, PendingIsTracked, PendingTokens, Live,
      DeletedMeansCompensated, ApiTokenOnlyOnceConfirmed, LiveRowsAreUnique

(* Steps that only change a request's private copy, or the background       *)
(* state, leave the tables alone; the table invariants survive.             *)
LEMMA TablesUnchanged ==
  ASSUME IInv, UNCHANGED <<rows, saga>>
  PROVE  /\ PendingIsTracked' /\ DeletedMeansCompensated'
         /\ ApiTokenOnlyOnceConfirmed' /\ LiveRowsAreUnique'
  BY DEF IInv, PendingIsTracked, PendingTokens, Live,
         DeletedMeansCompensated, ApiTokenOnlyOnceConfirmed, LiveRowsAreUnique

(* Dropping a request keeps the others well formed. *)
LEMMA DropRequest ==
  ASSUME IInv, NEW h \in DOMAIN req, req' = Drop(req, h)
  PROVE  /\ RequestsWellFormed'
         /\ DOMAIN req' \subseteq Handlers
         /\ req' \in [DOMAIN req' -> Request]
  BY DEF IInv, TypeOK, RequestsWellFormed, Drop

(* Adding a well-formed request keeps the requests well formed. *)
LEMMA PutRequest ==
  ASSUME IInv, NEW h \in Handlers, NEW q \in Request, req' = Put(req, h, q),
         q.sub.deleted = "no",
         q.op = "subscribe" => q.sub.status = "pending" /\ q.sub.api = NoApi,
         q.op = "confirm" => q.sub.status = "active" /\ q.sub.api # NoApi,
         q.op = "unsubscribe" => q.sub.status = "unsubscribed",
         q.op # "subscribe" => q.id \in Ids
  PROVE  /\ RequestsWellFormed'
         /\ DOMAIN req' \subseteq Handlers
         /\ req' \in [DOMAIN req' -> Request]
  BY DEF IInv, TypeOK, RequestsWellFormed, Put

(* Writing a live, unique, settled-or-tracked row keeps the tables sound. *)
LEMMA SaveKeepsTables ==
  ASSUME IInv, NEW i \in Ids, NEW sub \in Subscription, sub.deleted = "no",
         Unique(i, sub), SaveRow(i, sub), saga' = saga,
         sub.status # "pending",
         sub.status = "active" => sub.api # NoApi
  PROVE  /\ DOMAIN rows' \subseteq Ids
         /\ rows' \in [DOMAIN rows' -> Subscription]
         /\ PendingIsTracked' /\ DeletedMeansCompensated'
         /\ ApiTokenOnlyOnceConfirmed' /\ LiveRowsAreUnique'
<1> USE DEF IInv, TypeOK, SaveRow, Put
<1>1. DOMAIN rows' = DOMAIN rows \cup {i} /\ rows'[i] = sub
      /\ \A j \in DOMAIN rows : j # i => rows'[j] = rows[j]
  OBVIOUS
<1>2. DOMAIN rows' \subseteq Ids /\ rows' \in [DOMAIN rows' -> Subscription]
  OBVIOUS
<1>3. PendingIsTracked'
  BY <1>1, TrackedRowByRow, TrackedRowByRowNext
<1>4. DeletedMeansCompensated'
  BY <1>1 DEF DeletedMeansCompensated
<1>5. ApiTokenOnlyOnceConfirmed'
  BY <1>1 DEF ApiTokenOnlyOnceConfirmed
<1>6. LiveRowsAreUnique'
  BY <1>1 DEF LiveRowsAreUnique, Live, Unique
<1> QED BY <1>2, <1>3, <1>4, <1>5, <1>6

(* writeSubscriptionTx: the new row is pending under a token whose saga     *)
(* starts in the same transaction, so it is tracked; no other saga changes. *)
LEMMA TxKeepsTables ==
  ASSUME IInv, NEW i \in Ids, NEW sub \in Subscription, sub.deleted = "no",
         sub.status = "pending", sub.api = NoApi, sub.token \in Tokens,
         WriteSubscriptionTx(i, sub)
  PROVE  /\ DOMAIN rows' \subseteq Ids
         /\ rows' \in [DOMAIN rows' -> Subscription]
         /\ DOMAIN saga' \subseteq Tokens
         /\ saga' \in [DOMAIN saga' -> SagaStates]
         /\ queued' \subseteq Tokens
         /\ PendingIsTracked' /\ DeletedMeansCompensated'
         /\ ApiTokenOnlyOnceConfirmed' /\ LiveRowsAreUnique'
<1> USE DEF IInv, TypeOK, WriteSubscriptionTx, SaveRow, Put
<1>1. DOMAIN rows' = DOMAIN rows \cup {i} /\ rows'[i] = sub
      /\ \A j \in DOMAIN rows : j # i => rows'[j] = rows[j]
  OBVIOUS
<1>2. DOMAIN rows' \subseteq Ids /\ rows' \in [DOMAIN rows' -> Subscription]
  OBVIOUS
<1>3. DOMAIN saga' = DOMAIN saga \cup {sub.token} /\ saga'[sub.token] = "awaiting_delivery"
      /\ \A t \in DOMAIN saga : saga'[t] = saga[t]
  OBVIOUS
<1>4. DOMAIN saga' \subseteq Tokens /\ saga' \in [DOMAIN saga' -> SagaStates]
  BY DEF SagaStates
<1>5. queued' \subseteq Tokens
  OBVIOUS
<1>6. PendingIsTracked'
  BY <1>1, <1>3, TrackedRowByRow, TrackedRowByRowNext
<1>7. DeletedMeansCompensated'
  BY <1>1, <1>3 DEF DeletedMeansCompensated
<1>8. ApiTokenOnlyOnceConfirmed'
  BY <1>1 DEF ApiTokenOnlyOnceConfirmed
<1>9. LiveRowsAreUnique'
  BY <1>1 DEF LiveRowsAreUnique, Live, Unique
<1> QED BY <1>2, <1>4, <1>5, <1>6, <1>7, <1>8, <1>9

(* Compensate deletes exactly the pending rows of a token whose saga it     *)
(* moves to compensated.                                                    *)
LEMMA CompensateKeepsTables ==
  ASSUME IInv, NEW t \in Tokens, Compensate(t)
  PROVE  /\ DOMAIN rows' \subseteq Ids
         /\ rows' \in [DOMAIN rows' -> Subscription]
         /\ DOMAIN saga' \subseteq Tokens
         /\ saga' \in [DOMAIN saga' -> SagaStates]
         /\ PendingIsTracked' /\ DeletedMeansCompensated'
         /\ ApiTokenOnlyOnceConfirmed' /\ LiveRowsAreUnique'
<1> USE DEF IInv, TypeOK, Compensate
<1>1. CASE ~Awaiting(t)
  <2>1. rows' = rows /\ saga' = saga
    BY <1>1
  <2> QED BY <2>1, TablesUnchanged
<1>2. CASE Awaiting(t)
  <2>1. DOMAIN saga' = DOMAIN saga /\ t \in DOMAIN saga /\ saga[t] = "awaiting_delivery"
        /\ saga'[t] = "compensated" /\ \A u \in DOMAIN saga : u # t => saga'[u] = saga[u]
    BY <1>2 DEF Awaiting
  <2>2. saga' \in [DOMAIN saga' -> SagaStates]
    BY <1>2, <2>1 DEF SagaStates
  <2>3. DOMAIN rows' = DOMAIN rows
    OBVIOUS
  <2>4. ASSUME NEW i \in DOMAIN rows
        PROVE  IF rows[i].deleted = "no" /\ rows[i].token = t /\ rows[i].status = "pending"
                 THEN rows'[i] = [rows[i] EXCEPT !.deleted = "yes"]
                 ELSE rows'[i] = rows[i]
    BY <1>2, <2>4 DEF Live
  <2>5. \A i \in DOMAIN rows : rows'[i] \in Subscription
    BY <2>4 DEF Subscription
  <2>6. rows' \in [DOMAIN rows' -> Subscription]
    BY <2>3, <2>5
  <2>7. \A i \in DOMAIN rows : /\ rows'[i].status = rows[i].status
                               /\ rows'[i].token = rows[i].token
                               /\ rows'[i].api = rows[i].api
                               /\ rows'[i].email = rows[i].email
                               /\ rows'[i].repo = rows[i].repo
                               /\ rows[i].deleted = "yes" => rows'[i].deleted = "yes"
                               /\ rows'[i].deleted = "yes" /\ rows[i].deleted = "no" =>
                                    rows[i].token = t /\ rows[i].status = "pending"
                               /\ rows'[i].deleted = "no" /\ rows[i].status = "pending" => rows[i].token # t
    BY <2>4 DEF Subscription
  <2>8. PendingIsTracked'
    BY <2>1, <2>3, <2>7 DEF PendingIsTracked, PendingTokens, Live
  <2>9. DeletedMeansCompensated'
    BY <2>1, <2>3, <2>7 DEF DeletedMeansCompensated
  <2>10. ApiTokenOnlyOnceConfirmed'
    BY <2>3, <2>7 DEF ApiTokenOnlyOnceConfirmed
  <2>11. LiveRowsAreUnique'
    BY <2>3, <2>7 DEF LiveRowsAreUnique, Live
  <2> QED BY <2>1, <2>2, <2>3, <2>6, <2>8, <2>9, <2>10, <2>11
<1> QED BY <1>1, <1>2

(* MarkCompleted only moves a saga from awaiting_delivery to completed. *)
LEMMA CompleteKeepsTables ==
  ASSUME IInv, NEW t \in Tokens, MarkCompleted(t)
  PROVE  /\ DOMAIN saga' \subseteq Tokens
         /\ saga' \in [DOMAIN saga' -> SagaStates]
         /\ PendingIsTracked' /\ DeletedMeansCompensated'
         /\ ApiTokenOnlyOnceConfirmed' /\ LiveRowsAreUnique'
<1> USE DEF IInv, TypeOK, MarkCompleted, Awaiting
<1>1. DOMAIN saga' = DOMAIN saga
      /\ \A u \in DOMAIN saga : \/ saga'[u] = saga[u]
                                \/ saga[u] = "awaiting_delivery" /\ saga'[u] = "completed"
  OBVIOUS
<1>2. DOMAIN saga' \subseteq Tokens /\ saga' \in [DOMAIN saga' -> SagaStates]
  BY DEF SagaStates
<1>3. PendingIsTracked'
  BY <1>1, TrackedRowByRow, TrackedRowByRowNext
<1>4. DeletedMeansCompensated'
  BY <1>1 DEF DeletedMeansCompensated
<1>5. ApiTokenOnlyOnceConfirmed' /\ LiveRowsAreUnique'
  BY DEF ApiTokenOnlyOnceConfirmed, LiveRowsAreUnique, Live
<1> QED BY <1>2, <1>3, <1>4, <1>5

(* The scanner's move leaves no pending row of the repository behind. *)
LEMMA MoveKeepsTables ==
  ASSUME IInv, NEW r \in Repos, MarkMovedAndUnsubscribe(r)
  PROVE  /\ DOMAIN rows' \subseteq Ids
         /\ rows' \in [DOMAIN rows' -> Subscription]
         /\ PendingIsTracked' /\ DeletedMeansCompensated'
         /\ ApiTokenOnlyOnceConfirmed' /\ LiveRowsAreUnique'
<1> USE DEF IInv, TypeOK
<1>1. DOMAIN rows' = DOMAIN rows /\ saga' = saga
  BY DEF MarkMovedAndUnsubscribe
<1>2. ASSUME NEW i \in DOMAIN rows
      PROVE  IF rows[i].deleted = "no" /\ rows[i].repo = r
               THEN rows'[i] = [rows[i] EXCEPT !.status = "unsubscribed"]
               ELSE rows'[i] = rows[i]
  BY <1>2 DEF MarkMovedAndUnsubscribe, Live
<1>3. \A i \in DOMAIN rows : rows'[i] \in Subscription
  BY <1>2 DEF Subscription, Statuses
<1>4. rows' \in [DOMAIN rows' -> Subscription]
  <2>1. rows' = [i \in DOMAIN rows' |-> rows'[i]]
    BY DEF MarkMovedAndUnsubscribe
  <2> QED BY <1>1, <1>3, <2>1
<1>5. \A i \in DOMAIN rows : /\ rows'[i].token = rows[i].token
                             /\ rows'[i].api = rows[i].api
                             /\ rows'[i].email = rows[i].email
                             /\ rows'[i].repo = rows[i].repo
                             /\ rows'[i].deleted = rows[i].deleted
                             /\ rows[i].deleted = "yes" => rows'[i].status = rows[i].status
                             /\ \/ rows'[i].status = rows[i].status
                                \/ rows'[i].status = "unsubscribed"
  BY <1>2 DEF Subscription
<1>6. PendingIsTracked'
  BY <1>1, <1>4, <1>5, TrackedRowByRow, TrackedRowByRowNext
<1>7. DeletedMeansCompensated'
  BY <1>1, <1>4, <1>5 DEF DeletedMeansCompensated
<1>8. ApiTokenOnlyOnceConfirmed'
  BY <1>1, <1>4, <1>5 DEF ApiTokenOnlyOnceConfirmed
<1>9. LiveRowsAreUnique'
  BY <1>1, <1>4, <1>5 DEF LiveRowsAreUnique, Live
<1> QED BY <1>1, <1>4, <1>6, <1>7, <1>8, <1>9

(* Every step of the specification preserves the invariant: one step per    *)
(* action of Next.                                                          *)
LEMMA NextIInv == IInv /\ [Next]_vars => IInv'
<1> SUFFICES ASSUME IInv, [Next]_vars PROVE IInv'
  OBVIOUS
<1> USE DEF IInv
<1>1. ASSUME NEW h \in Handlers, NEW e \in Emails, NEW r \in Repos, SubscribeRead(h, e, r)
      PROVE  IInv'
  <2> DEFINE q(i) == [op |-> "subscribe", id |-> i, sub |-> Blank(e, r)]
  <2>1. PICK i \in Ids \cup {NoId} : req' = Put(req, h, q(i))
    BY <1>1 DEF SubscribeRead, FindSubscription, Live, TypeOK
  <2>2. q(i) \in Request
    BY DEF Request, Subscription, Blank, Statuses
  <2>3. /\ RequestsWellFormed'
        /\ DOMAIN req' \subseteq Handlers
        /\ req' \in [DOMAIN req' -> Request]
    <3> HIDE DEF q
    <3>1. q(i).sub.deleted = "no" /\ q(i).op = "subscribe"
          /\ q(i).sub.status = "pending" /\ q(i).sub.api = NoApi
      BY DEF q, Blank
    <3> QED BY <2>1, <2>2, <3>1, PutRequest
  <2> QED BY <1>1, <2>3, TablesUnchanged DEF SubscribeRead, back, TypeOK
<1>2. ASSUME NEW h \in Handlers, NEW t \in Tokens, SubscribeToken(h, t)
      PROVE  IInv'
  <2>1. DOMAIN req' = DOMAIN req /\ h \in DOMAIN req
        /\ req' = [req EXCEPT ![h] = [req[h] EXCEPT !.sub = [req[h].sub EXCEPT !.token = t]]]
    BY <1>2 DEF SubscribeToken, TypeOK, Request, Subscription
  <2>2. req[h] \in Request
    BY <2>1 DEF TypeOK
  <2>3. [req[h] EXCEPT !.sub = [req[h].sub EXCEPT !.token = t]] \in Request
    BY <2>2 DEF Request, Subscription
  <2>4. req' \in [DOMAIN req' -> Request]
    BY <2>1, <2>3 DEF TypeOK
  <2>5. RequestsWellFormed'
    <3>1. \A k \in DOMAIN req : k # h => req'[k] = req[k]
      BY <2>1 DEF TypeOK
    <3>2. /\ req'[h].op = req[h].op /\ req'[h].id = req[h].id
          /\ req'[h].sub.status = req[h].sub.status /\ req'[h].sub.api = req[h].sub.api
          /\ req'[h].sub.deleted = req[h].sub.deleted
      BY <2>1, <2>2 DEF TypeOK, Request, Subscription
    <3> QED BY <2>1, <3>1, <3>2 DEF RequestsWellFormed
  <2> QED BY <1>2, <2>1, <2>4, <2>5, TablesUnchanged DEF SubscribeToken, back, TypeOK
<1>3. ASSUME NEW h \in Handlers, NEW i \in Ids, SubscribeWrite(h, i)
      PROVE  IInv'
  <2>1. h \in DOMAIN req /\ req' = Drop(req, h) /\ WriteSubscriptionTx(i, req[h].sub)
        /\ req[h].op = "subscribe" /\ req[h].sub.token # NoToken
    BY <1>3 DEF SubscribeWrite
  <2>2. req[h].sub \in Subscription /\ req[h].sub.token \in Tokens
    BY <2>1 DEF TypeOK, Request, Subscription
  <2>3. req[h].sub.deleted = "no" /\ req[h].sub.status = "pending" /\ req[h].sub.api = NoApi
    BY <2>1 DEF RequestsWellFormed
  <2>4. RequestsWellFormed' /\ DOMAIN req' \subseteq Handlers /\ req' \in [DOMAIN req' -> Request]
    BY <2>1, DropRequest
  <2> QED BY <1>3, <2>1, <2>2, <2>3, <2>4, TxKeepsTables DEF SubscribeWrite, back, TypeOK
<1>4. ASSUME NEW h \in Handlers, NEW t \in Tokens, NEW a \in Apis, ConfirmRead(h, t, a)
      PROVE  IInv'
  <2> DEFINE q(i) == [op |-> "confirm", id |-> i,
                      sub |-> [rows[i] EXCEPT !.status = "active", !.api = a]]
  <2>1. PICK i \in Live : req' = Put(req, h, q(i))
    BY <1>4 DEF ConfirmRead, FindSubscriptionByConfirmToken
  <2>2. i \in Ids /\ rows[i] \in Subscription /\ rows[i].deleted = "no"
    BY DEF Live, TypeOK
  <2>3. q(i) \in Request
    BY <2>2 DEF Request, Subscription, Statuses
  <2>4. /\ q(i).sub.deleted = "no" /\ q(i).op = "confirm" /\ q(i).id = i
        /\ q(i).sub.status = "active" /\ q(i).sub.api = a /\ a # NoApi
    BY <2>2, NullsAssumption DEF Subscription
  <2>5. RequestsWellFormed' /\ DOMAIN req' \subseteq Handlers /\ req' \in [DOMAIN req' -> Request]
    <3> HIDE DEF q
    <3> QED BY <2>1, <2>2, <2>3, <2>4, PutRequest
  <2> QED BY <1>4, <2>5, TablesUnchanged DEF ConfirmRead, back, TypeOK
<1>5. ASSUME NEW h \in Handlers, NEW t \in Tokens, NEW a \in Apis, UnsubscribeRead(h, t, a)
      PROVE  IInv'
  <2> DEFINE q(i) == [op |-> "unsubscribe", id |-> i,
                      sub |-> [rows[i] EXCEPT !.status = "unsubscribed"]]
  <2>1. PICK i \in Live : req' = Put(req, h, q(i))
    BY <1>5 DEF UnsubscribeRead, FindSubscriptionByTokens
  <2>2. i \in Ids /\ rows[i] \in Subscription /\ rows[i].deleted = "no"
    BY DEF Live, TypeOK
  <2>3. q(i) \in Request
    BY <2>2 DEF Request, Subscription, Statuses
  <2>4. /\ q(i).sub.deleted = "no" /\ q(i).op = "unsubscribe" /\ q(i).id = i
        /\ q(i).sub.status = "unsubscribed"
    BY <2>2 DEF Subscription
  <2>5. RequestsWellFormed' /\ DOMAIN req' \subseteq Handlers /\ req' \in [DOMAIN req' -> Request]
    <3> HIDE DEF q
    <3> QED BY <2>1, <2>2, <2>3, <2>4, PutRequest
  <2> QED BY <1>5, <2>5, TablesUnchanged DEF UnsubscribeRead, back, TypeOK
<1>6. ASSUME NEW h \in Handlers, SaveSubscription(h)
      PROVE  IInv'
  <2>1. /\ h \in DOMAIN req /\ req[h].op # "subscribe" /\ req' = Drop(req, h)
        /\ Unique(req[h].id, req[h].sub) /\ SaveRow(req[h].id, req[h].sub) /\ saga' = saga
    BY <1>6 DEF SaveSubscription
  <2>2. req[h] \in Request /\ req[h].sub \in Subscription
    BY <2>1 DEF TypeOK, Request
  <2>3. /\ req[h].id \in Ids /\ req[h].sub.deleted = "no"
        /\ req[h].sub.status # "pending"
        /\ req[h].sub.status = "active" => req[h].sub.api # NoApi
    BY <2>1, <2>2 DEF RequestsWellFormed, Request
  <2>4. RequestsWellFormed' /\ DOMAIN req' \subseteq Handlers /\ req' \in [DOMAIN req' -> Request]
    BY <2>1, DropRequest
  <2> QED BY <1>6, <2>1, <2>2, <2>3, <2>4, SaveKeepsTables DEF SaveSubscription, back, TypeOK
<1>7. ASSUME NEW h \in Handlers, Fail(h)
      PROVE  IInv'
  <2>1. RequestsWellFormed' /\ DOMAIN req' \subseteq Handlers /\ req' \in [DOMAIN req' -> Request]
    BY <1>7, DropRequest DEF Fail
  <2> QED BY <1>7, <2>1, TablesUnchanged DEF Fail, back, TypeOK
<1>8. ASSUME NEW r \in Repos, MarkMovedAndUnsubscribe(r)
      PROVE  IInv'
  <2>1. RequestsWellFormed'
    BY <1>8 DEF MarkMovedAndUnsubscribe, RequestsWellFormed
  <2> QED BY <1>8, <2>1, MoveKeepsTables DEF MarkMovedAndUnsubscribe, back, TypeOK
<1>9. ASSUME NEW m \in Result, Report(m) \/ Claim(m) \/ RetryResult(m)
      PROVE  IInv'
  <2>1. UNCHANGED <<rows, saga, queued, req, stale, batch>>
    BY <1>9 DEF Report, Claim, RetryResult, web
  <2>2. results' \subseteq Result /\ claimed' \subseteq Result /\ faults' \in 0..MaxFaults
    BY <1>9, MaxFaultsAssumption DEF Report, Claim, RetryResult, Ack, TypeOK
  <2>3. RequestsWellFormed'
    BY <2>1 DEF RequestsWellFormed
  <2> QED BY <2>1, <2>2, <2>3, TablesUnchanged DEF TypeOK
<1>10. ASSUME NEW m \in Result, Settle(m)
       PROVE  IInv'
  <2>1. m.token \in Tokens
    BY DEF Result
  <2>2. UNCHANGED <<queued, req, stale, batch, faults>>
        /\ results' \subseteq Result /\ claimed' \subseteq Result
    BY <1>10 DEF Settle, Ack, TypeOK
  <2>3. RequestsWellFormed'
    BY <2>2 DEF RequestsWellFormed
  <2>4. CASE m.type = "delivered"
    <3>1. MarkCompleted(m.token)
      BY <1>10, <2>4 DEF Settle
    <3>2. rows' = rows
      BY <3>1 DEF MarkCompleted
    <3> QED BY <2>1, <2>2, <2>3, <3>1, <3>2, CompleteKeepsTables DEF TypeOK
  <2>5. CASE m.type # "delivered"
    <3>1. Compensate(m.token)
      BY <1>10, <2>5 DEF Settle
    <3> QED BY <2>1, <2>2, <2>3, <3>1, CompensateKeepsTables DEF TypeOK
  <2> QED BY <2>4, <2>5
<1>11. ASSUME NEW t \in Tokens, SweepCompensate(t)
       PROVE  IInv'
  <2>1. RequestsWellFormed'
    BY <1>11 DEF SweepCompensate, RequestsWellFormed
  <2>2. Compensate(t)
    BY <1>11 DEF SweepCompensate
  <2>3. UNCHANGED <<queued, req, results, claimed, stale, faults>> /\ batch' \subseteq Tokens
    BY <1>11 DEF SweepCompensate, TypeOK
  <2> QED BY <2>1, <2>2, <2>3, CompensateKeepsTables DEF TypeOK
<1>12. ASSUME NEW t \in Tokens, Age(t) \/ SweepError(t)
       PROVE  IInv'
  <2>1. UNCHANGED <<rows, saga, queued, req, results, claimed>>
        /\ stale' \subseteq Tokens /\ batch' \subseteq Tokens /\ faults' \in 0..MaxFaults
    BY <1>12, MaxFaultsAssumption DEF Age, SweepError, web, TypeOK
  <2>2. RequestsWellFormed'
    BY <2>1 DEF RequestsWellFormed
  <2> QED BY <2>1, <2>2, TablesUnchanged DEF TypeOK
<1>13. ASSUME SweepQuery
       PROVE  IInv'
  <2>1. UNCHANGED <<rows, saga, queued, req, results, claimed, stale, faults>>
        /\ batch' \subseteq Tokens
    BY <1>13 DEF SweepQuery, web, TypeOK
  <2>2. RequestsWellFormed'
    BY <2>1 DEF RequestsWellFormed
  <2> QED BY <2>1, <2>2, TablesUnchanged DEF TypeOK
<1>14. ASSUME Restart
       PROVE  IInv'
  <2>1. UNCHANGED <<rows, saga, queued, results, stale>>
        /\ claimed' = {} /\ batch' = {} /\ faults' \in 0..MaxFaults
        /\ DOMAIN req' = {} /\ req' \in [DOMAIN req' -> Request]
    BY <1>14, MaxFaultsAssumption DEF Restart, TypeOK
  <2>2. RequestsWellFormed'
    BY <2>1 DEF RequestsWellFormed
  <2> QED BY <2>1, <2>2, TablesUnchanged DEF TypeOK
<1>15. CASE UNCHANGED vars
  <2>1. RequestsWellFormed'
    BY <1>15 DEF RequestsWellFormed, vars
  <2> QED BY <1>15, <2>1, TablesUnchanged DEF TypeOK, vars
<1> QED
  BY <1>1, <1>2, <1>3, <1>4, <1>5, <1>6, <1>7, <1>8, <1>9, <1>10, <1>11, <1>12,
     <1>13, <1>14, <1>15 DEF Next, Server, Subscribe

(* The invariant holds in every state of every behaviour. *)
THEOREM Invariance == Spec => []IInv
<1>1. Init => IInv
  BY InitIInv
<1>2. IInv /\ [Next]_vars => IInv'
  BY NextIInv
<1> QED BY <1>1, <1>2, PTL DEF Spec

(* Type correctness of the server's state. *)
THEOREM TypeCorrect == Spec => []TypeOK
  BY Invariance, PTL DEF IInv

(* FR10: a live pending subscription always has a saga that was not         *)
(* compensated.                                                             *)
THEOREM PendingTracked == Spec => []PendingIsTracked
  BY Invariance, PTL DEF IInv

(* A subscription is only ever deleted by its own saga, while pending.      *)
THEOREM DeletedCompensated == Spec => []DeletedMeansCompensated
  BY Invariance, PTL DEF IInv

(* API tokens are issued by confirmation only, and every active row has one. *)
THEOREM ApiTokens == Spec => []ApiTokenOnlyOnceConfirmed
  BY Invariance, PTL DEF IInv

(* What a step may do to the sagas and to the rows pending under a token.   *)
Kept ==      \* neither table changes
  UNCHANGED <<rows, saga>>
Resolved ==  \* subscriptions stop being pending
  saga' = saga /\ PendingTokens' \subseteq PendingTokens
Started ==   \* a fresh saga, and its pending row, begin together
  \E t \in Tokens \ DOMAIN saga :
    /\ saga' = Put(saga, t, "awaiting_delivery")
    /\ t \in PendingTokens' /\ PendingTokens' \subseteq PendingTokens \cup {t}
Settled ==   \* one open saga is settled
  \E t \in Tokens :
    /\ Awaiting(t)
    /\ \/ MarkCompleted(t) \/ Compensate(t)

(* PendingTokens spelled out, in this state and the next. *)
LEMMA PendingMembers ==
  /\ \A t : t \in PendingTokens <=>
       \E i \in DOMAIN rows : rows[i].deleted = "no" /\ rows[i].status = "pending"
                                /\ rows[i].token = t
  /\ \A t : t \in PendingTokens' <=>
       \E i \in DOMAIN rows' : rows'[i].deleted = "no" /\ rows'[i].status = "pending"
                                 /\ rows'[i].token = t
  BY DEF PendingTokens, Live

(* Every step is one of these four. *)
LEMMA StepKinds == IInv /\ [Next]_vars => Kept \/ Resolved \/ Started \/ Settled
<1> SUFFICES ASSUME IInv, [Next]_vars PROVE Kept \/ Resolved \/ Started \/ Settled
  OBVIOUS
<1>1. ASSUME NEW h \in Handlers, NEW i \in Ids, SubscribeWrite(h, i)
      PROVE  Started
  <2>1. h \in DOMAIN req /\ req[h].op = "subscribe" /\ req[h].sub.token # NoToken
        /\ WriteSubscriptionTx(i, req[h].sub)
    BY <1>1 DEF SubscribeWrite
  <2>2. /\ req[h].sub \in Subscription /\ req[h].sub.token \in Tokens
        /\ req[h].sub.deleted = "no" /\ req[h].sub.status = "pending"
    BY <2>1 DEF IInv, TypeOK, Request, Subscription, RequestsWellFormed
  <2>3. /\ req[h].sub.token \notin DOMAIN saga
        /\ saga' = Put(saga, req[h].sub.token, "awaiting_delivery")
        /\ rows' = Put(rows, i, req[h].sub)
    BY <2>1 DEF WriteSubscriptionTx, SaveRow
  <2>4. /\ DOMAIN rows' = DOMAIN rows \cup {i} /\ rows'[i] = req[h].sub
        /\ \A j \in DOMAIN rows : j # i => rows'[j] = rows[j]
    BY <2>3 DEF Put
  <2>5. req[h].sub.token \in PendingTokens'
    BY <2>2, <2>4, PendingMembers
  <2>6. PendingTokens' \subseteq PendingTokens \cup {req[h].sub.token}
    <3> SUFFICES ASSUME NEW t \in PendingTokens', t # req[h].sub.token
                 PROVE  t \in PendingTokens
      OBVIOUS
    <3>1. PICK j \in DOMAIN rows' : rows'[j].deleted = "no" /\ rows'[j].status = "pending"
                                     /\ rows'[j].token = t
      BY PendingMembers
    <3>2. j \in DOMAIN rows /\ rows'[j] = rows[j]
      BY <2>4, <3>1
    <3> QED BY <3>1, <3>2, PendingMembers
  <2> QED BY <2>2, <2>3, <2>5, <2>6 DEF Started
<1>2. ASSUME NEW h \in Handlers, SaveSubscription(h)
      PROVE  Resolved
  <2>1. /\ h \in DOMAIN req /\ req[h].op # "subscribe" /\ saga' = saga
        /\ rows' = Put(rows, req[h].id, req[h].sub)
    BY <1>2 DEF SaveSubscription, SaveRow
  <2>2. req[h].sub.status # "pending"
    BY <2>1 DEF IInv, TypeOK, Request, RequestsWellFormed
  <2>3. /\ DOMAIN rows' = DOMAIN rows \cup {req[h].id} /\ rows'[req[h].id] = req[h].sub
        /\ \A j \in DOMAIN rows : j # req[h].id => rows'[j] = rows[j]
    BY <2>1 DEF Put
  <2>4. ASSUME NEW t \in PendingTokens' PROVE t \in PendingTokens
    <3>1. PICK j \in DOMAIN rows' : rows'[j].deleted = "no" /\ rows'[j].status = "pending"
                                     /\ rows'[j].token = t
      BY <2>4, PendingMembers
    <3>2. j \in DOMAIN rows /\ rows'[j] = rows[j]
      BY <2>2, <2>3, <3>1
    <3> QED BY <3>1, <3>2, PendingMembers
  <2> QED BY <2>1, <2>4 DEF Resolved
<1>3. ASSUME NEW r \in Repos, MarkMovedAndUnsubscribe(r)
      PROVE  Resolved
  <2>1. DOMAIN rows' = DOMAIN rows /\ saga' = saga
    BY <1>3 DEF MarkMovedAndUnsubscribe
  <2>2. ASSUME NEW j \in DOMAIN rows, rows'[j].status = "pending"
        PROVE  rows'[j] = rows[j]
    <3>1. rows[j] \in Subscription
      BY DEF IInv, TypeOK
    <3>2. rows'[j] = IF j \in Live /\ rows[j].repo = r
                       THEN [rows[j] EXCEPT !.status = "unsubscribed"] ELSE rows[j]
      BY <1>3 DEF MarkMovedAndUnsubscribe
    <3> QED BY <2>2, <3>1, <3>2 DEF Subscription
  <2>3. ASSUME NEW t \in PendingTokens' PROVE t \in PendingTokens
    <3>1. PICK j \in DOMAIN rows' : rows'[j].deleted = "no" /\ rows'[j].status = "pending"
                                     /\ rows'[j].token = t
      BY <2>3, PendingMembers
    <3> QED BY <2>1, <2>2, <3>1, PendingMembers
  <2> QED BY <2>1, <2>3 DEF Resolved
<1>4. ASSUME NEW t \in Tokens, Compensate(t)
      PROVE  Kept \/ Settled
  <2>1. CASE Awaiting(t)
    BY <1>4, <2>1 DEF Settled
  <2>2. CASE ~Awaiting(t)
    BY <1>4, <2>2 DEF Compensate, Kept, IInv, TypeOK
  <2> QED BY <2>1, <2>2
<1>5. ASSUME NEW m \in Result, Settle(m)
      PROVE  Kept \/ Settled
  <2>1. m.token \in Tokens
    BY DEF Result
  <2>2. CASE m.type = "delivered" /\ Awaiting(m.token)
    BY <1>5, <2>1, <2>2 DEF Settle, Settled
  <2>3. CASE m.type = "delivered" /\ ~Awaiting(m.token)
    BY <1>5, <2>3 DEF Settle, MarkCompleted, Kept
  <2>4. CASE m.type # "delivered"
    BY <1>4, <1>5, <2>1, <2>4 DEF Settle
  <2> QED BY <2>2, <2>3, <2>4
<1>6. ASSUME NEW t \in Tokens, SweepCompensate(t)
      PROVE  Kept \/ Settled
  BY <1>4, <1>6 DEF SweepCompensate
<1>7. ASSUME NEW h \in Handlers,
             \/ \E e \in Emails, r \in Repos : SubscribeRead(h, e, r)
             \/ \E t \in Tokens : SubscribeToken(h, t)
             \/ \E t \in Tokens, a \in Apis : ConfirmRead(h, t, a) \/ UnsubscribeRead(h, t, a)
             \/ Fail(h)
      PROVE  Kept
  BY <1>7 DEF Kept, SubscribeRead, SubscribeToken, ConfirmRead, UnsubscribeRead, Fail
<1>8. ASSUME \/ \E m \in Result : Report(m) \/ Claim(m) \/ RetryResult(m)
             \/ \E t \in Tokens : Age(t) \/ SweepError(t)
             \/ SweepQuery
             \/ Restart
             \/ UNCHANGED vars
      PROVE  Kept
  BY <1>8 DEF Kept, Report, Claim, RetryResult, Age, SweepError, SweepQuery, Restart, web, vars
<1> QED
  BY <1>1, <1>2, <1>3, <1>5, <1>6, <1>7, <1>8 DEF Next, Server, Subscribe

(* Whichever of orchestrator and reaper settles a saga first wins. *)
LEMMA NextSagaStep == IInv /\ [Next]_vars => SagaStep
<1> SUFFICES ASSUME IInv, [Next]_vars PROVE SagaStep
  OBVIOUS
<1>1. CASE Kept \/ Resolved
  BY <1>1 DEF Kept, Resolved, SagaStep
<1>2. CASE Started
  BY <1>2 DEF Started, Put, SagaStep
<1>3. CASE Settled
  BY <1>3 DEF Settled, MarkCompleted, Compensate, Awaiting, SagaStep, IInv, TypeOK
<1> QED BY <1>1, <1>2, <1>3, StepKinds

(* A saga is settled at most once, for any number of results, sweeps,       *)
(* retries and restarts.                                                    *)
THEOREM SagaSettledOnce == Spec => SettledOnce
<1>1. IInv /\ [Next]_vars => [SagaStep]_vars
  BY NextSagaStep
<1> QED BY <1>1, Invariance, PTL DEF Spec, SettledOnce

(* What Compensate does to the pending tokens: it takes its own. *)
LEMMA CompensatePending ==
  ASSUME IInv, NEW t \in Tokens, Awaiting(t), Compensate(t)
  PROVE  /\ DOMAIN rows' = DOMAIN rows
         /\ \A i \in Live : (rows[i].status # "pending" \/ rows[i].token # t)
                              => rows'[i] = rows[i]
         /\ PendingTokens' = PendingTokens \ {t}
<1>1. /\ DOMAIN rows' = DOMAIN rows
      /\ \A i \in DOMAIN rows :
           rows'[i] = IF i \in Live /\ rows[i].token = t /\ rows[i].status = "pending"
                        THEN [rows[i] EXCEPT !.deleted = "yes"] ELSE rows[i]
  BY DEF Compensate
<1>2. \A i \in DOMAIN rows : rows[i] \in Subscription
  BY DEF IInv, TypeOK
<1>3. ASSUME NEW i \in DOMAIN rows
      PROVE  (rows'[i].deleted = "no" /\ rows'[i].status = "pending")
             <=> (rows[i].deleted = "no" /\ rows[i].status = "pending" /\ rows[i].token # t)
  BY <1>1, <1>2 DEF Live, Subscription
<1>4. ASSUME NEW i \in DOMAIN rows
      PROVE  rows'[i].token = rows[i].token
  BY <1>1, <1>2 DEF Subscription
<1>5. \A s : s \in PendingTokens' <=> (s \in PendingTokens /\ s # t)
  BY <1>1, <1>3, <1>4, PendingMembers
<1> QED BY <1>1, <1>5 DEF Live

(* A step that compensates a saga takes the pending row of its token only. *)
LEMMA NextC1Step == IInv /\ [Next]_vars => C1Step
<1> SUFFICES ASSUME IInv, [Next]_vars,
                    NEW t \in DOMAIN saga,
                    saga[t] = "awaiting_delivery", saga'[t] = "compensated"
             PROVE  /\ t \notin PendingTokens'
                    /\ \A i \in Live : (rows[i].status # "pending" \/ rows[i].token # t)
                                          => rows'[i] = rows[i]
  BY DEF C1Step
<1>1. ~(Kept \/ Resolved)
  BY DEF Kept, Resolved
<1>2. ~Started
  BY DEF Started, Put
<1>3. PICK s \in Tokens : Awaiting(s) /\ (MarkCompleted(s) \/ Compensate(s))
  BY <1>1, <1>2, StepKinds DEF Settled
<1>4. Compensate(s) /\ s = t
  BY <1>3 DEF MarkCompleted, Compensate, Awaiting, IInv, TypeOK
<1> QED BY <1>3, <1>4, CompensatePending

(* C1 leaves every subscription but the pending one of its token alone, and *)
(* leaves no pending row behind.                                            *)
THEOREM CompensationConfined == Spec => CompensationIsConfined
<1>1. IInv /\ [Next]_vars => [C1Step]_vars
  BY NextC1Step
<1> QED BY <1>1, Invariance, PTL DEF Spec, CompensationIsConfined

(* Onboarding implements SagaContract: the initial states map to initial    *)
(* states, and each kind of step to a step of the contract.                 *)
THEOREM Refinement == Spec => ImplementsContract
<1> DEFINE state == [t \in Tokens |-> IF t \in DOMAIN saga THEN saga[t] ELSE "none"]
<1>1. Init => Contract!Init
  <2> SUFFICES ASSUME Init PROVE state = [t \in Tokens |-> "none"] /\ PendingTokens = {}
    BY DEF Contract!Init
  <2> QED BY DEF Init, PendingTokens, Live
<1>2. IInv /\ [Next]_vars => [Contract!Next]_(Contract!vars)
  <2> SUFFICES ASSUME IInv, [Next]_vars
               PROVE  Contract!Next \/ (state' = state /\ PendingTokens' = PendingTokens)
    BY DEF Contract!vars
  <2>1. CASE Kept
    BY <2>1 DEF Kept, PendingTokens, Live
  <2>2. CASE Resolved
    <3>1. Contract!Resolve(PendingTokens \ PendingTokens')
      BY <2>2 DEF Resolved, Contract!Resolve
    <3> QED BY <3>1 DEF Contract!Next
  <2>3. CASE Started
    <3>1. PICK t \in Tokens \ DOMAIN saga :
            /\ saga' = Put(saga, t, "awaiting_delivery")
            /\ t \in PendingTokens' /\ PendingTokens' \subseteq PendingTokens \cup {t}
      BY <2>3 DEF Started
    <3>2. state[t] = "none" /\ state' = [state EXCEPT ![t] = "awaiting_delivery"]
      BY <3>1 DEF Put
    <3>3. PICK superseded \in SUBSET PendingTokens : superseded = PendingTokens \ PendingTokens'
      OBVIOUS
    <3>4. PendingTokens' = (PendingTokens \ superseded) \cup {t}
      BY <3>1, <3>3
    <3>5. Contract!Start(t, superseded)
      BY <3>1, <3>2, <3>4 DEF Contract!Start
    <3> QED BY <3>1, <3>5 DEF Contract!Next
  <2>4. CASE Settled
    <3>1. PICK t \in Tokens : Awaiting(t) /\ (MarkCompleted(t) \/ Compensate(t))
      BY <2>4 DEF Settled
    <3>2. state[t] = "awaiting_delivery"
      BY <3>1 DEF Awaiting
    <3>3. CASE MarkCompleted(t)
      <4>1. state' = [state EXCEPT ![t] = "completed"]
        BY <3>1, <3>3 DEF MarkCompleted, Awaiting, IInv, TypeOK
      <4>2. PendingTokens' = PendingTokens
        BY <3>3 DEF MarkCompleted, PendingTokens, Live
      <4> QED BY <3>2, <4>1, <4>2 DEF Contract!Complete, Contract!Next
    <3>4. CASE Compensate(t)
      <4>1. state' = [state EXCEPT ![t] = "compensated"]
        BY <3>1, <3>4 DEF Compensate, Awaiting, IInv, TypeOK
      <4>2. PendingTokens' = PendingTokens \ {t}
        BY <3>1, <3>4, CompensatePending
      <4> QED BY <3>2, <4>1, <4>2 DEF Contract!Compensate, Contract!Next
    <3> QED BY <3>1, <3>3, <3>4
  <2> QED BY <2>1, <2>2, <2>3, <2>4, StepKinds
<1> QED BY <1>1, <1>2, Invariance, PTL DEF Spec, ImplementsContract, Contract!Spec

(***************************************************************************)
(* The pipeline                                                            *)
(***************************************************************************)
PTypes ==
  /\ transport \in {"amqp", "grpc"}
  /\ mailing \subseteq Result
  /\ mishaps \in Nat

(* A verification email was tried and its outcome waits to be reported or   *)
(* settled.                                                                 *)
Reported(t) == \E r \in mailing \cup results : r.token = t

(* What is claimed was not acked, the key of a verification event is set    *)
(* for an event that was queued, and what was queued, is old or is swept    *)
(* has a saga.                                                              *)
Bookkeeping ==
  /\ claimed \subseteq results
  /\ outbox \cup events \cup marked \subseteq queued \cup Notices
  /\ queued \cup stale \cup batch \subseteq DOMAIN saga

(* A result says what the SMTP server did. *)
ResultsAreTrue ==
  \A r \in mailing \cup results :
    /\ r.type = "delivered" => r.token \in emailed
    /\ r.type = "failed"    => r.token \in refused

(* As long as nothing fails, the email of an open saga, or its outcome, is  *)
(* at one of the stages, beyond the notifier once its key is set, and the   *)
(* reaper has no reason to look at the saga.                                *)
Carried(t) ==
  /\ t \in outbox \cup events \cup commands \/ Reported(t)
  /\ t \in marked => t \in commands \/ Reported(t)
  /\ t \notin stale \cup batch

OpenSagasAreCarried == Healthy => \A t \in DOMAIN saga : Awaiting(t) => Carried(t)

PInv ==
  /\ PTypes
  /\ Bookkeeping
  /\ ResultsAreTrue
  /\ OpenSagasAreCarried
  /\ CompletedMeansSent
  /\ CancelledMeansRefused

(* Every event type is bound, has a command, and is one the mailer knows,   *)
(* on either link.                                                          *)
LEMMA TypesFit ==
  ASSUME NEW m \in Messages, transport \in {"amqp", "grpc"}
  PROVE  /\ EventType(m) \in NotificationsEndpoint
         /\ EventType(m) \in DOMAIN ToCommand
         /\ Received(m) \in BuildEmail
<1>1. EventType(m) \in {"release.detected", "repository.moved", "subscription.created"}
  BY DEF EventType, Notices
<1>2. ToCommand[EventType(m)] \in BuildEmail
  BY <1>1 DEF ToCommand, BuildEmail
<1>3. \A c \in BuildEmail : ProtoToEvent(EventToProto(c)) = c
  BY DEF BuildEmail, ProtoToEvent, EventToProto
<1> QED BY <1>1, <1>2, <1>3 DEF NotificationsEndpoint, ToCommand, Received

(* In the server a step of the pipeline is a step of Onboarding, or none. *)
LEMMA StepsAreServerSteps == [PNext]_allvars => [Next]_vars
<1> SUFFICES ASSUME [PNext]_allvars PROVE [Next]_vars
  OBVIOUS
<1>1. CASE ServerStep
  BY <1>1 DEF ServerStep, Next
<1>2. ASSUME NEW r \in Result, ReportResult(r) \/ ReportFails(r)
      PROVE  [Next]_vars
  BY <1>2 DEF ReportResult, ReportFails, Next
<1>3. ASSUME NEW m \in Messages, Deliver(m)
      PROVE  UNCHANGED vars
  BY <1>3 DEF Deliver, Relay, Skip, Notify, NotifyFails, Send, Refuse
<1>4. CASE MailerCrash \/ NotifierCrash \/ \E n \in Notices : Announce(n)
  BY <1>4 DEF MailerCrash, NotifierCrash, Announce
<1>5. CASE UNCHANGED allvars
  BY <1>5 DEF allvars, vars
<1> QED BY <1>1, <1>2, <1>3, <1>4, <1>5 DEF PNext

(* The server inside the pipeline keeps every promise of Onboarding: its    *)
(* mailer, the notifier and the queues are one of the environments that     *)
(* Onboarding allows.                                                       *)
THEOREM PipelineRunsOnboarding == PSpec => Spec
<1>1. PInit => Init
  BY DEF PInit
<1> QED BY <1>1, StepsAreServerSteps, PTL DEF PSpec, Spec

(* Nothing is under way at the start. *)
LEMMA PInitPInv == PInit => PInv
  BY DEF PInit, Init, PInv, PTypes, Bookkeeping, ResultsAreTrue, OpenSagasAreCarried,
         Healthy, CompletedMeansSent, CancelledMeansRefused

(* A failure is counted: from then on the pipeline is not healthy. *)
LEMMA FailureIsCounted ==
  ASSUME IInv, PTypes, \/ faults' = faults + 1 /\ mishaps' = mishaps
                       \/ Mishap /\ faults' = faults
  PROVE  ~Healthy' /\ mishaps' \in Nat
  BY DEF IInv, TypeOK, PTypes, Mishap, Healthy

(* A step that counts no failure started in a healthy pipeline if it ends   *)
(* in one.                                                                  *)
LEMMA HealthIsOld ==
  ASSUME UNCHANGED <<faults, mishaps>>, Healthy'
  PROVE  Healthy
  BY DEF Healthy

(* A step that touches none of it. *)
LEMMA NothingMoves ==
  ASSUME PInv, UNCHANGED <<saga, queued, results, claimed, stale, batch, faults>>,
         UNCHANGED <<transport, outbox, events, marked, commands, mailing, emailed, refused,
                     mishaps>>
  PROVE  PInv'
  BY DEF PInv, PTypes, Bookkeeping, ResultsAreTrue, OpenSagasAreCarried, Awaiting, Carried,
         Reported, Healthy, CompletedMeansSent, CancelledMeansRefused

(***************************************************************************)
(* The server's steps                                                      *)
(***************************************************************************)
(* A subscription that is written starts a saga with its event in the       *)
(* outbox; its token is new to every table.                                 *)
LEMMA SubscribeKeepsPInv ==
  ASSUME IInv, PInv, NEW h \in Handlers, NEW i \in Ids, SubscribeWrite(h, i), InServer
  PROVE  PInv'
<1> DEFINE t == req[h].sub.token
<1>1. /\ t \notin DOMAIN saga
      /\ saga' = Put(saga, t, "awaiting_delivery")
      /\ queued' = queued \cup {t}
      /\ UNCHANGED <<results, claimed, stale, batch, faults>>
  BY DEF SubscribeWrite, WriteSubscriptionTx, back
<1>2. /\ DOMAIN saga' = DOMAIN saga \cup {t} /\ saga'[t] = "awaiting_delivery"
      /\ \A u \in DOMAIN saga : u # t /\ saga'[u] = saga[u]
  BY <1>1 DEF Put
<1>3. t \in Tokens
  BY DEF SubscribeWrite, IInv, TypeOK, Request, Subscription
<1>4. t \notin queued /\ t \notin stale \cup batch /\ t \notin marked
  BY <1>1, <1>3, NoticesAssumption DEF PInv, Bookkeeping
<1>5. /\ outbox' = outbox \cup {t}
      /\ UNCHANGED <<transport, events, marked, commands, mailing, emailed, refused, mishaps>>
  BY <1>1, <1>4 DEF InServer
<1> HIDE DEF t
<1>6. PTypes' /\ Bookkeeping' /\ ResultsAreTrue'
  BY <1>1, <1>2, <1>5 DEF PInv, PTypes, Bookkeeping, ResultsAreTrue
<1>7. CompletedMeansSent' /\ CancelledMeansRefused'
  BY <1>1, <1>2, <1>5 DEF PInv, CompletedMeansSent, CancelledMeansRefused, Healthy
<1>8. OpenSagasAreCarried'
  <2> SUFFICES ASSUME Healthy', NEW u \in DOMAIN saga', Awaiting(u)'
               PROVE  Carried(u)'
    BY DEF OpenSagasAreCarried
  <2>1. CASE u = t
    BY <1>1, <1>4, <1>5, <2>1 DEF Carried
  <2>2. CASE u # t
    <3>1. Healthy /\ Awaiting(u) /\ u \in DOMAIN saga
      BY <1>1, <1>2, <1>5, <2>2, HealthIsOld DEF Awaiting
    <3> QED BY <1>1, <1>5, <3>1 DEF PInv, OpenSagasAreCarried, Carried, Reported
  <2> QED BY <2>1, <2>2
<1> QED BY <1>6, <1>7, <1>8 DEF PInv

(* A step that settles no saga and counts no failure carries on what it     *)
(* does not lose.                                                           *)
LEMMA CarriedOn ==
  ASSUME PInv, UNCHANGED <<saga, faults, mishaps>>,
         \A t \in Tokens : Awaiting(t) /\ Healthy /\ Carried(t) => Carried(t)',
         DOMAIN saga \subseteq Tokens
  PROVE  OpenSagasAreCarried'
<1> SUFFICES ASSUME Healthy', NEW t \in DOMAIN saga', Awaiting(t)'
             PROVE  Carried(t)'
  BY DEF OpenSagasAreCarried
<1>1. Healthy /\ Awaiting(t) /\ t \in DOMAIN saga
  BY HealthIsOld DEF Awaiting
<1>2. Carried(t)
  BY <1>1 DEF PInv, OpenSagasAreCarried
<1> QED BY <1>1, <1>2

(* claim acks only results of sagas that are not open. *)
LEMMA ClaimKeepsPInv ==
  ASSUME IInv, PInv, NEW m \in Result, Claim(m), InServer
  PROVE  PInv'
<1>1. /\ UNCHANGED <<saga, queued, stale, batch, faults>>
      /\ claimed' \subseteq results' /\ results' \subseteq results
      /\ \A r \in results : Awaiting(r.token) => r \in results'
  BY DEF Claim, Ack, web, PInv, Bookkeeping
<1>2. UNCHANGED <<transport, outbox, events, marked, commands, mailing, emailed, refused, mishaps>>
  BY <1>1 DEF InServer
<1>3. PTypes' /\ Bookkeeping' /\ ResultsAreTrue'
  BY <1>1, <1>2 DEF PInv, PTypes, Bookkeeping, ResultsAreTrue
<1>4. CompletedMeansSent' /\ CancelledMeansRefused'
  BY <1>1, <1>2 DEF PInv, CompletedMeansSent, CancelledMeansRefused, Healthy
<1>5. OpenSagasAreCarried'
  <2>1. ASSUME NEW t \in Tokens, Awaiting(t), Carried(t)
        PROVE  Carried(t)'
    BY <1>1, <1>2, <2>1 DEF Carried, Reported
  <2> QED BY <1>1, <1>2, <2>1, CarriedOn DEF IInv, TypeOK
<1> QED BY <1>3, <1>4, <1>5 DEF PInv

(* settle closes the saga of the result it acks: completed on an email that *)
(* was sent, compensated on one that was refused.                           *)
LEMMA SettleKeepsPInv ==
  ASSUME IInv, PInv, NEW m \in Result, Settle(m), InServer
  PROVE  PInv'
<1>1. /\ m \in claimed /\ m \in results
      /\ UNCHANGED <<queued, stale, batch, faults>>
      /\ claimed' = {} /\ results' \subseteq results /\ results \ {m} \subseteq results'
  BY DEF Settle, Ack, PInv, Bookkeeping
<1>2. UNCHANGED <<transport, outbox, events, marked, commands, mailing, emailed, refused, mishaps>>
  BY <1>1 DEF InServer
<1>3. DOMAIN saga' = DOMAIN saga /\ ~Awaiting(m.token)'
  BY DEF Settle, MarkCompleted, Compensate, Awaiting, IInv, TypeOK
<1>4. ASSUME NEW t \in DOMAIN saga, saga'[t] # saga[t]
      PROVE  /\ t = m.token /\ Awaiting(t)
             /\ \/ m.type = "delivered" /\ saga'[t] = "completed"
                \/ m.type = "failed" /\ saga'[t] = "compensated"
  <2>1. m.type \in {"delivered", "failed"}
    BY DEF Result
  <2>2. saga \in [DOMAIN saga -> SagaStates]
    BY DEF IInv, TypeOK
  <2>3. CASE m.type = "delivered"
    BY <1>4, <2>2, <2>3 DEF Settle, MarkCompleted, Awaiting
  <2>4. CASE m.type = "failed"
    BY <1>4, <2>2, <2>4 DEF Settle, Compensate, Awaiting
  <2> QED BY <2>1, <2>3, <2>4
<1>5. PTypes' /\ Bookkeeping' /\ ResultsAreTrue'
  BY <1>1, <1>2, <1>3 DEF PInv, PTypes, Bookkeeping, ResultsAreTrue
<1>6. /\ m.type = "delivered" => m.token \in emailed
      /\ m.type = "failed" => m.token \in refused
  BY <1>1 DEF PInv, ResultsAreTrue
<1>7. CompletedMeansSent'
  BY <1>2, <1>3, <1>4, <1>6 DEF PInv, CompletedMeansSent
<1>8. CancelledMeansRefused'
  BY <1>1, <1>2, <1>3, <1>4, <1>6 DEF PInv, CancelledMeansRefused, Healthy
<1>9. OpenSagasAreCarried'
  <2> SUFFICES ASSUME Healthy', NEW t \in DOMAIN saga', Awaiting(t)'
               PROVE  Carried(t)'
    BY DEF OpenSagasAreCarried
  <2>1. Healthy /\ t # m.token /\ t \in DOMAIN saga
    BY <1>1, <1>2, <1>3, HealthIsOld
  <2>2. Awaiting(t)
    BY <1>4, <2>1 DEF Awaiting
  <2>3. Carried(t)
    BY <2>1, <2>2 DEF PInv, OpenSagasAreCarried
  <2> QED BY <1>1, <1>2, <2>1, <2>3 DEF Carried, Reported
<1> QED BY <1>5, <1>7, <1>8, <1>9 DEF PInv

(* A database error or a restart of the server loses no saga's state. *)
LEMMA FaultKeepsPInv ==
  ASSUME IInv, PInv, InServer,
         (\E m \in Result : RetryResult(m)) \/ (\E t \in Tokens : SweepError(t)) \/ Restart
  PROVE  PInv'
<1>1. /\ UNCHANGED <<saga, queued, stale>> /\ faults' = faults + 1
      /\ claimed' \subseteq results' /\ results' \subseteq results /\ batch' \subseteq batch
  BY DEF RetryResult, SweepError, Restart, web, PInv, Bookkeeping
<1>2. UNCHANGED <<transport, outbox, events, marked, commands, mailing, emailed, refused, mishaps>>
  BY <1>1 DEF InServer
<1>3. ~Healthy'
  BY <1>1, <1>2, FailureIsCounted DEF PInv
<1>4. PTypes' /\ Bookkeeping' /\ ResultsAreTrue'
  BY <1>1, <1>2 DEF PInv, PTypes, Bookkeeping, ResultsAreTrue
<1> QED BY <1>1, <1>2, <1>3, <1>4
        DEF PInv, CompletedMeansSent, CancelledMeansRefused, OpenSagasAreCarried

(* A saga gets old with its email on its way only after a failure, so the   *)
(* query of a healthy server's reaper finds nothing.                        *)
LEMMA AgeKeepsPInv ==
  ASSUME IInv, PInv, InServer, (\E t \in Tokens : Age(t)) \/ SweepQuery
  PROVE  PInv'
<1>1. /\ UNCHANGED <<saga, queued, results, claimed, faults>>
      /\ stale' \subseteq DOMAIN saga /\ batch' \subseteq DOMAIN saga
  BY DEF Age, SweepQuery, web, PInv, Bookkeeping
<1>2. UNCHANGED <<transport, outbox, events, marked, commands, mailing, emailed, refused, mishaps>>
  BY <1>1 DEF InServer
<1>3. PTypes' /\ Bookkeeping' /\ ResultsAreTrue'
  BY <1>1, <1>2 DEF PInv, PTypes, Bookkeeping, ResultsAreTrue
<1>4. CompletedMeansSent' /\ CancelledMeansRefused'
  BY <1>1, <1>2 DEF PInv, CompletedMeansSent, CancelledMeansRefused, Healthy
<1>5. ASSUME NEW t \in Tokens, Awaiting(t), Healthy, Carried(t)
      PROVE  Carried(t)'
  <2>1. InTransit(t)
    BY <1>5 DEF Carried, Reported, InTransit
  <2>2. t \notin stale'
    BY <1>5, <2>1 DEF InServer, AgesInTime, Carried
  <2>3. t \notin batch'
    BY <1>5 DEF Age, SweepQuery, Carried
  <2> QED BY <1>1, <1>2, <1>5, <2>2, <2>3 DEF Carried, Reported
<1>6. OpenSagasAreCarried'
  BY <1>1, <1>2, <1>5, CarriedOn DEF IInv, TypeOK
<1> QED BY <1>3, <1>4, <1>6 DEF PInv

(* The reaper compensates an open saga only after a failure. *)
LEMMA SweepKeepsPInv ==
  ASSUME IInv, PInv, NEW s \in Tokens, SweepCompensate(s), InServer
  PROVE  PInv'
<1>1. /\ s \in batch /\ batch' = batch \ {s}
      /\ UNCHANGED <<queued, results, claimed, stale, faults>>
  BY DEF SweepCompensate
<1>2. UNCHANGED <<transport, outbox, events, marked, commands, mailing, emailed, refused, mishaps>>
  BY <1>1 DEF InServer
<1>3. DOMAIN saga' = DOMAIN saga
  BY DEF SweepCompensate, Compensate
<1>4. ASSUME NEW t \in DOMAIN saga, saga'[t] # saga[t]
      PROVE  t = s /\ Awaiting(t) /\ saga'[t] = "compensated"
  BY <1>4 DEF SweepCompensate, Compensate, Awaiting, IInv, TypeOK
<1>5. PTypes' /\ Bookkeeping' /\ ResultsAreTrue'
  BY <1>1, <1>2, <1>3 DEF PInv, PTypes, Bookkeeping, ResultsAreTrue
<1>6. CompletedMeansSent'
  BY <1>2, <1>3, <1>4 DEF PInv, CompletedMeansSent
<1>7. Healthy => saga' = saga
  <2> SUFFICES ASSUME Healthy PROVE ~Awaiting(s)
    BY DEF SweepCompensate, Compensate
  <2> QED BY <1>1 DEF PInv, OpenSagasAreCarried, Carried, Awaiting
<1>8. CASE ~Healthy
  <2>1. ~Healthy'
    BY <1>1, <1>2, <1>8 DEF Healthy
  <2> QED BY <1>5, <1>6, <2>1 DEF PInv, CancelledMeansRefused, OpenSagasAreCarried
<1>9. CASE Healthy
  <2>1. CancelledMeansRefused'
    BY <1>1, <1>2, <1>7, <1>9 DEF PInv, CancelledMeansRefused, Healthy
  <2>2. ASSUME NEW t \in Tokens, Carried(t)
        PROVE  Carried(t)'
    BY <1>1, <1>2, <2>2 DEF Carried, Reported
  <2>3. OpenSagasAreCarried'
    BY <1>1, <1>2, <1>7, <1>9, <2>2, CarriedOn DEF IInv, TypeOK
  <2> QED BY <1>5, <1>6, <2>1, <2>3 DEF PInv
<1> QED BY <1>8, <1>9

(* Every step of the server keeps the invariant. *)
LEMMA ServerKeepsPInv ==
  ASSUME IInv, PInv, ServerStep
  PROVE  PInv'
<1>1. Server /\ InServer
  BY DEF ServerStep
<1>2. ASSUME NEW h \in Handlers,
             \/ \E e \in Emails, r \in Repos : SubscribeRead(h, e, r)
             \/ \E t \in Tokens : SubscribeToken(h, t)
             \/ \E t \in Tokens, a \in Apis : ConfirmRead(h, t, a) \/ UnsubscribeRead(h, t, a)
             \/ SaveSubscription(h) \/ Fail(h)
      PROVE  UNCHANGED <<saga, queued, results, claimed, stale, batch, faults>>
  BY <1>2 DEF SubscribeRead, SubscribeToken, ConfirmRead, UnsubscribeRead, SaveSubscription,
              Fail, back
<1>3. ASSUME NEW r \in Repos, MarkMovedAndUnsubscribe(r)
      PROVE  UNCHANGED <<saga, queued, results, claimed, stale, batch, faults>>
  BY <1>3 DEF MarkMovedAndUnsubscribe, back
<1>4. CASE UNCHANGED <<saga, queued, results, claimed, stale, batch, faults>>
  BY <1>1, <1>4, NothingMoves DEF InServer
<1>5. ASSUME NEW m \in Result, Claim(m) \/ Settle(m) \/ RetryResult(m)
      PROVE  PInv'
  BY <1>1, <1>5, ClaimKeepsPInv, SettleKeepsPInv, FaultKeepsPInv
<1>6. ASSUME NEW t \in Tokens, Age(t) \/ SweepCompensate(t) \/ SweepError(t)
      PROVE  PInv'
  BY <1>1, <1>6, AgeKeepsPInv, SweepKeepsPInv, FaultKeepsPInv
<1>7. CASE SweepQuery \/ Restart
  BY <1>1, <1>7, AgeKeepsPInv, FaultKeepsPInv
<1>8. ASSUME NEW h \in Handlers, NEW i \in Ids, SubscribeWrite(h, i)
      PROVE  PInv'
  BY <1>1, <1>8, SubscribeKeepsPInv
<1> QED BY <1>1, <1>2, <1>3, <1>4, <1>5, <1>6, <1>7, <1>8 DEF Server, Subscribe

(***************************************************************************)
(* The steps outside the server                                            *)
(***************************************************************************)
(* A stage that neither fails nor loses an open saga's email keeps the      *)
(* invariant.                                                               *)
LEMMA StageKeepsPInv ==
  ASSUME IInv, PInv, UNCHANGED <<saga, queued, claimed, stale, batch, faults>>,
         PTypes', ResultsAreTrue', results \subseteq results',
         outbox' \cup events' \cup marked' \subseteq queued \cup Notices,
         emailed \subseteq emailed', refused \subseteq refused',
         ~Healthy' \/ mishaps' = mishaps,
         mishaps' = mishaps =>
           \A t \in Tokens : Awaiting(t) /\ Carried(t) => Carried(t)'
  PROVE  PInv'
<1>1. Healthy' => Healthy /\ mishaps' = mishaps
  BY HealthIsOld
<1>2. Bookkeeping'
  BY DEF PInv, Bookkeeping
<1>3. CompletedMeansSent' /\ CancelledMeansRefused'
  BY <1>1 DEF PInv, CompletedMeansSent, CancelledMeansRefused
<1>4. OpenSagasAreCarried'
  <2>1. CASE ~Healthy'
    BY <2>1 DEF OpenSagasAreCarried
  <2>2. CASE Healthy'
    BY <1>1, <2>2, CarriedOn DEF IInv, TypeOK
  <2> QED BY <2>1, <2>2
<1> QED BY <1>2, <1>3, <1>4 DEF PInv

(* The outbox hands every event on to the notifications queue. *)
LEMMA RelayKeepsPInv ==
  ASSUME IInv, PInv, NEW m \in Messages, Relay(m)
  PROVE  PInv'
<1>1. /\ m \in outbox /\ events' = events \cup {m}
      /\ UNCHANGED <<rows, saga, queued, req, results, claimed, stale, batch, faults>>
      /\ UNCHANGED <<transport, marked, commands, mailing, emailed, refused>>
  BY TypesFit DEF Relay, vars, PInv, PTypes
<1>2. outbox' \subseteq outbox /\ outbox \ {m} \subseteq outbox'
      /\ (mishaps' = mishaps \/ Mishap)
  BY DEF Relay
<1>3. mishaps' \in Nat /\ (~Healthy' \/ mishaps' = mishaps)
  BY <1>1, <1>2, FailureIsCounted DEF PInv, PTypes
<1>4. PTypes' /\ ResultsAreTrue'
  BY <1>1, <1>3 DEF PInv, PTypes, ResultsAreTrue
<1>5. outbox' \cup events' \cup marked' \subseteq queued \cup Notices
  BY <1>1, <1>2 DEF PInv, Bookkeeping
<1>6. \A t \in Tokens : Awaiting(t) /\ Carried(t) => Carried(t)'
  BY <1>1, <1>2 DEF Carried, Reported
<1> QED BY <1>1, <1>3, <1>4, <1>5, <1>6, StageKeepsPInv

(* An event whose key is set is dropped only when the command or the result *)
(* of its email is there, unless something failed.                          *)
LEMMA SkipKeepsPInv ==
  ASSUME IInv, PInv, NEW m \in Messages, Skip(m)
  PROVE  PInv'
<1>1. /\ m \in marked /\ events' = events \ {m}
      /\ UNCHANGED <<rows, saga, queued, req, results, claimed, stale, batch, faults>>
      /\ UNCHANGED <<transport, outbox, marked, commands, mailing, emailed, refused>>
      /\ (mishaps' = mishaps \/ Mishap)
  BY TypesFit DEF Skip, vars, PInv, PTypes
<1>2. mishaps' \in Nat /\ (~Healthy' \/ mishaps' = mishaps)
  BY <1>1, FailureIsCounted DEF PInv, PTypes
<1>3. PTypes' /\ ResultsAreTrue'
  BY <1>1, <1>2 DEF PInv, PTypes, ResultsAreTrue
<1>4. outbox' \cup events' \cup marked' \subseteq queued \cup Notices
  BY <1>1 DEF PInv, Bookkeeping
<1>5. \A t \in Tokens : Awaiting(t) /\ Carried(t) => Carried(t)'
  BY <1>1 DEF Carried, Reported
<1> QED BY <1>1, <1>2, <1>3, <1>4, <1>5, StageKeepsPInv

(* The notifier sets the key and hands the command on. *)
LEMMA NotifyKeepsPInv ==
  ASSUME IInv, PInv, NEW m \in Messages, Notify(m)
  PROVE  PInv'
<1>1. /\ m \in events /\ marked' = marked \cup {m} /\ commands' = commands \cup {m}
      /\ events' \subseteq events /\ events \ {m} \subseteq events'
      /\ UNCHANGED <<rows, saga, queued, req, results, claimed, stale, batch, faults>>
      /\ UNCHANGED <<transport, outbox, mailing, emailed, refused, mishaps>>
  BY DEF Notify, vars
<1>2. PTypes' /\ ResultsAreTrue'
  BY <1>1 DEF PInv, PTypes, ResultsAreTrue
<1>3. outbox' \cup events' \cup marked' \subseteq queued \cup Notices
  BY <1>1 DEF PInv, Bookkeeping
<1>4. \A t \in Tokens : Awaiting(t) /\ Carried(t) => Carried(t)'
  BY <1>1 DEF Carried, Reported
<1> QED BY <1>1, <1>2, <1>3, <1>4, StageKeepsPInv

(* A failure of the notifier or of the mailer makes up no result. *)
LEMMA MishapKeepsPInv ==
  ASSUME IInv, PInv, MailerCrash \/ NotifierCrash \/ \E m \in Messages : NotifyFails(m)
  PROVE  PInv'
<1>1. /\ Mishap /\ mailing' \subseteq mailing
      /\ events' \subseteq events /\ marked' \subseteq marked \cup events
      /\ UNCHANGED <<rows, saga, queued, req, results, claimed, stale, batch, faults>>
      /\ UNCHANGED <<transport, outbox, emailed, refused>>
  BY DEF MailerCrash, NotifierCrash, NotifyFails, vars
<1>2. mishaps' \in Nat /\ ~Healthy' /\ mishaps' # mishaps
  BY <1>1, FailureIsCounted DEF PInv, PTypes, Mishap
<1>3. PTypes' /\ ResultsAreTrue'
  BY <1>1, <1>2 DEF PInv, PTypes, ResultsAreTrue
<1>4. outbox' \cup events' \cup marked' \subseteq queued \cup Notices
  BY <1>1 DEF PInv, Bookkeeping
<1> QED BY <1>1, <1>2, <1>3, <1>4, StageKeepsPInv

(* Done settles the command of one message, and touches no other. *)
LEMMA DoneFacts ==
  ASSUME NEW m, NEW type, Done(m, type)
  PROVE  /\ commands' = commands \ {m}
         /\ events' \subseteq events /\ events \ {m} \subseteq events'
         /\ marked' \subseteq marked
  BY DEF Done

(* An email is sent or refused: the outcome of a verification is what the   *)
(* SMTP server said, a notice concerns no saga.                             *)
LEMMA EmailKeepsPInv ==
  ASSUME IInv, PInv, NEW m \in Messages, Send(m) \/ Refuse(m)
  PROVE  PInv'
<1>1. /\ UNCHANGED <<rows, saga, queued, req, results, claimed, stale, batch, faults>>
      /\ UNCHANGED <<transport, outbox>>
      /\ emailed \subseteq emailed' /\ refused \subseteq refused'
      /\ (mishaps' = mishaps \/ Mishap)
  BY DEF Send, Refuse, vars
<1>2. mishaps' \in Nat /\ (~Healthy' \/ mishaps' = mishaps)
  BY <1>1, FailureIsCounted DEF PInv, PTypes
<1>3. CASE m \in Tokens
  <2>1. UNCHANGED <<commands, events, marked>>
    BY <1>3 DEF Send, Refuse
  <2>2. PICK r \in Result : /\ mailing' = mailing \cup {r}
                            /\ r.type = "delivered" => r.token \in emailed'
                            /\ r.type = "failed" => r.token \in refused'
    <3>1. CASE Send(m)
      <4> DEFINE r == [type |-> "delivered", token |-> m]
      <4>1. r \in Result /\ r.type = "delivered" /\ r.token = m
        BY <1>3 DEF Result
      <4>2. mailing' = mailing \cup {r} /\ m \in emailed'
        BY <1>3, <3>1 DEF Send, Outcome
      <4> QED BY <4>1, <4>2
    <3>2. CASE Refuse(m)
      <4> DEFINE r == [type |-> "failed", token |-> m]
      <4>1. r \in Result /\ r.type = "failed" /\ r.token = m
        BY <1>3 DEF Result
      <4>2. mailing' = mailing \cup {r} /\ m \in refused'
        BY <1>3, <3>2 DEF Refuse, Outcome
      <4> QED BY <4>1, <4>2
    <3> QED BY <3>1, <3>2
  <2>3. PTypes' /\ ResultsAreTrue'
    BY <1>1, <1>2, <2>2 DEF PInv, PTypes, ResultsAreTrue
  <2>4. outbox' \cup events' \cup marked' \subseteq queued \cup Notices
    BY <1>1, <2>1 DEF PInv, Bookkeeping
  <2>5. \A t \in Tokens : Awaiting(t) /\ Carried(t) => Carried(t)'
    BY <1>1, <2>1, <2>2 DEF Carried, Reported
  <2> QED BY <1>1, <1>2, <2>3, <2>4, <2>5, StageKeepsPInv
<1>4. CASE m \notin Tokens
  <2>1. /\ mailing' = mailing
        /\ commands' \subseteq commands /\ commands \ {m} \subseteq commands'
        /\ events' \subseteq events /\ events \ {m} \subseteq events'
        /\ marked' \subseteq marked
    BY <1>4, DoneFacts DEF Send, Refuse
  <2>2. PTypes' /\ ResultsAreTrue'
    BY <1>1, <1>2, <2>1 DEF PInv, PTypes, ResultsAreTrue
  <2>3. outbox' \cup events' \cup marked' \subseteq queued \cup Notices
    BY <1>1, <2>1 DEF PInv, Bookkeeping
  <2>4. \A t \in Tokens : Awaiting(t) /\ Carried(t) => Carried(t)'
    BY <1>1, <1>4, <2>1 DEF Carried, Reported
  <2> QED BY <1>1, <1>2, <2>2, <2>3, <2>4, StageKeepsPInv
<1> QED BY <1>3, <1>4

(* Deliver returns: the result is on the saga's queue before the command is *)
(* settled, or a failure was counted.                                       *)
LEMMA ReportKeepsPInv ==
  ASSUME IInv, PInv, NEW r \in Result, ReportResult(r) \/ ReportFails(r)
  PROVE  PInv'
<1>1. /\ r \in mailing /\ mailing' = mailing \ {r}
      /\ UNCHANGED <<saga, queued, claimed, stale, batch, faults>>
      /\ UNCHANGED <<transport, outbox, emailed, refused>>
      /\ results \subseteq results' /\ results' \subseteq results \cup {r}
      /\ (mishaps' = mishaps \/ Mishap)
  BY DEF ReportResult, ReportFails, Report, web, vars
<1>2. /\ commands' \subseteq commands /\ commands \ {r.token} \subseteq commands'
      /\ events' \subseteq events /\ events \ {r.token} \subseteq events'
      /\ marked' \subseteq marked
  BY DoneFacts DEF ReportResult, ReportFails
<1>3. mishaps' \in Nat /\ (~Healthy' \/ mishaps' = mishaps)
  BY <1>1, FailureIsCounted DEF PInv, PTypes
<1>4. PTypes' /\ ResultsAreTrue'
  BY <1>1, <1>3 DEF PInv, PTypes, ResultsAreTrue
<1>5. outbox' \cup events' \cup marked' \subseteq queued \cup Notices
  BY <1>1, <1>2 DEF PInv, Bookkeeping
<1>6. ASSUME mishaps' = mishaps, NEW t \in Tokens, Carried(t)
      PROVE  Carried(t)'
  <2>1. ReportResult(r)
    BY <1>6 DEF ReportFails, Mishap, PInv, PTypes
  <2>2. r \in results'
    BY <2>1 DEF ReportResult, Report, ResultType, OnboardingSagaEndpoint
  <2>3. Reported(r.token)'
    BY <2>2 DEF Reported
  <2>4. t # r.token /\ Reported(t) => Reported(t)'
    BY <1>1 DEF Reported
  <2> QED BY <1>1, <1>2, <1>6, <2>3, <2>4 DEF Carried
<1> QED BY <1>1, <1>3, <1>4, <1>5, <1>6, StageKeepsPInv

(***************************************************************************)
(* The theorems                                                            *)
(***************************************************************************)
LEMMA PNextPInv == IInv /\ PInv /\ [PNext]_allvars => PInv'
<1> SUFFICES ASSUME IInv, PInv, [PNext]_allvars PROVE PInv'
  OBVIOUS
<1>1. CASE ServerStep
  BY <1>1, ServerKeepsPInv
<1>2. ASSUME NEW n \in Notices, Announce(n)
      PROVE  PInv'
  <2>1. /\ outbox' = outbox \cup {n}
        /\ UNCHANGED <<saga, queued, results, claimed, stale, batch, faults>>
        /\ UNCHANGED <<transport, events, marked, commands, mailing, emailed, refused, mishaps>>
    BY <1>2 DEF Announce, vars
  <2>2. PTypes' /\ ResultsAreTrue'
    BY <2>1 DEF PInv, PTypes, ResultsAreTrue
  <2>3. outbox' \cup events' \cup marked' \subseteq queued \cup Notices
    BY <2>1 DEF PInv, Bookkeeping
  <2>4. \A t \in Tokens : Awaiting(t) /\ Carried(t) => Carried(t)'
    BY <2>1 DEF Carried, Reported
  <2> QED BY <2>1, <2>2, <2>3, <2>4, StageKeepsPInv
<1>3. ASSUME NEW m \in Messages, Deliver(m)
      PROVE  PInv'
  BY <1>3, RelayKeepsPInv, SkipKeepsPInv, NotifyKeepsPInv, MishapKeepsPInv, EmailKeepsPInv
     DEF Deliver
<1>4. ASSUME NEW r \in Result, ReportResult(r) \/ ReportFails(r)
      PROVE  PInv'
  BY <1>4, ReportKeepsPInv
<1>5. CASE MailerCrash \/ NotifierCrash
  BY <1>5, MishapKeepsPInv
<1>6. CASE UNCHANGED allvars
  BY <1>6, NothingMoves DEF allvars
<1> QED BY <1>1, <1>2, <1>3, <1>4, <1>5, <1>6 DEF PNext

(* The invariant holds in every state of every behaviour. *)
THEOREM PipelineInvariance == PSpec => []PInv
<1>1. PSpec => []IInv
  BY PipelineRunsOnboarding, Invariance, PTL
<1> QED BY <1>1, PInitPInv, PNextPInv, PTL DEF PSpec

(* A completed saga means that its verification email was sent, for any     *)
(* number of subscribers, failures and duplicates and on either link.       *)
THEOREM PipelineCompletedMeansSent == PSpec => []CompletedMeansSent
  BY PipelineInvariance, PTL DEF PInv

(* A subscription is cancelled in a pipeline without failures only when its *)
(* email was refused: no stage drops or misroutes what another hands it.    *)
THEOREM PipelineCancelledMeansRefused == PSpec => []CancelledMeansRefused
  BY PipelineInvariance, PTL DEF PInv
=============================================================================
