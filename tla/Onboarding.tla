----------------------------- MODULE Onboarding -----------------------------
(***************************************************************************)
(* Subscription onboarding in the server process: the three HTTP handlers  *)
(* that write subscriptions (handlers/subscription.go, handlers/store.go), *)
(* the saga orchestrator and its reaper (worker/orchestrator), and the     *)
(* PostgreSQL tables they share.                                           *)
(*                                                                         *)
(* A handler reads a subscription with one query and writes it back with   *)
(* another, outside any transaction, so every handler is split into a read *)
(* and a write with a private copy of the row in between.  The same holds  *)
(* for the orchestrator (claim, then settle) and the reaper (query, then   *)
(* one Compensate per token).                                              *)
(***************************************************************************)
EXTENDS Integers, FiniteSets

CONSTANTS
  Emails, Repos,         \* subscriber addresses and repositories.id
  Ids,                   \* subscriptions.id
  Tokens,                \* values generateToken returns for a confirm token
  Apis,                  \* values generateToken returns for an API token
  Handlers,              \* HTTP requests that can be in progress together
  NoId, NoToken, NoApi,  \* no row found, no token yet, the empty api_token
  MaxFaults              \* bound: database errors and restarts in a behaviour

ASSUME NullsAssumption ==
  NoId \notin Ids /\ NoToken \notin Tokens /\ NoApi \notin Apis

ASSUME MaxFaultsAssumption == MaxFaults \in Nat

VARIABLES
  rows,      \* table subscriptions: a function from the inserted ids
  saga,      \* table onboarding_sagas: confirm token -> state
  queued,    \* tokens whose subscription.created event was put in the outbox
  req,       \* requests past their read: handler -> its copy of the row
  results,   \* result events on the onboarding.saga queue or its retry tiers
  claimed,   \* the result the orchestrator has claimed and not yet settled
  stale,     \* tokens whose saga is older than SAGA_STALE_AFTER
  batch,     \* stale tokens the reaper's current sweep has still to compensate
  faults     \* database errors and restarts so far

vars == <<rows, saga, queued, req, results, claimed, stale, batch, faults>>
web  == <<rows, queued, req>>
back == <<results, claimed, stale, batch, faults>>

Statuses   == {"pending", "active", "unsubscribed"}
SagaStates == {"awaiting_delivery", "completed", "compensated"}

(* A subscription; deleted is "no" while deleted_at is NULL. *)
Subscription == [email: Emails, repo: Repos, status: Statuses,
                 token: Tokens \cup {NoToken}, api: Apis \cup {NoApi}, deleted: {"no", "yes"}]

(* A request between its read and its write. *)
Request == [op: {"subscribe", "confirm", "unsubscribe"},
            id: Ids \cup {NoId}, sub: Subscription]

Result == [type: {"delivered", "failed"}, token: Tokens]

TypeOK ==
  /\ DOMAIN rows \subseteq Ids
  /\ rows \in [DOMAIN rows -> Subscription]
  /\ DOMAIN saga \subseteq Tokens
  /\ saga \in [DOMAIN saga -> SagaStates]
  /\ queued \subseteq Tokens
  /\ DOMAIN req \subseteq Handlers
  /\ req \in [DOMAIN req -> Request]
  /\ results \subseteq Result
  /\ claimed \subseteq Result
  /\ stale \subseteq Tokens
  /\ batch \subseteq Tokens
  /\ faults \in 0..MaxFaults

Init ==
  /\ rows = [i \in {} |-> NoId]
  /\ saga = [t \in {} |-> NoId]
  /\ queued = {}
  /\ req = [h \in {} |-> NoId]
  /\ results = {} /\ claimed = {}
  /\ stale = {} /\ batch = {}
  /\ faults = 0

(***************************************************************************)
(* The tables                                                              *)
(***************************************************************************)
(* Rows a query sees: GORM adds deleted_at IS NULL to every one. *)
Live == {i \in DOMAIN rows : rows[i].deleted = "no"}

(* The queries of handlers/store.go. *)
FindSubscription(e, r) == {i \in Live : rows[i].email = e /\ rows[i].repo = r}
IsConfirmTokenTaken(t) == \E i \in Live : rows[i].token = t
FindSubscriptionByConfirmToken(t) == {i \in Live : rows[i].token = t}
FindSubscriptionByTokens(t, a) == {i \in Live : rows[i].token = t /\ rows[i].api = a}

(* f with x mapped to y, and with x removed. *)
Put(f, x, y) == [z \in DOMAIN f \cup {x} |-> IF z = x THEN y ELSE f[z]]
Drop(f, x)   == [z \in DOMAIN f \ {x} |-> f[z]]

(* Writing sub as row i respects idx_email_repo and idx_confirm_token, the *)
(* unique indexes over rows that are not soft-deleted.                     *)
Unique(i, sub) ==
  \A j \in Live \ {i} :
    /\ <<rows[j].email, rows[j].repo>> # <<sub.email, sub.repo>>
    /\ rows[j].token # sub.token

(* gorm.DB.Save: an UPDATE of every column of the live row i and, when no  *)
(* live row i is left, an INSERT ... ON CONFLICT (id) DO UPDATE of every   *)
(* column.  Either way row i ends up equal to the caller's copy, whose     *)
(* deleted_at is NULL; a soft-deleted row comes back.                      *)
SaveRow(i, sub) == rows' = Put(rows, i, sub)

(* Mutant: the saga row is left out of the transaction. *)
WriteWithoutSaga(i, sub) ==
  /\ Unique(i, sub)
  /\ SaveRow(i, sub)
  /\ queued' = queued \cup {sub.token}
  /\ UNCHANGED saga

(* Mutant: confirm_token is not unique among sagas; its saga starts over. *)
WriteOverSaga(i, sub) ==
  /\ Unique(i, sub)
  /\ SaveRow(i, sub)
  /\ saga' = Put(saga, sub.token, "awaiting_delivery")
  /\ queued' = queued \cup {sub.token}

(* writeSubscriptionTx: the row, the saga and the outbox event commit      *)
(* together, or nothing does (idx_saga_confirm_token is unique as well).   *)
WriteSubscriptionTx(i, sub) ==
  /\ Unique(i, sub)
  /\ sub.token \notin DOMAIN saga
  /\ SaveRow(i, sub)
  /\ saga' = Put(saga, sub.token, "awaiting_delivery")
  /\ queued' = queued \cup {sub.token}

(***************************************************************************)
(* POST /subscribe                                                         *)
(***************************************************************************)
Blank(e, r) == [email |-> e, repo |-> r, status |-> "pending",
                token |-> NoToken, api |-> NoApi, deleted |-> "no"]

(* Mutant: the re-send branch does not clear APIToken. *)
SubscribeKeepsApiToken(h, e, r) ==
  /\ h \notin DOMAIN req
  /\ LET found == FindSubscription(e, r)
     IN  /\ \A i \in found : rows[i].status # "active"
         /\ \E i \in (IF found = {} THEN {NoId} ELSE found) :
              req' = Put(req, h, [op |-> "subscribe", id |-> i,
                sub |-> IF i = NoId THEN Blank(e, r)
                                    ELSE [Blank(e, r) EXCEPT !.api = rows[i].api]])
  /\ UNCHANGED <<rows, saga, queued>> /\ UNCHANGED back

(* An active subscription is a 409 and the request ends without a write;    *)
(* any other answer, no row included, goes on to one.                       *)
(* The repository id r was resolved by an earlier query, since when the     *)
(* scanner may have found it moved and soft-deleted it.                     *)
SubscribeRead(h, e, r) ==
  /\ h \notin DOMAIN req
  /\ LET found == FindSubscription(e, r)
     IN  /\ \A i \in found : rows[i].status # "active"
         /\ \E i \in (IF found = {} THEN {NoId} ELSE found) :
              req' = Put(req, h, [op |-> "subscribe", id |-> i, sub |-> Blank(e, r)])
  /\ UNCHANGED <<rows, saga, queued>> /\ UNCHANGED back

(* The token loop: it ends with a token no live subscription carries. *)
SubscribeToken(h, t) ==
  /\ h \in DOMAIN req
  /\ req[h].op = "subscribe" /\ req[h].sub.token = NoToken
  /\ ~IsConfirmTokenTaken(t)
  /\ req' = [req EXCEPT ![h].sub.token = t]
  /\ UNCHANGED <<rows, saga, queued>> /\ UNCHANGED back

(* Mutant: the write does not wait for the token loop. *)
WriteWithoutToken(h, i) ==
  /\ h \in DOMAIN req
  /\ req[h].op = "subscribe"
  /\ IF req[h].id = NoId THEN i \in Ids \ DOMAIN rows ELSE i = req[h].id
  /\ WriteSubscriptionTx(i, req[h].sub)
  /\ req' = Drop(req, h)
  /\ UNCHANGED back

(* SaveSubscription over the row that was found, CreateSubscription with a *)
(* new id when there was none.                                             *)
SubscribeWrite(h, i) ==
  /\ h \in DOMAIN req
  /\ req[h].op = "subscribe" /\ req[h].sub.token # NoToken
  /\ IF req[h].id = NoId THEN i \in Ids \ DOMAIN rows ELSE i = req[h].id
  /\ WriteSubscriptionTx(i, req[h].sub)
  /\ req' = Drop(req, h)
  /\ UNCHANGED back

(***************************************************************************)
(* GET /confirm/:token                                                     *)
(***************************************************************************)
(* FindSubscriptionByConfirmToken; an active row is answered with the      *)
(* token it has, any other gets a new API token and is saved.              *)
ConfirmRead(h, t, a) ==
  /\ h \notin DOMAIN req
  /\ \A j \in DOMAIN rows : rows[j].api # a
  /\ \A k \in DOMAIN req : req[k].sub.api # a
  /\ \E i \in FindSubscriptionByConfirmToken(t) :
       /\ rows[i].status # "active"
       /\ req' = Put(req, h, [op |-> "confirm", id |-> i,
                      sub |-> [rows[i] EXCEPT !.status = "active", !.api = a]])
  /\ UNCHANGED <<rows, saga, queued>> /\ UNCHANGED back

(***************************************************************************)
(* GET /unsubscribe/:token                                                 *)
(***************************************************************************)
(* FindSubscriptionByTokens: the confirm token and the bearer token. *)
UnsubscribeRead(h, t, a) ==
  /\ h \notin DOMAIN req
  /\ \E i \in FindSubscriptionByTokens(t, a) :
       /\ rows[i].status # "unsubscribed"
       /\ req' = Put(req, h, [op |-> "unsubscribe", id |-> i,
                      sub |-> [rows[i] EXCEPT !.status = "unsubscribed"]])
  /\ UNCHANGED <<rows, saga, queued>> /\ UNCHANGED back

(* SaveSubscription without events, as Confirm and Unsubscribe call it. *)
SaveSubscription(h) ==
  /\ h \in DOMAIN req
  /\ req[h].op # "subscribe"
  /\ Unique(req[h].id, req[h].sub)
  /\ SaveRow(req[h].id, req[h].sub)
  /\ req' = Drop(req, h)
  /\ UNCHANGED <<saga, queued>> /\ UNCHANGED back

(* The request ends in an error response: a unique index or the database   *)
(* refused the write, or a query failed.  Nothing was written.             *)
Fail(h) ==
  /\ h \in DOMAIN req
  /\ req' = Drop(req, h)
  /\ UNCHANGED <<rows, saga, queued>> /\ UNCHANGED back

(***************************************************************************)
(* The scanner found the repository moved: every live subscription of it,  *)
(* pending ones included, is unsubscribed.  The soft delete of the         *)
(* repository, which may fail and let this happen again, is in Scanner; no *)
(* handler here reads it.                                                  *)
(***************************************************************************)
MarkMovedAndUnsubscribe(r) ==
  /\ rows' = [i \in DOMAIN rows |-> IF i \in Live /\ rows[i].repo = r
                                      THEN [rows[i] EXCEPT !.status = "unsubscribed"]
                                      ELSE rows[i]]
  /\ UNCHANGED <<saga, queued, req>> /\ UNCHANGED back

(***************************************************************************)
(* The orchestrator                                                        *)
(***************************************************************************)
Awaiting(t) == t \in DOMAIN saga /\ saga[t] = "awaiting_delivery"

(* The mailer reports an outcome for a token whose event left the outbox;  *)
(* at-least-once delivery upstream makes both outcomes and repeats possible.*)
Report(m) ==
  /\ m.token \in queued
  /\ results' = results \cup {m}
  /\ UNCHANGED saga /\ UNCHANGED web /\ UNCHANGED <<claimed, stale, batch, faults>>

(* A broker ack: the message is gone, or the ack was lost and it comes back. *)
Ack(m) == results' \in {results, results \ {m}}

(* claim acks a result whose saga is missing or terminal, else goes on. *)
Claim(m) ==
  /\ m \in results
  /\ claimed = {}
  /\ IF Awaiting(m.token)
       THEN claimed' = {m} /\ UNCHANGED results
       ELSE Ack(m) /\ UNCHANGED claimed
  /\ UNCHANGED saga /\ UNCHANGED web /\ UNCHANGED <<stale, batch, faults>>

(* Mutant: the UPDATE does not ask for state = awaiting_delivery. *)
CompleteAnyState(t) ==
  /\ saga' = [saga EXCEPT ![t] = "completed"]
  /\ UNCHANGED rows

(* MarkCompleted: a conditional UPDATE; no row means ErrAlreadySettled. *)
MarkCompleted(t) ==
  /\ saga' = IF Awaiting(t) THEN [saga EXCEPT ![t] = "completed"] ELSE saga
  /\ UNCHANGED rows

(* Mutant: the soft delete does not depend on the saga's UPDATE. *)
DeleteUnconditionally(t) ==
  /\ saga' = IF Awaiting(t) THEN [saga EXCEPT ![t] = "compensated"] ELSE saga
  /\ rows' = [i \in DOMAIN rows |->
                IF i \in Live /\ rows[i].token = t /\ rows[i].status = "pending"
                  THEN [rows[i] EXCEPT !.deleted = "yes"]
                  ELSE rows[i]]

(* Mutant: the soft delete does not ask for status = pending. *)
DeleteAnyStatus(t) ==
  /\ saga' = IF Awaiting(t) THEN [saga EXCEPT ![t] = "compensated"] ELSE saga
  /\ rows' = [i \in DOMAIN rows |->
                IF Awaiting(t) /\ i \in Live /\ rows[i].token = t
                  THEN [rows[i] EXCEPT !.deleted = "yes"]
                  ELSE rows[i]]

(* Mutant: the saga is settled and the pending row left behind. *)
KeepPendingRow(t) ==
  /\ saga' = IF Awaiting(t) THEN [saga EXCEPT ![t] = "compensated"] ELSE saga
  /\ UNCHANGED rows

(* Compensate: one transaction, a conditional UPDATE of the saga and, only *)
(* when it took effect, the soft delete of the token's pending rows.       *)
Compensate(t) ==
  /\ saga' = IF Awaiting(t) THEN [saga EXCEPT ![t] = "compensated"] ELSE saga
  /\ rows' = [i \in DOMAIN rows |->
                IF Awaiting(t) /\ i \in Live /\ rows[i].token = t
                               /\ rows[i].status = "pending"
                  THEN [rows[i] EXCEPT !.deleted = "yes"]
                  ELSE rows[i]]

(* settle: the write of complete or compensate, then the ack; an           *)
(* ErrAlreadySettled is acked as well.                                     *)
Settle(m) ==
  /\ m \in claimed
  /\ IF m.type = "delivered" THEN MarkCompleted(m.token) ELSE Compensate(m.token)
  /\ Ack(m)
  /\ claimed' = {}
  /\ UNCHANGED <<queued, req>> /\ UNCHANGED <<stale, batch, faults>>

(* A database error in claim or settle: the result goes to a retry tier    *)
(* and comes back, or its attempts are used up and it is parked in the DLQ.*)
RetryResult(m) ==
  /\ faults < MaxFaults
  /\ m \in results /\ claimed \subseteq {m}
  /\ results' \in {results, results \ {m}}
  /\ claimed' = {}
  /\ faults' = faults + 1
  /\ UNCHANGED saga /\ UNCHANGED web /\ UNCHANGED <<stale, batch>>

(***************************************************************************)
(* The reaper                                                              *)
(***************************************************************************)
(* created_at of the saga falls behind now - SAGA_STALE_AFTER. *)
Age(t) ==
  /\ t \in DOMAIN saga
  /\ stale' = stale \cup {t}
  /\ UNCHANGED saga /\ UNCHANGED web /\ UNCHANGED <<results, claimed, batch, faults>>

(* Mutant: the comparison with the cutoff is turned around. *)
SweepYoung ==
  /\ batch = {}
  /\ batch' = {t \in DOMAIN saga \ stale : Awaiting(t)}
  /\ UNCHANGED saga /\ UNCHANGED web /\ UNCHANGED <<results, claimed, stale, faults>>

(* sweep begins: StaleAwaitingTokens. *)
SweepQuery ==
  /\ batch = {}
  /\ batch' = {t \in stale : Awaiting(t)}
  /\ UNCHANGED saga /\ UNCHANGED web /\ UNCHANGED <<results, claimed, stale, faults>>

(* One iteration of the sweep's loop; a token settled since is skipped. *)
SweepCompensate(t) ==
  /\ t \in batch
  /\ batch' = batch \ {t}
  /\ Compensate(t)
  /\ UNCHANGED <<queued, req>> /\ UNCHANGED <<results, claimed, stale, faults>>

(* Compensate failed for this token: logged, the loop continues. *)
SweepError(t) ==
  /\ faults < MaxFaults
  /\ t \in batch
  /\ batch' = batch \ {t}
  /\ faults' = faults + 1
  /\ UNCHANGED saga /\ UNCHANGED web /\ UNCHANGED <<results, claimed, stale>>

(* The server dies and is restarted: requests, the claimed result and the  *)
(* sweep are forgotten; the unacked result is redelivered.                 *)
Restart ==
  /\ faults < MaxFaults
  /\ req' = [h \in {} |-> NoId]
  /\ claimed' = {} /\ batch' = {}
  /\ faults' = faults + 1
  /\ UNCHANGED <<rows, saga, queued, results, stale>>

(***************************************************************************)
(* Specification                                                           *)
(***************************************************************************)
Subscribe(h) ==
  \/ \E e \in Emails, r \in Repos : SubscribeRead(h, e, r)
  \/ \E t \in Tokens : SubscribeToken(h, t)
  \/ \E i \in Ids : SubscribeWrite(h, i)

Server ==
  \/ \E h \in Handlers :
       \/ Subscribe(h)
       \/ \E t \in Tokens, a \in Apis : ConfirmRead(h, t, a) \/ UnsubscribeRead(h, t, a)
       \/ SaveSubscription(h)
       \/ Fail(h)
  \/ \E r \in Repos : MarkMovedAndUnsubscribe(r)
  \/ \E m \in Result : Claim(m) \/ Settle(m) \/ RetryResult(m)
  \/ \E t \in Tokens : Age(t) \/ SweepCompensate(t) \/ SweepError(t)
  \/ SweepQuery
  \/ Restart

Next == Server \/ \E m \in Result : Report(m)

Spec == Init /\ [][Next]_vars

(* The reaper runs on a ticker for the life of the process, a ticking clock *)
(* makes every saga stale, and its loop visits every token it has read.     *)
Fairness ==
  /\ \A t \in Tokens : WF_vars(Age(t)) /\ WF_vars(SweepCompensate(t))
  /\ WF_vars(SweepQuery)

FairSpec == Spec /\ Fairness

(***************************************************************************)
(* Properties                                                              *)
(***************************************************************************)
PendingTokens == {rows[i].token : i \in {j \in Live : rows[j].status = "pending"}}

(* A live pending subscription has a saga that was not compensated, however *)
(* requests, results, sweeps and restarts interleave (FR10: never a pending *)
(* row with no path forward).  A stale Save that brings back a soft-deleted *)
(* row must not bring back a pending row whose saga is over.                *)
PendingIsTracked ==
  \A t \in PendingTokens :
    t \in DOMAIN saga /\ saga[t] \in {"awaiting_delivery", "completed"}

(* A soft-deleted subscription is one that its own saga cancelled while it  *)
(* was pending: neither a confirmed nor an unsubscribed row is ever deleted,*)
(* and no row is deleted on behalf of another token's saga (orchestrator    *)
(* store.go, Compensate).                                                   *)
DeletedMeansCompensated ==
  \A i \in DOMAIN rows :
    rows[i].deleted = "yes" =>
      /\ rows[i].status = "pending"
      /\ rows[i].token \in DOMAIN saga
      /\ saga[rows[i].token] = "compensated"

(* The bearer token exists exactly from the confirmation on: no pending row *)
(* carries one, every active row does, whatever stale copy was saved last   *)
(* (subscription.go: APIToken is only issued on confirmation).              *)
ApiTokenOnlyOnceConfirmed ==
  \A i \in DOMAIN rows :
    /\ rows[i].status = "pending" => rows[i].api = NoApi
    /\ rows[i].status = "active"  => rows[i].api # NoApi

(* The database's unique indexes hold: at most one live row per email and   *)
(* repository, and a confirm token finds at most one live row, so that      *)
(* First() in the handlers is never a choice.                               *)
LiveRowsAreUnique ==
  \A i, j \in Live : i # j =>
    /\ <<rows[i].email, rows[i].repo>> # <<rows[j].email, rows[j].repo>>
    /\ rows[i].token # rows[j].token

(* What a request holds between its read and its write: the row it will     *)
(* save is a live one in the state its handler gives it.                    *)
RequestsWellFormed ==
  \A h \in DOMAIN req :
    /\ req[h].sub.deleted = "no"
    /\ req[h].op = "subscribe" => req[h].sub.status = "pending" /\ req[h].sub.api = NoApi
    /\ req[h].op = "confirm" => req[h].sub.status = "active" /\ req[h].sub.api # NoApi
    /\ req[h].op = "unsubscribe" => req[h].sub.status = "unsubscribed"
    /\ req[h].op # "subscribe" => req[h].id \in Ids

(* The inductive invariant behind the safety properties. *)
IInv ==
  /\ TypeOK
  /\ RequestsWellFormed
  /\ PendingIsTracked
  /\ DeletedMeansCompensated
  /\ ApiTokenOnlyOnceConfirmed
  /\ LiveRowsAreUnique

(* Settled once: whichever of orchestrator and reaper settles a saga first  *)
(* wins; no later result, sweep, retry or re-subscription changes it        *)
(* (ADR 006, Idempotency; store.go MarkCompleted and Compensate).           *)
SagaStep ==
  \A t \in DOMAIN saga :
    /\ t \in DOMAIN saga'
    /\ saga[t] # "awaiting_delivery" => saga'[t] = saga[t]

SettledOnce == [][SagaStep]_vars

(* C1 takes the pending row of its token and nothing else: when a saga is   *)
(* compensated no pending row keeps its token, and a subscription the user  *)
(* confirmed in the meantime is left untouched (ADR 006, Compensation).     *)
C1Step ==
  \A t \in DOMAIN saga :
    (saga[t] = "awaiting_delivery" /\ saga'[t] = "compensated") =>
      /\ t \notin PendingTokens'
      /\ \A i \in Live : (rows[i].status # "pending" \/ rows[i].token # t)
                            => rows'[i] = rows[i]

CompensationIsConfined == [][C1Step]_vars

(* Every saga ends: a result settles it or, when the results were lost or   *)
(* parked in the DLQ, the reaper does (ADR 006, Commit point).              *)
EverySagaSettles ==
  \A t \in Tokens : Awaiting(t) ~> (t \in DOMAIN saga /\ ~Awaiting(t))

(* No subscription stays pending without a delivered verification email:    *)
(* it is confirmed, superseded, unsubscribed or cancelled (FR10).           *)
PendingGetsAPath ==
  \A t \in Tokens : (t \in PendingTokens)
     ~> (t \notin PendingTokens \/ (t \in DOMAIN saga /\ saga[t] = "completed"))

(* Onboarding implements SagaContract.                                      *)
Contract == INSTANCE SagaContract WITH
  state   <- [t \in Tokens |-> IF t \in DOMAIN saga THEN saga[t] ELSE "none"],
  pending <- PendingTokens

(* Seen through its sagas and its pending rows, every step of the server is *)
(* a step SagaContract allows: a saga starts with its row, is settled once, *)
(* and is compensated together with its row.                                *)
ImplementsContract == Contract!Spec

(***************************************************************************)
(* What a comment in the code says and the code does not do                *)
(***************************************************************************)
(* subscription.go:178: the re-send branch writes "a pending or             *)
(* unsubscribed record"; the 409 above it turns active ones away.  So a     *)
(* subscription the user confirmed never falls back to pending.             *)
ActiveIsNeverReset ==
  [][\A i \in Live : rows[i].status = "active" => rows'[i].status # "pending"]_vars
=============================================================================
