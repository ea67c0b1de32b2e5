---------------------------- MODULE OutboxProofs ----------------------------
(***************************************************************************)
(* Proofs about Outbox: the relay preserves the order of events whose      *)
(* transactions followed one another, publishes committed events only and  *)
(* soft-deletes none before the broker took it, for any number of rows, any*)
(* batch size and any failures.                                            *)
(***************************************************************************)
EXTENDS Outbox, TLAPS

(* The rows that were committed when another was inserted have smaller ids. *)
BeforeIsCommitted ==
  \A n \in 1..next : \A m \in before[n] : m < n /\ m \in rows

(* A batch is a piece of the table, and only published rows of the table    *)
(* are deleted.                                                             *)
BatchIsCommitted ==
  /\ batch \subseteq rows
  /\ published \subseteq taken
  /\ deleted \subseteq taken
  /\ taken \subseteq rows

(* What comes before a row of the batch is in the batch too, or published. *)
BatchIsClosed == \A n \in batch : before[n] \subseteq taken \cup batch

(* The inductive invariant. *)
OInv ==
  /\ TypeOK
  /\ OrderIsPreserved
  /\ BeforeIsCommitted
  /\ BatchIsCommitted
  /\ BatchIsClosed

(* The smallest row of a batch has nothing unpublished before it. *)
LEMMA FirstIsNext ==
  ASSUME OInv, NEW n \in batch, \A m \in batch : n <= m
  PROVE  n \in rows /\ n \in 1..next /\ before[n] \subseteq taken
<1>1. n \in rows /\ n \in 1..next
  BY DEF OInv, TypeOK, BatchIsCommitted
<1>2. ASSUME NEW m \in before[n] PROVE m \in taken
  <2>1. m < n /\ m \in 1..next
    BY <1>1 DEF OInv, TypeOK, BeforeIsCommitted
  <2>2. m \notin batch
    BY <1>1, <2>1
  <2> QED BY <2>2 DEF OInv, BatchIsClosed
<1> QED BY <1>1, <1>2

(* The table starts empty. *)
LEMMA InitOInv == Init => OInv
  BY OutboxAssumption
  DEF Init, OInv, TypeOK, OrderIsPreserved, BeforeIsCommitted, BatchIsCommitted, BatchIsClosed

(* A new row comes after every row that is committed now. *)
LEMMA InsertTxOInv == OInv /\ InsertTx => OInv'
<1> SUFFICES ASSUME OInv, InsertTx PROVE OInv'
  OBVIOUS
<1>1. /\ next \in Nat /\ next' = next + 1 /\ next' \in 0..MaxRows
      /\ 1..next \subseteq 1..next' /\ next' \in 1..next' /\ next' \notin 1..next
      /\ UNCHANGED <<rows, deleted, batch, published, taken, faults>>
  BY OutboxAssumption DEF OInv, TypeOK, InsertTx, relay
<1>2. /\ DOMAIN before' = 1..next'
      /\ before'[next'] = rows
      /\ \A n \in 1..next : before'[n] = before[n]
  BY <1>1 DEF InsertTx
<1>3. TypeOK'
  <2>1. before' \in [1..next' -> SUBSET (1..next')]
    BY <1>1, <1>2 DEF OInv, TypeOK, InsertTx
  <2>2. open' \subseteq 1..next'
    BY <1>1 DEF OInv, TypeOK, InsertTx
  <2> QED BY <1>1, <2>1, <2>2 DEF OInv, TypeOK
<1>4. OrderIsPreserved' /\ BatchIsCommitted' /\ BatchIsClosed'
  BY <1>1, <1>2 DEF OInv, TypeOK, OrderIsPreserved, BatchIsCommitted, BatchIsClosed
<1>5. BeforeIsCommitted'
  <2>1. \A m \in rows : m < next'
    BY <1>1 DEF OInv, TypeOK
  <2>2. \A n \in 1..next' : n = next' \/ n \in 1..next
    BY <1>1
  <2> QED BY <1>1, <1>2, <2>1, <2>2 DEF OInv, BeforeIsCommitted
<1> QED BY <1>3, <1>4, <1>5 DEF OInv

(* A transaction that ends adds its row to the table, or none. *)
LEMMA EndOInv == ASSUME OInv, NEW n \in Ids, Commit(n) \/ Rollback(n) PROVE OInv'
<1>1. /\ UNCHANGED <<next, deleted, before, batch, published, taken, faults>>
      /\ open' \subseteq open /\ rows \subseteq rows' /\ rows' \subseteq rows \cup open
  BY DEF Commit, Rollback, relay
<1> QED
  BY <1>1 DEF OInv, TypeOK, OrderIsPreserved, BeforeIsCommitted, BatchIsCommitted, BatchIsClosed

(* Rows left out of a batch have larger ids than the ones in it. *)
LEMMA QueryOInv == ASSUME OInv, NEW b \in SUBSET Pending, Query(b) PROVE OInv'
<1>1. /\ UNCHANGED <<next, open, rows, deleted, before, published, taken, faults>>
      /\ batch' = b /\ b \subseteq rows
      /\ \A x \in b, y \in (rows \ deleted) \ b : x < y
  BY DEF Query, FirstRows, Pending
<1>2. ASSUME NEW x \in b, NEW y \in before[x] PROVE y \in taken \cup b
  <2>1. x \in 1..next /\ y \in 1..next /\ y < x /\ y \in rows
    BY <1>1 DEF OInv, TypeOK, BeforeIsCommitted
  <2>2. deleted \subseteq taken
    BY DEF OInv, BatchIsCommitted
  <2> QED BY <1>1, <2>1, <2>2
<1>3. BatchIsClosed'
  BY <1>1, <1>2 DEF BatchIsClosed
<1>4. TypeOK' /\ OrderIsPreserved' /\ BeforeIsCommitted' /\ BatchIsCommitted'
  BY <1>1 DEF OInv, TypeOK, OrderIsPreserved, BeforeIsCommitted, BatchIsCommitted
<1> QED BY <1>3, <1>4 DEF OInv

(* The broker takes the first row of the batch. *)
LEMMA PublishOInv == ASSUME OInv, NEW n \in Ids, Publish(n) PROVE OInv'
<1>1. /\ n \in batch /\ published' = {n} /\ batch' = batch \ {n} /\ taken' = taken \cup {n}
      /\ UNCHANGED <<next, open, rows, deleted, before, faults>>
  BY DEF Publish
<1>2. n \in rows /\ n \in 1..next /\ before[n] \subseteq taken
  BY FirstIsNext DEF Publish
<1> QED
  BY <1>1, <1>2
  DEF OInv, TypeOK, OrderIsPreserved, BeforeIsCommitted, BatchIsCommitted, BatchIsClosed

(* A failed publish may still have reached the broker. *)
LEMMA PublishErrorOInv == ASSUME OInv, NEW n \in Ids, PublishError(n) PROVE OInv'
<1>1. /\ n \in batch /\ published = {} /\ published' = {} /\ batch' = {}
      /\ taken' \in {taken, taken \cup {n}}
      /\ faults' \in 0..MaxFaults
      /\ UNCHANGED <<next, open, rows, deleted, before>>
  BY OutboxAssumption DEF PublishError, Fault, OInv, TypeOK
<1>2. n \in rows /\ n \in 1..next /\ before[n] \subseteq taken
  BY FirstIsNext DEF PublishError
<1> QED
  BY <1>1, <1>2
  DEF OInv, TypeOK, OrderIsPreserved, BeforeIsCommitted, BatchIsCommitted, BatchIsClosed

(* The row that is deleted is one the broker took. *)
LEMMA DeleteOInv == ASSUME OInv, NEW n \in Ids, Delete(n) PROVE OInv'
<1>1. /\ published = {n} /\ published' = {} /\ deleted' = deleted \cup {n}
      /\ UNCHANGED <<next, open, rows, before, batch, taken, faults>>
  BY DEF Delete
<1>2. n \in taken /\ n \in rows
  BY <1>1 DEF OInv, BatchIsCommitted
<1> QED
  BY <1>1, <1>2
  DEF OInv, TypeOK, OrderIsPreserved, BeforeIsCommitted, BatchIsCommitted, BatchIsClosed

(* A failed delete and a restart only forget what the relay was doing. *)
LEMMA ForgetOInv == ASSUME OInv, DeleteError \/ Restart PROVE OInv'
<1>1. /\ published' = {} /\ batch' \in {batch, {}}
      /\ faults' \in 0..MaxFaults
      /\ UNCHANGED <<next, open, rows, deleted, before, taken>>
  BY OutboxAssumption DEF DeleteError, Restart, Fault, OInv, TypeOK
<1> QED
  BY <1>1
  DEF OInv, TypeOK, OrderIsPreserved, BeforeIsCommitted, BatchIsCommitted, BatchIsClosed

(* The inductive step: one case for each action. *)
LEMMA NextOInv == OInv /\ [Next]_vars => OInv'
<1> SUFFICES ASSUME OInv, [Next]_vars PROVE OInv'
  OBVIOUS
<1>1. CASE InsertTx
  BY <1>1, InsertTxOInv
<1>2. ASSUME NEW n \in Ids, Commit(n) \/ Rollback(n) PROVE OInv'
  BY <1>2, EndOInv
<1>3. CASE Deliver
  BY <1>3, QueryOInv, PublishOInv, DeleteOInv DEF Deliver
<1>4. ASSUME NEW n \in Ids, PublishError(n) PROVE OInv'
  BY <1>4, PublishErrorOInv
<1>5. CASE DeleteError \/ Restart
  BY <1>5, ForgetOInv
<1>6. CASE UNCHANGED vars
  BY <1>6
  DEF vars, OInv, TypeOK, OrderIsPreserved, BeforeIsCommitted, BatchIsCommitted, BatchIsClosed
<1> QED BY <1>1, <1>2, <1>3, <1>4, <1>5, <1>6 DEF Next

(* The relay's invariant holds in every state. *)
THEOREM OutboxInvariance == Spec => []OInv
  BY InitOInv, NextOInv, PTL DEF Spec

(* Type correctness of the table and of the relay's batch. *)
THEOREM OutboxTypeCorrect == Spec => []TypeOK
  BY OutboxInvariance, PTL DEF OInv

(* An event reaches the broker after every event that was committed when it *)
(* was inserted, whatever publishes, deletes and restarts fail.             *)
THEOREM OutboxPreservesOrder == Spec => []OrderIsPreserved
  BY OutboxInvariance, PTL DEF OInv

(* A step publishes committed rows only, and a pending row stays pending    *)
(* until the broker has its event.                                          *)
THEOREM OutboxKeepsCommitted == Spec => CommittedIsKept
<1> DEFINE Kept(n) == /\ n \in Pending => n \in Pending' \cup taken'
                      /\ n \in taken' \ taken => n \in rows
<1>1. OInv /\ [Next]_vars => [\A n \in Ids : Kept(n)]_vars
  <2> SUFFICES ASSUME OInv, Next, NEW n \in Ids PROVE Kept(n)
    OBVIOUS
  <2>1. batch \subseteq rows /\ published \subseteq taken
    BY DEF OInv, BatchIsCommitted
  <2>2. CASE InsertTx
    BY <2>2 DEF InsertTx, relay, Pending
  <2>3. ASSUME NEW m \in Ids, Commit(m) \/ Rollback(m) PROVE Kept(n)
    BY <2>3 DEF Commit, Rollback, relay, Pending
  <2>4. CASE Deliver
    BY <2>1, <2>4 DEF Deliver, Query, Publish, Delete, Pending
  <2>5. ASSUME NEW m \in Ids, PublishError(m) PROVE Kept(n)
    BY <2>1, <2>5 DEF PublishError, Pending
  <2>6. CASE DeleteError \/ Restart
    BY <2>6 DEF DeleteError, Restart, Pending
  <2> QED BY <2>2, <2>3, <2>4, <2>5, <2>6 DEF Next
<1> QED BY <1>1, OutboxInvariance, PTL DEF Spec, CommittedIsKept
=============================================================================
