------------------------------- MODULE Outbox -------------------------------
(***************************************************************************)
(* The transactional outbox (infra/outbox): transactions that insert event *)
(* rows, and the relay that publishes the rows in id order, one batch at a *)
(* time, deleting each after its publish was confirmed.  Rows embed        *)
(* gorm.Model, so a delete only sets deleted_at: the relay's queries pass  *)
(* over the row, which stays in the table for good.                        *)
(*                                                                         *)
(* A row's id is drawn from the table's sequence when it is inserted, and  *)
(* the row becomes visible when its transaction commits, so rows can       *)
(* become visible out of id order.                                         *)
(***************************************************************************)
EXTENDS Integers, FiniteSets

CONSTANTS
  MaxRows,    \* bound: rows inserted in a behaviour
  BatchSize,  \* OUTBOX_BATCH_SIZE
  MaxFaults   \* bound: failures in a behaviour

ASSUME OutboxAssumption ==
  MaxRows \in Nat /\ BatchSize \in Nat \ {0} /\ MaxFaults \in Nat

VARIABLES
  next,       \* the last id the sequence gave out
  open,       \* rows of transactions still in progress
  rows,       \* committed rows
  deleted,    \* rows whose deleted_at is set
  before,     \* row -> rows committed when it was inserted
  batch,      \* rows of the relay's current batch it has still to handle
  published,  \* the row of the batch just published and not yet deleted
  taken,      \* rows whose event the events exchange took
  faults

vars == <<next, open, rows, deleted, before, batch, published, taken, faults>>
relay == <<deleted, batch, published, taken>>

Ids == 1..MaxRows
Pending == rows \ deleted

TypeOK ==
  /\ next \in 0..MaxRows
  /\ open \subseteq 1..next
  /\ rows \subseteq 1..next
  /\ deleted \subseteq rows
  /\ before \in [1..next -> SUBSET (1..next)]
  /\ batch \subseteq 1..next
  /\ published \subseteq 1..next
  /\ taken \subseteq 1..next
  /\ faults \in 0..MaxFaults

Init ==
  /\ next = 0
  /\ open = {} /\ rows = {} /\ deleted = {}
  /\ before = [n \in {} |-> {}]
  /\ batch = {} /\ published = {}
  /\ taken = {}
  /\ faults = 0

Fault == faults < MaxFaults /\ faults' = faults + 1

(* Mutant: the id is not drawn from the sequence. *)
InsertWithoutSequence ==
  /\ next < MaxRows
  /\ open' = open \cup {next + 1}
  /\ UNCHANGED <<next, rows, before>> /\ UNCHANGED relay /\ UNCHANGED faults

(* InsertTx inside a transaction that has not committed yet. *)
InsertTx ==
  /\ next < MaxRows
  /\ next' = next + 1
  /\ open' = open \cup {next + 1}
  /\ before' = [n \in 1..(next + 1) |-> IF n = next + 1 THEN rows ELSE before[n]]
  /\ UNCHANGED rows /\ UNCHANGED relay /\ UNCHANGED faults

Commit(n) ==
  /\ n \in open
  /\ open' = open \ {n}
  /\ rows' = rows \cup {n}
  /\ UNCHANGED <<next, before>> /\ UNCHANGED relay /\ UNCHANGED faults

Rollback(n) ==
  /\ n \in open
  /\ open' = open \ {n}
  /\ UNCHANGED <<next, rows, before>> /\ UNCHANGED relay /\ UNCHANGED faults

(* Mutant: LIMIT without ORDER BY. *)
AnyRows(b) ==
  /\ b \subseteq Pending
  /\ \/ Cardinality(b) = BatchSize
     \/ Cardinality(b) < BatchSize /\ b = Pending

(* WHERE deleted_at IS NULL ORDER BY id LIMIT BatchSize: b is the first     *)
(* pending rows of the table.                                               *)
FirstRows(b) ==
  /\ b \subseteq Pending
  /\ \A x \in b, y \in Pending \ b : x < y
  /\ \/ Cardinality(b) = BatchSize
     \/ Cardinality(b) < BatchSize /\ b = Pending

(* deliver begins, on a tick or right after a full batch. *)
Query(b) ==
  /\ batch = {} /\ published = {}
  /\ b # {} /\ FirstRows(b)
  /\ batch' = b
  /\ UNCHANGED <<next, open, rows, deleted, before, published, taken, faults>>

(* The next row of the batch, confirmed by the broker. *)
Publish(n) ==
  /\ published = {}
  /\ n \in batch /\ \A m \in batch : n <= m
  /\ published' = {n}
  /\ batch' = batch \ {n}
  /\ taken' = taken \cup {n}
  /\ UNCHANGED <<next, open, rows, deleted, before, faults>>

(* Mutant: a row is deleted although its publish failed. *)
DeleteOnError(n) ==
  /\ published = {}
  /\ n \in batch /\ \A m \in batch : n <= m
  /\ Fault
  /\ deleted' = deleted \cup {n}
  /\ batch' = batch \ {n}
  /\ UNCHANGED <<next, open, rows, before, published, taken>>

(* Mutant: the delete matches no row. *)
DeleteNothing(n) ==
  /\ published = {n}
  /\ published' = {}
  /\ UNCHANGED <<next, open, rows, deleted, before, batch, taken, faults>>

(* The publish fails, perhaps after the broker took the event: deliver      *)
(* returns and the next tick starts again from the same row.                *)
PublishError(n) ==
  /\ published = {}
  /\ n \in batch /\ \A m \in batch : n <= m
  /\ Fault
  /\ batch' = {}
  /\ taken' \in {taken, taken \cup {n}}
  /\ UNCHANGED <<next, open, rows, deleted, before, published>>

(* The soft delete. *)
Delete(n) ==
  /\ published = {n}
  /\ published' = {}
  /\ deleted' = deleted \cup {n}
  /\ UNCHANGED <<next, open, rows, before, batch, taken, faults>>

(* The delete fails: logged, the loop goes on and the row is sent again. *)
DeleteError ==
  /\ published # {}
  /\ Fault
  /\ published' = {}
  /\ UNCHANGED <<next, open, rows, deleted, before, batch, taken>>

(* The server restarts; the relay forgets its batch. *)
Restart ==
  /\ Fault
  /\ batch' = {} /\ published' = {}
  /\ UNCHANGED <<next, open, rows, deleted, before, taken>>

Deliver ==
  \/ \E b \in SUBSET Pending : Query(b)
  \/ \E n \in Ids : Publish(n) \/ Delete(n)

Next ==
  \/ InsertTx
  \/ \E n \in Ids : Commit(n) \/ Rollback(n)
  \/ Deliver
  \/ \E n \in Ids : PublishError(n)
  \/ DeleteError
  \/ Restart

Spec == Init /\ [][Next]_vars

(* The relay polls on a ticker, and a transaction ends one way or the other. *)
Fairness == WF_vars(Deliver) /\ \A n \in Ids : WF_vars(Commit(n) \/ Rollback(n))

FairSpec == Spec /\ Fairness

(***************************************************************************)
(* Properties                                                              *)
(***************************************************************************)
(* Delivery order is preserved (relay.go:51): when one transaction had      *)
(* committed before another inserted its event, the earlier event reaches   *)
(* the broker first, whatever publishes, deletes and restarts fail.         *)
OrderIsPreserved == \A n \in taken : before[n] \subseteq taken

(* Only committed events are published, and a row stops being pending only  *)
(* after the broker took its event: an event whose transaction committed    *)
(* is still to be relayed or with the broker (relay.go:65-72).              *)
CommittedIsKept ==
  [][\A n \in Ids : /\ n \in Pending => n \in Pending' \cup taken'
                    /\ n \in taken' \ taken => n \in rows]_vars

(* Every committed event is published and its row eventually no longer      *)
(* pending, so that no failure leaves the relay with a row it sends for     *)
(* ever.  (The row itself stays, soft-deleted.)                             *)
PendingIsRelayed == \A n \in Ids : (n \in rows) ~> (n \in taken /\ n \notin Pending)
=============================================================================
