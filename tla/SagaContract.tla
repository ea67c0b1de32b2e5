---------------------------- MODULE SagaContract ----------------------------
(***************************************************************************)
(* What subscription onboarding promises, without handlers, threads or     *)
(* messages: every confirm token has at most one saga, the saga is settled *)
(* at most once, and cancelling it takes its pending subscription with it, *)
(* so a pending subscription always has a saga that is not cancelled.      *)
(* Onboarding.tla is shown to implement this specification.                *)
(***************************************************************************)
CONSTANT Tokens          \* confirm tokens, the saga's correlation ids

VARIABLES
  state,                 \* state of each token's saga, "none" before it starts
  pending                \* tokens a pending subscription waits to be confirmed by

vars == <<state, pending>>

SagaStates == {"awaiting_delivery", "completed", "compensated"}

TypeOK ==
  /\ state \in [Tokens -> SagaStates \cup {"none"}]
  /\ pending \subseteq Tokens

Init ==
  /\ state = [t \in Tokens |-> "none"]
  /\ pending = {}

(* A subscription becomes pending under a fresh token together with its saga; *)
(* superseded is the token (if any) the same subscription was pending under.  *)
Start(t, superseded) ==
  /\ state[t] = "none"
  /\ superseded \subseteq pending
  /\ state' = [state EXCEPT ![t] = "awaiting_delivery"]
  /\ pending' = (pending \ superseded) \cup {t}

(* The verification email went out. *)
Complete(t) ==
  /\ state[t] = "awaiting_delivery"
  /\ state' = [state EXCEPT ![t] = "completed"]
  /\ UNCHANGED pending

(* C1: the saga is cancelled and its subscription, if still pending, with it. *)
Compensate(t) ==
  /\ state[t] = "awaiting_delivery"
  /\ state' = [state EXCEPT ![t] = "compensated"]
  /\ pending' = pending \ {t}

(* Subscriptions stop being pending: confirmed, or unsubscribed by a move. *)
Resolve(gone) ==
  /\ gone \subseteq pending
  /\ pending' = pending \ gone
  /\ UNCHANGED state

Next ==
  \/ \E t \in Tokens : Complete(t) \/ Compensate(t)
  \/ \E t \in Tokens, superseded \in SUBSET pending : Start(t, superseded)
  \/ \E gone \in SUBSET pending : Resolve(gone)

Spec == Init /\ [][Next]_vars

(* A pending subscription has a saga, and the saga was not cancelled: it is *)
(* either still awaiting its outcome or the verification email was sent.    *)
PendingIsTracked ==
  \A t \in pending : state[t] \in {"awaiting_delivery", "completed"}
=============================================================================
