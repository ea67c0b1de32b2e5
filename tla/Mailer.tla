------------------------------- MODULE Mailer -------------------------------
(***************************************************************************)
(* The mailer (worker/mailer): goroutines that take an email command off   *)
(* the commands endpoint, send it over SMTP with in-process retries,       *)
(* report the outcome of a verification email to the onboarding saga with  *)
(* retries of its own, and settle the command.                             *)
(***************************************************************************)
EXTENDS Endpoint

CONSTANTS
  Verification,   \* the commands that carry a confirm token
  SMTPRetries,    \* maxSMTPRetries
  ReportRetries   \* maxResultReportRetries

ASSUME MailerAssumption ==
  /\ Verification \subseteq Msgs \ Poison
  /\ SMTPRetries \in Nat \ {0}
  /\ ReportRetries \in Nat \ {0}

VARIABLES
  pc,        \* goroutine -> where process is, and the try it is at
  stopping,  \* goroutines whose context was cancelled by SIGTERM
  emails,    \* command -> emails the SMTP server accepted for it
  reports    \* command -> outcomes the events exchange took for it

mvars == <<pc, stopping, emails, reports>>
vars  == <<main, delayed, parked, held, detached, sent, acked, faults,
           pc, stopping, emails, reports>>

Outcomes == {"delivered", "failed"}

(* "delivered" and "failed" are the loops that report that outcome. *)
Place == [step: {"send", "ack", "retry"} \cup Outcomes, try: Nat]

MTypeOK ==
  /\ TypeOK
  /\ DOMAIN pc \subseteq DOMAIN held
  /\ pc \in [DOMAIN pc -> Place]
  /\ stopping \subseteq DOMAIN held
  /\ emails \in [Msgs -> Nat]
  /\ reports \in [Msgs -> SUBSET Outcomes]

MInit ==
  /\ Init
  /\ pc = [w \in {} |-> 0]
  /\ stopping = {}
  /\ emails = [m \in Msgs |-> 0]
  /\ reports = [m \in Msgs |-> {}]

Goto(w, step, try) ==
  [z \in DOMAIN pc \cup {w} |-> IF z = w THEN [step |-> step, try |-> try] ELSE pc[z]]

At(w, steps) == w \in DOMAIN pc /\ pc[w].step \in steps

Sent(m)        == [emails EXCEPT ![m] = @ + 1]
Reported(m, o) == [reports EXCEPT ![m] = @ \cup {o}]

(* A command that cannot be decoded, or of an unknown email type. *)
RejectPoison(w) ==
  /\ w \in DOMAIN held \ DOMAIN pc /\ held[w].msg \in Poison
  /\ DeadLetter(w)
  /\ stopping' = stopping \ {w}
  /\ UNCHANGED <<pc, emails, reports>>

(* Deliver builds the email and enters sendWithRetry. *)
Begin(w) ==
  /\ w \in DOMAIN held \ DOMAIN pc /\ held[w].msg \notin Poison
  /\ pc' = Goto(w, "send", 1)
  /\ UNCHANGED <<stopping, emails, reports>> /\ UNCHANGED evars

SendOk(w) ==
  /\ At(w, {"send"})
  /\ emails' = Sent(held[w].msg)
  /\ pc' = Goto(w, IF held[w].msg \in Verification THEN "delivered" ELSE "ack", 1)
  /\ UNCHANGED <<stopping, reports>> /\ UNCHANGED evars

(* Mutant: a notice that could not be sent is acked, not retried. *)
AckUnsent(w) ==
  /\ At(w, {"send"})
  /\ Fault("smtp")
  /\ pc' = IF pc[w].try < SMTPRetries
             THEN Goto(w, "send", pc[w].try + 1)
             ELSE Goto(w, IF held[w].msg \in Verification THEN "failed" ELSE "ack", 1)
  /\ UNCHANGED <<stopping, emails, reports, main, delayed, parked, held, detached, sent, acked>>

(* SendEmail returns an error, perhaps after the server took the email, or  *)
(* because its context is cancelled.  The loop goes on until its last try   *)
(* or the cancelled context ends it.                                        *)
SendError(w) ==
  /\ At(w, {"send"})
  /\ Fault("smtp") \/ (w \in stopping /\ UNCHANGED faults)
  /\ emails' \in {emails, Sent(held[w].msg)}
  /\ pc' = IF pc[w].try < SMTPRetries /\ w \notin stopping
             THEN Goto(w, "send", pc[w].try + 1)
             ELSE Goto(w, IF held[w].msg \in Verification THEN "failed" ELSE "retry", 1)
  /\ UNCHANGED <<stopping, reports, main, delayed, parked, held, detached, sent, acked>>

(* reportDelivered, reportFailed: the result event is published. *)
ReportOk(w) ==
  /\ At(w, Outcomes)
  /\ reports' = Reported(held[w].msg, pc[w].step)
  /\ pc' = Goto(w, "ack", 1)
  /\ UNCHANGED <<stopping, emails>> /\ UNCHANGED evars

(* Mutant: one try at publishing the outcome. *)
ReportOnce(w) ==
  /\ At(w, Outcomes)
  /\ Fault("publish")
  /\ pc' = Goto(w, "ack", 1)
  /\ UNCHANGED <<stopping, emails, reports, main, delayed, parked, held, detached, sent, acked>>

(* The publish fails, or a cancelled context ends it, perhaps after the     *)
(* broker took the event.  When reportWithRetry gives up, that is logged    *)
(* and the command acked.                                                   *)
ReportError(w) ==
  /\ At(w, Outcomes)
  /\ Fault("publish") \/ (w \in stopping /\ UNCHANGED faults)
  /\ reports' \in {reports, Reported(held[w].msg, pc[w].step)}
  /\ pc' = IF pc[w].try < ReportRetries /\ w \notin stopping
             THEN Goto(w, pc[w].step, pc[w].try + 1)
             ELSE Goto(w, "ack", 1)
  /\ UNCHANGED <<stopping, emails, main, delayed, parked, held, detached, sent, acked>>

(* Mutant: process goes on after settling the command. *)
SettleFallsThrough(w) ==
  /\ At(w, {"ack", "retry"})
  /\ IF pc[w].step = "ack" THEN Ack(w) ELSE Retry(w)
  /\ UNCHANGED mvars

(* process settles the command. *)
Settle(w) ==
  /\ At(w, {"ack", "retry"})
  /\ IF pc[w].step = "ack" THEN Ack(w) ELSE Retry(w)
  /\ pc' = Drop(pc, w)
  /\ stopping' = stopping \ {w}
  /\ UNCHANGED <<emails, reports>>

(* SIGTERM: the context of a handler in progress is cancelled. *)
Stop(w) ==
  /\ w \in DOMAIN held \ stopping
  /\ Fault("shutdown")
  /\ stopping' = stopping \cup {w}
  /\ UNCHANGED <<pc, emails, reports, main, delayed, parked, held, detached, sent, acked>>

(* The process dies: the command is redelivered. *)
Die(w) ==
  /\ Crash(w)
  /\ pc' = Drop(pc, w)
  /\ stopping' = stopping \ {w}
  /\ UNCHANGED <<emails, reports>>

Process(w) ==
  \/ RejectPoison(w) \/ Begin(w) \/ SendOk(w) \/ SendError(w)
  \/ ReportOk(w) \/ ReportError(w) \/ Settle(w)

MNext ==
  \/ \E m \in Msgs : Arrive(m) /\ UNCHANGED mvars
  \/ \E c \in Copy : Expire(c) /\ UNCHANGED mvars
  \/ \E c \in Copy, w \in Workers : Deliver(w, c) /\ UNCHANGED mvars
  \/ \E w \in Workers : Process(w) \/ Die(w) \/ Stop(w)
  \/ \E w \in Workers : Detach(w) /\ UNCHANGED mvars

MSpec == MInit /\ [][MNext]_vars

(* As in Endpoint: the broker delivers and expires, process returns. *)
MFairness ==
  /\ \A c \in Copy : WF_vars(Expire(c) /\ UNCHANGED mvars)
  /\ \A w \in Workers :
       /\ WF_vars(\E c \in Copy : Deliver(w, c) /\ UNCHANGED mvars)
       /\ WF_vars(Process(w))

MFairSpec == MSpec /\ MFairness

(***************************************************************************)
(* Properties                                                              *)
(***************************************************************************)
(* verification.delivered is only reported for an email the SMTP server     *)
(* took, so a saga is never completed for an email that was not sent, and   *)
(* a release or moved notice is acked only after it was sent, whatever      *)
(* crashes, disconnects or shuts down (ADR 005, At-least-once consumption). *)
NothingClaimedUnsent ==
  \A m \in Msgs :
    ("delivered" \in reports[m] \/ m \in acked \ Verification) => emails[m] > 0

(* Every verification command gets its outcome to the saga when fewer       *)
(* publishes fail than reportWithRetry tries and no shutdown cancels it,    *)
(* whatever SMTP, crashes and disconnects do to it (ADR 006: the failure    *)
(* signal reaches the orchestrator).                                        *)
EveryVerificationReported ==
  [](stopping = {}) => \A m \in Verification : (m \in sent) ~> (reports[m] # {})
=============================================================================
