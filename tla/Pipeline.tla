------------------------------ MODULE Pipeline ------------------------------
(***************************************************************************)
(* The way of an email through the whole system: the server's outbox and   *)
(* relay, the events exchange, the notifier, the link to the mailer (the   *)
(* commands exchange or gRPC, as NOTIFIER_DELIVERY_TRANSPORT says), SMTP,  *)
(* the result events and the onboarding saga they settle.  Verification    *)
(* emails are those of Onboarding's tokens; the notices are what the       *)
(* scanner announces.                                                      *)
(*                                                                         *)
(* The stages are those of Outbox, Endpoint, Notifier and Mailer, each     *)
(* reduced to what it hands on: a stage either does its work or meets a    *)
(* mishap, with the outcomes the detailed modules have for it.  A queue is *)
(* a set, its retry tiers included; a copy that was delivered and not yet  *)
(* acked is still in it.                                                   *)
(***************************************************************************)
EXTENDS Onboarding

(* Domain events (events.go), and the endpoints' bindings (topology.go). *)
Notices == {"release.detected", "repository.moved"}
Messages == Tokens \cup Notices

(* A confirm token is random hex, never the name of a notice. *)
ASSUME NoticesAssumption == Tokens \cap Notices = {}

EventType(m) == IF m \in Notices THEN m ELSE "subscription.created"

(* Mutants: the binding of one event is forgotten. *)
OnboardingWithoutDelivered == {"verification.failed"}
NotificationsWithoutMoved == {"release.detected", "subscription.created"}

NotificationsEndpoint == {"release.detected", "repository.moved", "subscription.created"}
OnboardingSagaEndpoint == {"verification.delivered", "verification.failed"}

(* toCommand, and the email types buildEmail knows. *)
ToCommand == [type \in {"release.detected", "repository.moved", "subscription.created"} |->
                CASE type = "release.detected"     -> "new_release"
                  [] type = "repository.moved"     -> "repo_moved"
                  [] type = "subscription.created" -> "email_verification"]
BuildEmail == {"new_release", "repo_moved", "email_verification"}

(* The gRPC link's enums.  What a map does not know is its zero value:      *)
(* UNSPECIFIED one way, the empty string the other.                         *)
EventToProto(command) ==
  CASE command = "new_release"        -> "NEW_RELEASE"
    [] command = "repo_moved"         -> "REPO_MOVED"
    [] command = "email_verification" -> "EMAIL_VERIFICATION"
    [] OTHER                          -> "UNSPECIFIED"
ProtoToEvent(enum) ==
  CASE enum = "NEW_RELEASE"        -> "new_release"
    [] enum = "REPO_MOVED"         -> "repo_moved"
    [] enum = "EMAIL_VERIFICATION" -> "email_verification"
    [] OTHER                       -> ""
OutcomeToProto(outcome) ==
  CASE outcome = "delivered" -> "DELIVERED"
    [] outcome = "failed"    -> "FAILED"
    [] outcome = "poison"    -> "POISON"
    [] OTHER                 -> "UNSPECIFIED"
ProtoToOutcome(enum) ==
  CASE enum = "DELIVERED" -> "delivered"
    [] enum = "FAILED"    -> "failed"
    [] enum = "POISON"    -> "poison"
    [] OTHER              -> ""

(* The routing key of a result event. *)
ResultType(r) == IF r.type = "delivered" THEN "verification.delivered" ELSE "verification.failed"

VARIABLES
  transport,  \* NOTIFIER_DELIVERY_TRANSPORT: "amqp" or "grpc"
  announced,  \* notices the scanner has put in the outbox
  outbox,     \* table outbox_rows
  events,     \* queue notifications
  marked,     \* dedup keys in Redis
  commands,   \* queue email.delivery, or the gRPC calls in progress
  mailing,    \* verification emails tried whose result is not reported yet
  emailed,    \* messages whose email the SMTP server took
  refused,    \* messages whose email it refused, to the last retry
  mishaps     \* failures outside the server so far

pvars == <<transport, announced, outbox, events, marked, commands, mailing, emailed,
           refused, mishaps>>
allvars == <<rows, saga, queued, req, results, claimed, stale, batch, faults,
             transport, announced, outbox, events, marked, commands, mailing, emailed,
             refused, mishaps>>

PInit ==
  /\ Init
  /\ transport \in {"amqp", "grpc"}
  /\ announced = {}
  /\ outbox = {} /\ events = {} /\ marked = {} /\ commands = {}
  /\ mailing = {} /\ emailed = {} /\ refused = {}
  /\ mishaps = 0

Mishap == faults + mishaps < MaxFaults /\ mishaps' = mishaps + 1
Healthy == faults + mishaps = 0

(***************************************************************************)
(* The server                                                              *)
(***************************************************************************)
(* A verification email, or its result, is still on its way. *)
InTransit(t) ==
  \/ t \in outbox \cup events \cup commands
  \/ \E r \in mailing \cup results \cup claimed : r.token = t

(* SAGA_STALE_AFTER is longer than an email takes when nothing fails: a     *)
(* saga gets stale with its email on its way only after a failure.          *)
AgesInTime == \A t \in stale' \ stale : ~Healthy \/ ~InTransit(t)

(* What a step of Onboarding does here: the event of a new saga is in the   *)
(* outbox.                                                                  *)
InServer ==
  /\ AgesInTime
  /\ faults' + mishaps <= MaxFaults
  /\ outbox' = outbox \cup (queued' \ queued)
  /\ UNCHANGED <<transport, announced, events, marked, commands, mailing, emailed,
                 refused, mishaps>>

ServerStep == Server /\ InServer

(* The scanner finds a release or a moved repository (see Scanner). *)
Announce(n) ==
  /\ announced = {}
  /\ announced' = {n}
  /\ outbox' = outbox \cup {n}
  /\ UNCHANGED vars
  /\ UNCHANGED <<transport, events, marked, commands, mailing, emailed, refused, mishaps>>

(* Relay: a row is published with its type as routing key and deleted.  An  *)
(* event no queue is bound for is confirmed and dropped.                    *)
Relay(m) ==
  /\ m \in outbox
  /\ events' = IF EventType(m) \in NotificationsEndpoint THEN events \cup {m} ELSE events
  /\ \/ outbox' = outbox \ {m} /\ UNCHANGED mishaps
     \/ UNCHANGED outbox /\ Mishap   \* the confirm is lost or the delete fails
  /\ UNCHANGED vars
  /\ UNCHANGED <<transport, announced, marked, commands, mailing, emailed, refused>>

(***************************************************************************)
(* The notifier                                                            *)
(***************************************************************************)
(* An event of unknown type, or one whose key is there: acked or parked. *)
Skip(m) ==
  /\ m \in events
  /\ m \in marked \/ EventType(m) \notin DOMAIN ToCommand
  /\ IF transport = "grpc" /\ m \in commands THEN Mishap   \* redelivered during the call
                                              ELSE UNCHANGED mishaps
  /\ events' = events \ {m}
  /\ UNCHANGED vars
  /\ UNCHANGED <<transport, announced, outbox, marked, commands, mailing, emailed, refused>>

(* The key is set and the command goes out.  Over AMQP the event is acked   *)
(* when the commands exchange has taken it; over gRPC it stays until the    *)
(* call returns.                                                            *)
Notify(m) ==
  /\ m \in events \ marked
  /\ EventType(m) \in DOMAIN ToCommand
  /\ marked' = marked \cup {m}
  /\ commands' = commands \cup {m}
  /\ events' = IF transport = "amqp" THEN events \ {m} ELSE events
  /\ UNCHANGED vars
  /\ UNCHANGED <<transport, announced, outbox, mailing, emailed, refused, mishaps>>

(* The publish fails and the key is rolled back: the event is retried, or   *)
(* parked; or the broker took the command all the same; or the notifier     *)
(* dies with the key set.                                                   *)
NotifyFails(m) ==
  /\ m \in events \ marked
  /\ Mishap
  /\ \/ events' \in {events, events \ {m}} /\ UNCHANGED <<marked, commands>>
     \/ transport = "amqp" /\ commands' = commands \cup {m} /\ UNCHANGED <<events, marked>>
     \/ marked' = marked \cup {m} /\ UNCHANGED <<events, commands>>
  /\ UNCHANGED vars
  /\ UNCHANGED <<transport, announced, outbox, mailing, emailed, refused>>

(***************************************************************************)
(* The mailer                                                              *)
(***************************************************************************)
(* The command's type as the mailer reads it. *)
Received(m) ==
  LET command == ToCommand[EventType(m)]
  IN  IF transport = "grpc" THEN ProtoToEvent(EventToProto(command)) ELSE command

Busy(m) == \E r \in mailing : r.token = m

(* Mutant: the error of the send is not looked at. *)
OutcomeIgnoresError(m, type) == [type |-> "delivered", token |-> m]

(* reportResult chooses the event by the error of the send. *)
Outcome(m, type) == [type |-> type, token |-> m]

(* The command is settled: acked over AMQP.  Over gRPC the call returns and *)
(* the notifier acks the event after "delivered"; after anything else it    *)
(* rolls the key back and the event is retried.                             *)
Done(m, type) ==
  /\ commands' = commands \ {m}
  /\ \/ transport = "amqp" /\ UNCHANGED <<events, marked>>
     \/ /\ transport = "grpc"
        /\ IF ProtoToOutcome(OutcomeToProto(type)) = "delivered"
             THEN events' = events \ {m} /\ UNCHANGED marked
             ELSE marked' = marked \ {m} /\ UNCHANGED events

(* Deliver sends the email; the outcome of a verification is then to be     *)
(* reported, a notice is settled at once.                                   *)
Send(m) ==
  /\ m \in commands /\ ~Busy(m)
  /\ Received(m) \in BuildEmail
  /\ emailed' = emailed \cup {m}
  /\ IF m \in Tokens
       THEN mailing' = mailing \cup {Outcome(m, "delivered")} /\ UNCHANGED <<commands, events, marked>>
       ELSE Done(m, "delivered") /\ UNCHANGED mailing
  /\ UNCHANGED vars
  /\ UNCHANGED <<transport, announced, outbox, refused, mishaps>>

(* Every try at SMTP fails.  For a verification that is final; a notice is  *)
(* retried by the broker (commands or events), or parked.                   *)
Refuse(m) ==
  /\ m \in commands /\ ~Busy(m)
  /\ refused' = refused \cup {m}
  /\ IF m \in Tokens
       THEN mailing' = mailing \cup {Outcome(m, "failed")} /\ UNCHANGED <<commands, events, marked, mishaps>>
       ELSE /\ Mishap
            /\ UNCHANGED mailing
            /\ IF transport = "amqp" THEN commands' \in {commands, commands \ {m}} /\ UNCHANGED <<events, marked>>
                                     ELSE Done(m, "failed")
  /\ UNCHANGED vars
  /\ UNCHANGED <<transport, announced, outbox, emailed>>

(* The result event is published, if a queue is bound for it, and Deliver   *)
(* returns.                                                                 *)
ReportResult(r) ==
  /\ r \in mailing
  /\ IF ResultType(r) \in OnboardingSagaEndpoint THEN Report(r) ELSE UNCHANGED vars
  /\ mailing' = mailing \ {r}
  /\ Done(r.token, r.type)
  /\ UNCHANGED <<transport, announced, outbox, emailed, refused, mishaps>>

(* Every try at reporting fails: the command is settled all the same.  Or   *)
(* the report goes out and the ack is lost.                                 *)
ReportFails(r) ==
  /\ r \in mailing
  /\ Mishap
  /\ mailing' = mailing \ {r}
  /\ \/ UNCHANGED vars /\ Done(r.token, r.type)
     \/ Report(r) /\ UNCHANGED <<commands, events, marked>>
  /\ UNCHANGED <<transport, announced, outbox, emailed, refused>>

(* The mailer dies.  Its commands are redelivered; its calls fail, and the  *)
(* notifier retries their events.                                           *)
MailerCrash ==
  /\ Mishap
  /\ mailing' = {}
  /\ IF transport = "amqp" THEN UNCHANGED <<commands, marked>>
                           ELSE commands' = {} /\ marked' = marked \ commands
  /\ UNCHANGED vars
  /\ UNCHANGED <<transport, announced, outbox, events, emailed, refused>>

(* The notifier dies.  Its calls are cancelled, which ends Deliver and what *)
(* it had to report; the keys stay.                                         *)
NotifierCrash ==
  /\ transport = "grpc"
  /\ Mishap
  /\ commands' = {} /\ mailing' = {}
  /\ UNCHANGED vars
  /\ UNCHANGED <<transport, announced, outbox, events, marked, emailed, refused>>

(***************************************************************************)
(* Specification                                                           *)
(***************************************************************************)
Deliver(m) == Relay(m) \/ Skip(m) \/ Notify(m) \/ NotifyFails(m) \/ Send(m) \/ Refuse(m)

PNext ==
  \/ ServerStep
  \/ \E n \in Notices : Announce(n)
  \/ \E m \in Messages : Deliver(m)
  \/ \E r \in Result : ReportResult(r) \/ ReportFails(r)
  \/ MailerCrash \/ NotifierCrash

PSpec == PInit /\ [][PNext]_allvars

(* Every service runs for ever (restart: unless-stopped): queues are        *)
(* worked on, the orchestrator takes results, the reaper ticks.             *)
PFairness ==
  /\ \A m \in Messages : WF_allvars(Deliver(m))
  /\ WF_allvars(\E r \in mailing : ReportResult(r) \/ ReportFails(r))
  /\ \A r \in Result : WF_allvars((Claim(r) \/ Settle(r)) /\ InServer)
  /\ \A t \in Tokens : WF_allvars((Age(t) \/ SweepCompensate(t)) /\ InServer)
  /\ WF_allvars(SweepQuery /\ InServer)

PFairSpec == PSpec /\ PFairness

(***************************************************************************)
(* Properties                                                              *)
(***************************************************************************)
(* A completed saga means that its verification email was sent, through     *)
(* duplicates, crashes and either transport: the saga never completes on    *)
(* an email that only came close (ADR 006, Commit point).                   *)
CompletedMeansSent ==
  \A t \in DOMAIN saga : saga[t] = "completed" => t \in emailed

(* As long as nothing fails, a subscription is cancelled only when its      *)
(* email was refused: no event, command or result is dropped or misrouted   *)
(* between the five stages.                                                 *)
CancelledMeansRefused ==
  \A t \in DOMAIN saga : saga[t] = "compensated" /\ Healthy => t \in refused

(* Every notice reaches its subscriber unless something fails: event types, *)
(* routing keys, bindings, command types and email types fit together from  *)
(* end to end (FR3).                                                        *)
NoticeArrives ==
  (announced # {}) ~> (announced \subseteq emailed \/ ~Healthy)
=============================================================================
