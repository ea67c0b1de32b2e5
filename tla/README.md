# Verification of the GitHub release notifier

TLA+ models of the service under `src/`, the TLC configurations that check them,
and TLAPS proofs. `PROJECT.json` lists components, runs, the map from
definitions to source lines, hazards, findings and theorems; this file says how
to read them.

## 1. The system

Three processes: the **server** (HTTP API, scanner, outbox relay, saga
orchestrator, reaper), the **notifier** and the **mailer**. They share
PostgreSQL (server only), RabbitMQ and Redis, and call each other through the
broker; the notifier may call the mailer over gRPC instead
(`NOTIFIER_DELIVERY_TRANSPORT`).

```
 POST /subscribe ─┐  one transaction: row + saga + outbox event
 scanner ─────────┴─> outbox_rows ──relay──> events exchange
                                               │ notifications queue + tiers + DLQ
                                               v
                         Redis dedup key <─ notifier ──> commands exchange, or gRPC Send
                                                           │ email.delivery queue + tiers + DLQ
                                                           v
   orchestrator <── onboarding.saga queue <── result ── mailer ──> SMTP
        │  completes or compensates (C1)
        v
   onboarding_sagas, subscriptions <── reaper (stale sagas), GET /confirm, GET /unsubscribe
```

| Part (source) | State it keeps | Operations | What is hard about it | What makes it correct |
|---|---|---|---|---|
| Subscription handlers (`transport/http/handlers`) | `subscriptions`, `repositories` | Subscribe, Confirm, Unsubscribe, resolveOrCreateRepo | read and write are separate statements and `Save` writes every column of a stale copy | a pending row always has a path forward; a bearer token exists exactly once confirmed |
| Orchestrator (`worker/orchestrator`) | `onboarding_sagas`, the claimed result | claim, MarkCompleted, Compensate | claim is a read, settle a later write; results repeat, arrive late, contradict each other | a saga is settled once; C1 takes its pending row and nothing else |
| Reaper (`worker/orchestrator/reaper.go`) | the sweep's token list | sweep | the list is stale when used; errors in mid-loop | every saga ends |
| Outbox and relay (`infra/outbox`) | `outbox_rows`, the current batch | InsertTx, deliver | ids are drawn before commit; publish and delete are not atomic | no committed event lost, causal order kept, every committed event relayed and then no longer pending |
| Consumer endpoint (`infra/rabbitmq`) | main queue, tiers, DLQ, unacked copies | Ack, Retry, DeadLetter, requeue | confirm lost after the broker took a copy; the channel closes under a handler | nothing lost, nothing parked early, nothing circulates for ever |
| Notifier (`worker/notifier`, `infra/redis/dedup.go`) | dedup keys | process | three systems and no transaction | one confirmed command per event; no event lost |
| Mailer (`worker/mailer`) | SMTP and report retry loops | Deliver, process | outcome, report and ack are separate; SIGTERM cancels all three | no outcome claimed for an unsent email; every verification gets one |
| Scanner (`worker/scanner`) | `repositories`, channel, limiter | Produce, ProcessRepo, UpdateScanStatus, MarkMovedAndUnsubscribe, recovery | copies of rows in a channel; subscribers change during a scan; rate limits; crashes | a saved tag was announced, once, to everyone; every release is announced |
| GitHub client and transports (`api/github`), quota (`worker/scanner/quota.go`) | Redis cache, last known limits, limiter | RoundTrip (cache, limits, auth), Refresh, Wait | one cache and one set of limits for conditional and plain requests; answers overtake each other; limits come only with answers | it hibernates for a reason and not for ever; a row sees the latest release and never an older one |
| RabbitMQ connection (`infra/rabbitmq/connection.go`) | the current connection | connect, watchAndReconnect, Channel, Close | breaks at any point: while declaring, before anybody listens, during shutdown | no leak, topology before use, consumers come back and stop |
| The pipeline as a whole (events, commands, bindings, gRPC) | queues between the services | relay, process, Send, report | five stages that agree on names, at-least-once each, failing one by one | a saga's end says what happened to its email; notices arrive |
| HTTP server, configuration, logging, metrics | | | | not modelled, see section 8 |

## 2. Modules

| Module | Models | Runs | Proofs |
|---|---|---|---|
| `SagaContract` | abstract: what onboarding promises | through `ImplementsContract` | |
| `Onboarding` | handlers, orchestrator, reaper, their tables | `onboarding`, `onboarding_stale_subscribe` | `OnboardingProofs` |
| `Endpoint` | abstract: one consumer endpoint with any handler | through `ImplementsEndpoint` | `EndpointProofs` |
| `Notifier` | EXTENDS `Endpoint` with the notifier's handler and Redis, and implements it | `notifier`, `notifier_crash` | `NotifierProofs` |
| `Mailer` | EXTENDS `Endpoint` with the mailer's handler | `mailer` | `MailerProofs` |
| `Outbox` | the table and the relay | `outbox` | `OutboxProofs` |
| `Pipeline` | EXTENDS `Onboarding` with the stages an email passes, over AMQP or gRPC | `pipeline` | `OnboardingProofs` |
| `Scanner` | producer, workers, limiter, GitHub, several instances | `scanner`, `scanner_lost` | `ScannerProofs` |
| `GitHubClient` | cache, rate-limit and auth transports, quota manager, their callers | `github`, `github_starved` | `GitHubClientProofs` |
| `Connection` | the reconnecting connection and the consumers on it | `connection` | `ConnectionProofs` |

`MC<Module>.tla` instantiate them; each `.cfg` is one question.

**How code became actions.** A function is split wherever another actor can get
in between: after every SQL statement outside a transaction, every call to
Redis, the broker, SMTP or GitHub. What runs inside one database transaction is
one step: under READ COMMITTED the conditional `UPDATE ... WHERE state =
'awaiting_delivery'` takes the row lock, so the transactions that settle a saga
are serialised by it. Requests that write nothing (404, 409, an active row
confirmed again) are left out of `Onboarding`: they end before the step that
would change something.

**Assumptions about libraries** (marked external in the map):

- GORM v1.31 `Save` of a record with a primary key updates every column of the
  live row and, when that matches no row, inserts with `ON CONFLICT (id) DO
  UPDATE`. So `SaveRow` always leaves the row equal to the caller's copy, and
  brings a soft-deleted row back. Queries add `deleted_at IS NULL`, and `Delete`
  of a record that embeds `gorm.Model` sets `deleted_at`: `outbox.Row` does, so
  the relay's delete (`relay.go:70`) only makes a row no longer pending
  (`deleted`, `Pending` in `Outbox`), and `outbox_rows` keeps every row for ever.
- PostgreSQL sorts NULL last in ascending order, so `ClaimIdle` (`store.go:50`)
  comes to repositories that were never scanned after all that are due again.
- RabbitMQ redelivers unacked copies when a channel closes; queues keep no order
  a property relies on, so they are bags (`Endpoint`) or a set (`results` in
  `Onboarding`, where a second equal result is the lost ack of the first).
- A publish that returns an error may have been taken: refused, nacked, timed
  out and cancelled publishes are one choice with both outcomes.
- `golang.org/x/time/rate` v0.15: `Wait` reserves at the limit of the moment
  and sleeps that long; the package documents that waits in progress are not
  adjusted by `SetLimit`. At limit 0 a wait without a token left has no end.
- In `Notifier`, the confirm of the command and the ack of the event are one
  step; a channel that closes before it, or a crash, is `Detach` or `Die`.
  `orphaned` and `forgotten` are history variables; no action reads them.
- `amqp091-go`: `NotifyClose` on a connection that has ended closes the receiver
  at once and sends no error; on an open one it sends the error first, and none
  after `Close`.
- GitHub: a 304 costs no quota; a secondary limit answers 403 with
  `Retry-After` and without the `X-RateLimit` headers; a reset time that was
  told stays the same within a window.

**How the modules fit.** `Endpoint` is both a component and the abstract
specification of a consumer: `Notifier` has its variables and a handler in
place of its nondeterministic one, a handler's own failure being Endpoint's
`Stumble`. `Pipeline` takes `Onboarding` whole: its `Server` steps are steps of
the pipeline (`InServer` puts the event of a new saga in the outbox), and its
`Report`, which in `Onboarding` may happen at any time, happens when the mailer
has something to report. The stages in between are reduced to what they hand
on, with the mishaps that `Outbox`, `Notifier` and `Mailer` model in detail:
a lost confirm, a failed publish, a parked message, a key without a command,
a report given up, a crash. `GitHubClient` and `Scanner` split the scanner: the
first has the requests and what they share, the second the rows, workers and
subscribers. What the first takes from the second is one worker at a time at a
repository (`NoDoubleScan`) and `Due`, which is `ClaimIdle`'s condition on
`MinInterval` seen from the cache. A crash in the middle of a scan is in
`Scanner` alone.

**Left out as data**: email text, JSON, repository names, tag strings (a release
is the number of releases so far, an ETag the release it was given for), the
repository's own ETag (200 with the same id and 304 do the same), the length of
every timeout and TTL. Of `last_scanned_at` `Scanner` keeps whether it is NULL,
within `MinInterval` of now or older (`scanned`; `Age` is the clock): that
decides what `ClaimIdle` selects, except which of several due rows comes first,
which is left open. The batch the quota allows is a constant (`BatchSize`). In `GitHubClient` a page is the number of its
version, times are "past" or to come, and a rate is 0 or positive.

## 3. Runs

Passing:

- `onboarding` (one email, repository and API token, two row ids, two tokens,
  two concurrent requests, one fault): every interleaving of two handlers' reads
  and writes with both results, the reaper, a moved repository, and a database
  error or a restart. Two of each is the smallest instance in which a stale
  copy, a superseded token and a resurrected row meet; the proofs cover more. Checks `PendingIsTracked`, `DeletedMeansCompensated`,
  `ApiTokenOnlyOnceConfirmed`, `SettledOnce`, `CompensationIsConfined`, and the
  refinement `ImplementsContract`. Rows, tokens and requests are symmetric.
- `pipeline` (`Onboarding` with one request and one token, one notice, either
  transport, one mishap anywhere): `CompletedMeansSent`, `CancelledMeansRefused`,
  `NoticeArrives`, and Onboarding's `EverySagaSettles` and `PendingGetsAPath`,
  where results are lost because a stage lost them. `CancelledMeansRefused`
  rests on `AgesInTime`: while nothing fails, no saga gets stale with its email
  on the way (`SAGA_STALE_AFTER_SECONDS`, 1800, against seconds of processing).
- `notifier` (a good and a poison event, two consumers, two tiers, all kinds of
  fault, three faults): a failed publish, a failed rollback and a duplicate or
  closed channel combine. Checks `ConfirmedAtMostOnce`, `EventIsNotLost`,
  `NothingLost`, `ParkedIsExhausted`, `EveryEventSettles`, and
  `ImplementsEndpoint`, the refinement of `Endpoint` with its fairness.
- `mailer` (a verification, a notice and a poison command, two SMTP tries, three
  report tries, two faults): `NothingClaimedUnsent`,
  `EveryVerificationReported`. There are fewer faults than report tries, which
  is what that property assumes.
- `outbox` (four rows, batches of two, two faults): a full batch, a partial
  batch and rows that commit between them. Checks `OrderIsPreserved`,
  `CommittedIsKept`, and `PendingIsRelayed`: every committed event is published
  and its row no longer pending, in the end.
- `scanner` (one instance as in `docker-compose.yml`, two repositories, one
  worker, a channel and batches of two, one restart or API error): `NoDoubleScan`,
  `AnnouncedOnce`, `EveryReleaseIsAnnounced`. A batch has room for both
  repositories, a restart's recovery succeeds and the quota is not used up; the
  list below says what happens otherwise.
- `scanner_lost` (two instances, two releases, two faults of any kind but a
  failed subscriber query; a restart's recovery may fail):
  `ReleaseIsAnnounced`.
- `github` (one worker, one subscribe request at a time, two requests per window,
  one lost answer or secondary limit, Redis errors at any time, entries that live
  shorter than `MinInterval`): every order in which two requests are sent,
  recorded and cached, across resets of the window and expiring entries. Checks
  `LimitsNeverUnderstate`, `ReleaseNeverGoesBack` and `ReleaseIsSeen`. Redis
  errors are not counted, so a scan whose `Get` and `Set` both fail does leave an
  older 200 in the cache than the row has. A scan that finds something new takes
  at most the two requests of a window, all of them usable; so a scan that saved
  nothing could go on for ever without the limits being low (the mutant).
  Subscribe requests are not throttled and can use up every window before a scan
  does, so `ReleaseIsSeen` asks that they cease.
- `connection` (two consumers, four failures): `NothingLeaks`, `OnlyDeclared`,
  `ConsumersReconnect`, `ConsumersStop`. Four failures break a connection, the
  one that follows it while it is declared, and the one after that before
  anybody listens. `ConsumersReconnect` leaves out `Deaf`, see below.

Deadlock is not checked: the bounds on faults, rows and releases let a behaviour
stop when everything is done.

Every bound is a constant: `MaxFaults`, `MaxRows`, `MaxReleases`, `MaxVersion`, and the sizes
of the sets. `FaultKinds` chooses which kinds of failure a run lets happen.

Violations, each a place where the code does not do what a comment or document
says (`PROJECT.json`, findings):

- `onboarding_stale_subscribe`: Subscribe reads a pending row, Confirm activates
  it, Subscribe saves its copy: the confirmed subscription is pending again and
  its API token gone.
- `notifier_crash`: dedup key, crash, redelivery, "duplicate", ack. The event is
  lost, although `docs/system_design.md` says never.
- `github_starved`: a response leaves `Remaining` within the reserve; the window
  is reset, but the scanner, at rate 0, sends no request that would tell it so.
  Only a subscribe request for a repository without a row ends it, or a restart.
  It makes no difference whether the low answer was recorded before the reset or
  after it: `Refresh` obeys `Remaining` either way (`quota.go:70-79`).

Other behaviour the models show, without a run of its own. Changing the property or
the constants of a configuration as described reproduces what TLC can refute:

- Two instances in `scanner` (`Instances = {s1, s2}`, `Home <- TwoHomes`):
  `RecoverStuckRepos` of the one that starts resets the claims of the other, and
  both scan the repository; `NoDoubleScan` and then `AnnouncedOnce` fail. The
  comment at `store.go:42` ("so concurrent scanners never claim the same repos")
  and ADR 002 ("no two worker instances process the same repo") do not hold of a
  second instance; `docker-compose.yml` starts one.
- `FaultKinds = {"query"}` in `scanner`, or added to `scanner_lost`:
  `ReleaseIsAnnounced` fails. `handleNewRelease` swallows the error of
  `GetActiveSubscriptions`, the new tag is saved without events and the release
  is never announced (`processor.go:107`, against FR3 and the "self-healing" of
  `docs/system_design.md:119`).
- `BatchSize = 1` and `QueueSize = 1` in `scanner`: `EveryReleaseIsAnnounced`
  fails without any fault. One repository is due again at every tick, and the
  other, which was never scanned and so sorts last, is passed over for ever.
  Without a GitHub token the quota (60 an hour) gives a batch of one per tick of
  60 s, and `MinInterval` is 900 s: it takes more than 15 repositories.
- `FaultKinds = {"quota"}` in `scanner`: the limiter goes to 0 with a claimed copy
  in the channel; the worker that takes it sleeps on when the limit is raised
  (`quota.go:101`). `EveryReleaseIsAnnounced` fails: that repository is not
  scanned again before a restart, and with every worker asleep none is. So a
  hibernation does not end "when the window resets" for scans already claimed.
- A confirmation between `GetActiveSubscriptions` and `MarkMovedAndUnsubscribe`
  is undone without a notice (`Scanner`: `Relocate`, the read of
  `HandleRepoMoved`, `Confirm`, the write), although `processor.go:128-130` says
  a subscriber never is.
- `ConsumersReconnect` without `Deaf`: a connection that breaks between `connect`
  and `NotifyClose` (`connection.go:88`) is taken for a clean shutdown. Nobody
  reconnects, and `Consumer.Start` goes round its loop without a pause, until
  the process is restarted (against `docs/system_design.md:87`). `Close` in the
  middle of a reconnect closes the old connection and leaves the new one open.
- `MinInterval = 1` or a second worker in `github`: `ReleaseNeverGoesBack` fails,
  for a scan finds a 200 in the cache that is older than its row. Redis entries
  live 600 s and a repository is scanned every 900 s by default; nothing in the
  configuration keeps the two apart.
- A cached 304 is given to a subscribe request, which did not ask conditionally
  and answers "repository not found"; a cached 403 freezes the limiter again for
  as long as it is kept.
- Over gRPC a refused verification is reported as failed, and the notifier, to
  which the call failed, retries the event: the email may arrive after its
  subscription was cancelled (ADR 006 calls the failure terminal). A notifier
  that stops cancels its calls, and with them the report of a sent email.
- `claim` or `update` added to `scanner`: the repository stays "processing"
  until the next restart (`store.go:67`, `processor.go:38`).
- `recover` added to `scanner`: a recovery that fails is only logged
  (`scanner.go:83-86`), and what a crash left "processing" stays so until a later
  restart.
- `rename` added to `scanner`: the full-row `SaveRepo` of `resolveOrCreateRepo`
  undoes a tag saved in between, and the release is announced twice.
- `body` added to `scanner`: a 200 that does not decode is taken for a moved
  repository, or for a release with the empty tag.
- `Confirm` activates an unsubscribed row again when its old link is opened.
- The notifier publishes a command twice when a confirm is lost (`taken`, as
  opposed to `confirmed`), and loses an event when the rollback of the key fails
  as well. On shutdown both calls share the cancelled context.
- A shutdown of the mailer reports a verification as failed before its SMTP
  retries are exhausted.

## 4. Fairness

Weak fairness of the steps that a running process takes by itself: the reaper's
and the relay's tickers, consumers and handlers (every outside call has a
timeout), the broker's deliveries and TTLs, transactions that end, workers, the
quota that is reset every hour, a broker that comes up again. None for HTTP
requests, GitHub's changes or faults. In `Scanner` the clock (`Age`) and the
producer's tick as a whole (`\E b : Produce(s, b)`) are weakly fair: no
repository is promised its turn, which rows a claim takes is up to `Selected`.
Strong fairness is assumed of `Take` alone, for the channel is first in, first
out: a copy waits for those before it while workers become free and busy again,
and then is taken. In
`pipeline` a stage is fair as a whole, so that it does its work or fails, and
failures are bounded; `restart: unless-stopped` justifies that every service is
there in the end.

## 5. Proofs

All theorems hold for every value of the constants under the named assumptions:
the null values are not values (`NullsAssumption`), bounds are natural numbers
(`MaxFaultsAssumption`, `ConnectionAssumption`), a confirm token is not the name
of a notice (`NoticesAssumption`), and what `EndpointAssumption`,
`MailerAssumption`, `OutboxAssumption`, `GitHubAssumption` and
`ScannerAssumption` say of the sets and limits of their modules. So they hold
for any number of requests, rows, tokens, messages, consumers, tiers, instances,
workers, releases and failures. Three theorems about the scanner and one about
the GitHub client have hypotheses of their own, given below.

- `OnboardingProofs`, first part. `PendingIsTracked` is not inductive by itself:
  a request may save anything it holds. `IInv` adds `RequestsWellFormed` (a
  request holds a live row in the state its handler gave it: only Subscribe
  writes a pending one, together with a fresh saga), and the row invariants
  `DeletedMeansCompensated`, `ApiTokenOnlyOnceConfirmed` and
  `LiveRowsAreUnique`. The last one says the token of a resurrected row belongs
  to no other live row. One lemma per action shows that it keeps `IInv`. From it
  follow the four invariants, the action properties `SettledOnce` and
  `CompensationIsConfined`, and `Refinement`: every step maps to a step or a
  stutter of `SagaContract`.
- `OnboardingProofs`, second part, about `Pipeline`. `PipelineRunsOnboarding`:
  every step of the pipeline is a step of Onboarding or leaves its variables
  alone, so everything above holds inside the pipeline. `CompletedMeansSent`
  needs `ResultsAreTrue` (a result that waits to be reported or settled says
  what the SMTP server did). `CancelledMeansRefused` needs
  `OpenSagasAreCarried`: as long as nothing failed, the email of an open saga or
  its outcome is at one of the stages, beyond the notifier once its dedup key is
  set (or the notifier would skip a redelivered event with nothing behind it),
  and the reaper has not seen the saga as stale. `Bookkeeping` makes a new
  token new to every table, and a claimed result one that was not acked. That
  every event type is bound, has a command and is known to the mailer on either
  link is the lemma `TypesFit`.
- `EndpointProofs`. `EInv` is `TypeOK`, `NothingLost` and `ParkedIsExhausted`.
  The argument of `NothingLost` is per copy (`KeepsCopies`): a step may make a
  copy disappear only if another copy of its message is there afterwards or its
  message was acked. The lemmas are about single actions, so that handlers
  reuse them.
- `NotifierProofs`. `NotifierRefinesEndpoint`: every step of the notifier is a
  step of `Endpoint` or leaves its variables alone (`RejectPoison` is a
  `DeadLetter`, an ack after a duplicate an `Ack`, a failure of Redis a
  `Stumble`), so `NothingLost` is inherited. `ConfirmedAtMostOnce` needs
  `KeyIsOwned`: unless its key expired, an event has at most one goroutine
  between `MarkProcessed` and the outcome of the publish, its key is set
  meanwhile, and a confirmed event's key stays set. `EventIsNotLost` needs
  `Custody`: the event of a set key that is not orphaned has a command or a
  goroutine that will publish it or roll the key back (`MarkedIsOwned`), so the
  duplicate that finds the key set may be acked.
- `MailerProofs`. `MailerRefinesEndpoint` in the same way; `NothingLost` and
  `ParkedIsExhausted` are inherited (`MailerLosesNothing`).
  `NothingClaimedUnsent` needs `StepsAreWarranted`: a goroutine that reports a
  delivery, or is about to ack a notice, has an email out.
- `OutboxProofs`. `OrderIsPreserved` needs three facts about a batch that was
  read before other transactions committed: rows committed before another have
  smaller ids and are in the table (`BeforeIsCommitted`), a batch is a piece of
  the table, in which only published rows are deleted (`BatchIsCommitted`), and
  with a row it has everything before it that is not yet published
  (`BatchIsClosed`); the relay publishes from the smallest id on. `CommittedIsKept` follows from the same invariant.
- `ConnectionProofs`. `Dialled(k)`: connections 1 to k were dialled, only the
  last may be open, and every one given up is paid for by a failure (so k stays
  within the bound); where the watcher is decides whether the last one is
  current. `NothingLeaks` and `OnlyDeclared` follow.
- `GitHubClientProofs`. `LimitsNeverUnderstate` needs `LimitsCover`: not only
  the recorded limits, also those of every answer still to be recorded that was
  given in the running window, say at least what is left of it; so the order of
  recording does not matter. `ReleaseNeverGoesBack` is proved for one worker at a
  time and `TTL < MinInterval`, with any number of subscribe requests and
  failures. `ReleasesRise`: a scan has the release of its row in hand, or one
  that GitHub told it and that is no older; and while it is under way the cache
  holds no 200 for the release, for what the scan before left there expired
  before the row was due.
- `ScannerProofs`. Every step of a worker but its two writes is one of five ways
  to advance its copy (`Advances`), which keeps the proofs short. Four results:
  - `TypeOK` always.
  - `ReleaseIsAnnounced`, for any number of instances, if no query for the
    subscribers fails (`"query" \notin FaultKinds`; with it the code does miss
    releases, section 3). `HandledIsTold`: what a row, the copy POST /subscribe
    holds or a scan says was handled was announced, or is in the events of the
    transaction that will save it; `TagsExist` (a tag is never above GitHub's)
    lets a new subscriber count from the latest release on.
  - `NoDoubleScan` for one instance without a renamed repository saved over a
    claim. `ScansAreMarked`: the row of every copy is "processing", and a
    restart takes all copies with the marks.
  - `AnnouncedOnce` for one instance, in addition without undecodable answers
    (both hypotheses are needed: TLC shows the second announcement without
    either). `Ahead`: a scan with something to announce has a tag above its
    row's, and no tag above a row's was ever announced.

The inductive invariants were checked by TLC, on the instances of the runs,
before they were proved.

## 6. Only model-checked

Liveness under fairness (`EverySagaSettles`, `PendingGetsAPath`, `NoticeArrives`,
`EveryEventSettles`, `EveryVerificationReported`, `PendingIsRelayed`,
`EveryReleaseIsAnnounced`, `ReleaseIsSeen`, `ConsumersReconnect`,
`ConsumersStop`, and the fairness part of `ImplementsEndpoint`) is outside what
TLAPS proves here. So are the counterexamples of the
violation runs, which are about one instance each.

## 7. Plan

In this order:

1. Proofs: the safety part of `ImplementsEndpoint` under its own name; that the
   stages of `Pipeline` are what `Notifier` and `Mailer` hand on.
2. Repository rows: `resolveOrCreateRepo` with both unique indexes against a
   scanner that deletes moved rows.

The times that decide whether a slow email is cancelled are not in the models.
With the defaults (`RABBITMQ_RETRY_TTL_SECONDS` 30, factor 2, five tiers) a
message spends up to 30 + 60 + 120 + 240 + 480 = 930 s in the tiers of one
endpoint. A verification passes `notifications` and its result
`onboarding.saga`; a notice passes `email.delivery` as well. 1860 s exceed
`SAGA_STALE_AFTER_SECONDS` (1800), which ADR 006 says "must comfortably outlast"
them: only a saga that meets failures on both endpoints gets that far.

## 8. Not modelled

- Creating a repository row (`CreateRepo`) and `GET /subscriptions`, which only
  reads. One sequence there is worth knowing: Subscribe finds a repository row,
  the scanner deletes it as moved, Subscribe writes its subscription for it.
  That row is never scanned, and `GET /subscriptions` leaves it out.
- `SendStream` of the gRPC server: no service calls it, only the load test.
- The rate `Refresh` computes, beyond its being 0 or not; backoff times; TTLs.
- The SMTP protocol: `SendEmail` is its outcomes.
- HTTP routing, metrics, configuration, logging, utilities, the load test and
  the architecture test keep no state that a property here is about. Two
  details met on the way: the variable read for the error lifetime is spelt
  `GITHUB_CACHE_ERROR_TTL_SECODS`, and an outcome the gRPC client does not know
  becomes the empty string and not "failed" as the comment at
  `grpc/mailer/mapping.go:32` has it; either is an error to the notifier.
