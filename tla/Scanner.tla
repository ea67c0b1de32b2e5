------------------------------ MODULE Scanner -------------------------------
(***************************************************************************)
(* The scanner (worker/scanner) of one or more server instances: the       *)
(* producer claims idle repositories and puts a copy of each in the        *)
(* channel, workers check the copy against GitHub and save the outcome.    *)
(* A worker's database reads, its requests and its write are separate      *)
(* steps: subscriptions, GitHub, other instances and POST /subscribe (which*)
(* saves repositories too) change in between.                              *)
(*                                                                         *)
(* A release is the number of releases so far, and an ETag the release it  *)
(* was given for.  Of last_scanned_at a row keeps what ClaimIdle asks: is  *)
(* it NULL, within MinInterval of now, or older.                           *)
(***************************************************************************)
EXTENDS Integers, FiniteSets

CONSTANTS
  Repos,       \* repositories.id
  Emails,      \* subscribers
  Instances,   \* server instances sharing the database
  Slots,       \* places for a claimed copy, in the channel or with a worker
  Home,        \* slot -> its instance
  QueueSize,   \* cap(repoQueue)
  BatchSize,   \* repositories the quota allows for a tick of the producer
  Workers,     \* workers of an instance
  FaultKinds,  \* kinds of failure that can happen, of AllFaults
  MaxFaults,   \* bound: failures in a behaviour
  MaxReleases  \* bound: releases of a repository

(* restart: an instance (re)starts; recover: its RecoverStuckRepos may fail;*)
(* api: GitHub answers with an error; quota: it answers 403 or 429, or its  *)
(* quota is used up; claim, query, update: the database fails in Find after *)
(* the claim, in GetActiveSubscriptions, in a write; rename: POST /subscribe*)
(* saves a repository it found by its GitHub id; body: a 200 that does not  *)
(* decode.                                                                  *)
AllFaults == {"restart", "recover", "api", "quota", "claim", "query", "update", "rename", "body"}

ASSUME ScannerAssumption ==
  /\ Home \in [Slots -> Instances]
  /\ QueueSize \in Nat /\ BatchSize \in Nat \ {0} /\ Workers \in Nat
  /\ FaultKinds \subseteq AllFaults
  /\ MaxFaults \in Nat /\ MaxReleases \in Nat

VARIABLES
  repos,      \* table repositories
  subs,       \* table subscriptions: repository -> email -> status
  jobs,       \* claimed copies: slot -> copy and how far its worker is
  saving,     \* the repository row POST /subscribe has read and will save
  frozen,     \* instances whose limiter is at 0
  latest,     \* GitHub: repository -> its latest release, 0 for none
  gone,       \* GitHub: repositories whose path belongs to another one now
  since,      \* repository -> email -> latest release when it became active
  announced,  \* repository -> email -> release -> release.detected events
  noticed,    \* repository.moved events: <<repository, email>>
  faults      \* failures so far

vars  == <<repos, subs, jobs, saving, frozen, latest, gone, since, announced, noticed, faults>>
world == <<latest, gone, since>>
out   == <<announced, noticed>>

Releases == 0..MaxReleases
Repository == [status: {"idle", "processing"}, scanned: {"never", "recent", "due"},
               tag: Releases, etag: Releases, deleted: {"no", "yes"}]

(* A worker's progress through ProcessRepo; "stuck" is a wait without end. *)
Steps == {"queued", "wait", "stuck", "check", "release", "readers", "moved", "unsubscribe", "save"}
Job == [repo: Repos, tag: Releases, etag: Releases, step: Steps, pending: SUBSET Emails]

TypeOK ==
  /\ repos \in [Repos -> Repository]
  /\ subs \in [Repos -> [Emails -> {"active", "inactive"}]]
  /\ DOMAIN jobs \subseteq Slots
  /\ jobs \in [DOMAIN jobs -> Job]
  /\ DOMAIN saving \subseteq Repos
  /\ saving \in [DOMAIN saving -> Repository]
  /\ frozen \subseteq Instances
  /\ latest \in [Repos -> Releases]
  /\ gone \subseteq Repos
  /\ since \in [Repos -> [Emails -> Releases]]
  /\ announced \in [Repos -> [Emails -> [Releases -> Nat]]]
  /\ noticed \subseteq Repos \X Emails
  /\ faults \in 0..MaxFaults

Init ==
  /\ repos = [i \in Repos |-> [status |-> "idle", scanned |-> "never", tag |-> 0, etag |-> 0,
                           deleted |-> "no"]]
  /\ subs = [i \in Repos |-> [e \in Emails |-> "inactive"]]
  /\ jobs = [j \in {} |-> 0]
  /\ saving = [i \in {} |-> 0]
  /\ frozen = {}
  /\ latest = [i \in Repos |-> 0]
  /\ gone = {}
  /\ since = [i \in Repos |-> [e \in Emails |-> 0]]
  /\ announced = [i \in Repos |-> [e \in Emails |-> [n \in Releases |-> 0]]]
  /\ noticed = {}
  /\ faults = 0

Fault(kind) == kind \in FaultKinds /\ faults < MaxFaults /\ faults' = faults + 1
Drop(f, x)  == [z \in DOMAIN f \ {x} |-> f[z]]

Live == {i \in Repos : repos[i].deleted = "no"}
Active(i) == {e \in Emails : subs[i][e] = "active"}

(* Copies of instance s in the channel, and with its workers. *)
Queued(s)  == {j \in DOMAIN jobs : Home[j] = s /\ jobs[j].step = "queued"}
Running(s) == {j \in DOMAIN jobs : Home[j] = s /\ jobs[j].step # "queued"}

(***************************************************************************)
(* Around the scanner: GitHub, the subscription handlers                   *)
(***************************************************************************)
PublishRelease(i) ==
  /\ latest[i] < MaxReleases
  /\ latest' = [latest EXCEPT ![i] = @ + 1]
  /\ UNCHANGED <<repos, subs, jobs, saving, frozen, gone, since, faults>> /\ UNCHANGED out

Relocate(i) ==
  /\ i \notin gone
  /\ gone' = gone \cup {i}
  /\ UNCHANGED <<repos, subs, jobs, saving, frozen, latest, since, faults>> /\ UNCHANGED out

(* MinInterval passes since the last scan (of rows that are being scanned   *)
(* nobody asks).                                                            *)
Age(i) ==
  /\ repos[i].status = "idle" /\ repos[i].scanned = "recent"
  /\ repos' = [repos EXCEPT ![i].scanned = "due"]
  /\ UNCHANGED <<subs, jobs, saving, frozen, faults>> /\ UNCHANGED world /\ UNCHANGED out

(* Confirm and Unsubscribe write a subscription (see Onboarding). *)
Confirm(i, e) ==
  /\ subs[i][e] # "active"
  /\ subs' = [subs EXCEPT ![i][e] = "active"]
  /\ since' = [since EXCEPT ![i][e] = latest[i]]
  /\ UNCHANGED <<repos, jobs, saving, frozen, latest, gone, faults>> /\ UNCHANGED out

Unsubscribe(i, e) ==
  /\ subs[i][e] = "active"
  /\ subs' = [subs EXCEPT ![i][e] = "inactive"]
  /\ UNCHANGED <<repos, jobs, saving, frozen, faults>> /\ UNCHANGED world /\ UNCHANGED out

(* resolveOrCreateRepo under a new path: FindRepoByGitHubID reads the row   *)
(* and SaveRepo writes every column of it back.                             *)
FindRepoByGitHubID(i) ==
  /\ Fault("rename")
  /\ i \in Live \ DOMAIN saving
  /\ saving' = [k \in DOMAIN saving \cup {i} |-> IF k = i THEN repos[i] ELSE saving[k]]
  /\ UNCHANGED <<repos, subs, jobs, frozen>> /\ UNCHANGED world /\ UNCHANGED out

SaveRepo(i) ==
  /\ i \in DOMAIN saving
  /\ repos' = [repos EXCEPT ![i] = saving[i]]
  /\ saving' = Drop(saving, i)
  /\ UNCHANGED <<subs, jobs, frozen, faults>> /\ UNCHANGED world /\ UNCHANGED out

(***************************************************************************)
(* The producer                                                            *)
(***************************************************************************)
(* Refresh finds no quota and the limiter goes to 0. *)
Hibernate(s) ==
  /\ Fault("quota")
  /\ frozen' = frozen \cup {s}
  /\ UNCHANGED <<repos, subs, jobs, saving>> /\ UNCHANGED world /\ UNCHANGED out

(* Refresh sets a positive limit, and there is no room in the channel or    *)
(* nothing to claim.                                                        *)
Refresh(s) ==
  /\ s \in frozen
  /\ frozen' = frozen \ {s}
  /\ UNCHANGED <<repos, subs, jobs, saving, faults>> /\ UNCHANGED world /\ UNCHANGED out

Fresh(i) == [repo |-> i, tag |-> repos[i].tag, etag |-> repos[i].etag,
             step |-> "queued", pending |-> {}]

(* Mutants: the claim writes a status nothing else knows, or no status. *)
ClaimedOtherStatus(b) ==
  [i \in Repos |-> IF i \in b THEN [repos[i] EXCEPT !.status = "running", !.scanned = "recent"]
                              ELSE repos[i]]
ClaimedUnmarked(b) ==
  [i \in Repos |-> IF i \in b THEN [repos[i] EXCEPT !.scanned = "recent"] ELSE repos[i]]

Claimed(b) ==
  [i \in Repos |-> IF i \in b THEN [repos[i] EXCEPT !.status = "processing", !.scanned = "recent"]
                              ELSE repos[i]]

(* The rows a claim of s may find locked: SKIP LOCKED passes them over. *)
Locked(s) == IF Instances = {s} THEN DOMAIN saving ELSE Repos

(* ClaimIdle's SELECT for up to n rows gives b: idle rows that are not      *)
(* locked and were not scanned within MinInterval.  In ascending order of   *)
(* last_scanned_at, PostgreSQL has NULL last: a row that was never scanned  *)
(* is taken when every other one is.  (Which of the others come first is    *)
(* left open.)                                                              *)
Selected(b, n, locked) ==
  LET open == {i \in Live \ locked : repos[i].status = "idle" /\ repos[i].scanned # "recent"}
      due  == {i \in open : repos[i].scanned = "due"}
  IN  /\ b \subseteq open
      /\ IF Cardinality(open) <= n THEN b = open ELSE Cardinality(b) = n
      /\ b \subseteq due \/ due \subseteq b

(* Produce: Refresh sets a positive limit; ClaimIdle marks rows, no more    *)
(* than the channel has room for, in a transaction, and reads them; copies  *)
(* go to the channel.  An error of that second read is not looked at:       *)
(* nothing is put there.                                                    *)
Produce(s, b) ==
  LET room == QueueSize - Cardinality(Queued(s))
      n    == IF BatchSize <= room THEN BatchSize ELSE room
  IN
  /\ b # {} /\ n > 0
  /\ \E locked \in SUBSET Locked(s) : Selected(b, n, locked)
  /\ frozen' = frozen \ {s}
  /\ repos' = Claimed(b)
  /\ \/ \E place \in [b -> {j \in Slots \ DOMAIN jobs : Home[j] = s}] :
          /\ \A x, y \in b : x # y => place[x] # place[y]
          /\ jobs' = [j \in DOMAIN jobs \cup {place[x] : x \in b} |->
                       IF j \in DOMAIN jobs THEN jobs[j]
                       ELSE Fresh(CHOOSE x \in b : place[x] = j)]
          /\ UNCHANGED faults
     \/ Fault("claim") /\ UNCHANGED jobs
  /\ UNCHANGED <<subs, saving>> /\ UNCHANGED world /\ UNCHANGED out

(***************************************************************************)
(* A worker                                                                *)
(***************************************************************************)
At(j, step) == j \in DOMAIN jobs /\ jobs[j].step = step
To(j, step) == jobs' = [jobs EXCEPT ![j].step = step]

(* A free worker takes a copy off the channel. *)
Take(j) ==
  /\ At(j, "queued")
  /\ Cardinality(Running(Home[j])) < Workers
  /\ To(j, "wait")
  /\ UNCHANGED <<repos, subs, saving, frozen, faults>> /\ UNCHANGED world /\ UNCHANGED out

(* quota.Wait reserves a token of the limiter and sleeps as long as the     *)
(* limit of that moment asks for; SetLimit does not wake a sleeper.  So     *)
(* with the limiter at 0 it returns if a token was left, and else never.    *)
Wait(j) ==
  /\ At(j, "wait")
  /\ \E step \in (IF Home[j] \in frozen THEN {"check", "stuck"} ELSE {"check"}) : To(j, step)
  /\ UNCHANGED <<repos, subs, saving, frozen, faults>> /\ UNCHANGED world /\ UNCHANGED out

(* GitHub's answers about row i: whether its path leads to the same GitHub  *)
(* id, and the status of its latest release for a request with that ETag.   *)
GetRepository(i) == IF i \in gone THEN "other" ELSE "same"
GetLatestRelease(i, etag) == CASE latest[i] = 0    -> 404
                               [] latest[i] = etag -> 304
                               [] OTHER            -> 200

CheckRepo(j) ==
  /\ At(j, "check")
  /\ To(j, IF GetRepository(jobs[j].repo) = "other" THEN "moved" ELSE "release")
  /\ UNCHANGED <<repos, subs, saving, frozen, faults>> /\ UNCHANGED world /\ UNCHANGED out

(* A 404 or a 304 ends the scan; a tag that differs is new, and its         *)
(* subscribers are looked up next.                                          *)
CheckRelease(j) ==
  /\ At(j, "release")
  /\ LET n == latest[jobs[j].repo]
     IN  jobs' = IF GetLatestRelease(jobs[j].repo, jobs[j].etag) # 200
                   THEN [jobs EXCEPT ![j].step = "save"]
                   ELSE [jobs EXCEPT ![j].tag = n, ![j].etag = n,
                                     ![j].step = IF n = jobs[j].tag THEN "save" ELSE "readers"]
  /\ UNCHANGED <<repos, subs, saving, frozen, faults>> /\ UNCHANGED world /\ UNCHANGED out

(* Either request fails: the scan ends. *)
ApiError(j) ==
  /\ At(j, "check") \/ At(j, "release")
  /\ Fault("api")
  /\ To(j, "save")
  /\ UNCHANGED <<repos, subs, saving, frozen>> /\ UNCHANGED world /\ UNCHANGED out

(* A 403 or 429: the scan ends and the limiter is set to 0. *)
Freeze(j) ==
  /\ At(j, "check") \/ At(j, "release")
  /\ Fault("quota")
  /\ frozen' = frozen \cup {Home[j]}
  /\ To(j, "save")
  /\ UNCHANGED <<repos, subs, saving>> /\ UNCHANGED world /\ UNCHANGED out

(* A 200 whose body does not decode: ProcessRepo looks at the status code   *)
(* and not at Error, so it compares the zero Data: another GitHub id, or    *)
(* the empty tag, which is 0.  The ETag is the header's, if there is one.   *)
BadBody(j) ==
  /\ Fault("body")
  /\ \/ At(j, "check") /\ To(j, "moved")
     \/ At(j, "release") /\ \E v \in {0, latest[jobs[j].repo]} :
          jobs' = [jobs EXCEPT ![j].tag = 0, ![j].etag = v,
                               ![j].step = IF jobs[j].tag = 0 THEN "save" ELSE "readers"]
  /\ UNCHANGED <<repos, subs, saving, frozen>> /\ UNCHANGED world /\ UNCHANGED out

(* handleNewRelease: GetActiveSubscriptions, whose failure leaves no events. *)
HandleNewRelease(j) ==
  /\ At(j, "readers")
  /\ \/ jobs' = [jobs EXCEPT ![j].step = "save", ![j].pending = Active(jobs[j].repo)]
        /\ UNCHANGED faults
     \/ Fault("query") /\ To(j, "save")
  /\ UNCHANGED <<repos, subs, saving, frozen>> /\ UNCHANGED world /\ UNCHANGED out

(* handleRepoMoved: GetActiveSubscriptions, whose failure ends the scan. *)
HandleRepoMoved(j) ==
  /\ At(j, "moved")
  /\ \/ jobs' = [jobs EXCEPT ![j].step = "unsubscribe", ![j].pending = Active(jobs[j].repo)]
        /\ UNCHANGED faults
     \/ Fault("query") /\ To(j, "save")
  /\ UNCHANGED <<repos, subs, saving, frozen>> /\ UNCHANGED world /\ UNCHANGED out

NoneActive(i) == subs' = [subs EXCEPT ![i] = [e \in Emails |-> "inactive"]]

(* MarkMovedAndUnsubscribe: every subscription, the repository's soft       *)
(* delete and the notices in one transaction, and as two statements when    *)
(* there are no notices: then the first can be left alone.                  *)
MarkMovedAndUnsubscribe(j) ==
  LET i == jobs[j].repo
  IN  /\ At(j, "unsubscribe")
      /\ \/ /\ NoneActive(i)
            /\ repos' = [repos EXCEPT ![i].deleted = "yes"]
            /\ noticed' = noticed \cup {<<i, e>> : e \in jobs[j].pending}
            /\ UNCHANGED faults
         \/ /\ Fault("update")
            /\ UNCHANGED subs \/ (jobs[j].pending = {} /\ NoneActive(i))
            /\ UNCHANGED <<repos, noticed>>
      /\ jobs' = [jobs EXCEPT ![j].step = "save", ![j].pending = {}]
      /\ UNCHANGED <<saving, frozen, announced>> /\ UNCHANGED world

(* Mutant: the updates leave out the release. *)
ScannedWithoutTag(j) ==
  [i \in Repos |-> IF i = jobs[j].repo /\ i \in Live
                     THEN [repos[i] EXCEPT !.status = "idle", !.scanned = "recent"]
                     ELSE repos[i]]

(* The row UpdateScanStatus writes, unless it is soft-deleted, and the      *)
(* outbox with the release.detected events of job j.                        *)
Scanned(j) ==
  [i \in Repos |-> IF i = jobs[j].repo /\ i \in Live
                     THEN [repos[i] EXCEPT !.status = "idle", !.scanned = "recent",
                                           !.tag = jobs[j].tag, !.etag = jobs[j].etag]
                     ELSE repos[i]]
Announced(j) ==
  [i \in Repos |-> [e \in Emails |-> [n \in Releases |->
     IF i = jobs[j].repo /\ e \in jobs[j].pending /\ n = jobs[j].tag
       THEN announced[i][e][n] + 1
       ELSE announced[i][e][n]]]]

(* Mutant: the row and the events are written by separate transactions, and *)
(* the second one fails.                                                    *)
SaveRowFirst(j) ==
  /\ At(j, "save")
  /\ repos' = Scanned(j)
  /\ \/ announced' = Announced(j) /\ UNCHANGED faults
     \/ Fault("update") /\ UNCHANGED announced
  /\ jobs' = Drop(jobs, j)
  /\ UNCHANGED <<subs, saving, frozen, noticed>> /\ UNCHANGED world

(* UpdateScanStatus, deferred: the row and the events commit together.  A   *)
(* failure is only logged, and the repository stays "processing".           *)
UpdateScanStatus(j) ==
  /\ At(j, "save")
  /\ \/ repos' = Scanned(j) /\ announced' = Announced(j) /\ UNCHANGED faults
     \/ Fault("update") /\ UNCHANGED <<repos, announced>>
  /\ jobs' = Drop(jobs, j)
  /\ UNCHANGED <<subs, saving, frozen, noticed>> /\ UNCHANGED world

(* Mutant: no RecoverStuckRepos. *)
RestartWithoutRecovery(s) ==
  /\ Fault("restart")
  /\ jobs' = [j \in {k \in DOMAIN jobs : Home[k] # s} |-> jobs[j]]
  /\ frozen' = frozen \ {s}
  /\ saving' = IF Instances = {s} THEN [i \in {} |-> 0] ELSE saving
  /\ UNCHANGED <<repos, subs>> /\ UNCHANGED world /\ UNCHANGED out

(* An instance starts, or dies and starts again: what it had claimed is     *)
(* forgotten, and RecoverStuckRepos makes every repository idle, unless it  *)
(* fails, which is only logged.  With a single instance the requests are    *)
(* gone as well.                                                            *)
Restart(s) ==
  /\ Fault("restart")
  /\ jobs' = [j \in {k \in DOMAIN jobs : Home[k] # s} |-> jobs[j]]
  /\ frozen' = frozen \ {s}
  /\ \/ repos' = [i \in Repos |-> IF i \in Live THEN [repos[i] EXCEPT !.status = "idle"]
                                                ELSE repos[i]]
     \/ "recover" \in FaultKinds /\ UNCHANGED repos
  /\ saving' = IF Instances = {s} THEN [i \in {} |-> 0] ELSE saving
  /\ UNCHANGED subs /\ UNCHANGED world /\ UNCHANGED out

(***************************************************************************)
(* Specification                                                           *)
(***************************************************************************)
ProcessRepo(j) ==
  \/ Take(j) \/ Wait(j) \/ CheckRepo(j) \/ CheckRelease(j)
  \/ ApiError(j) \/ Freeze(j) \/ BadBody(j)
  \/ HandleNewRelease(j) \/ HandleRepoMoved(j)
  \/ MarkMovedAndUnsubscribe(j) \/ UpdateScanStatus(j)

Next ==
  \/ \E i \in Repos : PublishRelease(i) \/ Relocate(i) \/ Age(i)
                      \/ FindRepoByGitHubID(i) \/ SaveRepo(i)
  \/ \E i \in Repos, e \in Emails : Confirm(i, e) \/ Unsubscribe(i, e)
  \/ \E s \in Instances : Hibernate(s) \/ Refresh(s) \/ Restart(s)
  \/ \E s \in Instances, b \in SUBSET Repos : Produce(s, b)
  \/ \E j \in Slots : ProcessRepo(j)

Spec == Init /\ [][Next]_vars

(* Time passes, the producer runs on a ticker, and workers go on (requests  *)
(* have timeouts).  The channel is first in, first out: a copy waits for    *)
(* the ones before it, and is taken.  An exhausted quota is taken to come   *)
(* back: GitHubClient says when it does.                                    *)
Fairness ==
  /\ \A i \in Repos : WF_vars(Age(i))
  /\ \A s \in Instances : WF_vars(Refresh(s)) /\ WF_vars(\E b \in SUBSET Repos : Produce(s, b))
  /\ \A j \in Slots : WF_vars(ProcessRepo(j)) /\ SF_vars(Take(j))

FairSpec == Spec /\ Fairness

(***************************************************************************)
(* Properties                                                              *)
(***************************************************************************)
(* No repository is scanned twice at a time: the status column, which the   *)
(* claim, the end of a scan, a restart's recovery and POST /subscribe all   *)
(* write, keeps a repository from being claimed again until its scan ends.  *)
(* It holds for one instance, as docker-compose.yml deploys the server, and *)
(* not for two (see README).                                                *)
NoDoubleScan ==
  \A j, k \in DOMAIN jobs : j # k => jobs[j].repo # jobs[k].repo

(* FR3: the release a repository's row says was handled was announced to    *)
(* every subscriber who was active before it came out, wherever a scan      *)
(* failed, was interrupted or raced with an unsubscription.  Once the tag   *)
(* is saved no later scan makes up for it: a failed GetActiveSubscriptions  *)
(* (fault kind "query") saves it without events, and breaks this.           *)
ReleaseIsAnnounced ==
  \A i \in Live : \A e \in Active(i) :
    since[i][e] < repos[i].tag => announced[i][e][repos[i].tag] > 0

(* A release is announced to a subscriber once, however often its scan      *)
(* fails or restarts (the envelopes of two announcements differ, so the     *)
(* notifier's deduplication on their ids lets both through).                *)
AnnouncedOnce ==
  \A i \in Repos, e \in Emails, n \in Releases : announced[i][e][n] <= 1

(* Every release, unless a newer one replaces it, comes to be announced to  *)
(* a subscriber who stays active, through API errors and restarts whose     *)
(* recovery succeeds: no repository stays "processing" behind a crash (FR2, *)
(* FR7), and MinInterval puts a scan off, not out.  It needs batches that   *)
(* have room for every repository, and a quota that is never used up.       *)
EveryReleaseIsAnnounced ==
  \A i \in Repos, e \in Emails, n \in Releases \ {0} :
    (latest[i] = n /\ e \in Active(i) /\ since[i][e] < n)
      ~> (announced[i][e][n] > 0 \/ latest[i] # n \/ e \notin Active(i) \/ i \in gone)
=============================================================================
