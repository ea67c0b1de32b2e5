---------------------------- MODULE ScannerProofs ----------------------------
(***************************************************************************)
(* Proofs about Scanner for every number of repositories, subscribers,     *)
(* instances, workers, releases and failures.                              *)
(***************************************************************************)
EXTENDS Scanner, TLAPS

(* A tag that is stored, copied or about to be saved is one of GitHub's. *)
TagsExist ==
  /\ \A i \in Repos : repos[i].tag <= latest[i]
  /\ \A i \in DOMAIN saving : saving[i].tag <= latest[i]
  /\ \A j \in DOMAIN jobs : jobs[j].tag <= latest[jobs[j].repo]

(* Release n of i was announced to e, if e was subscribed before it. *)
Told(i, e, n) == e \in Active(i) /\ since[i][e] < n => announced[i][e][n] > 0

(* What a row, a copy of it or a scan says was handled was announced, or    *)
(* will be in the transaction that saves it.                                *)
HandledIsTold ==
  /\ \A i \in Repos, e \in Emails : Told(i, e, repos[i].tag)
  /\ \A i \in DOMAIN saving, e \in Emails : Told(i, e, saving[i].tag)
  /\ \A j \in DOMAIN jobs, e \in Emails :
       \/ jobs[j].step = "readers"
       \/ jobs[j].step = "save" /\ e \in jobs[j].pending
       \/ Told(jobs[j].repo, e, jobs[j].tag)

(* A repository that is being scanned is marked, and marked once. *)
ScansAreMarked ==
  /\ saving = [i \in {} |-> 0]
  /\ \A j \in DOMAIN jobs : repos[jobs[j].repo].status = "processing"
  /\ NoDoubleScan

(* A scan announces a tag above the one that its row has, and no tag above  *)
(* that was announced before.                                               *)
Ahead(job, row) ==
  /\ job.step \notin {"readers", "save"} => job.tag = row.tag
  /\ job.step = "readers" => job.tag > row.tag
  /\ job.step = "save" => job.tag >= row.tag
  /\ job.step \notin {"save", "unsubscribe"} => job.pending = {}
  /\ job.step # "save" => row.deleted = "no"
  /\ job.step = "save" /\ job.pending # {} => job.tag > row.tag /\ row.deleted = "no"

NewTagsAreNew ==
  /\ \A j \in DOMAIN jobs : Ahead(jobs[j], repos[jobs[j].repo])
  /\ \A i \in Repos, e \in Emails, n \in Releases :
       announced[i][e][n] > 0 => n <= repos[i].tag
  /\ AnnouncedOnce

(***************************************************************************)
(* The steps of a worker                                                   *)
(***************************************************************************)
(* What a step that reads does to the copy of slot j. *)
Goes(j) ==     \* it learns nothing that it keeps
  /\ jobs[j].step \notin {"readers", "unsubscribe", "save"}
  /\ jobs'[j].step \notin {"queued", "readers", "unsubscribe"}
  /\ jobs'[j].tag = jobs[j].tag /\ jobs'[j].pending = jobs[j].pending
Finds(j) ==    \* GitHub's latest release
  /\ jobs[j].step = "release"
  /\ jobs'[j].tag = latest[jobs[j].repo] /\ jobs'[j].pending = jobs[j].pending
  /\ jobs'[j].step = IF jobs'[j].tag = jobs[j].tag THEN "save" ELSE "readers"
Garbles(j) ==  \* the empty tag, from a body that does not decode
  /\ "body" \in FaultKinds
  /\ jobs[j].step = "release"
  /\ jobs'[j].tag = 0 /\ jobs'[j].pending = jobs[j].pending
  /\ jobs'[j].step = IF jobs'[j].tag = jobs[j].tag THEN "save" ELSE "readers"
Reads(j) ==    \* the subscribers to tell of a release, or of the move
  /\ \/ jobs[j].step = "readers" /\ jobs'[j].step = "save"
     \/ jobs[j].step = "moved" /\ jobs'[j].step = "unsubscribe"
  /\ jobs'[j].tag = jobs[j].tag /\ jobs'[j].pending = Active(jobs[j].repo)
Misses(j) ==   \* no subscribers, their query failed
  /\ "query" \in FaultKinds
  /\ jobs[j].step = "readers" /\ jobs'[j].step = "save"
  /\ jobs'[j].tag = jobs[j].tag /\ jobs'[j].pending = jobs[j].pending

(* One copy changes, in a field or more, and stays a copy of its row. *)
OneCopy(j) ==
  /\ j \in DOMAIN jobs /\ DOMAIN jobs' = DOMAIN jobs
  /\ jobs' \in [DOMAIN jobs -> Job]
  /\ jobs'[j].repo = jobs[j].repo
  /\ \A k \in DOMAIN jobs : k # j => jobs'[k] = jobs[k]

Advances(j) ==
  /\ OneCopy(j)
  /\ Goes(j) \/ Finds(j) \/ Garbles(j) \/ Reads(j) \/ Misses(j)
  /\ UNCHANGED <<repos, subs, saving, latest, gone, since, announced, noticed>>
  /\ frozen' \subseteq Instances
  /\ faults' \in 0..MaxFaults

(* A copy whose fields are replaced. *)
LEMMA CopyChanges ==
  ASSUME TypeOK, NEW j \in DOMAIN jobs, NEW copy \in Job, copy.repo = jobs[j].repo,
         jobs' = [jobs EXCEPT ![j] = copy]
  PROVE  OneCopy(j) /\ jobs'[j] = copy
  BY DEF TypeOK, OneCopy

LEMMA ToFacts ==
  ASSUME TypeOK, NEW j \in DOMAIN jobs, NEW step \in Steps, To(j, step)
  PROVE  /\ OneCopy(j)
         /\ jobs'[j].step = step
         /\ jobs'[j].tag = jobs[j].tag /\ jobs'[j].pending = jobs[j].pending
<1>1. PICK copy : copy = [jobs[j] EXCEPT !.step = step]
  OBVIOUS
<1>2. jobs[j] \in Job
  BY DEF TypeOK
<1>3. /\ copy \in Job /\ copy.repo = jobs[j].repo /\ copy.step = step
      /\ copy.tag = jobs[j].tag /\ copy.pending = jobs[j].pending
  BY <1>1, <1>2 DEF Job
<1>4. jobs' = [jobs EXCEPT ![j] = copy]
  BY <1>1 DEF To
<1> QED BY <1>3, <1>4, CopyChanges

(* The copies, the one of slot j with the outcome of a release request. *)
WithRelease(j, n, v, step) == [jobs EXCEPT ![j].tag = n, ![j].etag = v, ![j].step = step]

LEMMA ReleaseFacts ==
  ASSUME TypeOK, NEW j \in DOMAIN jobs, NEW n \in Releases, NEW v \in Releases,
         NEW step \in Steps,
         jobs' = WithRelease(j, n, v, step)
  PROVE  /\ OneCopy(j)
         /\ jobs'[j].step = step
         /\ jobs'[j].tag = n /\ jobs'[j].pending = jobs[j].pending
<1>1. PICK copy : copy = [jobs[j] EXCEPT !.tag = n, !.etag = v, !.step = step]
  OBVIOUS
<1>2. jobs[j] \in Job
  BY DEF TypeOK
<1>3. /\ copy \in Job /\ copy.repo = jobs[j].repo /\ copy.step = step
      /\ copy.tag = n /\ copy.pending = jobs[j].pending
  BY <1>1, <1>2 DEF Job
<1>4. jobs' = [jobs EXCEPT ![j] = copy]
  BY <1>1, <1>2 DEF TypeOK, Job, WithRelease
<1> QED BY <1>3, <1>4, CopyChanges

(* The copy with the subscribers that were read. *)
LEMMA ReadFacts ==
  ASSUME TypeOK, NEW j \in DOMAIN jobs, NEW step \in Steps, NEW who \in SUBSET Emails,
         jobs' = [jobs EXCEPT ![j].step = step, ![j].pending = who]
  PROVE  /\ OneCopy(j)
         /\ jobs'[j].step = step
         /\ jobs'[j].tag = jobs[j].tag /\ jobs'[j].pending = who
<1>1. PICK copy : copy = [jobs[j] EXCEPT !.step = step, !.pending = who]
  OBVIOUS
<1>2. jobs[j] \in Job
  BY DEF TypeOK
<1>3. /\ copy \in Job /\ copy.repo = jobs[j].repo /\ copy.step = step
      /\ copy.tag = jobs[j].tag /\ copy.pending = who
  BY <1>1, <1>2 DEF Job
<1>4. jobs' = [jobs EXCEPT ![j] = copy]
  BY <1>1, <1>2 DEF TypeOK, Job
<1> QED BY <1>3, <1>4, CopyChanges

LEMMA FaultFacts ==
  ASSUME TypeOK, NEW kind, Fault(kind)
  PROVE  kind \in FaultKinds /\ faults' \in 0..MaxFaults
  BY ScannerAssumption DEF TypeOK, Fault

(* Every step of a worker but its two writes reads, and advances its copy. *)
LEMMA ReadsAdvance ==
  ASSUME TypeOK, NEW j \in Slots,
         \/ Take(j) \/ Wait(j) \/ CheckRepo(j) \/ CheckRelease(j) \/ ApiError(j)
         \/ Freeze(j) \/ BadBody(j) \/ HandleNewRelease(j) \/ HandleRepoMoved(j)
  PROVE  Advances(j)
<1>1. j \in DOMAIN jobs /\ jobs[j] \in Job /\ Home[j] \in Instances
  BY ScannerAssumption
  DEF TypeOK, Take, Wait, CheckRepo, CheckRelease, ApiError, Freeze, BadBody,
      HandleNewRelease, HandleRepoMoved, At
<1>2. UNCHANGED <<repos, subs, saving, latest, gone, since, announced, noticed>>
  BY DEF Take, Wait, CheckRepo, CheckRelease, ApiError, Freeze, BadBody,
         HandleNewRelease, HandleRepoMoved, world, out
<1>3. frozen' \subseteq Instances
  BY <1>1 DEF TypeOK, Take, Wait, CheckRepo, CheckRelease, ApiError, Freeze, BadBody,
         HandleNewRelease, HandleRepoMoved
<1>4. faults' \in 0..MaxFaults
  BY FaultFacts DEF TypeOK, Take, Wait, CheckRepo, CheckRelease, ApiError, Freeze, BadBody,
         HandleNewRelease, HandleRepoMoved
<1>5. OneCopy(j) /\ (Goes(j) \/ Finds(j) \/ Garbles(j) \/ Reads(j) \/ Misses(j))
  <2>1. CASE Take(j)
    BY <1>1, <2>1, ToFacts DEF Take, At, Steps, Goes
  <2>2. CASE Wait(j)
    <3>1. PICK step \in {"check", "stuck"} : To(j, step)
      BY <2>2 DEF Wait
    <3> QED BY <1>1, <2>2, <3>1, ToFacts DEF Wait, At, Steps, Goes
  <2>3. CASE CheckRepo(j)
    <3>1. PICK step \in {"moved", "release"} : To(j, step)
      BY <2>3 DEF CheckRepo
    <3> QED BY <1>1, <2>3, <3>1, ToFacts DEF CheckRepo, At, Steps, Goes
  <2>4. CASE CheckRelease(j)
    <3>1. PICK n \in Releases : n = latest[jobs[j].repo]
      BY <1>1 DEF TypeOK, Job
    <3>2. CASE GetLatestRelease(jobs[j].repo, jobs[j].etag) # 200
      <4>1. To(j, "save")
        BY <2>4, <3>2 DEF CheckRelease, To
      <4> QED BY <1>1, <2>4, <4>1, ToFacts DEF CheckRelease, At, Steps, Goes
    <3>3. CASE GetLatestRelease(jobs[j].repo, jobs[j].etag) = 200
      <4>1. PICK step \in Steps : step = IF n = jobs[j].tag THEN "save" ELSE "readers"
        BY DEF Steps
      <4>2. jobs' = WithRelease(j, n, n, step)
        BY <2>4, <3>1, <3>3, <4>1 DEF CheckRelease, WithRelease
      <4>3. OneCopy(j) /\ jobs'[j].step = step /\ jobs'[j].tag = n
            /\ jobs'[j].pending = jobs[j].pending
        BY <1>1, <4>2, ReleaseFacts
      <4> QED BY <2>4, <3>1, <4>1, <4>3 DEF CheckRelease, At, Finds
    <3> QED BY <3>2, <3>3
  <2>5. CASE ApiError(j)
    BY <1>1, <2>5, ToFacts DEF ApiError, At, Steps, Goes
  <2>6. CASE Freeze(j)
    BY <1>1, <2>6, ToFacts DEF Freeze, At, Steps, Goes
  <2>7. CASE BadBody(j)
    <3>1. CASE At(j, "check") /\ To(j, "moved")
      BY <1>1, <3>1, ToFacts DEF At, Steps, Goes
    <3>2. CASE ~(At(j, "check") /\ To(j, "moved"))
      <4>1. PICK v \in {0, latest[jobs[j].repo]} :
              jobs' = [jobs EXCEPT ![j].tag = 0, ![j].etag = v,
                                   ![j].step = IF jobs[j].tag = 0 THEN "save" ELSE "readers"]
        BY <2>7, <3>2 DEF BadBody
      <4>2. PICK step \in Steps : step = IF jobs[j].tag = 0 THEN "save" ELSE "readers"
        BY DEF Steps
      <4>3. v \in Releases /\ 0 \in Releases
        BY <1>1, ScannerAssumption DEF TypeOK, Job, Releases
      <4>4. OneCopy(j) /\ jobs'[j].step = step /\ jobs'[j].tag = 0
            /\ jobs'[j].pending = jobs[j].pending
        <5>1. jobs' = WithRelease(j, 0, v, step)
          BY <4>1, <4>2 DEF WithRelease
        <5> QED BY <1>1, <4>3, <5>1, ReleaseFacts
      <4>5. jobs[j].step = "release" /\ "body" \in FaultKinds
        BY <2>7, <3>2, FaultFacts DEF BadBody, At
      <4> QED BY <4>2, <4>4, <4>5 DEF Garbles
    <3> QED BY <3>1, <3>2
  <2>8. CASE HandleNewRelease(j)
    <3>1. CASE jobs' = [jobs EXCEPT ![j].step = "save", ![j].pending = Active(jobs[j].repo)]
      <4>1. PICK who \in SUBSET Emails : who = Active(jobs[j].repo)
        BY DEF Active
      <4>2. jobs' = [jobs EXCEPT ![j].step = "save", ![j].pending = who]
        BY <3>1, <4>1
      <4>3. OneCopy(j) /\ jobs'[j].step = "save" /\ jobs'[j].tag = jobs[j].tag
            /\ jobs'[j].pending = who
        BY <1>1, <4>2, ReadFacts DEF Steps
      <4> QED BY <2>8, <4>1, <4>3 DEF HandleNewRelease, At, Reads
    <3>2. CASE Fault("query") /\ To(j, "save")
      BY <1>1, <2>8, <3>2, ToFacts, FaultFacts DEF HandleNewRelease, At, Steps, Misses
    <3> QED BY <2>8, <3>1, <3>2 DEF HandleNewRelease
  <2>9. CASE HandleRepoMoved(j)
    <3>1. CASE jobs' = [jobs EXCEPT ![j].step = "unsubscribe", ![j].pending = Active(jobs[j].repo)]
      <4>1. PICK who \in SUBSET Emails : who = Active(jobs[j].repo)
        BY DEF Active
      <4>2. jobs' = [jobs EXCEPT ![j].step = "unsubscribe", ![j].pending = who]
        BY <3>1, <4>1
      <4>3. OneCopy(j) /\ jobs'[j].step = "unsubscribe" /\ jobs'[j].tag = jobs[j].tag
            /\ jobs'[j].pending = who
        BY <1>1, <4>2, ReadFacts DEF Steps
      <4> QED BY <2>9, <4>1, <4>3 DEF HandleRepoMoved, At, Reads
    <3>2. CASE To(j, "save")
      BY <1>1, <2>9, <3>2, ToFacts DEF HandleRepoMoved, At, Steps, Goes
    <3> QED BY <2>9, <3>1, <3>2 DEF HandleRepoMoved
  <2> QED BY <2>1, <2>2, <2>3, <2>4, <2>5, <2>6, <2>7, <2>8, <2>9
<1> QED BY <1>2, <1>3, <1>4, <1>5 DEF Advances

(* MarkMovedAndUnsubscribe deletes its row and takes subscriptions, or      *)
(* fails; either way the scan goes on to its end with nothing to announce.  *)
LEMMA MoveFacts ==
  ASSUME TypeOK, NEW j \in Slots, MarkMovedAndUnsubscribe(j)
  PROVE  /\ OneCopy(j) /\ jobs[j].step = "unsubscribe" /\ jobs'[j].step = "save"
         /\ jobs'[j].tag = jobs[j].tag /\ jobs'[j].pending = {}
         /\ repos' \in [Repos -> Repository]
         /\ \A k \in Repos : /\ repos'[k].status = repos[k].status
                             /\ repos'[k].tag = repos[k].tag
                             /\ k # jobs[j].repo => repos'[k] = repos[k]
         /\ subs' \in [Repos -> [Emails -> {"active", "inactive"}]]
         /\ \A k \in Repos, e \in Emails : subs'[k][e] = "active" => subs[k][e] = "active"
         /\ noticed' \subseteq Repos \X Emails
         /\ faults' \in 0..MaxFaults
         /\ UNCHANGED <<saving, frozen, announced, latest, gone, since>>
<1>1. PICK i : i = jobs[j].repo
  OBVIOUS
<1>2. /\ j \in DOMAIN jobs /\ jobs[j] \in Job /\ i \in Repos
      /\ jobs[j].pending \in SUBSET Emails /\ jobs[j].step = "unsubscribe"
  BY <1>1 DEF TypeOK, Job, MarkMovedAndUnsubscribe, At
<1>3. OneCopy(j) /\ jobs'[j].step = "save" /\ jobs'[j].tag = jobs[j].tag /\ jobs'[j].pending = {}
  <2>1. jobs' = [jobs EXCEPT ![j].step = "save", ![j].pending = {}]
    BY DEF MarkMovedAndUnsubscribe
  <2>2. {} \in SUBSET Emails
    OBVIOUS
  <2> QED BY <1>2, <2>1, <2>2, ReadFacts DEF Steps
<1>4. repos' = repos \/ repos' = [repos EXCEPT ![i] = [repos[i] EXCEPT !.deleted = "yes"]]
  BY <1>1 DEF MarkMovedAndUnsubscribe
<1>5. /\ repos' \in [Repos -> Repository]
      /\ \A k \in Repos : /\ repos'[k].status = repos[k].status
                          /\ repos'[k].tag = repos[k].tag
                          /\ k # i => repos'[k] = repos[k]
  <2>1. repos \in [Repos -> Repository] /\ repos[i] \in Repository
    BY <1>2 DEF TypeOK
  <2>2. PICK row : row = [repos[i] EXCEPT !.deleted = "yes"]
    OBVIOUS
  <2>3. row \in Repository /\ row.status = repos[i].status /\ row.tag = repos[i].tag
    BY <2>1, <2>2 DEF Repository
  <2> QED BY <1>2, <1>4, <2>1, <2>2, <2>3
<1>6. subs' = subs \/ NoneActive(i)
  BY <1>1 DEF MarkMovedAndUnsubscribe
<1>7. /\ subs' \in [Repos -> [Emails -> {"active", "inactive"}]]
      /\ \A k \in Repos, e \in Emails : subs'[k][e] = "active" => subs[k][e] = "active"
  <2>1. CASE subs' = subs
    BY <2>1 DEF TypeOK
  <2>2. CASE NoneActive(i)
    <3>1. PICK none : none = [e \in Emails |-> "inactive"]
      OBVIOUS
    <3>2. none \in [Emails -> {"active", "inactive"}] /\ \A e \in Emails : none[e] = "inactive"
      BY <3>1
    <3>3. subs' = [subs EXCEPT ![i] = none]
      BY <2>2, <3>1 DEF NoneActive
    <3> QED BY <1>2, <3>2, <3>3 DEF TypeOK
  <2> QED BY <1>6, <2>1, <2>2
<1>8. noticed' \subseteq Repos \X Emails
  BY <1>1, <1>2 DEF MarkMovedAndUnsubscribe, TypeOK
<1>9. faults' \in 0..MaxFaults
  BY FaultFacts DEF MarkMovedAndUnsubscribe, TypeOK
<1>10. UNCHANGED <<saving, frozen, announced, latest, gone, since>>
  BY DEF MarkMovedAndUnsubscribe, world
<1> QED BY <1>1, <1>2, <1>3, <1>5, <1>7, <1>8, <1>9, <1>10

(* The release.detected events of a scan, as counts. *)
LEMMA AnnouncedFacts ==
  ASSUME TypeOK, NEW j \in DOMAIN jobs
  PROVE  /\ Announced(j) \in [Repos -> [Emails -> [Releases -> Nat]]]
         /\ \A k \in Repos, e \in Emails, n \in Releases :
              Announced(j)[k][e][n] =
                IF k = jobs[j].repo /\ e \in jobs[j].pending /\ n = jobs[j].tag
                  THEN announced[k][e][n] + 1 ELSE announced[k][e][n]
<1>1. \A k \in Repos, e \in Emails, n \in Releases : announced[k][e][n] \in Nat
  BY DEF TypeOK
<1> QED BY <1>1 DEF Announced

(* UpdateScanStatus ends the scan; the row and the events are written       *)
(* together or not at all, and a deleted row is left alone.                 *)
LEMMA SaveFacts ==
  ASSUME TypeOK, NEW j \in Slots, UpdateScanStatus(j)
  PROVE  /\ j \in DOMAIN jobs /\ jobs[j].step = "save"
         /\ DOMAIN jobs' = DOMAIN jobs \ {j} /\ jobs' \in [DOMAIN jobs' -> Job]
         /\ \A k \in DOMAIN jobs' : jobs'[k] = jobs[k]
         /\ repos' \in [Repos -> Repository]
         /\ \A k \in Repos : k # jobs[j].repo \/ repos[k].deleted = "yes" => repos'[k] = repos[k]
         /\ announced' \in [Repos -> [Emails -> [Releases -> Nat]]]
         /\ \/ repos' = repos /\ announced' = announced
            \/ /\ announced' = Announced(j)
               /\ repos[jobs[j].repo].deleted = "no" =>
                    /\ repos'[jobs[j].repo].tag = jobs[j].tag
                    /\ repos'[jobs[j].repo].deleted = "no"
         /\ faults' \in 0..MaxFaults
         /\ UNCHANGED <<subs, saving, frozen, latest, gone, since, noticed>>
<1>1. PICK i : i = jobs[j].repo
  OBVIOUS
<1>2. /\ j \in DOMAIN jobs /\ jobs[j] \in Job /\ i \in Repos /\ jobs[j].step = "save"
      /\ jobs[j].tag \in Releases /\ jobs[j].etag \in Releases
  BY <1>1 DEF TypeOK, Job, UpdateScanStatus, At
<1>3. /\ DOMAIN jobs' = DOMAIN jobs \ {j} /\ jobs' \in [DOMAIN jobs' -> Job]
      /\ \A k \in DOMAIN jobs' : jobs'[k] = jobs[k]
  BY DEF UpdateScanStatus, Drop, TypeOK
<1>4. /\ Scanned(j) \in [Repos -> Repository]
      /\ \A k \in Repos : k # i \/ repos[k].deleted = "yes" => Scanned(j)[k] = repos[k]
      /\ repos[i].deleted = "no" => Scanned(j)[i].tag = jobs[j].tag /\ Scanned(j)[i].deleted = "no"
  <2>1. PICK row : row = [repos[i] EXCEPT !.status = "idle", !.scanned = "recent",
                                         !.tag = jobs[j].tag, !.etag = jobs[j].etag]
    OBVIOUS
  <2>2. \A k \in Repos : repos[k] \in Repository
    BY DEF TypeOK
  <2>3. row \in Repository /\ row.tag = jobs[j].tag /\ row.deleted = repos[i].deleted
    BY <1>2, <2>1, <2>2 DEF Repository
  <2>4. Scanned(j) = [k \in Repos |-> IF k = i /\ repos[k].deleted = "no" THEN row ELSE repos[k]]
    BY <1>1, <2>1 DEF Scanned, Live
  <2> QED BY <1>2, <2>2, <2>3, <2>4
<1>5. \/ repos' = Scanned(j) /\ announced' = Announced(j) /\ faults' = faults
      \/ repos' = repos /\ announced' = announced /\ Fault("update")
  BY DEF UpdateScanStatus
<1>6. faults' \in 0..MaxFaults
  BY <1>5, FaultFacts DEF TypeOK
<1>7. announced' \in [Repos -> [Emails -> [Releases -> Nat]]] /\ repos' \in [Repos -> Repository]
  BY <1>2, <1>4, <1>5, AnnouncedFacts DEF TypeOK
<1>8. UNCHANGED <<subs, saving, frozen, latest, gone, since, noticed>>
  BY DEF UpdateScanStatus, world
<1> QED BY <1>1, <1>2, <1>3, <1>4, <1>5, <1>6, <1>7, <1>8

(* Produce claims idle rows and makes one copy of each, or none. *)
LEMMA ProduceFacts ==
  ASSUME TypeOK, NEW s \in Instances, NEW b \in SUBSET Repos, Produce(s, b)
  PROVE  /\ \A k \in b : repos[k].status = "idle" /\ repos[k].deleted = "no"
         /\ repos' \in [Repos -> Repository]
         /\ \A k \in Repos : /\ repos'[k].tag = repos[k].tag
                             /\ repos'[k].deleted = repos[k].deleted
                             /\ repos'[k].status = IF k \in b THEN "processing" ELSE repos[k].status
         /\ DOMAIN jobs \subseteq DOMAIN jobs' /\ DOMAIN jobs' \subseteq Slots
         /\ jobs' \in [DOMAIN jobs' -> Job]
         /\ \A j \in DOMAIN jobs : jobs'[j] = jobs[j]
         /\ \A j \in DOMAIN jobs' \ DOMAIN jobs :
              /\ jobs'[j].repo \in b /\ jobs'[j].step = "queued" /\ jobs'[j].pending = {}
              /\ jobs'[j].tag = repos[jobs'[j].repo].tag
              /\ \A k \in DOMAIN jobs' \ DOMAIN jobs : j # k => jobs'[j].repo # jobs'[k].repo
         /\ faults' \in 0..MaxFaults /\ frozen' \subseteq Instances
         /\ UNCHANGED <<subs, saving, latest, gone, since, announced, noticed>>
<1>1. \A k \in b : repos[k].status = "idle" /\ repos[k].deleted = "no"
  BY DEF Produce, Selected, Live
<1>2. \A k \in Repos : repos[k] \in Repository
  BY DEF TypeOK
<1>3. /\ repos' \in [Repos -> Repository]
      /\ \A k \in Repos : /\ repos'[k].tag = repos[k].tag
                          /\ repos'[k].deleted = repos[k].deleted
                          /\ repos'[k].status = IF k \in b THEN "processing" ELSE repos[k].status
  <2>1. repos' = [k \in Repos |->
                   IF k \in b THEN [repos[k] EXCEPT !.status = "processing", !.scanned = "recent"]
                              ELSE repos[k]]
    BY DEF Produce, Claimed
  <2>2. ASSUME NEW k \in Repos
        PROVE  /\ repos'[k] \in Repository
               /\ repos'[k].tag = repos[k].tag /\ repos'[k].deleted = repos[k].deleted
               /\ repos'[k].status = IF k \in b THEN "processing" ELSE repos[k].status
    BY <1>2, <2>1 DEF Repository
  <2> QED BY <2>1, <2>2
<1>4. /\ frozen' \subseteq Instances
      /\ UNCHANGED <<subs, saving, latest, gone, since, announced, noticed>>
  BY DEF Produce, TypeOK, world, out
<1>5. CASE Fault("claim") /\ UNCHANGED jobs
  BY <1>1, <1>3, <1>4, <1>5, FaultFacts DEF TypeOK
<1>6. CASE ~(Fault("claim") /\ UNCHANGED jobs)
  <2>1. PICK place \in [b -> {j \in Slots \ DOMAIN jobs : Home[j] = s}] :
          /\ \A x, y \in b : x # y => place[x] # place[y]
          /\ jobs' = [j \in DOMAIN jobs \cup {place[x] : x \in b} |->
                       IF j \in DOMAIN jobs THEN jobs[j]
                       ELSE Fresh(CHOOSE x \in b : place[x] = j)]
          /\ UNCHANGED faults
    BY <1>6 DEF Produce
  <2>2. \A x \in b : Fresh(x) \in Job
    BY <1>2, ScannerAssumption DEF Fresh, Job, Steps, Repository
  <2>3. /\ DOMAIN jobs' = DOMAIN jobs \cup {place[x] : x \in b}
        /\ \A j \in DOMAIN jobs : jobs'[j] = jobs[j]
    BY <2>1
  <2>4. ASSUME NEW j \in DOMAIN jobs' \ DOMAIN jobs
        PROVE  \E x \in b : place[x] = j /\ jobs'[j] = Fresh(x)
    <3>1. \E x \in b : place[x] = j
      BY <2>3
    <3>2. PICK c : c = CHOOSE x \in b : place[x] = j
      OBVIOUS
    <3>3. c \in b /\ place[c] = j
      BY <3>1, <3>2
    <3>4. jobs'[j] = Fresh(c)
      BY <2>1, <2>3, <3>2
    <3> QED BY <3>3, <3>4
  <2>5. ASSUME NEW j \in DOMAIN jobs'
        PROVE  jobs'[j] \in Job
    <3>1. CASE j \in DOMAIN jobs
      BY <2>3, <3>1 DEF TypeOK
    <3>2. CASE j \notin DOMAIN jobs
      BY <2>2, <2>4, <3>2
    <3> QED BY <3>1, <3>2
  <2>6. jobs' \in [DOMAIN jobs' -> Job] /\ DOMAIN jobs' \subseteq Slots
    <3> DEFINE body(j) == IF j \in DOMAIN jobs THEN jobs[j] ELSE Fresh(CHOOSE x \in b : place[x] = j)
    <3>0. jobs' = [j \in DOMAIN jobs \cup {place[x] : x \in b} |-> body(j)]
      BY <2>1
    <3> HIDE DEF body
    <3>1. jobs' = [j \in DOMAIN jobs' |-> jobs'[j]]
      BY <3>0
    <3>2. jobs' \in [DOMAIN jobs' -> Job]
      BY <2>5, <3>1
    <3>3. \A x \in b : place[x] \in Slots
      BY <2>1
    <3> QED BY <2>3, <3>2, <3>3 DEF TypeOK
  <2>7. \A x \in b : /\ Fresh(x).repo = x /\ Fresh(x).step = "queued" /\ Fresh(x).pending = {}
                     /\ Fresh(x).tag = repos[x].tag
    BY DEF Fresh
  <2>8. ASSUME NEW j \in DOMAIN jobs' \ DOMAIN jobs
        PROVE  /\ jobs'[j].repo \in b /\ jobs'[j].step = "queued" /\ jobs'[j].pending = {}
               /\ jobs'[j].tag = repos[jobs'[j].repo].tag
               /\ place[jobs'[j].repo] = j
    BY <2>4, <2>7
  <2>9. faults' \in 0..MaxFaults
    BY <2>1 DEF TypeOK
  <2> QED BY <1>1, <1>3, <1>4, <2>3, <2>6, <2>8, <2>9
<1> QED BY <1>5, <1>6

(* A restart keeps the copies of other instances, and of the rows all but   *)
(* their status.                                                            *)
LEMMA RestartFacts ==
  ASSUME TypeOK, NEW s \in Instances, Restart(s)
  PROVE  /\ DOMAIN jobs' = {k \in DOMAIN jobs : Home[k] # s}
         /\ jobs' \in [DOMAIN jobs' -> Job]
         /\ \A j \in DOMAIN jobs' : jobs'[j] = jobs[j]
         /\ repos' \in [Repos -> Repository]
         /\ \A k \in Repos : repos'[k].tag = repos[k].tag /\ repos'[k].deleted = repos[k].deleted
         /\ saving' \in {saving, [i \in {} |-> 0]}
         /\ Instances = {s} => saving' = [i \in {} |-> 0]
         /\ frozen' \subseteq Instances /\ faults' \in 0..MaxFaults
         /\ UNCHANGED <<subs, latest, gone, since, announced, noticed>>
<1>1. /\ DOMAIN jobs' = {k \in DOMAIN jobs : Home[k] # s}
      /\ \A j \in DOMAIN jobs' : jobs'[j] = jobs[j]
      /\ jobs' \in [DOMAIN jobs' -> Job]
  BY DEF Restart, TypeOK
<1>2. /\ repos' \in [Repos -> Repository]
      /\ \A k \in Repos : repos'[k].tag = repos[k].tag /\ repos'[k].deleted = repos[k].deleted
  <2>1. \A k \in Repos : repos[k] \in Repository
    BY DEF TypeOK
  <2>2. CASE repos' = repos
    BY <2>1, <2>2 DEF TypeOK
  <2>3. CASE repos' = [k \in Repos |-> IF k \in Live THEN [repos[k] EXCEPT !.status = "idle"]
                                                     ELSE repos[k]]
    <3>1. ASSUME NEW k \in Repos
          PROVE  repos'[k] \in Repository /\ repos'[k].tag = repos[k].tag
                 /\ repos'[k].deleted = repos[k].deleted
      BY <2>1, <2>3 DEF Repository
    <3> QED BY <2>3, <3>1
  <2> QED BY <2>2, <2>3 DEF Restart
<1>3. /\ saving' \in {saving, [i \in {} |-> 0]}
      /\ Instances = {s} => saving' = [i \in {} |-> 0]
      /\ frozen' \subseteq Instances /\ faults' \in 0..MaxFaults
      /\ UNCHANGED <<subs, latest, gone, since, announced, noticed>>
  BY FaultFacts DEF Restart, TypeOK, world, out
<1> QED BY <1>1, <1>2, <1>3

(***************************************************************************)
(* The steps around the scanner                                            *)
(***************************************************************************)
LEMMA PublishFacts ==
  ASSUME TypeOK, NEW i \in Repos, PublishRelease(i)
  PROVE  /\ latest' \in [Repos -> Releases]
         /\ \A k \in Repos : latest[k] <= latest'[k]
         /\ UNCHANGED <<repos, subs, jobs, saving, frozen, gone, since, announced, noticed, faults>>
  BY ScannerAssumption DEF PublishRelease, TypeOK, Releases, out

(* A confirmed subscriber counts from the latest release on. *)
LEMMA ConfirmFacts ==
  ASSUME TypeOK, NEW i \in Repos, NEW e \in Emails, Confirm(i, e)
  PROVE  /\ subs' \in [Repos -> [Emails -> {"active", "inactive"}]]
         /\ since' \in [Repos -> [Emails -> Releases]]
         /\ since'[i][e] = latest[i]
         /\ \A k \in Repos, f \in Emails :
              k # i \/ f # e => subs'[k][f] = subs[k][f] /\ since'[k][f] = since[k][f]
         /\ UNCHANGED <<repos, jobs, saving, frozen, latest, gone, announced, noticed, faults>>
<1>1. PICK row : row = [subs[i] EXCEPT ![e] = "active"]
  OBVIOUS
<1>2. PICK from : from = [since[i] EXCEPT ![e] = latest[i]]
  OBVIOUS
<1>3. row \in [Emails -> {"active", "inactive"}] /\ \A f \in Emails : f # e => row[f] = subs[i][f]
  BY <1>1 DEF TypeOK
<1>4. /\ from \in [Emails -> Releases] /\ from[e] = latest[i]
      /\ \A f \in Emails : f # e => from[f] = since[i][f]
  BY <1>2 DEF TypeOK
<1>5. subs' = [subs EXCEPT ![i] = row] /\ since' = [since EXCEPT ![i] = from]
  BY <1>1, <1>2 DEF Confirm
<1>6. UNCHANGED <<repos, jobs, saving, frozen, latest, gone, announced, noticed, faults>>
  BY DEF Confirm, out
<1> QED BY <1>3, <1>4, <1>5, <1>6 DEF TypeOK

LEMMA UnsubscribeFacts ==
  ASSUME TypeOK, NEW i \in Repos, NEW e \in Emails, Unsubscribe(i, e)
  PROVE  /\ subs' \in [Repos -> [Emails -> {"active", "inactive"}]]
         /\ \A k \in Repos, f \in Emails : subs'[k][f] = "active" => subs[k][f] = "active"
         /\ UNCHANGED <<repos, jobs, saving, frozen, latest, gone, since, announced, noticed, faults>>
<1>1. PICK row : row = [subs[i] EXCEPT ![e] = "inactive"]
  OBVIOUS
<1>2. /\ row \in [Emails -> {"active", "inactive"}]
      /\ \A f \in Emails : row[f] = "active" => subs[i][f] = "active"
  BY <1>1 DEF TypeOK
<1>3. subs' = [subs EXCEPT ![i] = row]
  BY <1>1 DEF Unsubscribe
<1>4. UNCHANGED <<repos, jobs, saving, frozen, latest, gone, since, announced, noticed, faults>>
  BY DEF Unsubscribe, world, out
<1> QED BY <1>2, <1>3, <1>4 DEF TypeOK

(* POST /subscribe reads a row and writes it back. *)
LEMMA FindFacts ==
  ASSUME TypeOK, NEW i \in Repos, FindRepoByGitHubID(i)
  PROVE  /\ "rename" \in FaultKinds
         /\ DOMAIN saving' = DOMAIN saving \cup {i} /\ saving' \in [DOMAIN saving' -> Repository]
         /\ saving'[i] = repos[i] /\ \A k \in DOMAIN saving : k # i => saving'[k] = saving[k]
         /\ faults' \in 0..MaxFaults
         /\ UNCHANGED <<repos, subs, jobs, frozen, latest, gone, since, announced, noticed>>
<1>1. /\ DOMAIN saving' = DOMAIN saving \cup {i} /\ saving' \in [DOMAIN saving' -> Repository]
      /\ saving'[i] = repos[i] /\ \A k \in DOMAIN saving : k # i => saving'[k] = saving[k]
  BY DEF FindRepoByGitHubID, TypeOK
<1>2. /\ "rename" \in FaultKinds /\ faults' \in 0..MaxFaults
      /\ UNCHANGED <<repos, subs, jobs, frozen, latest, gone, since, announced, noticed>>
  BY FaultFacts DEF FindRepoByGitHubID, world, out
<1> QED BY <1>1, <1>2

LEMMA SaveRepoFacts ==
  ASSUME TypeOK, NEW i \in Repos, SaveRepo(i)
  PROVE  /\ i \in DOMAIN saving
         /\ DOMAIN saving' = DOMAIN saving \ {i} /\ saving' \in [DOMAIN saving' -> Repository]
         /\ \A k \in DOMAIN saving' : saving'[k] = saving[k]
         /\ repos' \in [Repos -> Repository] /\ repos'[i] = saving[i]
         /\ \A k \in Repos : k # i => repos'[k] = repos[k]
         /\ UNCHANGED <<subs, jobs, frozen, latest, gone, since, announced, noticed, faults>>
<1>1. /\ i \in DOMAIN saving
      /\ DOMAIN saving' = DOMAIN saving \ {i} /\ saving' \in [DOMAIN saving' -> Repository]
      /\ \A k \in DOMAIN saving' : saving'[k] = saving[k]
  BY DEF SaveRepo, Drop, TypeOK
<1>2. /\ repos' \in [Repos -> Repository] /\ repos'[i] = saving[i]
      /\ \A k \in Repos : k # i => repos'[k] = repos[k]
  BY DEF SaveRepo, TypeOK
<1>3. UNCHANGED <<subs, jobs, frozen, latest, gone, since, announced, noticed, faults>>
  BY DEF SaveRepo, world, out
<1> QED BY <1>1, <1>2, <1>3

(* Time passes: all that scans look at in a row stays as it is. *)
Aged ==
  /\ repos' \in [Repos -> Repository]
  /\ \A k \in Repos : /\ repos'[k].tag = repos[k].tag
                      /\ repos'[k].deleted = repos[k].deleted
                      /\ repos'[k].status = repos[k].status
  /\ UNCHANGED <<subs, jobs, saving, frozen, latest, gone, since, announced, noticed, faults>>

LEMMA AgeFacts ==
  ASSUME TypeOK, NEW i \in Repos, Age(i)
  PROVE  Aged
<1>1. PICK row : row = [repos[i] EXCEPT !.scanned = "due"]
  OBVIOUS
<1>2. repos[i] \in Repository
  BY DEF TypeOK
<1>3. /\ row \in Repository /\ row.tag = repos[i].tag
      /\ row.deleted = repos[i].deleted /\ row.status = repos[i].status
  BY <1>1, <1>2 DEF Repository
<1>4. repos' = [repos EXCEPT ![i] = row]
  BY <1>1 DEF Age
<1>5. UNCHANGED <<subs, jobs, saving, frozen, latest, gone, since, announced, noticed, faults>>
  BY DEF Age, world, out
<1> QED BY <1>3, <1>4, <1>5 DEF Aged, TypeOK

(* The other steps change the limiters, or which repositories are gone. *)
Aside ==
  /\ UNCHANGED <<repos, subs, jobs, saving, latest, since, announced, noticed>>
  /\ frozen' \subseteq Instances /\ gone' \subseteq Repos /\ faults' \in 0..MaxFaults

LEMMA AsideFacts ==
  ASSUME TypeOK,
         \/ \E i \in Repos : Relocate(i)
         \/ \E s \in Instances : Hibernate(s) \/ Refresh(s)
         \/ UNCHANGED vars
  PROVE  Aside
  BY FaultFacts DEF TypeOK, Relocate, Hibernate, Refresh, vars, world, out, Aside

(* Every step, by what it does to the tables and the copies. *)
LEMMA ScannerSteps ==
  ASSUME TypeOK, [Next]_vars
  PROVE  \/ Aside \/ Aged
         \/ \E i \in Repos : PublishRelease(i) \/ FindRepoByGitHubID(i) \/ SaveRepo(i)
         \/ \E i \in Repos, e \in Emails : Confirm(i, e) \/ Unsubscribe(i, e)
         \/ \E s \in Instances : Restart(s) \/ \E b \in SUBSET Repos : Produce(s, b)
         \/ \E j \in Slots : Advances(j) \/ MarkMovedAndUnsubscribe(j) \/ UpdateScanStatus(j)
<1>1. ASSUME NEW j \in Slots, ProcessRepo(j)
      PROVE  Advances(j) \/ MarkMovedAndUnsubscribe(j) \/ UpdateScanStatus(j)
  BY <1>1, ReadsAdvance DEF ProcessRepo
<1> QED BY <1>1, AsideFacts, AgeFacts DEF Next

(***************************************************************************)
(* Type correctness                                                        *)
(***************************************************************************)
LEMMA ScannerInit == Init => TypeOK /\ TagsExist /\ HandledIsTold /\ ScansAreMarked /\ NewTagsAreNew
<1> SUFFICES ASSUME Init PROVE TypeOK /\ TagsExist /\ HandledIsTold /\ ScansAreMarked /\ NewTagsAreNew
  OBVIOUS
<1>1. 0 \in Releases /\ MaxFaults \in Nat
  BY ScannerAssumption DEF Releases
<1>2. TypeOK
  BY <1>1 DEF Init, TypeOK, Repository
<1>3. TagsExist /\ HandledIsTold
  BY DEF Init, TagsExist, HandledIsTold, Told, Active
<1>4. ScansAreMarked
  BY DEF Init, ScansAreMarked, NoDoubleScan
<1>5. NewTagsAreNew
  BY DEF Init, NewTagsAreNew, AnnouncedOnce
<1> QED BY <1>2, <1>3, <1>4, <1>5

LEMMA ScannerTypes == TypeOK /\ [Next]_vars => TypeOK'
<1> SUFFICES ASSUME TypeOK, [Next]_vars PROVE TypeOK'
  OBVIOUS
<1>1. CASE Aside
  BY <1>1 DEF Aside, TypeOK
<1>2. ASSUME NEW i \in Repos, PublishRelease(i)
      PROVE  TypeOK'
  BY <1>2, PublishFacts DEF TypeOK
<1>3. ASSUME NEW i \in Repos, FindRepoByGitHubID(i)
      PROVE  TypeOK'
  BY <1>3, FindFacts DEF TypeOK
<1>4. ASSUME NEW i \in Repos, SaveRepo(i)
      PROVE  TypeOK'
  BY <1>4, SaveRepoFacts DEF TypeOK
<1>5. ASSUME NEW i \in Repos, NEW e \in Emails, Confirm(i, e) \/ Unsubscribe(i, e)
      PROVE  TypeOK'
  BY <1>5, ConfirmFacts, UnsubscribeFacts DEF TypeOK
<1>6. ASSUME NEW s \in Instances, Restart(s)
      PROVE  TypeOK'
  BY <1>6, RestartFacts DEF TypeOK
<1>7. ASSUME NEW s \in Instances, NEW b \in SUBSET Repos, Produce(s, b)
      PROVE  TypeOK'
  BY <1>7, ProduceFacts DEF TypeOK
<1>8. ASSUME NEW j \in Slots, Advances(j)
      PROVE  TypeOK'
  BY <1>8 DEF Advances, OneCopy, TypeOK
<1>9. ASSUME NEW j \in Slots, MarkMovedAndUnsubscribe(j)
      PROVE  TypeOK'
  BY <1>9, MoveFacts DEF OneCopy, TypeOK
<1>10. ASSUME NEW j \in Slots, UpdateScanStatus(j)
       PROVE  TypeOK'
  BY <1>10, SaveFacts DEF TypeOK
<1>11. CASE Aged
  BY <1>11 DEF Aged, TypeOK
<1> QED BY <1>1, <1>2, <1>3, <1>4, <1>5, <1>6, <1>7, <1>8, <1>9, <1>10, <1>11, ScannerSteps

LEMMA ScannerTags == TypeOK /\ TagsExist /\ [Next]_vars => TagsExist'
<1> SUFFICES ASSUME TypeOK, TagsExist, [Next]_vars PROVE TagsExist'
  OBVIOUS
<1>0. /\ \A k \in Repos : repos[k].tag \in Int /\ latest[k] \in Int /\ latest[k] >= 0
      /\ \A k \in DOMAIN saving : k \in Repos /\ saving[k].tag \in Int
      /\ \A k \in DOMAIN jobs : jobs[k].repo \in Repos /\ jobs[k].tag \in Int
  BY ScannerAssumption DEF TypeOK, Repository, Job, Releases
<1>1. CASE Aside
  BY <1>1 DEF Aside, TagsExist
<1>2. ASSUME NEW i \in Repos, PublishRelease(i)
      PROVE  TagsExist'
  <2>1. \A k \in Repos : latest'[k] \in Int
    BY <1>2, PublishFacts, ScannerAssumption DEF Releases
  <2> QED BY <1>0, <1>2, <2>1, PublishFacts DEF TagsExist
<1>3. ASSUME NEW i \in Repos, FindRepoByGitHubID(i)
      PROVE  TagsExist'
  BY <1>3, FindFacts DEF TagsExist
<1>4. ASSUME NEW i \in Repos, SaveRepo(i)
      PROVE  TagsExist'
  BY <1>4, SaveRepoFacts DEF TagsExist
<1>5. ASSUME NEW i \in Repos, NEW e \in Emails, Confirm(i, e) \/ Unsubscribe(i, e)
      PROVE  TagsExist'
  BY <1>5, ConfirmFacts, UnsubscribeFacts DEF TagsExist
<1>6. ASSUME NEW s \in Instances, Restart(s)
      PROVE  TagsExist'
  BY <1>6, RestartFacts DEF TagsExist
<1>7. ASSUME NEW s \in Instances, NEW b \in SUBSET Repos, Produce(s, b)
      PROVE  TagsExist'
  <2>1. ASSUME NEW j \in DOMAIN jobs' PROVE jobs'[j].tag <= latest[jobs'[j].repo]
    BY <1>7, ProduceFacts DEF TagsExist
  <2> QED BY <1>7, <2>1, ProduceFacts DEF TagsExist
<1>8. ASSUME NEW j \in Slots, Advances(j)
      PROVE  TagsExist'
  <2>1. jobs'[j].tag \in {jobs[j].tag, latest[jobs[j].repo], 0}
    BY <1>8 DEF Advances, Goes, Finds, Garbles, Reads, Misses
  <2>2. j \in DOMAIN jobs
    BY <1>8 DEF Advances, OneCopy
  <2>3. jobs'[j].tag <= latest[jobs[j].repo]
    BY <1>0, <2>1, <2>2 DEF TagsExist
  <2> QED BY <1>8, <2>3 DEF Advances, OneCopy, TagsExist
<1>9. ASSUME NEW j \in Slots, MarkMovedAndUnsubscribe(j)
      PROVE  TagsExist'
  <2>1. UNCHANGED <<saving, latest>> /\ \A k \in Repos : repos'[k].tag = repos[k].tag
    BY <1>9, MoveFacts
  <2>2. \A k \in DOMAIN jobs' : k \in DOMAIN jobs /\ jobs'[k].repo = jobs[k].repo
                               /\ jobs'[k].tag = jobs[k].tag
    BY <1>9, MoveFacts DEF OneCopy
  <2> QED BY <2>1, <2>2 DEF TagsExist
<1>10. ASSUME NEW j \in Slots, UpdateScanStatus(j)
       PROVE  TagsExist'
  <2>1. ASSUME NEW k \in Repos PROVE repos'[k].tag <= latest[k]
    <3>1. repos[k].deleted \in {"no", "yes"}
      BY DEF TypeOK, Repository
    <3>2. CASE k # jobs[j].repo \/ repos[k].deleted = "yes" \/ repos' = repos
      <4>1. repos'[k] = repos[k]
        BY <1>10, <3>2, SaveFacts
      <4> QED BY <4>1 DEF TagsExist
    <3>3. CASE ~(k # jobs[j].repo \/ repos[k].deleted = "yes" \/ repos' = repos)
      <4>1. j \in DOMAIN jobs /\ repos'[k].tag = jobs[j].tag /\ k = jobs[j].repo
        BY <1>10, <3>1, <3>3, SaveFacts
      <4> QED BY <4>1 DEF TagsExist
    <3> QED BY <3>2, <3>3
  <2> QED BY <1>10, <2>1, SaveFacts DEF TagsExist
<1>11. CASE Aged
  BY <1>11 DEF Aged, TagsExist
<1> QED BY <1>1, <1>2, <1>3, <1>4, <1>5, <1>6, <1>7, <1>8, <1>9, <1>10, <1>11, ScannerSteps

(* Type correctness of the tables, the copies and the limiters. *)
THEOREM ScannerTypeCorrect == Spec => []TypeOK
<1>1. Init => TypeOK
  BY ScannerInit
<1> QED BY <1>1, ScannerTypes, PTL DEF Spec

(***************************************************************************)
(* No release is missed                                                    *)
(***************************************************************************)
(* Told in the next state, for a release of this one. *)
ToldNext(i, e, n) ==
  subs'[i][e] = "active" /\ since'[i][e] < n => announced'[i][e][n] > 0

LEMMA HandledNext ==
  ASSUME \A i \in Repos, e \in Emails : ToldNext(i, e, repos'[i].tag),
         \A i \in DOMAIN saving', e \in Emails : ToldNext(i, e, saving'[i].tag),
         \A j \in DOMAIN jobs', e \in Emails :
           \/ jobs'[j].step = "readers"
           \/ jobs'[j].step = "save" /\ e \in jobs'[j].pending
           \/ ToldNext(jobs'[j].repo, e, jobs'[j].tag)
  PROVE  HandledIsTold'
  BY DEF HandledIsTold, Told, ToldNext, Active

(* No subscription begins and no announcement is taken back. *)
Steady ==
  \A i \in Repos, e \in Emails :
    /\ subs'[i][e] = "active" => subs[i][e] = "active"
    /\ since'[i][e] = since[i][e]
    /\ \A n \in Releases : announced'[i][e][n] >= announced[i][e][n]

(* What was told stays told. *)
LEMMA StillTold ==
  ASSUME TypeOK, TypeOK', Steady, NEW i \in Repos, NEW e \in Emails, NEW n \in Releases, Told(i, e, n)
  PROVE  ToldNext(i, e, n)
<1>1. announced[i][e][n] \in Nat /\ announced'[i][e][n] \in Nat
  BY DEF TypeOK
<1> QED BY <1>1 DEF Steady, Told, ToldNext, Active

(* A step that leaves subscriptions and announcements alone is steady. *)
LEMMA UntouchedIsSteady ==
  ASSUME TypeOK, UNCHANGED <<since, announced>>,
         \A i \in Repos, e \in Emails : subs'[i][e] = "active" => subs[i][e] = "active"
  PROVE  Steady
<1>1. \A i \in Repos, e \in Emails, n \in Releases : announced[i][e][n] \in Nat
  BY DEF TypeOK
<1> QED BY <1>1 DEF Steady

LEMMA ScannerTells ==
  ASSUME "query" \notin FaultKinds
  PROVE  TypeOK /\ TagsExist /\ HandledIsTold /\ [Next]_vars => HandledIsTold'
<1> SUFFICES ASSUME TypeOK, TagsExist, HandledIsTold, [Next]_vars PROVE HandledIsTold'
  OBVIOUS
<1>1. TypeOK'
  BY ScannerTypes
<1>2. /\ \A i \in Repos : repos[i].tag \in Releases
      /\ \A i \in DOMAIN saving : i \in Repos /\ saving[i].tag \in Releases
      /\ \A j \in DOMAIN jobs : jobs[j].repo \in Repos /\ jobs[j].tag \in Releases
  BY DEF TypeOK, Repository, Job
<1>3. ASSUME Steady
      PROVE  /\ \A i \in Repos, e \in Emails : ToldNext(i, e, repos[i].tag)
             /\ \A i \in DOMAIN saving, e \in Emails : ToldNext(i, e, saving[i].tag)
             /\ \A j \in DOMAIN jobs, e \in Emails :
                  \/ jobs[j].step = "readers"
                  \/ jobs[j].step = "save" /\ e \in jobs[j].pending
                  \/ ToldNext(jobs[j].repo, e, jobs[j].tag)
  BY <1>1, <1>2, <1>3, StillTold DEF HandledIsTold
<1>4. CASE Aside
  <2>1. Steady
    BY <1>4, UntouchedIsSteady DEF Aside
  <2> QED BY <1>3, <1>4, <2>1, HandledNext DEF Aside
<1>5. ASSUME NEW i \in Repos, PublishRelease(i)
      PROVE  HandledIsTold'
  <2>1. UNCHANGED <<repos, subs, jobs, saving, since, announced>>
    BY <1>5, PublishFacts
  <2>2. Steady
    BY <2>1, UntouchedIsSteady
  <2> QED BY <1>3, <2>1, <2>2, HandledNext
<1>6. ASSUME NEW i \in Repos, FindRepoByGitHubID(i)
      PROVE  HandledIsTold'
  <2>1. /\ UNCHANGED <<repos, subs, jobs, since, announced>>
        /\ DOMAIN saving' = DOMAIN saving \cup {i} /\ saving'[i] = repos[i]
        /\ \A k \in DOMAIN saving : k # i => saving'[k] = saving[k]
    BY <1>6, FindFacts
  <2>2. Steady
    BY <2>1, UntouchedIsSteady
  <2>3. ASSUME NEW k \in DOMAIN saving', NEW e \in Emails PROVE ToldNext(k, e, saving'[k].tag)
    BY <1>3, <2>1, <2>2
  <2> QED BY <1>3, <2>1, <2>2, <2>3, HandledNext
<1>7. ASSUME NEW i \in Repos, SaveRepo(i)
      PROVE  HandledIsTold'
  <2>1. /\ UNCHANGED <<subs, jobs, since, announced>> /\ i \in DOMAIN saving
        /\ DOMAIN saving' = DOMAIN saving \ {i}
        /\ \A k \in DOMAIN saving' : saving'[k] = saving[k]
        /\ repos'[i] = saving[i] /\ \A k \in Repos : k # i => repos'[k] = repos[k]
    BY <1>7, SaveRepoFacts
  <2>2. Steady
    BY <2>1, UntouchedIsSteady
  <2>3. ASSUME NEW k \in Repos, NEW e \in Emails PROVE ToldNext(k, e, repos'[k].tag)
    BY <1>3, <2>1, <2>2
  <2>4. ASSUME NEW k \in DOMAIN saving', NEW e \in Emails PROVE ToldNext(k, e, saving'[k].tag)
    BY <1>3, <2>1, <2>2
  <2> QED BY <1>3, <2>1, <2>2, <2>3, <2>4, HandledNext
<1>8. ASSUME NEW i \in Repos, NEW e \in Emails, Confirm(i, e)
      PROVE  HandledIsTold'
  <2>1. /\ UNCHANGED <<repos, jobs, saving, announced>> /\ since'[i][e] = latest[i]
        /\ \A k \in Repos, f \in Emails :
             k # i \/ f # e => subs'[k][f] = subs[k][f] /\ since'[k][f] = since[k][f]
    BY <1>8, ConfirmFacts
  <2>2. ASSUME NEW k \in Repos, NEW f \in Emails, NEW n \in Releases, n <= latest[k], Told(k, f, n)
        PROVE  ToldNext(k, f, n)
    <3>1. CASE k # i \/ f # e
      BY <2>1, <2>2, <3>1 DEF Told, ToldNext, Active
    <3>2. CASE k = i /\ f = e
      <4>1. n \in Int /\ latest[k] \in Int /\ n <= since'[k][f]
        BY <2>1, <2>2, <3>2, ScannerAssumption DEF TypeOK, Releases
      <4> QED BY <2>1, <3>2, <4>1 DEF ToldNext
    <3> QED BY <3>1, <3>2
  <2>3. \A k \in Repos, f \in Emails : ToldNext(k, f, repos[k].tag)
    BY <1>2, <2>2 DEF TagsExist, HandledIsTold
  <2>4. \A k \in DOMAIN saving, f \in Emails : ToldNext(k, f, saving[k].tag)
    BY <1>2, <2>2 DEF TagsExist, HandledIsTold
  <2>5. \A j \in DOMAIN jobs, f \in Emails :
          \/ jobs[j].step = "readers"
          \/ jobs[j].step = "save" /\ f \in jobs[j].pending
          \/ ToldNext(jobs[j].repo, f, jobs[j].tag)
    BY <1>2, <2>2 DEF TagsExist, HandledIsTold
  <2> QED BY <2>1, <2>3, <2>4, <2>5, HandledNext
<1>9. ASSUME NEW i \in Repos, NEW e \in Emails, Unsubscribe(i, e)
      PROVE  HandledIsTold'
  <2>1. /\ UNCHANGED <<repos, jobs, saving, since, announced>>
        /\ \A k \in Repos, f \in Emails : subs'[k][f] = "active" => subs[k][f] = "active"
    BY <1>9, UnsubscribeFacts
  <2>2. Steady
    BY <2>1, UntouchedIsSteady
  <2> QED BY <1>3, <2>1, <2>2, HandledNext
<1>10. ASSUME NEW s \in Instances, Restart(s)
       PROVE  HandledIsTold'
  <2>1. /\ UNCHANGED <<subs, since, announced>>
        /\ \A j \in DOMAIN jobs' : j \in DOMAIN jobs /\ jobs'[j] = jobs[j]
        /\ \A k \in Repos : repos'[k].tag = repos[k].tag
        /\ \A k \in DOMAIN saving' : k \in DOMAIN saving /\ saving'[k] = saving[k]
    BY <1>10, RestartFacts
  <2>2. Steady
    BY <2>1, UntouchedIsSteady
  <2> QED BY <1>3, <2>1, <2>2, HandledNext
<1>11. ASSUME NEW s \in Instances, NEW b \in SUBSET Repos, Produce(s, b)
       PROVE  HandledIsTold'
  <2>1. /\ UNCHANGED <<subs, saving, since, announced>>
        /\ \A k \in Repos : repos'[k].tag = repos[k].tag
        /\ \A j \in DOMAIN jobs' : \/ j \in DOMAIN jobs /\ jobs'[j] = jobs[j]
                                   \/ jobs'[j].repo \in Repos /\ jobs'[j].tag = repos[jobs'[j].repo].tag
    BY <1>11, ProduceFacts
  <2>2. Steady
    BY <2>1, UntouchedIsSteady
  <2>3. ASSUME NEW j \in DOMAIN jobs', NEW e \in Emails
        PROVE  \/ jobs'[j].step = "readers"
               \/ jobs'[j].step = "save" /\ e \in jobs'[j].pending
               \/ ToldNext(jobs'[j].repo, e, jobs'[j].tag)
    BY <1>3, <2>1, <2>2
  <2> QED BY <1>3, <2>1, <2>2, <2>3, HandledNext
<1>12. ASSUME NEW j \in Slots, Advances(j)
       PROVE  HandledIsTold'
  <2>1. /\ UNCHANGED <<repos, subs, saving, since, announced>>
        /\ j \in DOMAIN jobs /\ DOMAIN jobs' = DOMAIN jobs /\ jobs'[j].repo = jobs[j].repo
        /\ \A k \in DOMAIN jobs : k # j => jobs'[k] = jobs[k]
    BY <1>12 DEF Advances, OneCopy
  <2>2. Steady
    BY <2>1, UntouchedIsSteady
  <2>3. ASSUME NEW e \in Emails
        PROVE  \/ jobs'[j].step = "readers"
               \/ jobs'[j].step = "save" /\ e \in jobs'[j].pending
               \/ ToldNext(jobs'[j].repo, e, jobs'[j].tag)
    <3>1. CASE Goes(j)
      BY <1>3, <2>1, <2>2, <3>1 DEF Goes
    <3>2. CASE Finds(j) \/ Garbles(j)
      BY <1>3, <2>1, <2>2, <3>2 DEF Finds, Garbles
    <3>3. CASE Reads(j) /\ jobs[j].step = "readers"
      <4>1. jobs'[j].step = "save" /\ jobs'[j].pending = Active(jobs[j].repo)
        BY <3>3 DEF Reads
      <4>2. e \notin Active(jobs[j].repo) => ToldNext(jobs'[j].repo, e, jobs'[j].tag)
        BY <2>1 DEF Active, ToldNext
      <4> QED BY <4>1, <4>2
    <3>4. CASE Reads(j) /\ jobs[j].step = "moved"
      BY <1>3, <2>1, <2>2, <3>4 DEF Reads
    <3> QED BY <1>12, <3>1, <3>2, <3>3, <3>4 DEF Advances, Reads, Misses
  <2>4. ASSUME NEW k \in DOMAIN jobs', NEW e \in Emails
        PROVE  \/ jobs'[k].step = "readers"
               \/ jobs'[k].step = "save" /\ e \in jobs'[k].pending
               \/ ToldNext(jobs'[k].repo, e, jobs'[k].tag)
    BY <1>3, <2>1, <2>2, <2>3
  <2> QED BY <1>3, <2>1, <2>2, <2>4, HandledNext
<1>13. ASSUME NEW j \in Slots, MarkMovedAndUnsubscribe(j)
       PROVE  HandledIsTold'
  <2>1. /\ UNCHANGED <<saving, since, announced>>
        /\ \A k \in Repos : repos'[k].tag = repos[k].tag
        /\ \A k \in Repos, e \in Emails : subs'[k][e] = "active" => subs[k][e] = "active"
    BY <1>13, MoveFacts
  <2>2. /\ DOMAIN jobs' = DOMAIN jobs /\ jobs[j].step = "unsubscribe"
        /\ jobs'[j].repo = jobs[j].repo /\ jobs'[j].tag = jobs[j].tag
        /\ \A k \in DOMAIN jobs : k # j => jobs'[k] = jobs[k]
    BY <1>13, MoveFacts DEF OneCopy
  <2>3. Steady
    BY <2>1, UntouchedIsSteady
  <2>4. ASSUME NEW k \in DOMAIN jobs', NEW e \in Emails
        PROVE  \/ jobs'[k].step = "readers"
               \/ jobs'[k].step = "save" /\ e \in jobs'[k].pending
               \/ ToldNext(jobs'[k].repo, e, jobs'[k].tag)
    BY <1>3, <2>2, <2>3
  <2> QED BY <1>3, <2>1, <2>3, <2>4, HandledNext
<1>14. ASSUME NEW j \in Slots, UpdateScanStatus(j)
       PROVE  HandledIsTold'
  <2>1. /\ UNCHANGED <<subs, saving, since>> /\ j \in DOMAIN jobs /\ jobs[j].step = "save"
        /\ \A k \in DOMAIN jobs' : k \in DOMAIN jobs /\ jobs'[k] = jobs[k]
    BY <1>14, SaveFacts
  <2>2. announced' = announced \/ announced' = Announced(j)
    BY <1>14, SaveFacts
  <2>3. \A i \in Repos, e \in Emails, n \in Releases : announced[i][e][n] \in Nat
    BY DEF TypeOK
  <2>4. Steady
    BY <2>1, <2>2, <2>3, AnnouncedFacts DEF Steady
  <2>5. ASSUME NEW k \in Repos, NEW e \in Emails PROVE ToldNext(k, e, repos'[k].tag)
    <3>1. repos[k].deleted \in {"no", "yes"}
      BY DEF TypeOK, Repository
    <3>2. CASE repos'[k] = repos[k]
      BY <1>3, <2>4, <3>2
    <3>3. CASE repos'[k] # repos[k]
      <4>1. announced' = Announced(j) /\ k = jobs[j].repo /\ repos'[k].tag = jobs[j].tag
        BY <1>14, <3>1, <3>3, SaveFacts
      <4>2. CASE e \in jobs[j].pending
        <5>1. announced'[k][e][jobs[j].tag] = announced[k][e][jobs[j].tag] + 1
          BY <1>2, <2>1, <4>1, <4>2, AnnouncedFacts
        <5>2. announced'[k][e][jobs[j].tag] > 0
          BY <1>2, <2>1, <2>3, <5>1
        <5> QED BY <4>1, <5>2 DEF ToldNext
      <4>3. CASE e \notin jobs[j].pending
        BY <1>3, <2>1, <2>4, <4>1, <4>3
      <4> QED BY <4>2, <4>3
    <3> QED BY <3>2, <3>3
  <2> QED BY <1>3, <2>1, <2>4, <2>5, HandledNext
<1>15. CASE Aged
  <2>1. Steady
    BY <1>15, UntouchedIsSteady DEF Aged
  <2> QED BY <1>3, <1>15, <2>1, HandledNext DEF Aged
<1> QED BY <1>4, <1>5, <1>6, <1>7, <1>8, <1>9, <1>10, <1>11, <1>12, <1>13, <1>14, <1>15, ScannerSteps

(* FR3 for any number of instances, repositories and subscribers and every  *)
(* kind of failure but one: as long as GetActiveSubscriptions does not fail *)
(* the release that a row says was handled was announced to every           *)
(* subscriber of before.                                                    *)
THEOREM ScannerMissesNoRelease ==
  ASSUME "query" \notin FaultKinds
  PROVE  Spec => []ReleaseIsAnnounced
<1>1. Init => TypeOK /\ TagsExist /\ HandledIsTold
  BY ScannerInit
<1>2. TypeOK /\ TagsExist /\ HandledIsTold /\ [Next]_vars => (TypeOK /\ TagsExist /\ HandledIsTold)'
  BY ScannerTypes, ScannerTags, ScannerTells
<1>3. HandledIsTold => ReleaseIsAnnounced
  BY DEF HandledIsTold, Told, ReleaseIsAnnounced, Live, Active
<1> QED BY <1>1, <1>2, <1>3, PTL DEF Spec

(***************************************************************************)
(* One instance: no double scans, no double announcements                  *)
(***************************************************************************)
(* As docker-compose.yml deploys the server. *)
SingleInstance == \E s : Instances = {s}

LEMMA ScannerMarks ==
  ASSUME SingleInstance, "rename" \notin FaultKinds
  PROVE  TypeOK /\ ScansAreMarked /\ [Next]_vars => ScansAreMarked'
<1> SUFFICES ASSUME TypeOK, ScansAreMarked, [Next]_vars PROVE ScansAreMarked'
  OBVIOUS
<1>1. \A j \in DOMAIN jobs : jobs[j].repo \in Repos
  BY DEF TypeOK, Job
<1>2. CASE Aside
  BY <1>2 DEF Aside, ScansAreMarked, NoDoubleScan
<1>3. ASSUME NEW i \in Repos, PublishRelease(i)
      PROVE  ScansAreMarked'
  BY <1>3, PublishFacts DEF ScansAreMarked, NoDoubleScan
<1>4. ASSUME NEW i \in Repos
      PROVE  ~FindRepoByGitHubID(i) /\ ~SaveRepo(i)
  BY FindFacts, SaveRepoFacts DEF ScansAreMarked
<1>5. ASSUME NEW i \in Repos, NEW e \in Emails, Confirm(i, e) \/ Unsubscribe(i, e)
      PROVE  ScansAreMarked'
  BY <1>5, ConfirmFacts, UnsubscribeFacts DEF ScansAreMarked, NoDoubleScan
<1>6. ASSUME NEW s \in Instances, Restart(s)
      PROVE  ScansAreMarked'
  <2>1. Instances = {s}
    BY DEF SingleInstance
  <2>2. \A j \in DOMAIN jobs : Home[j] = s
    BY <2>1, ScannerAssumption DEF TypeOK
  <2>3. DOMAIN jobs' = {} /\ saving' = [i \in {} |-> 0]
    BY <1>6, <2>1, <2>2, RestartFacts
  <2> QED BY <2>3 DEF ScansAreMarked, NoDoubleScan
<1>7. ASSUME NEW s \in Instances, NEW b \in SUBSET Repos, Produce(s, b)
      PROVE  ScansAreMarked'
  <2>1. ASSUME NEW j \in DOMAIN jobs'
        PROVE  repos'[jobs'[j].repo].status = "processing"
    <3>1. CASE j \in DOMAIN jobs
      BY <1>1, <1>7, <3>1, ProduceFacts DEF ScansAreMarked
    <3>2. CASE j \notin DOMAIN jobs
      BY <1>7, <3>2, ProduceFacts
    <3> QED BY <3>1, <3>2
  <2>2. ASSUME NEW j \in DOMAIN jobs', NEW k \in DOMAIN jobs', j # k
        PROVE  jobs'[j].repo # jobs'[k].repo
    <3>1. CASE j \in DOMAIN jobs /\ k \in DOMAIN jobs
      BY <1>7, <2>2, <3>1, ProduceFacts DEF ScansAreMarked, NoDoubleScan
    <3>2. CASE j \notin DOMAIN jobs /\ k \notin DOMAIN jobs
      BY <1>7, <2>2, <3>2, ProduceFacts
    <3>3. \A m \in DOMAIN jobs : jobs'[m].repo \notin b
      BY <1>7, ProduceFacts DEF ScansAreMarked
    <3>4. \A m \in DOMAIN jobs' \ DOMAIN jobs : jobs'[m].repo \in b
      BY <1>7, ProduceFacts
    <3> QED BY <3>1, <3>2, <3>3, <3>4
  <2>3. saving' = saving
    BY <1>7, ProduceFacts
  <2> QED BY <2>1, <2>2, <2>3 DEF ScansAreMarked, NoDoubleScan
<1>8. ASSUME NEW j \in Slots, Advances(j)
      PROVE  ScansAreMarked'
  <2>1. /\ UNCHANGED <<repos, saving>> /\ DOMAIN jobs' = DOMAIN jobs
        /\ \A k \in DOMAIN jobs : jobs'[k].repo = jobs[k].repo
    BY <1>8 DEF Advances, OneCopy
  <2> QED BY <2>1 DEF ScansAreMarked, NoDoubleScan
<1>9. ASSUME NEW j \in Slots, MarkMovedAndUnsubscribe(j)
      PROVE  ScansAreMarked'
  <2>1. saving' = saving /\ \A k \in Repos : repos'[k].status = repos[k].status
    BY <1>9, MoveFacts
  <2>2. DOMAIN jobs' = DOMAIN jobs /\ \A k \in DOMAIN jobs : jobs'[k].repo = jobs[k].repo
    BY <1>9, MoveFacts DEF OneCopy
  <2> QED BY <1>1, <2>1, <2>2 DEF ScansAreMarked, NoDoubleScan
<1>10. ASSUME NEW j \in Slots, UpdateScanStatus(j)
       PROVE  ScansAreMarked'
  <2>1. /\ saving' = saving /\ j \in DOMAIN jobs /\ DOMAIN jobs' = DOMAIN jobs \ {j}
        /\ \A k \in DOMAIN jobs' : jobs'[k] = jobs[k]
        /\ \A i \in Repos : i # jobs[j].repo => repos'[i] = repos[i]
    BY <1>10, SaveFacts
  <2>2. \A k \in DOMAIN jobs' : jobs[k].repo # jobs[j].repo
    BY <2>1 DEF ScansAreMarked, NoDoubleScan
  <2> QED BY <1>1, <2>1, <2>2 DEF ScansAreMarked, NoDoubleScan
<1>11. CASE Aged
  BY <1>1, <1>11 DEF Aged, ScansAreMarked, NoDoubleScan
<1> QED BY <1>2, <1>3, <1>4, <1>5, <1>6, <1>7, <1>8, <1>9, <1>10, <1>11, ScannerSteps

(* One instance scans no repository twice at a time, with any number of     *)
(* workers, restarts and failures, unless POST /subscribe saves a renamed   *)
(* repository over a claim: the status column is the only lock.             *)
THEOREM ScannerNoDoubleScan ==
  ASSUME SingleInstance, "rename" \notin FaultKinds
  PROVE  Spec => []NoDoubleScan
<1>1. Init => TypeOK /\ ScansAreMarked
  BY ScannerInit
<1>2. TypeOK /\ ScansAreMarked /\ [Next]_vars => (TypeOK /\ ScansAreMarked)'
  BY ScannerTypes, ScannerMarks
<1>3. ScansAreMarked => NoDoubleScan
  BY DEF ScansAreMarked
<1> QED BY <1>1, <1>2, <1>3, PTL DEF Spec

(* What Ahead looks at in a row. *)
LEMMA AheadSameRow ==
  ASSUME NEW job, NEW row, NEW row2, Ahead(job, row), row2.tag = row.tag, row2.deleted = row.deleted
  PROVE  Ahead(job, row2)
  BY DEF Ahead

LEMMA ScannerRaises ==
  ASSUME SingleInstance, "rename" \notin FaultKinds, "body" \notin FaultKinds
  PROVE  TypeOK /\ TagsExist /\ ScansAreMarked /\ NewTagsAreNew /\ [Next]_vars => NewTagsAreNew'
<1> SUFFICES ASSUME TypeOK, TagsExist, ScansAreMarked, NewTagsAreNew, [Next]_vars
             PROVE  NewTagsAreNew'
  OBVIOUS
<1>1. /\ \A i \in Repos : repos[i].tag \in Int /\ latest[i] \in Int
      /\ \A j \in DOMAIN jobs : jobs[j].repo \in Repos /\ jobs[j].tag \in Releases
      /\ \A n \in Releases : n \in Int
      /\ \A i \in Repos, e \in Emails, n \in Releases : announced[i][e][n] \in Nat
  BY ScannerAssumption DEF TypeOK, Repository, Job, Releases
<1>2. ASSUME announced' = announced, \A i \in Repos : repos'[i].tag = repos[i].tag,
             \A j \in DOMAIN jobs' : Ahead(jobs'[j], repos'[jobs'[j].repo])
      PROVE  NewTagsAreNew'
  BY <1>2 DEF NewTagsAreNew, AnnouncedOnce
<1>3. CASE Aside
  BY <1>2, <1>3 DEF Aside, NewTagsAreNew
<1>4. ASSUME NEW i \in Repos, PublishRelease(i)
      PROVE  NewTagsAreNew'
  BY <1>2, <1>4, PublishFacts DEF NewTagsAreNew
<1>5. ASSUME NEW i \in Repos
      PROVE  ~FindRepoByGitHubID(i) /\ ~SaveRepo(i)
  BY FindFacts, SaveRepoFacts DEF ScansAreMarked
<1>6. ASSUME NEW i \in Repos, NEW e \in Emails, Confirm(i, e) \/ Unsubscribe(i, e)
      PROVE  NewTagsAreNew'
  <2>1. UNCHANGED <<repos, jobs, announced>>
    BY <1>6, ConfirmFacts, UnsubscribeFacts
  <2> QED BY <1>2, <2>1 DEF NewTagsAreNew
<1>7. ASSUME NEW s \in Instances, Restart(s)
      PROVE  NewTagsAreNew'
  <2>1. Instances = {s}
    BY DEF SingleInstance
  <2>2. \A j \in DOMAIN jobs : Home[j] = s
    BY <2>1, ScannerAssumption DEF TypeOK
  <2>3. /\ DOMAIN jobs' = {} /\ announced' = announced
        /\ \A i \in Repos : repos'[i].tag = repos[i].tag
    BY <1>7, <2>1, <2>2, RestartFacts
  <2> QED BY <1>2, <2>3
<1>8. ASSUME NEW s \in Instances, NEW b \in SUBSET Repos, Produce(s, b)
      PROVE  NewTagsAreNew'
  <2>1. /\ announced' = announced
        /\ \A i \in Repos : repos'[i].tag = repos[i].tag /\ repos'[i].deleted = repos[i].deleted
    BY <1>8, ProduceFacts
  <2>2. ASSUME NEW j \in DOMAIN jobs'
        PROVE  Ahead(jobs'[j], repos'[jobs'[j].repo])
    <3>1. CASE j \in DOMAIN jobs
      <4>1. jobs'[j] = jobs[j] /\ jobs[j].repo \in Repos /\ Ahead(jobs[j], repos[jobs[j].repo])
        BY <1>1, <1>8, <3>1, ProduceFacts DEF NewTagsAreNew
      <4> QED BY <2>1, <4>1, AheadSameRow
    <3>2. CASE j \notin DOMAIN jobs
      <4>1. PICK i \in b : i = jobs'[j].repo
        BY <1>8, <3>2, ProduceFacts
      <4>2. /\ jobs'[j].step = "queued" /\ jobs'[j].pending = {} /\ jobs'[j].tag = repos[i].tag
            /\ repos[i].deleted = "no"
        BY <1>8, <3>2, <4>1, ProduceFacts
      <4> QED BY <2>1, <4>1, <4>2 DEF Ahead
    <3> QED BY <3>1, <3>2
  <2> QED BY <1>2, <2>1, <2>2
<1>9. ASSUME NEW j \in Slots, Advances(j)
      PROVE  NewTagsAreNew'
  <2>1. /\ UNCHANGED <<repos, announced>>
        /\ j \in DOMAIN jobs /\ DOMAIN jobs' = DOMAIN jobs /\ jobs'[j].repo = jobs[j].repo
        /\ \A k \in DOMAIN jobs : k # j => jobs'[k] = jobs[k]
    BY <1>9 DEF Advances, OneCopy
  <2>2. PICK i \in Repos, row \in Repository : i = jobs[j].repo /\ row = repos[i]
    BY <1>1, <2>1 DEF TypeOK
  <2>3. /\ Ahead(jobs[j], row) /\ row.tag \in Int /\ jobs[j].tag \in Int
        /\ jobs[j].tag <= latest[i] /\ latest[i] \in Int
    BY <1>1, <2>1, <2>2 DEF NewTagsAreNew, TagsExist
  <2>4. Ahead(jobs'[j], row)
    <3>1. CASE Goes(j)
      BY <2>3, <3>1 DEF Goes, Ahead
    <3>2. CASE Finds(j)
      <4>1. jobs[j].step = "release" /\ jobs'[j].tag = latest[i] /\ jobs'[j].pending = jobs[j].pending
        BY <2>2, <3>2 DEF Finds
      <4>2. jobs[j].tag = row.tag /\ jobs[j].pending = {} /\ row.deleted = "no"
        BY <2>3, <4>1 DEF Ahead
      <4>3. \/ jobs'[j].step = "save" /\ jobs'[j].tag = row.tag
            \/ jobs'[j].step = "readers" /\ jobs'[j].tag > row.tag
        BY <2>3, <3>2, <4>1, <4>2 DEF Finds
      <4> QED BY <2>3, <4>1, <4>2, <4>3 DEF Ahead
    <3>3. CASE Reads(j) \/ Misses(j)
      BY <2>3, <3>3 DEF Reads, Misses, Ahead
    <3> QED BY <1>9, <3>1, <3>2, <3>3 DEF Advances, Garbles
  <2>5. \A k \in DOMAIN jobs' : Ahead(jobs'[k], repos'[jobs'[k].repo])
    BY <2>1, <2>2, <2>4 DEF NewTagsAreNew
  <2> QED BY <1>2, <2>1, <2>5
<1>10. ASSUME NEW j \in Slots, MarkMovedAndUnsubscribe(j)
       PROVE  NewTagsAreNew'
  <2>1. /\ announced' = announced
        /\ jobs[j].step = "unsubscribe" /\ jobs'[j].step = "save"
        /\ jobs'[j].tag = jobs[j].tag /\ jobs'[j].pending = {}
        /\ \A k \in Repos : repos'[k].tag = repos[k].tag /\ (k # jobs[j].repo => repos'[k] = repos[k])
    BY <1>10, MoveFacts
  <2>2. /\ j \in DOMAIN jobs /\ DOMAIN jobs' = DOMAIN jobs /\ jobs'[j].repo = jobs[j].repo
        /\ \A k \in DOMAIN jobs : k # j => jobs'[k] = jobs[k]
    BY <1>10, MoveFacts DEF OneCopy
  <2>3. ASSUME NEW k \in DOMAIN jobs'
        PROVE  Ahead(jobs'[k], repos'[jobs'[k].repo])
    <3>1. CASE k = j
      <4>1. jobs[j].tag = repos[jobs[j].repo].tag
        BY <2>1, <2>2 DEF NewTagsAreNew, Ahead
      <4>2. jobs'[j].tag = repos'[jobs'[j].repo].tag /\ jobs'[j].tag \in Int
        BY <1>1, <2>1, <2>2, <4>1
      <4> QED BY <2>1, <3>1, <4>2 DEF Ahead
    <3>2. CASE k # j
      <4>1. jobs'[k] = jobs[k] /\ jobs[k].repo # jobs[j].repo /\ jobs[k].repo \in Repos
        BY <1>1, <2>2, <3>2 DEF ScansAreMarked, NoDoubleScan
      <4> QED BY <2>1, <2>2, <4>1 DEF NewTagsAreNew
    <3> QED BY <3>1, <3>2
  <2> QED BY <1>2, <2>1, <2>3
<1>11. ASSUME NEW j \in Slots, UpdateScanStatus(j)
       PROVE  NewTagsAreNew'
  <2>1. /\ j \in DOMAIN jobs /\ jobs[j].step = "save" /\ DOMAIN jobs' = DOMAIN jobs \ {j}
        /\ \A k \in DOMAIN jobs' : jobs'[k] = jobs[k]
        /\ \A i \in Repos : i # jobs[j].repo \/ repos[i].deleted = "yes" => repos'[i] = repos[i]
    BY <1>11, SaveFacts
  <2>2. ASSUME NEW k \in DOMAIN jobs'
        PROVE  Ahead(jobs'[k], repos'[jobs'[k].repo])
    <3>1. jobs'[k] = jobs[k] /\ jobs[k].repo # jobs[j].repo /\ jobs[k].repo \in Repos
      BY <1>1, <2>1 DEF ScansAreMarked, NoDoubleScan
    <3> QED BY <2>1, <3>1 DEF NewTagsAreNew
  <2>3. CASE repos' = repos /\ announced' = announced
    BY <1>2, <2>2, <2>3
  <2>4. CASE ~(repos' = repos /\ announced' = announced)
    <3>1. PICK i \in Repos, n \in Releases : i = jobs[j].repo /\ n = jobs[j].tag
      BY <1>1, <2>1
    <3>2. /\ announced' = Announced(j)
          /\ repos[i].deleted = "no" => repos'[i].tag = n
      BY <1>11, <2>4, <3>1, SaveFacts
    <3>3. /\ n >= repos[i].tag
          /\ jobs[j].pending # {} => n > repos[i].tag /\ repos[i].deleted = "no"
      BY <2>1, <3>1 DEF NewTagsAreNew, Ahead
    <3>4. repos[i].deleted \in {"no", "yes"}
      BY DEF TypeOK, Repository
    <3>5. repos'[i].tag \in {repos[i].tag, n} /\ (jobs[j].pending # {} => repos'[i].tag = n)
          /\ (repos'[i].tag = repos[i].tag \/ repos'[i].tag = n)
      BY <2>1, <3>1, <3>2, <3>3, <3>4
    <3>6. ASSUME NEW k \in Repos, NEW e \in Emails, NEW m \in Releases
          PROVE  /\ announced'[k][e][m] <= 1
                 /\ announced'[k][e][m] > 0 => m <= repos'[k].tag
      <4>1. announced'[k][e][m] = IF k = i /\ e \in jobs[j].pending /\ m = n
                                    THEN announced[k][e][m] + 1 ELSE announced[k][e][m]
        BY <2>1, <3>1, <3>2, AnnouncedFacts
      <4>2. /\ announced[k][e][m] <= 1 /\ announced[k][e][m] \in Nat
            /\ announced[k][e][m] > 0 => m <= repos[k].tag
        BY <1>1 DEF NewTagsAreNew, AnnouncedOnce
      <4>3. m \in Int /\ n \in Int /\ repos[k].tag \in Int
        BY <1>1
      <4>4. CASE k = i /\ e \in jobs[j].pending /\ m = n
        <5>1. repos'[i].tag = n /\ n > repos[i].tag
          BY <3>3, <3>5, <4>4
        <5>2. announced[k][e][m] = 0
          BY <4>2, <4>3, <4>4, <5>1
        <5> QED BY <4>1, <4>3, <4>4, <5>1, <5>2
      <4>5. CASE ~(k = i /\ e \in jobs[j].pending /\ m = n)
        <5>1. announced'[k][e][m] = announced[k][e][m]
          BY <4>1, <4>5
        <5>2. repos[k].tag <= repos'[k].tag /\ repos'[k].tag \in Int
          BY <2>1, <3>1, <3>3, <3>5, <4>3
        <5> QED BY <4>2, <4>3, <5>1, <5>2
      <4> QED BY <4>4, <4>5
    <3> QED BY <2>2, <3>6 DEF NewTagsAreNew, AnnouncedOnce
  <2> QED BY <2>3, <2>4
<1>12. CASE Aged
  <2>1. ASSUME NEW j \in DOMAIN jobs
        PROVE  Ahead(jobs[j], repos'[jobs[j].repo])
    BY <1>1, <1>12, AheadSameRow DEF Aged, NewTagsAreNew
  <2> QED BY <1>2, <1>12, <2>1 DEF Aged
<1> QED BY <1>3, <1>4, <1>5, <1>6, <1>7, <1>8, <1>9, <1>10, <1>11, <1>12, ScannerSteps

(* One instance announces a release to a subscriber at most once, however   *)
(* often scans fail and the server restarts, unless a renamed repository is *)
(* saved over a claim or an answer does not decode.                         *)
THEOREM ScannerAnnouncesOnce ==
  ASSUME SingleInstance, "rename" \notin FaultKinds, "body" \notin FaultKinds
  PROVE  Spec => []AnnouncedOnce
<1> DEFINE Inv == TypeOK /\ TagsExist /\ ScansAreMarked /\ NewTagsAreNew
<1>1. Init => Inv
  BY ScannerInit
<1>2. Inv /\ [Next]_vars => Inv'
  BY ScannerTypes, ScannerTags, ScannerMarks, ScannerRaises
<1>3. Inv => AnnouncedOnce
  BY DEF NewTagsAreNew
<1> QED BY <1>1, <1>2, <1>3, PTL DEF Spec
=============================================================================
