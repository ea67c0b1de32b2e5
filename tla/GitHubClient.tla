---------------------------- MODULE GitHubClient ----------------------------
(***************************************************************************)
(* The GitHub client of one server (api/github) and the scanner's quota    *)
(* manager (worker/scanner/quota.go) that feeds on it.  A request passes   *)
(* CacheTransport (Redis, keyed by URL), RateLimitTransport (remembers the *)
(* limits of the last response) and AuthTransport on its way to GitHub.    *)
(* Workers ask for a repository and then its latest release, each with the *)
(* ETag of their copy of the row; POST /subscribe asks for the repository  *)
(* alone, without an ETag.  Every request shares the cache and the limits, *)
(* and answers are recorded and cached in any order.                       *)
(*                                                                         *)
(* Content is a version number, and an ETag the version it was given for:  *)
(* version 0 is a page that does not exist (404).  A rate is 0 or 1, for   *)
(* any positive number of requests per second.  Which repositories are     *)
(* claimed, moved repositories and workers that sleep on the limiter are   *)
(* the subject of Scanner.                                                 *)
(***************************************************************************)
EXTENDS Integers, FiniteSets

CONSTANTS
  Workers,     \* scanner workers that check the one repository
  Handlers,    \* POST /subscribe requests
  Limit,       \* requests GitHub answers in a window (X-RateLimit-Limit)
  Reserved,    \* Limit * safetyBuffer
  TTL,         \* GITHUB_CACHE_TTL_SECONDS
  ErrorTTL,    \* GITHUB_CACHE_ERROR_TTL_SECODS
  MinInterval, \* SCANNER_MIN_INTERVAL_SECONDS
  MaxVersion,  \* bound: URL -> versions of its page
  MaxFaults    \* bound: failed requests and secondary limits

Callers == Workers \cup Handlers
Urls == {"repo", "release"}

ASSUME GitHubAssumption ==
  /\ Workers \cap Handlers = {}
  /\ Limit \in Nat /\ Reserved \in 0..Limit
  /\ TTL \in Nat /\ ErrorTTL \in Nat /\ MinInterval \in Nat
  /\ MaxVersion \in [Urls -> Nat \ {0}] /\ MaxFaults \in Nat

VARIABLES
  content,     \* GitHub: URL -> version
  left,        \* GitHub: requests left in this window
  banned,      \* GitHub: whether the secondary limit is hit
  cache,       \* Redis: URL -> response, for the URLs cached
  known,       \* lastLimits: remaining, and whether ResetAt has passed
  retryAfter,  \* lastLimits.RetryAfter: "past" or "future"
  rate,        \* the limiter's limit
  row,         \* repositories: URL -> its ETag (and tag)
  calls,       \* caller -> its request in progress
  faults       \* failures so far

vars == <<content, left, banned, cache, known, retryAfter, rate, row, calls, faults>>
github == <<content, left, banned>>

Versions == 0..MaxVersion["repo"] \cup 0..MaxVersion["release"]
Window   == {"now", "past"}

(* What a caller sees of a response, and what comes with it: remaining is   *)
(* X-RateLimit-Remaining, -1 when there is none; window tells whether the   *)
(* X-RateLimit-Reset sent with it has passed; retry is a Retry-After.       *)
(* Status 0 is a network error.                                             *)
Statuses == {0, 200, 304, 403, 404}
Response == [status: Statuses, version: Versions]
Limits   == [remaining: -1..Limit, window: Window, retry: {"no", "yes"}]
Call == [pc: {"idle", "lookup", "send", "record", "store"}, url: Urls,
         etags: [Urls -> Versions], resp: Response, limits: Limits]

NoResponse == [status |-> 0, version |-> 0]
NoLimits   == [remaining |-> -1, window |-> "now", retry |-> "no"]
Idle       == [pc |-> "idle", url |-> "repo", etags |-> [u \in Urls |-> 0],
               resp |-> NoResponse, limits |-> NoLimits]

TypeOK ==
  /\ content \in [Urls -> Versions]
  /\ left \in 0..Limit
  /\ banned \in {"no", "yes"}
  /\ DOMAIN cache \subseteq Urls
  /\ cache \in [DOMAIN cache -> Response]
  /\ known \in [remaining: 0..Limit, window: Window]
  /\ retryAfter \in {"past", "future"}
  /\ rate \in {0, 1}
  /\ row \in [Urls -> Versions]
  /\ calls \in [Callers -> Call]
  /\ faults \in 0..MaxFaults

(* GetBaseRateLimits: a full window is assumed until a response says        *)
(* otherwise.                                                               *)
Init ==
  /\ content = [u \in Urls |-> IF u = "repo" THEN 1 ELSE 0]
  /\ left = Limit
  /\ banned = "no"
  /\ cache = [u \in {} |-> NoResponse]
  /\ known = [remaining |-> Limit, window |-> "now"]
  /\ retryAfter = "past"
  /\ rate = 1
  /\ row = [u \in Urls |-> 0]
  /\ calls = [c \in Callers |-> Idle]
  /\ faults = 0

Fault == faults < MaxFaults /\ faults' = faults + 1

(***************************************************************************)
(* GitHub, Redis and time                                                  *)
(***************************************************************************)
Publish(u) ==
  /\ content[u] < MaxVersion[u]
  /\ content' = [content EXCEPT ![u] = @ + 1]
  /\ UNCHANGED <<left, banned, cache, known, retryAfter, rate, row, calls, faults>>

(* The window ends: every reset time that was told before has passed. *)
WindowReset ==
  /\ left < Limit
  /\ left' = Limit
  /\ known' = [known EXCEPT !.window = "past"]
  /\ calls' = [c \in Callers |-> IF calls[c].pc = "record" THEN [calls[c] EXCEPT !.limits.window = "past"]
                                                       ELSE calls[c]]
  /\ UNCHANGED <<content, banned, cache, retryAfter, rate, row, faults>>

Ban ==
  /\ Fault
  /\ banned = "no" /\ banned' = "yes"
  /\ UNCHANGED <<content, left, cache, known, retryAfter, rate, row, calls>>

BanEnds ==
  /\ banned = "yes" /\ banned' = "no"
  /\ UNCHANGED <<content, left, cache, known, retryAfter, rate, row, calls, faults>>

RetryAfterPasses ==
  /\ retryAfter = "future" /\ retryAfter' = "past"
  /\ UNCHANGED <<cache, known, rate, row, calls, faults>> /\ UNCHANGED github

Expire(u) ==
  /\ u \in DOMAIN cache
  /\ cache' = [v \in DOMAIN cache \ {u} |-> cache[v]]
  /\ UNCHANGED <<known, retryAfter, rate, row, calls, faults>> /\ UNCHANGED github

(* The answer to a request for u with an ETag (0 for none), given the quota *)
(* that is left: a 304 is free, and a secondary limit has no other headers. *)
Answer(u, etag) ==
  LET status == IF banned = "yes" \/ left = 0 THEN 403
                ELSE IF content[u] = 0         THEN 404
                ELSE IF content[u] = etag      THEN 304 ELSE 200
  IN  [status |-> status, version |-> IF status = 200 THEN content[u] ELSE 0]

(***************************************************************************)
(* The quota manager                                                       *)
(***************************************************************************)
(* Refresh, called by the producer on every tick.  A ResetAt that has       *)
(* passed changes the time the quota is spread over, not what is left.      *)
Refresh ==
  /\ rate' = IF retryAfter = "future" \/ known.remaining <= Reserved THEN 0 ELSE 1
  /\ UNCHANGED <<cache, known, retryAfter, row, calls, faults>> /\ UNCHANGED github

(* How long CacheTransport keeps a response. *)
Lifetime(r) == IF r.status >= 400 THEN ErrorTTL ELSE TTL

(* Mutant: the claim does not look at last_scanned_at. *)
DueAnyTime(w) == TRUE

(* ClaimIdle takes a row that was saved MinInterval ago or earlier.  Only   *)
(* scans ask for the release, so what the last one left in the cache is     *)
(* gone unless it is kept for as long.  (Nothing is known of its age when   *)
(* several workers are at the repository.)                                  *)
Due(w) ==
  Workers = {w} /\ "release" \in DOMAIN cache => Lifetime(cache["release"]) >= MinInterval

(* A worker with a copy of the row is let through by the limiter.  (What a  *)
(* worker that waits on a limiter at 0 does is in Scanner.)                 *)
Wait(w) ==
  /\ calls[w].pc = "idle"
  /\ rate > 0
  /\ Due(w)
  /\ calls' = [calls EXCEPT ![w] = [Idle EXCEPT !.pc = "lookup", !.etags = row]]
  /\ UNCHANGED <<cache, known, retryAfter, rate, row, faults>> /\ UNCHANGED github

(* resolveOrCreateRepo asks for a path that has no row. *)
Resolve(h) ==
  /\ calls[h].pc = "idle"
  /\ calls' = [calls EXCEPT ![h].pc = "lookup"]
  /\ UNCHANGED <<cache, known, retryAfter, rate, row, faults>> /\ UNCHANGED github

(***************************************************************************)
(* A request                                                               *)
(***************************************************************************)
(* Mutant: the copy is not saved. *)
ScanUnsaved(w, r) ==
  LET call  == calls[w]
      etags == IF r.status = 200 THEN [call.etags EXCEPT ![call.url] = r.version] ELSE call.etags
  IN  /\ calls' = [calls EXCEPT ![w] =
           IF call.url = "repo" /\ r.status \in {200, 304}
             THEN [Idle EXCEPT !.pc = "lookup", !.url = "release", !.etags = etags] ELSE Idle]
      /\ rate' = IF r.status = 403 THEN 0 ELSE rate
      /\ UNCHANGED row

(* ProcessRepo: a 200 updates the copy's ETag; a 200 or 304 for the         *)
(* repository is followed by the request for its release; a 403 sets the    *)
(* limiter to 0; the copy is saved when the scan ends.                      *)
Scan(w, r) ==
  LET call  == calls[w]
      etags == IF r.status = 200 THEN [call.etags EXCEPT ![call.url] = r.version] ELSE call.etags
  IN  IF call.url = "repo" /\ r.status \in {200, 304}
        THEN /\ calls' = [calls EXCEPT ![w] = [Idle EXCEPT !.pc = "lookup", !.url = "release",
                                                           !.etags = etags]]
             /\ UNCHANGED <<row, rate>>
        ELSE /\ calls' = [calls EXCEPT ![w] = Idle]
             /\ row' = etags
             /\ rate' = IF r.status = 403 THEN 0 ELSE rate

(* The response reaches the caller.  Anything but a 200 is "repository not  *)
(* found" to a handler.                                                     *)
Return(c, r) ==
  \/ c \in Workers /\ Scan(c, r)
  \/ c \in Handlers /\ calls' = [calls EXCEPT ![c] = Idle] /\ UNCHANGED <<row, rate>>

(* getCacheKey: the URL, and nothing of the request's headers. *)
CacheKey(u) == u

(* CacheTransport returns what it finds. *)
Hit(c) ==
  /\ calls[c].pc = "lookup"
  /\ CacheKey(calls[c].url) \in DOMAIN cache
  /\ Return(c, cache[CacheKey(calls[c].url)])
  /\ UNCHANGED <<cache, known, retryAfter, faults>> /\ UNCHANGED github

(* Nothing is cached, or Redis fails, or the entry does not decode.  (Redis  *)
(* may fail as often as it likes: errors of it are no faults.)              *)
Miss(c) ==
  /\ calls[c].pc = "lookup"
  /\ calls' = [calls EXCEPT ![c].pc = "send"]
  /\ UNCHANGED <<cache, known, retryAfter, rate, row, faults>> /\ UNCHANGED github

(* GitHub answers; the quota is counted there and then. *)
Send(c) ==
  LET r == Answer(calls[c].url, IF c \in Workers THEN calls[c].etags[calls[c].url] ELSE 0)
  IN  /\ calls[c].pc = "send"
      /\ left' = IF r.status \in {200, 404} THEN left - 1 ELSE left
      /\ calls' = [calls EXCEPT ![c].pc = "record", ![c].resp = r,
           ![c].limits = IF banned = "yes"
                           THEN [remaining |-> -1, window |-> "now", retry |-> "yes"]
                           ELSE [remaining |-> left', window |-> "now", retry |-> "no"]]
      /\ UNCHANGED <<content, banned, cache, known, retryAfter, rate, row, faults>>

(* The request, or the answer, or its body is lost: nothing is cached.      *)
NetworkError(c) ==
  /\ Fault
  /\ calls[c].pc \in {"send", "record", "store"}
  /\ Return(c, NoResponse)
  /\ UNCHANGED <<cache, known, retryAfter>> /\ UNCHANGED github

(* Mutant: the reset time is taken from the clock and not from the header. *)
RecordResetAsNow(c) ==
  LET limits == calls[c].limits
  IN  /\ calls[c].pc = "record"
      /\ known' = IF limits.remaining = -1 THEN known
                  ELSE [remaining |-> limits.remaining, window |-> "now"]
      /\ retryAfter' = IF limits.retry = "yes" THEN "future" ELSE retryAfter
      /\ calls' = [calls EXCEPT ![c].pc = "store", ![c].limits = NoLimits]
      /\ UNCHANGED <<cache, rate, row, faults>> /\ UNCHANGED github

(* Mutant: limits are recorded whether they came or not. *)
RecordIncomplete(c) ==
  LET limits == calls[c].limits
  IN  /\ calls[c].pc = "record"
      /\ known' = [remaining |-> limits.remaining, window |-> limits.window]
      /\ retryAfter' = IF limits.retry = "yes" THEN "future" ELSE retryAfter
      /\ calls' = [calls EXCEPT ![c].pc = "store", ![c].limits = NoLimits]
      /\ UNCHANGED <<cache, rate, row, faults>> /\ UNCHANGED github

(* RateLimitTransport: limits that came complete replace the last ones,     *)
(* whichever response was sent first; Retry-After only moves forward.       *)
Record(c) ==
  LET limits == calls[c].limits
  IN  /\ calls[c].pc = "record"
      /\ known' = IF limits.remaining = -1 THEN known
                  ELSE [remaining |-> limits.remaining, window |-> limits.window]
      /\ retryAfter' = IF limits.retry = "yes" THEN "future" ELSE retryAfter
      /\ calls' = [calls EXCEPT ![c].pc = "store", ![c].limits = NoLimits]
      /\ UNCHANGED <<cache, rate, row, faults>> /\ UNCHANGED github

(* CacheTransport keeps the response, a 304 and an error too, unless its    *)
(* lifetime is 0 or Redis fails.                                            *)
Store(c) ==
  LET r == calls[c].resp
  IN  /\ calls[c].pc = "store"
      /\ \/ Lifetime(r) > 0
            /\ cache' = [u \in DOMAIN cache \cup {CacheKey(calls[c].url)} |->
                           IF u = CacheKey(calls[c].url) THEN r ELSE cache[u]]
         \/ UNCHANGED cache
      /\ Return(c, r)
      /\ UNCHANGED <<known, retryAfter, faults>> /\ UNCHANGED github

(***************************************************************************)
(* Specification                                                           *)
(***************************************************************************)
RoundTrip(c) == Hit(c) \/ Miss(c) \/ Send(c) \/ NetworkError(c) \/ Record(c) \/ Store(c)

Next ==
  \/ \E u \in Urls : Publish(u) \/ Expire(u)
  \/ WindowReset \/ Ban \/ BanEnds \/ RetryAfterPasses \/ Refresh
  \/ \E w \in Workers : Wait(w)
  \/ \E h \in Handlers : Resolve(h)
  \/ \E c \in Callers : RoundTrip(c)

Spec == Init /\ [][Next]_vars

(* Time passes, the producer ticks, workers go on and requests have a       *)
(* timeout.  Nobody has to subscribe.                                       *)
Fairness ==
  /\ WF_vars(WindowReset) /\ WF_vars(BanEnds) /\ WF_vars(RetryAfterPasses)
  /\ WF_vars(Refresh)
  /\ \A u \in Urls : WF_vars(Expire(u))
  /\ \A w \in Workers : WF_vars(Wait(w))
  /\ \A c \in Callers : WF_vars(RoundTrip(c))

FairSpec == Spec /\ Fairness

(***************************************************************************)
(* Properties                                                              *)
(***************************************************************************)
(* Limits told for the running window never say less than is left of it,    *)
(* in whatever order the answers of concurrent requests are recorded: while *)
(* they last, Refresh (quota.go:76) reserves and hibernates in time, or too *)
(* late, never for nothing.  Limits from before a reset, recorded late or   *)
(* not, say nothing of the window after it, and Refresh goes by them all    *)
(* the same: HibernationEnds is about those.                                *)
LimitsNeverUnderstate ==
  known.window = "now" => left <= known.remaining

(* The release a row has never goes back to an older one, whatever Redis    *)
(* loses: an older tag would be announced as new, and the newer one again   *)
(* after it (processor.go:77).  A Get and then a Set that fail leave an     *)
(* older answer in the cache than the row has; it rests on TTL < MinInterval*)
(* (the defaults are 600 and 900) that no scan finds it, and on one worker  *)
(* at a time (Scanner's NoDoubleScan).                                      *)
ReleaseNeverGoesBack ==
  [][row'["release"] >= row["release"]]_vars

(* The row catches up with a new release, through cached 304s, 403s and     *)
(* 404s, secondary limits, lost answers and Redis errors (FR2), unless the  *)
(* scanner hibernates on limits that are low, or subscriptions keep coming: *)
(* they are not throttled and can use up every window before a scan does.   *)
ReleaseIsSeen ==
  row["release"] # content["release"]
    ~> \/ row["release"] = content["release"]
       \/ rate = 0 /\ known.remaining <= Reserved
       \/ \E h \in Handlers : calls[h].pc # "idle"

(* system_design.md:91: the scanner hibernates "until the rate limit window *)
(* resets".                                                                 *)
HibernationEnds == rate = 0 ~> rate > 0
=============================================================================
