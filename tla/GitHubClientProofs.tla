------------------------- MODULE GitHubClientProofs -------------------------
(***************************************************************************)
(* Proofs about GitHubClient: type correctness, that the limits the        *)
(* scanner feeds on never claim less of a running window than is left, for *)
(* any number of workers and requests whose answers are recorded in any    *)
(* order, and that a row's release never goes back when cached answers do  *)
(* not outlive MinInterval.                                                *)
(***************************************************************************)
EXTENDS GitHubClient, TLAPS

(* Limits told for the running window say at least what is left of it. *)
Covers(remaining, window) == window = "now" => left <= remaining

(* It is so for the limits that were recorded last, and for the limits of   *)
(* every answer that is still to be recorded.                               *)
LimitsCover ==
  /\ Covers(known.remaining, known.window)
  /\ \A c \in Callers :
       calls[c].pc = "record" /\ calls[c].limits.remaining # -1
         => Covers(calls[c].limits.remaining, calls[c].limits.window)

(* The inductive invariant. *)
GInv == TypeOK /\ LimitsCover

(* The records a caller starts from. *)
LEMMA IdleType ==
  /\ 0 \in Versions
  /\ NoResponse \in Response /\ NoLimits \in Limits
  /\ Idle \in Call /\ Idle.pc = "idle"
<1>1. 0 \in Versions
  BY GitHubAssumption DEF Versions, Urls
<1>2. NoResponse \in Response
  BY <1>1 DEF NoResponse, Response, Statuses
<1>3. NoLimits \in Limits
  BY GitHubAssumption DEF NoLimits, Limits, Window
<1>4. [u \in Urls |-> 0] \in [Urls -> Versions] /\ "repo" \in Urls
  BY <1>1 DEF Urls
<1>5. Idle \in Call /\ Idle.pc = "idle"
  BY <1>2, <1>3, <1>4 DEF Idle, Call
<1> QED BY <1>1, <1>2, <1>3, <1>5

(* What a page says is a version of it or none. *)
LEMMA AnswerType ==
  ASSUME TypeOK, NEW u \in Urls, NEW etag
  PROVE  Answer(u, etag) \in Response
<1>1. content[u] \in Versions /\ 0 \in Versions
  BY IdleType DEF TypeOK
<1> QED BY <1>1 DEF Answer, Response, Statuses

(* An answer that reaches its caller changes no other caller, and leaves    *)
(* its own with nothing to record.                                          *)
LEMMA ReturnFacts ==
  ASSUME TypeOK, NEW c \in Callers, NEW r \in Response, Return(c, r)
  PROVE  /\ calls' \in [Callers -> Call]
         /\ row' \in [Urls -> Versions] /\ rate' \in {0, 1}
         /\ calls'[c].pc \in {"idle", "lookup"}
         /\ \A d \in Callers \ {c} : calls'[d] = calls[d]
<1>1. /\ calls \in [Callers -> Call] /\ row \in [Urls -> Versions] /\ rate \in {0, 1}
      /\ calls[c].url \in Urls /\ calls[c].etags \in [Urls -> Versions]
      /\ r.version \in Versions
  BY DEF TypeOK, Call, Response
<1>2. ASSUME NEW call \in Call, call.pc \in {"idle", "lookup"},
             calls' = [calls EXCEPT ![c] = call]
      PROVE  /\ calls' \in [Callers -> Call]
             /\ calls'[c].pc \in {"idle", "lookup"}
             /\ \A d \in Callers \ {c} : calls'[d] = calls[d]
  BY <1>1, <1>2
<1>3. CASE c \in Handlers /\ calls' = [calls EXCEPT ![c] = Idle] /\ UNCHANGED <<row, rate>>
  BY <1>1, <1>2, <1>3, IdleType
<1>4. CASE Scan(c, r)
  <2> DEFINE etags == IF r.status = 200 THEN [calls[c].etags EXCEPT ![calls[c].url] = r.version]
                                        ELSE calls[c].etags
             next  == [Idle EXCEPT !.pc = "lookup", !.url = "release", !.etags = etags]
  <2>1. etags \in [Urls -> Versions]
    BY <1>1
  <2>2. next \in Call /\ next.pc = "lookup"
    <3> HIDE DEF etags
    <3> QED BY <2>1, IdleType DEF Call, Urls
  <2>3. \/ calls' = [calls EXCEPT ![c] = next] /\ UNCHANGED <<row, rate>>
        \/ calls' = [calls EXCEPT ![c] = Idle] /\ row' = etags /\ rate' \in {0, rate}
    BY <1>4 DEF Scan
  <2> HIDE DEF etags, next
  <2> QED BY <1>1, <1>2, <2>1, <2>2, <2>3, IdleType
<1> QED BY <1>3, <1>4 DEF Return

(* LimitsCover survives when the window goes on, nothing is recorded, and   *)
(* no caller gets new limits.                                               *)
LEMMA CoverKept ==
  ASSUME LimitsCover, TypeOK, TypeOK', left' <= left, UNCHANGED known,
         \A c \in Callers : calls'[c].pc = "record" => calls[c].pc = "record"
                                                    /\ calls'[c].limits = calls[c].limits
  PROVE  LimitsCover'
<1>1. left \in Int /\ left' \in Int /\ known.remaining \in Int
  BY GitHubAssumption DEF TypeOK
<1>2. \A c \in Callers : calls[c].limits.remaining \in Int
  BY GitHubAssumption DEF TypeOK, Call, Limits
<1> QED BY <1>1, <1>2 DEF LimitsCover, Covers

(* The server starts with a full window on both sides. *)
LEMMA InitGInv == Init => GInv
<1> SUFFICES ASSUME Init PROVE GInv
  OBVIOUS
<1>1. TypeOK
  <2>1. 1 \in Versions /\ 0 \in Versions
    BY GitHubAssumption DEF Versions, Urls
  <2>2. content \in [Urls -> Versions] /\ row \in [Urls -> Versions]
    BY <2>1 DEF Init
  <2>3. DOMAIN cache \subseteq Urls /\ cache \in [DOMAIN cache -> Response]
    BY DEF Init
  <2>4. known \in [remaining: 0..Limit, window: Window] /\ left \in 0..Limit
    BY GitHubAssumption DEF Init, Window
  <2>5. calls \in [Callers -> Call]
    BY IdleType DEF Init
  <2> QED BY <2>2, <2>3, <2>4, <2>5, GitHubAssumption DEF Init, TypeOK
<1>2. LimitsCover
  BY IdleType, GitHubAssumption DEF Init, LimitsCover, Covers
<1> QED BY <1>1, <1>2 DEF GInv

(* A failure stays within the bound. *)
LEMMA FaultFacts == ASSUME TypeOK, Fault PROVE faults' \in 0..MaxFaults
  BY GitHubAssumption DEF TypeOK, Fault

(* GitHub, Redis, time and the producer's ticks, within a window. *)
LEMMA OutsideGInv ==
  ASSUME GInv,
         \/ \E u \in Urls : Publish(u) \/ Expire(u)
         \/ Ban \/ BanEnds \/ RetryAfterPasses \/ Refresh
         \/ UNCHANGED vars
  PROVE  GInv'
<1>1. TypeOK /\ LimitsCover
  BY DEF GInv
<1>2. UNCHANGED <<left, known, row, calls>>
  BY DEF Publish, Expire, Ban, BanEnds, RetryAfterPasses, Refresh, vars, github
<1>3. content' \in [Urls -> Versions]
  <2>1. ASSUME NEW u \in Urls, Publish(u) PROVE content' \in [Urls -> Versions]
    <3>1. content[u] + 1 \in Versions
      <4>1. MaxVersion["repo"] \in Nat /\ MaxVersion["release"] \in Nat
        BY GitHubAssumption DEF Urls
      <4>2. content[u] \in Nat /\ content[u] < MaxVersion[u]
        BY <1>1, <2>1, <4>1 DEF TypeOK, Versions, Publish
      <4> QED BY <4>1, <4>2 DEF Versions, Urls
    <3> QED BY <1>1, <2>1, <3>1 DEF TypeOK, Publish
  <2> QED BY <1>1, <2>1 DEF TypeOK, Expire, Ban, BanEnds, RetryAfterPasses, Refresh, vars, github
<1>4. DOMAIN cache' \subseteq Urls /\ cache' \in [DOMAIN cache' -> Response]
  <2>1. ASSUME NEW u \in Urls, Expire(u)
        PROVE  DOMAIN cache' \subseteq Urls /\ cache' \in [DOMAIN cache' -> Response]
    BY <1>1, <2>1 DEF TypeOK, Expire
  <2> QED BY <1>1, <2>1 DEF TypeOK, Publish, Ban, BanEnds, RetryAfterPasses, Refresh, vars
<1>5. /\ banned' \in {"no", "yes"} /\ retryAfter' \in {"past", "future"} /\ rate' \in {0, 1}
      /\ faults' \in 0..MaxFaults
  BY <1>1, FaultFacts
  DEF TypeOK, Publish, Expire, Ban, BanEnds, RetryAfterPasses, Refresh, vars, github
<1>6. TypeOK'
  BY <1>1, <1>2, <1>3, <1>4, <1>5 DEF TypeOK
<1> QED BY <1>1, <1>2, <1>6 DEF GInv, LimitsCover, Covers

(* After a reset nothing that was told before is about the running window. *)
LEMMA WindowResetGInv == GInv /\ WindowReset => GInv'
<1> SUFFICES ASSUME GInv, WindowReset PROVE GInv'
  OBVIOUS
<1>1. /\ TypeOK /\ left' = Limit
      /\ known' = [known EXCEPT !.window = "past"]
      /\ UNCHANGED <<content, banned, cache, retryAfter, rate, row, faults>>
  BY DEF GInv, WindowReset
<1>2. known' \in [remaining: 0..Limit, window: Window] /\ known'.window = "past"
  BY <1>1 DEF TypeOK, Window
<1>3. ASSUME NEW c \in Callers
      PROVE  /\ calls'[c] \in Call
             /\ calls'[c].pc = "record" => calls'[c].limits.window = "past"
  <2>1. calls[c] \in Call /\ calls[c].limits \in Limits
    BY <1>1 DEF TypeOK, Call
  <2>2. CASE calls[c].pc = "record"
    <3> DEFINE limits == [calls[c].limits EXCEPT !.window = "past"]
    <3>1. limits \in Limits /\ limits.window = "past"
      BY <2>1 DEF Limits, Window
    <3>2. calls'[c] = [calls[c] EXCEPT !.limits = limits]
      BY <2>1, <2>2 DEF WindowReset
    <3> HIDE DEF limits
    <3> QED BY <2>1, <3>1, <3>2 DEF Call
  <2>3. CASE calls[c].pc # "record"
    BY <2>1, <2>3 DEF WindowReset
  <2> QED BY <2>2, <2>3
<1>4. calls' \in [Callers -> Call]
  BY <1>3 DEF WindowReset
<1>5. TypeOK'
  BY <1>1, <1>2, <1>4, GitHubAssumption DEF TypeOK
<1>6. LimitsCover'
  BY <1>2, <1>3 DEF LimitsCover, Covers
<1> QED BY <1>5, <1>6 DEF GInv

(* A caller starts, or goes past the cache. *)
LEMMA StartGInv ==
  ASSUME GInv, NEW c \in Callers, Wait(c) \/ Resolve(c) \/ Miss(c)
  PROVE  GInv'
<1>1. TypeOK /\ LimitsCover
  BY DEF GInv
<1>2. PICK call \in Call : calls' = [calls EXCEPT ![c] = call] /\ call.pc \in {"lookup", "send"}
  <2>1. calls[c] \in Call /\ Idle \in Call /\ row \in [Urls -> Versions]
    BY <1>1, IdleType DEF TypeOK
  <2>2. CASE Wait(c)
    <3> DEFINE call == [Idle EXCEPT !.pc = "lookup", !.etags = row]
    <3>1. call \in Call /\ call.pc = "lookup"
      BY <2>1, IdleType DEF Call
    <3> QED BY <2>2, <3>1 DEF Wait
  <2>3. CASE Resolve(c) \/ Miss(c)
    <3>1. PICK pc \in {"lookup", "send"} : calls' = [calls EXCEPT ![c].pc = pc]
      BY <2>3 DEF Resolve, Miss
    <3> DEFINE call == [calls[c] EXCEPT !.pc = pc]
    <3>2. call \in Call /\ call.pc = pc
      BY <2>1 DEF Call
    <3>3. calls' = [calls EXCEPT ![c] = call]
      BY <3>1
    <3> QED BY <3>2, <3>3
  <2> QED BY <2>2, <2>3
<1>3. /\ UNCHANGED <<content, left, banned, cache, known, retryAfter, rate, row>>
      /\ faults' \in 0..MaxFaults
  BY <1>1, FaultFacts DEF Wait, Resolve, Miss, github, TypeOK
<1>4. TypeOK'
  BY <1>1, <1>2, <1>3 DEF TypeOK
<1>5. LimitsCover'
  <2>1. left' <= left
    BY <1>1, <1>3, GitHubAssumption DEF TypeOK
  <2>2. \A d \in Callers : calls'[d].pc = "record" => calls[d].pc = "record" /\ calls'[d].limits = calls[d].limits
    BY <1>1, <1>2 DEF TypeOK
  <2> QED BY <1>1, <1>3, <1>4, <2>1, <2>2, CoverKept
<1> QED BY <1>4, <1>5 DEF GInv

(* An answer that is lost, found or stored reaches its caller. *)
LEMMA EndGInv ==
  ASSUME GInv, NEW c \in Callers, Hit(c) \/ NetworkError(c) \/ Store(c)
  PROVE  GInv'
<1>1. TypeOK /\ LimitsCover
  BY DEF GInv
<1>2. calls[c].resp \in Response /\ calls[c].url \in Urls
  BY <1>1 DEF TypeOK, Call
<1>3. PICK r \in Response : Return(c, r)
  <2>1. CASE Hit(c)
    BY <1>1, <2>1 DEF Hit, TypeOK
  <2>2. CASE NetworkError(c)
    BY <2>2, IdleType DEF NetworkError
  <2>3. CASE Store(c)
    BY <1>2, <2>3 DEF Store
  <2> QED BY <2>1, <2>2, <2>3
<1>4. /\ UNCHANGED <<content, left, banned, known, retryAfter>>
      /\ faults' \in 0..MaxFaults
  BY <1>1, FaultFacts DEF Hit, NetworkError, Store, github, TypeOK
<1>5. DOMAIN cache' \subseteq Urls /\ cache' \in [DOMAIN cache' -> Response]
  <2>1. UNCHANGED cache
        \/ cache' = [u \in DOMAIN cache \cup {CacheKey(calls[c].url)} |->
                       IF u = CacheKey(calls[c].url) THEN calls[c].resp ELSE cache[u]]
    BY DEF Hit, NetworkError, Store
  <2> QED BY <1>1, <1>2, <2>1 DEF TypeOK, CacheKey
<1>6. /\ calls' \in [Callers -> Call]
      /\ row' \in [Urls -> Versions] /\ rate' \in {0, 1}
      /\ calls'[c].pc \in {"idle", "lookup"}
      /\ \A d \in Callers \ {c} : calls'[d] = calls[d]
  BY <1>1, <1>3, ReturnFacts
<1>7. TypeOK'
  BY <1>1, <1>4, <1>5, <1>6 DEF TypeOK
<1>8. LimitsCover'
  <2>1. left' <= left
    BY <1>1, <1>4, GitHubAssumption DEF TypeOK
  <2>2. \A d \in Callers : calls'[d].pc = "record" => calls[d].pc = "record" /\ calls'[d].limits = calls[d].limits
    BY <1>6
  <2> QED BY <1>1, <1>4, <1>7, <2>1, <2>2, CoverKept
<1> QED BY <1>7, <1>8 DEF GInv

(* GitHub counts a request and tells what is left after it. *)
LEMMA SendGInv == ASSUME GInv, NEW c \in Callers, Send(c) PROVE GInv'
<1> DEFINE etag == IF c \in Workers THEN calls[c].etags[calls[c].url] ELSE 0
           r    == Answer(calls[c].url, etag)
           limits == IF banned = "yes"
                       THEN [remaining |-> -1, window |-> "now", retry |-> "yes"]
                       ELSE [remaining |-> left', window |-> "now", retry |-> "no"]
           call == [calls[c] EXCEPT !.pc = "record", !.resp = r, !.limits = limits]
<1>1. /\ TypeOK /\ LimitsCover /\ calls[c] \in Call /\ calls[c].url \in Urls
      /\ left \in 0..Limit /\ Limit \in Nat
  BY GitHubAssumption DEF GInv, TypeOK, Call
<1>2. r \in Response
  BY <1>1, AnswerType
<1>3. /\ left' = IF r.status \in {200, 404} THEN left - 1 ELSE left
      /\ calls' = [calls EXCEPT ![c] = call]
      /\ UNCHANGED <<content, banned, cache, known, retryAfter, rate, row, faults>>
  <2>1. /\ left' = IF r.status \in {200, 404} THEN left - 1 ELSE left
        /\ calls' = [calls EXCEPT ![c].pc = "record", ![c].resp = r, ![c].limits = limits]
        /\ UNCHANGED <<content, banned, cache, known, retryAfter, rate, row, faults>>
    BY DEF Send
  <2> HIDE DEF r, limits
  <2> QED BY <1>1, <2>1 DEF TypeOK
<1>4. left' \in 0..Limit /\ left' <= left
  <2>1. r.status \in {200, 404} => left # 0
    BY DEF Answer
  <2> HIDE DEF r
  <2> QED BY <1>1, <1>3, <2>1
<1>5. limits \in Limits /\ (limits.remaining = -1 \/ limits.remaining = left')
  BY <1>1, <1>4 DEF Limits, Window
<1> HIDE DEF r, limits, etag
<1>6. call \in Call /\ call.limits = limits
  BY <1>1, <1>2, <1>5 DEF Call
<1> HIDE DEF call
<1>7. /\ calls' \in [Callers -> Call] /\ calls'[c] = call
      /\ \A d \in Callers \ {c} : calls'[d] = calls[d]
  BY <1>1, <1>3, <1>6 DEF TypeOK
<1>8. TypeOK'
  BY <1>1, <1>3, <1>4, <1>7 DEF TypeOK
<1>9. LimitsCover'
  <2>1. known.remaining \in Int /\ \A d \in Callers : calls[d].limits.remaining \in Int
    BY <1>1 DEF TypeOK, Call, Limits
  <2>2. Covers(known.remaining, known.window)'
    BY <1>1, <1>3, <1>4, <2>1 DEF LimitsCover, Covers
  <2>3. ASSUME NEW d \in Callers \ {c}, calls'[d].pc = "record", calls'[d].limits.remaining # -1
        PROVE  Covers(calls[d].limits.remaining, calls[d].limits.window)'
    BY <1>1, <1>4, <1>7, <2>1, <2>3 DEF LimitsCover, Covers
  <2>4. calls'[c].limits.remaining # -1
          => Covers(calls[c].limits.remaining, calls[c].limits.window)'
    BY <1>4, <1>5, <1>6, <1>7 DEF Covers
  <2> QED BY <2>2, <2>3, <2>4 DEF LimitsCover
<1> QED BY <1>8, <1>9 DEF GInv

(* Recorded limits are those of some answer, late or not. *)
LEMMA RecordGInv == ASSUME GInv, NEW c \in Callers, Record(c) PROVE GInv'
<1> DEFINE limits == calls[c].limits
           call   == [calls[c] EXCEPT !.pc = "store", !.limits = NoLimits]
<1>1. TypeOK /\ LimitsCover /\ calls[c] \in Call /\ limits \in Limits /\ calls[c].pc = "record"
  BY DEF GInv, TypeOK, Call, Record
<1>2. /\ known' = IF limits.remaining = -1 THEN known
                  ELSE [remaining |-> limits.remaining, window |-> limits.window]
      /\ retryAfter' \in {"past", "future"}
      /\ calls' = [calls EXCEPT ![c] = call]
      /\ UNCHANGED <<content, left, banned, cache, rate, row, faults>>
  BY <1>1 DEF Record, TypeOK, github
<1>3. call \in Call /\ call.pc = "store"
  BY <1>1, IdleType DEF Call
<1>4. known' \in [remaining: 0..Limit, window: Window]
  BY <1>1, <1>2, GitHubAssumption DEF TypeOK, Limits
<1>5. Covers(known.remaining, known.window)'
  BY <1>1, <1>2 DEF LimitsCover, Covers
<1> HIDE DEF call
<1>6. /\ calls' \in [Callers -> Call] /\ calls'[c].pc = "store"
      /\ \A d \in Callers \ {c} : calls'[d] = calls[d]
  BY <1>1, <1>2, <1>3 DEF TypeOK
<1>7. TypeOK'
  BY <1>1, <1>2, <1>4, <1>6 DEF TypeOK
<1>8. LimitsCover'
  BY <1>1, <1>2, <1>5, <1>6 DEF LimitsCover, Covers
<1> QED BY <1>7, <1>8 DEF GInv

(* The inductive step: one case for each action. *)
LEMMA NextGInv == GInv /\ [Next]_vars => GInv'
<1> SUFFICES ASSUME GInv, [Next]_vars PROVE GInv'
  OBVIOUS
<1>1. CASE \/ \E u \in Urls : Publish(u) \/ Expire(u)
           \/ Ban \/ BanEnds \/ RetryAfterPasses \/ Refresh
           \/ UNCHANGED vars
  BY <1>1, OutsideGInv
<1>2. CASE WindowReset
  BY <1>2, WindowResetGInv
<1>3. ASSUME NEW c \in Callers, Wait(c) \/ Resolve(c) PROVE GInv'
  BY <1>3, StartGInv
<1>4. ASSUME NEW c \in Callers, RoundTrip(c) PROVE GInv'
  BY <1>4, StartGInv, EndGInv, SendGInv, RecordGInv DEF RoundTrip
<1> QED BY <1>1, <1>2, <1>3, <1>4 DEF Next, Callers

(* The client's invariant holds in every state. *)
THEOREM GitHubInvariance == Spec => []GInv
  BY InitGInv, NextGInv, PTL DEF Spec

(* Type correctness; limits that did not come are never recorded. *)
THEOREM GitHubTypeCorrect == Spec => []TypeOK
  BY GitHubInvariance, PTL DEF GInv

(* Limits that were told for the running window never say less than is left *)
(* of it, in whatever order the answers of any number of requests are       *)
(* recorded.                                                                *)
THEOREM GitHubLimitsNeverUnderstate == Spec => []LimitsNeverUnderstate
<1>1. GInv => LimitsNeverUnderstate
  BY DEF GInv, LimitsCover, Covers, LimitsNeverUnderstate
<1> QED BY <1>1, GitHubInvariance, PTL

(***************************************************************************)
(* Releases do not go back                                                 *)
(***************************************************************************)
(* GitHub told caller c a release. *)
Found(c) ==
  calls[c].pc \in {"record", "store"} /\ calls[c].url = "release" /\ calls[c].resp.status = 200

(* What a worker in the middle of a scan may still save: the release that   *)
(* its row has, or a later one that GitHub told it; none from the cache.    *)
Rises(w) ==
  calls[w].pc # "idle" =>
    /\ calls[w].etags["release"] = row["release"]
    /\ "release" \in DOMAIN cache => cache["release"].status # 200
    /\ Found(w) => /\ row["release"] <= calls[w].resp.version
                   /\ calls[w].resp.version <= content["release"]

ReleasesRise ==
  /\ row["release"] <= content["release"]
  /\ \A h \in Handlers : calls[h].url = "repo"
  /\ \A w \in Workers : Rises(w)

LEMMA VersionsAreNumbers ==
  ASSUME GInv
  PROVE  /\ content["release"] \in Int /\ row["release"] \in Int
         /\ \A c \in Callers : calls[c].resp.version \in Int
<1>1. Versions \subseteq Int
  BY GitHubAssumption DEF Versions, Urls
<1> QED BY <1>1 DEF GInv, TypeOK, Call, Response, Urls

(* A step that neither saves a row nor starts a scan nor asks GitHub for a  *)
(* release.                                                                 *)
LEMMA QuietRises ==
  ASSUME GInv, GInv', ReleasesRise, row' = row, content["release"] <= content'["release"],
         "release" \in DOMAIN cache' => "release" \in DOMAIN cache
                                       /\ cache'["release"] = cache["release"],
         \A c \in Callers : calls'[c].url = calls[c].url,
         \A w \in Workers : /\ calls'[w].etags = calls[w].etags
                            /\ calls'[w].pc # "idle" => calls[w].pc # "idle"
                            /\ Found(w)' => Found(w) /\ calls'[w].resp = calls[w].resp
  PROVE  ReleasesRise' /\ row'["release"] >= row["release"]
<1>1. /\ content["release"] \in Int /\ row["release"] \in Int
      /\ \A c \in Callers : calls[c].resp.version \in Int
  BY VersionsAreNumbers
<1>2. content'["release"] \in Int
  <2>1. Versions \subseteq Int
    BY GitHubAssumption DEF Versions, Urls
  <2> QED BY <2>1 DEF GInv, TypeOK, Urls
<1>3. ASSUME NEW w \in Workers, calls'[w].pc # "idle"
      PROVE  Rises(w)'
  <2>1. Rises(w) /\ calls[w].pc # "idle"
    BY <1>3 DEF ReleasesRise
  <2>2. "release" \in DOMAIN cache' => cache'["release"].status # 200
    BY <2>1 DEF Rises
  <2>3. calls'[w].etags["release"] = row'["release"]
    BY <2>1 DEF Rises
  <2>4. ASSUME Found(w)'
        PROVE  /\ row'["release"] <= calls'[w].resp.version
               /\ calls'[w].resp.version <= content'["release"]
    <3>1. /\ row["release"] <= calls[w].resp.version
          /\ calls[w].resp.version <= content["release"]
          /\ calls'[w].resp = calls[w].resp
      BY <2>1, <2>4 DEF Rises
    <3> QED BY <1>1, <1>2, <3>1 DEF Callers
  <2> QED BY <2>2, <2>3, <2>4 DEF Rises
<1>4. \A w \in Workers : Rises(w)'
  BY <1>3 DEF Rises
<1>5. row'["release"] <= content'["release"] /\ row'["release"] >= row["release"]
  BY <1>1, <1>2 DEF ReleasesRise
<1>6. \A h \in Handlers : calls'[h].url = "repo"
  BY DEF ReleasesRise, Callers
<1> QED BY <1>4, <1>5, <1>6 DEF ReleasesRise

(* GitHub, Redis, time and the producer's ticks. *)
LEMMA OutsideRises ==
  ASSUME GInv, GInv', ReleasesRise,
         \/ \E u \in Urls : Publish(u) \/ Expire(u)
         \/ WindowReset \/ Ban \/ BanEnds \/ RetryAfterPasses \/ Refresh
         \/ UNCHANGED vars
  PROVE  ReleasesRise' /\ row'["release"] >= row["release"]
<1>1. row' = row
  BY DEF Publish, Expire, WindowReset, Ban, BanEnds, RetryAfterPasses, Refresh, vars
<1>2. content["release"] <= content'["release"]
  <2>1. content["release"] \in Int
    BY VersionsAreNumbers
  <2>2. ASSUME NEW u \in Urls, Publish(u) PROVE content["release"] <= content'["release"]
    BY <2>1, <2>2 DEF Publish, GInv, TypeOK, Urls
  <2>3. content' = content \/ \E u \in Urls : Publish(u)
    BY DEF Expire, WindowReset, Ban, BanEnds, RetryAfterPasses, Refresh, vars, github
  <2> QED BY <2>1, <2>2, <2>3
<1>3. "release" \in DOMAIN cache' => "release" \in DOMAIN cache /\ cache'["release"] = cache["release"]
  BY DEF Publish, Expire, WindowReset, Ban, BanEnds, RetryAfterPasses, Refresh, vars
<1>4. ASSUME NEW c \in Callers
      PROVE  /\ calls'[c].pc = calls[c].pc /\ calls'[c].url = calls[c].url
             /\ calls'[c].etags = calls[c].etags /\ calls'[c].resp = calls[c].resp
  <2>1. CASE WindowReset
    <3>1. calls[c] \in Call
      BY DEF GInv, TypeOK
    <3>2. \/ calls'[c] = calls[c]
          \/ calls'[c] = [calls[c] EXCEPT !.limits = [calls[c].limits EXCEPT !.window = "past"]]
      BY <2>1, <3>1 DEF WindowReset
    <3> QED BY <3>1, <3>2 DEF Call
  <2> QED BY <2>1 DEF Publish, Expire, Ban, BanEnds, RetryAfterPasses, Refresh, vars
<1> QED BY <1>1, <1>2, <1>3, <1>4, QuietRises DEF Found, Callers

(* POST /subscribe asks for the repository and saves no row. *)
LEMMA HandlerRises ==
  ASSUME GInv, GInv', ReleasesRise, NEW h \in Handlers, Resolve(h) \/ RoundTrip(h)
  PROVE  ReleasesRise' /\ row'["release"] >= row["release"]
<1>1. h \notin Workers /\ h \in Callers /\ calls[h].url = "repo" /\ calls[h] \in Call
  BY GitHubAssumption DEF Callers, ReleasesRise, GInv, TypeOK
<1>2. \A r : Return(h, r) => calls' = [calls EXCEPT ![h] = Idle] /\ row' = row
  BY <1>1 DEF Return
<1>3. row' = row /\ content' = content
  BY <1>2 DEF Resolve, RoundTrip, Hit, Miss, Send, NetworkError, Record, Store, github
<1>4. "release" \in DOMAIN cache' => "release" \in DOMAIN cache /\ cache'["release"] = cache["release"]
  BY <1>1 DEF Resolve, RoundTrip, Hit, Miss, Send, NetworkError, Record, Store, CacheKey
<1>5. /\ calls'[h].url = "repo"
      /\ \A c \in Callers \ {h} : calls'[c] = calls[c]
  <2>1. CASE calls' = [calls EXCEPT ![h] = Idle]
    BY <2>1, <1>1 DEF Idle, GInv, TypeOK
  <2>2. CASE Resolve(h) \/ Miss(h) \/ Send(h) \/ Record(h)
    BY <1>1, <2>2 DEF Resolve, Miss, Send, Record, GInv, TypeOK, Call
  <2> QED BY <1>2, <2>1, <2>2 DEF RoundTrip, Hit, NetworkError, Store
<1>6. content["release"] <= content'["release"]
  BY <1>3, VersionsAreNumbers
<1> QED BY <1>1, <1>3, <1>4, <1>5, <1>6, QuietRises DEF Found, Callers

(* An answer ends a scan, or takes it on to the release. *)
LEMMA ReturnRises ==
  ASSUME GInv, GInv', ReleasesRise, NEW w \in Workers, Workers = {w}, NEW r \in Response,
         calls[w].pc # "idle", Return(w, r), content' = content,
         calls[w].url = "release" /\ r.status = 200
           => row["release"] <= r.version /\ r.version <= content["release"],
         calls[w].url = "repo" /\ "release" \in DOMAIN cache'
           => "release" \in DOMAIN cache /\ cache'["release"] = cache["release"]
  PROVE  ReleasesRise' /\ row'["release"] >= row["release"]
<1> DEFINE etags == IF r.status = 200 THEN [calls[w].etags EXCEPT ![calls[w].url] = r.version]
                                      ELSE calls[w].etags
           next  == [Idle EXCEPT !.pc = "lookup", !.url = "release", !.etags = etags]
<1>1. /\ w \in Callers /\ w \notin Handlers /\ calls \in [Callers -> Call]
      /\ calls[w].etags \in [Urls -> Versions] /\ calls[w].url \in Urls
  BY GitHubAssumption DEF Callers, GInv, TypeOK, Call
<1>2. Rises(w) /\ calls[w].etags["release"] = row["release"]
  BY DEF ReleasesRise, Rises
<1>3. content["release"] \in Int /\ row["release"] \in Int
  BY VersionsAreNumbers
<1>4. Scan(w, r)
  BY <1>1 DEF Return
<1>5. CASE calls[w].url = "repo" /\ r.status \in {200, 304}
  <2>1. calls' = [calls EXCEPT ![w] = next] /\ row' = row
    BY <1>4, <1>5 DEF Scan
  <2>2. etags["release"] = row["release"]
    BY <1>1, <1>2, <1>5 DEF Urls
  <2>3. next.pc = "lookup" /\ next.etags["release"] = row["release"]
    <3> HIDE DEF etags
    <3> QED BY <2>2 DEF Idle
  <2> HIDE DEF etags, next
  <2>4. calls'[w] = next /\ \A c \in Callers \ {w} : calls'[c] = calls[c]
    BY <1>1, <2>1
  <2>5. Rises(w)'
    BY <1>2, <1>5, <2>1, <2>3, <2>4 DEF Rises, Found
  <2>6. \A h \in Handlers : calls'[h].url = "repo"
    BY <1>1, <2>4 DEF ReleasesRise, Callers
  <2> QED BY <1>3, <2>1, <2>5, <2>6 DEF ReleasesRise
<1>6. CASE ~(calls[w].url = "repo" /\ r.status \in {200, 304})
  <2>1. calls' = [calls EXCEPT ![w] = Idle] /\ row' = etags
    BY <1>4, <1>6 DEF Scan
  <2>2. etags["release"] \in {row["release"], r.version}
        /\ (etags["release"] = row["release"] \/ (calls[w].url = "release" /\ r.status = 200))
    BY <1>1, <1>2 DEF Urls
  <2> HIDE DEF etags
  <2>3. r.version \in Int
    BY GitHubAssumption DEF Response, Versions, Urls
  <2>4. row'["release"] >= row["release"] /\ row'["release"] <= content'["release"]
    BY <1>3, <2>1, <2>2, <2>3 DEF ReleasesRise
  <2>5. calls'[w] = Idle /\ \A c \in Callers \ {w} : calls'[c] = calls[c]
    BY <1>1, <2>1
  <2>6. Rises(w)'
    BY <2>5, IdleType DEF Rises
  <2>7. \A h \in Handlers : calls'[h].url = "repo"
    BY <1>1, <2>5 DEF ReleasesRise, Callers
  <2> QED BY <2>4, <2>6, <2>7 DEF ReleasesRise
<1> QED BY <1>5, <1>6

(* The one worker at the repository. *)
LEMMA WorkerRises ==
  ASSUME GInv, GInv', ReleasesRise, NEW w \in Workers, Workers = {w}, TTL < MinInterval,
         Wait(w) \/ RoundTrip(w)
  PROVE  ReleasesRise' /\ row'["release"] >= row["release"]
<1>1. /\ w \in Callers /\ w \notin Handlers /\ calls \in [Callers -> Call]
      /\ calls[w] \in Call /\ calls[w].url \in Urls
  BY GitHubAssumption DEF Callers, GInv, TypeOK, Call
<1>2. content["release"] \in Int /\ row["release"] \in Int
  BY VersionsAreNumbers
<1>3. Rises(w)
  BY DEF ReleasesRise
<1>4. CASE Wait(w)
  <2> DEFINE call == [Idle EXCEPT !.pc = "lookup", !.etags = row]
  <2>1. /\ calls' = [calls EXCEPT ![w] = call] /\ Due(w)
        /\ UNCHANGED <<content, cache, row>>
    BY <1>4 DEF Wait, github
  <2>2. call.pc = "lookup" /\ call.etags = row
    BY DEF Idle
  <2> HIDE DEF call
  <2>3. calls'[w] = call /\ \A c \in Callers \ {w} : calls'[c] = calls[c]
    BY <1>1, <2>1
  <2>4. "release" \in DOMAIN cache => cache["release"].status # 200
    BY <2>1, GitHubAssumption DEF Due, Lifetime
  <2>5. Rises(w)'
    BY <2>1, <2>2, <2>3, <2>4 DEF Rises, Found
  <2>6. \A h \in Handlers : calls'[h].url = "repo"
    BY <1>1, <2>3 DEF ReleasesRise, Callers
  <2> QED BY <1>2, <2>1, <2>5, <2>6 DEF ReleasesRise
<1>5. CASE Miss(w) \/ Record(w)
  <2>1. UNCHANGED <<content, cache, row>>
    BY <1>5 DEF Miss, Record, github
  <2>2. /\ calls'[w].url = calls[w].url /\ calls'[w].etags = calls[w].etags
        /\ calls'[w].resp = calls[w].resp /\ calls[w].pc # "idle"
        /\ calls'[w].pc = "send" \/ (calls[w].pc = "record" /\ calls'[w].pc = "store")
        /\ \A c \in Callers \ {w} : calls'[c] = calls[c]
    BY <1>1, <1>5 DEF Miss, Record, Call
  <2>3. content["release"] <= content'["release"]
    BY <1>2, <2>1
  <2> QED BY <2>1, <2>2, <2>3, QuietRises DEF Found, Callers
<1>6. CASE Send(w)
  <2> DEFINE r == Answer(calls[w].url, calls[w].etags[calls[w].url])
  <2>1. /\ UNCHANGED <<content, cache, row>> /\ calls[w].pc = "send"
        /\ calls'[w].url = calls[w].url /\ calls'[w].etags = calls[w].etags
        /\ calls'[w].resp = r
        /\ \A c \in Callers \ {w} : calls'[c] = calls[c]
    BY <1>1, <1>6 DEF Send, Call
  <2>2. calls[w].url = "release" /\ r.status = 200 => r.version = content["release"]
    BY DEF Answer
  <2> HIDE DEF r
  <2>3. Found(w)' => calls'[w].resp.version = content["release"]
    BY <2>1, <2>2 DEF Found
  <2>4. Rises(w)'
    BY <1>2, <1>3, <2>1, <2>3 DEF Rises, ReleasesRise
  <2>5. \A h \in Handlers : calls'[h].url = "repo"
    BY <1>1, <2>1 DEF ReleasesRise, Callers
  <2> QED BY <1>2, <2>1, <2>4, <2>5 DEF ReleasesRise
<1>7. CASE Hit(w)
  <2>1. PICK r \in Response : /\ Return(w, r) /\ calls[w].url \in DOMAIN cache
                              /\ r = cache[calls[w].url]
    BY <1>7 DEF Hit, CacheKey, GInv, TypeOK
  <2>2. calls[w].pc # "idle" /\ UNCHANGED <<content, cache>>
    BY <1>7 DEF Hit, github
  <2>3. calls[w].url = "release" => r.status # 200
    BY <1>3, <2>1, <2>2 DEF Rises
  <2> QED BY <2>1, <2>2, <2>3, ReturnRises
<1>8. CASE NetworkError(w)
  <2>1. /\ Return(w, NoResponse) /\ NoResponse \in Response /\ NoResponse.status = 0
        /\ calls[w].pc # "idle" /\ UNCHANGED <<content, cache>>
    BY <1>8, IdleType DEF NetworkError, github, NoResponse
  <2> QED BY <2>1, ReturnRises
<1>9. CASE Store(w)
  <2>1. PICK r \in Response : r = calls[w].resp
    BY <1>1 DEF Call
  <2>2. Return(w, r) /\ calls[w].pc = "store" /\ content' = content
    BY <1>9, <2>1 DEF Store, github
  <2>3. calls[w].url = "release" /\ r.status = 200
          => row["release"] <= r.version /\ r.version <= content["release"]
    BY <1>3, <2>1, <2>2 DEF Rises, Found
  <2>4. calls[w].url = "repo" /\ "release" \in DOMAIN cache'
          => "release" \in DOMAIN cache /\ cache'["release"] = cache["release"]
    BY <1>9 DEF Store, CacheKey
  <2> QED BY <2>2, <2>3, <2>4, ReturnRises
<1> QED BY <1>4, <1>5, <1>6, <1>7, <1>8, <1>9 DEF RoundTrip

(* The release of a row never goes back, through any number of Redis        *)
(* failures, lost answers and limits, when one worker scans the repository  *)
(* at a time and answers are cached for less than MinInterval: no scan then *)
(* starts with a release of an earlier one still in the cache.              *)
THEOREM GitHubReleaseNeverGoesBack ==
  ASSUME NEW w, Workers = {w}, TTL < MinInterval
  PROVE  Spec => ReleaseNeverGoesBack
<1>1. Init => ReleasesRise
  BY IdleType DEF Init, ReleasesRise, Rises, Idle, Callers, Urls
<1>2. GInv /\ GInv' /\ ReleasesRise /\ [Next]_vars
        => ReleasesRise' /\ row'["release"] >= row["release"]
  <2> SUFFICES ASSUME GInv, GInv', ReleasesRise, [Next]_vars
               PROVE  ReleasesRise' /\ row'["release"] >= row["release"]
    OBVIOUS
  <2>1. CASE \/ \E u \in Urls : Publish(u) \/ Expire(u)
             \/ WindowReset \/ Ban \/ BanEnds \/ RetryAfterPasses \/ Refresh
             \/ UNCHANGED vars
    BY <2>1, OutsideRises
  <2>2. ASSUME NEW h \in Handlers, Resolve(h) \/ RoundTrip(h)
        PROVE  ReleasesRise' /\ row'["release"] >= row["release"]
    BY <2>2, HandlerRises
  <2>3. ASSUME NEW v \in Workers, Wait(v) \/ RoundTrip(v)
        PROVE  ReleasesRise' /\ row'["release"] >= row["release"]
    <3>1. v = w
      OBVIOUS
    <3> QED BY <2>3, <3>1, WorkerRises
  <2> QED BY <2>1, <2>2, <2>3 DEF Next, Callers
<1> QED BY <1>1, <1>2, GitHubInvariance, PTL DEF Spec, ReleaseNeverGoesBack
=============================================================================
