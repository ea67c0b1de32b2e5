SPECIFICATION PFairSpec
CONSTANTS
  Emails = {e1}
  Repos = {r1}
  Ids = {i1}
  Tokens = {t1}
  Apis = {a1}
  Handlers = {h1}
  NoId = NoId
  NoToken = NoToken
  NoApi = NoApi
  MaxFaults = 1
INVARIANTS
  CompletedMeansSent
  CancelledMeansRefused
PROPERTIES
  EverySagaSettles
  PendingGetsAPath
  NoticeArrives
CHECK_DEADLOCK FALSE
