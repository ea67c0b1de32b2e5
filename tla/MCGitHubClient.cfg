SPECIFICATION FairSpec
CONSTANTS
  Workers = {w1}
  Handlers = {h1}
  Limit = 2
  Reserved = 0
  TTL = 1
  ErrorTTL = 1
  MinInterval = 2
  MaxVersion <- MCMaxVersion
  MaxFaults = 1
INVARIANTS TypeOK LimitsNeverUnderstate
PROPERTIES ReleaseNeverGoesBack ReleaseIsSeen
CHECK_DEADLOCK FALSE
