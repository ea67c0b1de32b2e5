SPECIFICATION FairSpec
CONSTANTS
  Workers = {w1}
  Handlers = {h1}
  Limit = 2
  Reserved = 1
  TTL = 1
  ErrorTTL = 1
  MinInterval = 2
  MaxVersion <- MCMaxVersion
  MaxFaults = 0
PROPERTY HibernationEnds
CHECK_DEADLOCK FALSE
