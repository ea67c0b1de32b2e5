SPECIFICATION MFairSpec
CONSTANTS
  Msgs = {v1, m1, p1}
  Poison = {p1}
  Workers = {w1, w2}
  Verification = {v1}
  SMTPRetries = 2
  ReportRetries = 3
  Tiers = 1
  FaultKinds = {"publish", "disconnect", "crash", "upstream", "smtp", "shutdown"}
  MaxFaults = 2
INVARIANTS
  MTypeOK
  NothingClaimedUnsent
PROPERTIES
  EveryVerificationReported
CHECK_DEADLOCK FALSE
