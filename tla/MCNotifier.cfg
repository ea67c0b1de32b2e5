SPECIFICATION NFairSpec
CONSTANTS
  Msgs = {m1, p1}
  Poison = {p1}
  Workers = {w1, w2}
  Tiers = 2
  FaultKinds = {"publish", "disconnect", "crash", "upstream", "dedup", "unmark", "expire"}
  MaxFaults = 3
INVARIANTS
  NTypeOK
  ConfirmedAtMostOnce
  EventIsNotLost
  NothingLost
  ParkedIsExhausted
PROPERTIES
  EveryEventSettles
  ImplementsEndpoint
CHECK_DEADLOCK FALSE
