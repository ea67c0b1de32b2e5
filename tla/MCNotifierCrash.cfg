SPECIFICATION NSpec
CONSTANTS
  Msgs = {m1}
  Poison = {}
  Workers = {w1, w2}
  Tiers = 1
  FaultKinds = {"crash"}
  MaxFaults = 1
INVARIANTS
  NeverLost
CHECK_DEADLOCK FALSE
