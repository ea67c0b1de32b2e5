SPECIFICATION Spec
CONSTANTS
  s1 = s1
  s2 = s2
  j1 = j1
  Repos = {r1}
  Emails = {e1}
  Instances = {s1, s2}
  Slots = {j1, j2}
  Home <- TwoHomes
  QueueSize = 1
  BatchSize = 1
  Workers = 1
  FaultKinds = {"restart", "recover", "api", "quota", "claim", "update", "rename", "body"}
  MaxFaults = 2
  MaxReleases = 2
SYMMETRY Symmetry
INVARIANTS
  ReleaseIsAnnounced
CHECK_DEADLOCK FALSE
