SPECIFICATION FairSpec
CONSTANTS
  s1 = s1
  s2 = s2
  j1 = j1
  Repos = {r1, r2}
  Emails = {e1}
  Instances = {s1}
  Slots = {j1, j2}
  Home <- OneHome
  QueueSize = 2
  BatchSize = 2
  Workers = 1
  FaultKinds = {"restart", "api"}
  MaxFaults = 1
  MaxReleases = 1
INVARIANTS
  TypeOK
  NoDoubleScan
  AnnouncedOnce
PROPERTIES
  EveryReleaseIsAnnounced
CHECK_DEADLOCK FALSE
