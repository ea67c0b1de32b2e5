SPECIFICATION FairSpec
CONSTANTS
  MaxRows = 4
  BatchSize = 2
  MaxFaults = 2
INVARIANTS
  TypeOK
  OrderIsPreserved
PROPERTIES
  CommittedIsKept
  PendingIsRelayed
CHECK_DEADLOCK FALSE
