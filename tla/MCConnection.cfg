SPECIFICATION FairSpec
CONSTANTS
  Consumers = {c1, c2}
  MaxFaults = 4
INVARIANTS TypeOK NothingLeaks OnlyDeclared
PROPERTIES ConsumersReconnect ConsumersStop
CHECK_DEADLOCK FALSE
