CONSTANTS
  Executions = {x1, x2}
  Checks = {c1, c2}
  MaxFaults = 1
SPECIFICATION FairSpec
INVARIANT TypeOK
PROPERTIES AlertedOnce BreachIsReported MemoryDrains
CHECK_DEADLOCK FALSE
