CONSTANTS
  Tasks <- ThreeTasks
  Graphs <- AllGraphs
  Origins = {"api", "schedule"}
  Checkers = {c1}
  MaxRetries = 0
  MaxChecks = 0
  MaxFaults = 0
SPECIFICATION FairSpec
PROPERTIES Progress
CHECK_DEADLOCK FALSE
