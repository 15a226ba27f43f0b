CONSTANTS
  Tasks <- ThreeTasks
  Graphs <- Joins
  Origins = {"api"}
  Checkers = {c1}
  MaxRetries = 1
  MaxChecks = 1
  MaxFaults = 1
SPECIFICATION Spec
INVARIANTS TypeOK DependencyOrder FanInNotLost CompletionSound
PROPERTIES FinalStaysFinal CancelledStaysQuiet
CHECK_DEADLOCK FALSE
