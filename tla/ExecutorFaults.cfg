SPECIFICATION Spec
CONSTANTS
  None = None
  Executors = {e1, e2}
  Tasks = {t1}
  Retriable = {t1}
  MaxAttempts <- TwoAttempts
  Cancellable = {t1}
  Stoppable = {e1, e2}
  LeaseLoss = FALSE
  MaxPushes = 2
  MaxCrashes = 1
  MaxFaults = 1
CHECK_DEADLOCK FALSE
INVARIANTS TypeOK AtMostOneRunner RunsBounded DeadLettersMatchFailures
PROPERTIES TerminalIsFinal ImplementsLifecycle
