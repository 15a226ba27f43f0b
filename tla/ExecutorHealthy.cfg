SPECIFICATION FairSpec
CONSTANTS
  None = None
  Executors = {e1, e2}
  Tasks = {t1, t2}
  Retriable = {t1}
  MaxAttempts <- TwoAttempts
  Cancellable = {}
  Stoppable = {e1}
  LeaseLoss = FALSE
  MaxPushes = 2
  MaxCrashes = 0
  MaxFaults = 0
CHECK_DEADLOCK FALSE
INVARIANTS NothingLeaks NoTaskLost
PROPERTIES PushedTasksSettle StopDrains
