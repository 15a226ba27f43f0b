SPECIFICATION FairSpec
CONSTANTS
  None = None
  Executors = {e1, e2}
  Tasks = {t1}
  Retriable = {}
  MaxAttempts <- TwoAttempts
  Cancellable = {}
  Stoppable = {}
  LeaseLoss = FALSE
  MaxPushes = 1
  MaxCrashes = 0
  MaxFaults = 1
CHECK_DEADLOCK FALSE
PROPERTY PollsAgainAfterError
