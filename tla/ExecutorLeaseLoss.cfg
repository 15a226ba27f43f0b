SPECIFICATION Spec
CONSTANTS
  None = None
  Executors = {e1, e2}
  Tasks = {t1}
  Retriable = {t1}
  MaxAttempts <- TwoAttempts
  Cancellable = {}
  Stoppable = {e1, e2}
  LeaseLoss = TRUE
  MaxPushes = 2
  MaxCrashes = 1
  MaxFaults = 1
CHECK_DEADLOCK FALSE
INVARIANT ProcessingCoversHandlers
PROPERTY LockBelongsToOwner
