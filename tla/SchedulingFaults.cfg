CONSTANTS
  hourly = hourly
  nightly = nightly
  Schedules = {hourly, nightly}
  Evaluators = {e1, e2}
  Limit = 1
  NextTime <- NextRunTime
  Never = Never
  MaxTime = 5
  MaxToggles = 1
  MaxFaults = 1
SPECIFICATION FairSpec
INVARIANT TypeOK
PROPERTIES LaunchesSpaced DueIsServed
CHECK_DEADLOCK FALSE
