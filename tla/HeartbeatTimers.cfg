CONSTANTS
  Initial = 1
  Period = 6
  Ttl = 18
  Threshold = 18
  Refresh = 2
  Timers = {i1, i2, i3}
  Off = Off
  MaxStarts = 3
  MaxFaults = 2
SPECIFICATION FairSpec
INVARIANTS TypeOK MissedBeatTolerated
PROPERTY SilenceShows
CHECK_DEADLOCK FALSE
