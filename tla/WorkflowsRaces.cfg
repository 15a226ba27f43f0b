CONSTANTS
  post = post
  put = put
  again = again
  drawn = drawn
  broken = broken
  t1 = t1
  t2 = t2
  Requests = {post, put, again, drawn, broken}
  Accepted = {post, put, again, drawn}
  Tasks <- BodyTasks
  Edged = {drawn}
  Launches = {api, cron}
  Scheduled = {cron}
  Deletions = {del}
  None = None
  Gone = Gone
  MaxFaults = 1
SPECIFICATION Spec
INVARIANTS TypeOK VersionsUnmixed LaunchIsConsistent
CHECK_DEADLOCK FALSE
