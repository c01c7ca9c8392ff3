\* One job without retries, two executors, one crash.  No symmetry.
CONSTANTS
  Jobs = {j1}
  Executions = {x1}
  Schedules = {}
  Executors = {e1, e2}
  None = None
  OneFailurePerJob = FALSE
  Limits = {1}
  Handshakes = {FALSE}
  MaxEvents = 0
  Retries <- NoRetry
  EventBatch = 1
  StartWaitElapses = FALSE
  CancelReplies = {"ok"}
  Timeouts = FALSE
  MaxCrashes = 1
SPECIFICATION FairServerSpec
PROPERTIES
  ResultsApplied
  OrphansEnd
