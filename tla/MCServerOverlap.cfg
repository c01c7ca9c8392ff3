\* One job that may be retried twice and time out, on one executor with room for
\* two executions.
CONSTANTS
  Jobs = {j1}
  Executions = {x1, x2, x3, x4}
  Schedules = {}
  Executors = {e1}
  None = None
  OneFailurePerJob = FALSE
  Limits = {2}
  Handshakes = {FALSE}
  MaxEvents = 0
  Retries <- TwoRetries
  EventBatch = 1
  StartWaitElapses = FALSE
  CancelReplies = {}
  Timeouts = TRUE
  MaxCrashes = 0
SYMMETRY Symmetry
SPECIFICATION ServerSpec
INVARIANTS
  AtMostOneActive
