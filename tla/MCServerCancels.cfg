\* One job that may be retried once, cancelled, and time out, on one executor.
CONSTANTS
  Jobs = {j1}
  Executions = {x1, x2}
  Schedules = {}
  Executors = {e1}
  None = None
  OneFailurePerJob = FALSE
  Limits = {1}
  Handshakes = {TRUE, FALSE}
  MaxEvents = 0
  Retries <- OneRetry
  EventBatch = 1
  StartWaitElapses = FALSE
  CancelReplies = {"ok"}
  Timeouts = TRUE
  MaxCrashes = 0
SYMMETRY Symmetry
SPECIFICATION ServerSpec
INVARIANTS
  FinishedIsWithdrawn
PROPERTIES
  StartBeforeResult
