\* One job that is retried and two that are not; the module restricts the steps.
CONSTANTS
  Jobs = {j1, j2, j3}
  RetriedJobs = {j1}
  Executions = {x1, x2, x3}
  Schedules = {}
  Executors = {e1, e2}
  None = None
  OneFailurePerJob = FALSE
  Limits = {1, 2}
  Handshakes = {TRUE, FALSE}
  MaxEvents = 0
  Retries <- CaseRetries
  EventBatch = 2
  StartWaitElapses = TRUE
  CancelReplies = {"error"}
  Timeouts = FALSE
  MaxCrashes = 1
SYMMETRY Symmetry
SPECIFICATION CasesSpec
INVARIANTS
  ServerInv
  OneExecutorRuns
  RunningIsTracked
