\* A backend that is down.
CONSTANTS
  Executors = {e1}
  Executions = {x1, x2}
  None = None
  MaxAttempts = 2
  BackendDown = TRUE
SPECIFICATION FairSpec
PROPERTIES
  ServerStops
CHECK_DEADLOCK FALSE
