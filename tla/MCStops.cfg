\* One execution, over two connections, or accepted by one of two executors.
CONSTANTS
  Executions = {x1}
  Connections = 2
  MaxConcurrent = 1
  MaxMessages = 1
  Late = {}
  Executors = {e1, e2}
  None = None
  MaxAttempts = 2
  BackendDown = FALSE
SPECIFICATION StopsSpec
INVARIANTS
  ShutdownInv
PROPERTIES
  OfferIsAnswered
  ExecutorStops
  ServerStops
CHECK_DEADLOCK FALSE
