\* Four guards, and a job with three executions; the instances of the other parts are in the module.
CONSTANTS
  Guards = {g1, g2, g3, g4}
  Operations = {"result", "changed", "wait"}
  Strategies = {"Cache", "NoCache"}
  MaxAttempts = 3
  Nothing = Nothing
  NoTime = NoTime
  Error = Error
SPECIFICATION WaitsSpec
INVARIANTS
  NoLostWakeup
  NobodyLeftBehind
PROPERTIES
  WaitsEnd
  ResultIsRight
  PendingIsHandled
  NoTimeIsLost
\* Every part comes to an end, and then nothing happens.
CHECK_DEADLOCK FALSE
