\* Two schedules, three ticks, and a call that fails or a clock that is set back once, or
\* history that is deleted.  Three executions of two types, with a poll interval that is
\* shorter than the longest delay and backoff, and a periodic check that is longer.
\* Delays of a few bits, so that every number overflows within nine attempts.  The
\* executions of the session are divided in the module.
CONSTANTS
  Jobs = {1, 2, 3}
  Executions = {1, 2, 3}
  Schedules = {1, 2}
  Executors = {e1}
  None = None
  NoTime = NoTime
  Error = Error
  OneFailurePerJob = TRUE
  MaxTime = 3
  Defs <- LoopDefs
  PageSize = 1
  MaxErrors = 1
  MaxSetbacks = 1
  Deletions = TRUE
  Connections = 2
  MaxConcurrent = 1
  MaxMessages = 2
  Late = {1}
  Types = {"a", "b"}
  TypeOf <- OfType
  Limit = 2
  Poll = 2
  CheckDelay = 4
  Backoffs = {1, 3}
  Delays = {0, 1, 3}
  SlowPasses = FALSE
  U32Max = 15
  DurationMax = 40
  MaxRetryBackoff = 30
  MinRejection = 1
  MaxRejection = 12
  FirstDelay = 1
  MaxDelay = 5
  Durations = {0, 1, 3, 7, 40}
  NoMaximum = NoMaximum
  MaxAttempts = 9
SPECIFICATION LoopsSpec
INVARIANTS
  SchedulerTypeOK
  NoBusyLoop
  TimesKept
  WithdrawnHasNoJob
  DelaysAreRight
  SidesAgree
PROPERTIES
  SleepsWhileIdle
\* The ids run out, and time ends.
CHECK_DEADLOCK FALSE
