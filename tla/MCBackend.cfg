\* Two jobs, three executions (one job can be retried twice, or both once),
\* two schedules that can own the jobs in turn, two executors.
CONSTANTS
  Jobs = {j1, j2}
  Executions = {x1, x2, x3}
  Schedules = {s1, s2}
  Executors = {e1, e2}
  None = None
  OneFailurePerJob = TRUE
SYMMETRY Symmetry
SPECIFICATION BackendSpec
INVARIANTS
  StoredInv
  JobInv
PROPERTIES
  OutcomesAreFinal
  ImplementsLifecycle
