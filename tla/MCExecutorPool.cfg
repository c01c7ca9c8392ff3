CONSTANTS
  Jobs = {}
  Executions = {x1, x2}
  Schedules = {}
  Executors = {e1, e2}
  None = None
  Limits = {1}
  Handshakes = {TRUE, FALSE}
  MaxEvents = 1
SYMMETRY Symmetry
SPECIFICATION PoolSpec
INVARIANTS
  HeldOnce
  WithinLimit
  BeliefsAgree
