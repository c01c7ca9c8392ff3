------------------------------- MODULE OraIds -------------------------------
(***************************************************************************)
(* The identifiers shared by every module.  Ids are UUIDs (version 7 for   *)
(* jobs, executions and schedules, src/crates/ora-backend/src/lib.rs) and  *)
(* are never reused: a fresh one is a member of its set not used before.   *)
(***************************************************************************)
CONSTANTS
  Jobs,        \* ids a job can be given
  Executions,  \* ids an execution (one attempt at a job) can be given
  Schedules,   \* ids a schedule can be given
  Executors,   \* ids of executor connections: one per connection, never reused
  None         \* the SQL NULL / Rust None of an optional id

ASSUME NoneAssumption ==
  None \notin Jobs \cup Executions \cup Schedules \cup Executors
=============================================================================
