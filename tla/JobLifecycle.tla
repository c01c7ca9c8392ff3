---------------------------- MODULE JobLifecycle ----------------------------
(***************************************************************************)
(* What the backend promises of jobs (the contract of trait Backend),      *)
(* without rows, executions' statuses and batches of ids: a job goes       *)
(* through its phases with one attempt at a time, an attempt is never used *)
(* twice, and a schedule has one open job at a time, made while active.    *)
(***************************************************************************)
EXTENDS OraIds

VARIABLES
  phase,    \* of a job: absent, pending, running, an outcome, deleted
  attempt,  \* the execution an open job is tried with, None for others
  used,     \* the executions ever created
  owner,    \* the schedule a job was created for
  schedule  \* of a schedule: absent, active, stopped, deleted

vars == <<phase, attempt, used, owner, schedule>>

Open     == {"pending", "running"}
Outcomes == {"succeeded", "failed", "cancelled"}

Init ==
  /\ phase = [j \in Jobs |-> "absent"]
  /\ attempt = [j \in Jobs |-> None]
  /\ used = {}
  /\ owner = [j \in Jobs |-> None]
  /\ schedule = [s \in Schedules |-> "absent"]

\* The jobs js move from one of the phases in from to phase to.
Move(js, from, to) ==
  /\ \A j \in js : phase[j] \in from
  /\ phase' = [j \in Jobs |-> IF j \in js THEN to ELSE phase[j]]

\* Each job of js gets an attempt of its own that was never used before.
NewAttempts(js) ==
  /\ attempt' \in [Jobs -> Executions \cup {None}]
  /\ \A j \in Jobs \ js : attempt'[j] = attempt[j]
  /\ \A j \in js : attempt'[j] \in Executions \ used
  /\ \A j, k \in js : attempt'[j] = attempt'[k] => j = k
  /\ used' = used \cup {attempt'[j] : j \in js}

\* A schedule that j is created for is active, and has no other open job.
OnlyJob(j) ==
  owner'[j] # None =>
    /\ schedule[owner'[j]] = "active"
    /\ \A k \in Jobs : (owner'[k] = owner'[j] /\ phase'[k] \in Open) => k = j

\* add_jobs: "For each new job an execution must also be created"; "only added
\* if the schedule is active and has no active job".
Create(js) ==
  /\ Move(js, {"absent"}, "pending")
  /\ NewAttempts(js)
  /\ owner' \in [Jobs -> Schedules \cup {None}]
  /\ \A j \in Jobs \ js : owner'[j] = owner[j]
  /\ \A j \in js : OnlyJob(j)
  /\ UNCHANGED schedule

\* executions_started: "Only pending executions can be started".
Start(js) ==
  /\ Move(js, {"pending"}, "running")
  /\ UNCHANGED <<attempt, used, owner, schedule>>

\* executions_retried: "For each job, a new execution must be created".
Retry(js) ==
  /\ Move(js, Open, "pending")
  /\ NewAttempts(js)
  /\ UNCHANGED <<owner, schedule>>

\* executions_succeeded, executions_failed, cancel_jobs.
End(js, outcome) ==
  /\ Move(js, Open, outcome)
  /\ attempt' = [j \in Jobs |-> IF j \in js THEN None ELSE attempt[j]]
  /\ UNCHANGED <<used, owner, schedule>>

\* delete_history takes jobs that have ended.
Delete(js) ==
  /\ Move(js, Outcomes, "deleted")
  /\ UNCHANGED <<attempt, used, owner, schedule>>

\* add_schedules, stop_schedules, delete_history.
MoveSchedules(ss, from, to) ==
  /\ \A s \in ss : schedule[s] = from
  /\ schedule' = [s \in Schedules |-> IF s \in ss THEN to ELSE schedule[s]]
  /\ UNCHANGED <<phase, attempt, used, owner>>

Next ==
  \/ \E js \in SUBSET Jobs :
       \/ Create(js) \/ Start(js) \/ Retry(js) \/ Delete(js)
       \/ \E outcome \in Outcomes : End(js, outcome)
  \/ \E ss \in SUBSET Schedules :
       \/ MoveSchedules(ss, "absent", "active")
       \/ MoveSchedules(ss, "active", "stopped")
       \/ MoveSchedules(ss, "stopped", "deleted")

Spec == Init /\ [][Next]_vars
=============================================================================
