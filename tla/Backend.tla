------------------------------ MODULE Backend ------------------------------
(***************************************************************************)
(* The state an ora backend stores, and the calls that change it, as the   *)
(* Postgres backend implements them.  Every call is one transaction and is *)
(* one action; only delete_history, which commits in between, is split     *)
(* where it commits.                                                       *)
(*                                                                         *)
(* Abstracted: payloads, labels, priorities, and time.  A filter is the    *)
(* set of ids it selects; "old enough to delete" is any subset.            *)
(***************************************************************************)
EXTENDS OraIds, Naturals, FiniteSets, Functions

CONSTANT
  OneFailurePerJob  \* do callers name a job at most once per retried batch?

ASSUME OneFailureAssumption == OneFailurePerJob \in BOOLEAN

VARIABLES
  jobStatus,    \* ora.job: whether the row exists, and inactive_status
  jobSchedule,  \* ora.job.schedule_id
  execStatus,   \* ora.execution: whether the row exists, and status
  execJob,      \* ora.execution.job_id (kept after the row is deleted)
  execExecutor, \* ora.execution.executor_id
  schedStatus,  \* ora.schedule: whether the row exists, and stopped_at
  activeJob     \* ora.schedule.active_job_id

jobVars     == <<jobStatus, jobSchedule>>
execVars    == <<execStatus, execJob, execExecutor>>
schedVars   == <<schedStatus, activeJob>>
backendVars == <<jobVars, execVars, schedVars>>

Outcome     == {"succeeded", "failed", "cancelled"}
Active      == {"pending", "running"}            \* status < 2
JobStates   == {"absent", "active", "deleted"} \cup Outcome
ExecStates  == {"absent", "deleted"} \cup Active \cup Outcome
SchedStates == {"absent", "active", "stopped", "deleted"}

\* The type of the stored rows; every execution references a job.
BackendTypeOK ==
  /\ jobStatus    \in [Jobs -> JobStates]
  /\ jobSchedule  \in [Jobs -> Schedules \cup {None}]
  /\ execStatus   \in [Executions -> ExecStates]
  /\ execJob      \in [Executions -> Jobs \cup {None}]
  /\ execExecutor \in [Executions -> Executors \cup {None}]
  /\ schedStatus  \in [Schedules -> SchedStates]
  /\ activeJob    \in [Schedules -> Jobs \cup {None}]
  /\ \A x \in Executions : execStatus[x] # "absent" => execJob[x] \in Jobs

BackendInit ==
  /\ jobStatus    = [j \in Jobs |-> "absent"]
  /\ jobSchedule  = [j \in Jobs |-> None]
  /\ execStatus   = [x \in Executions |-> "absent"]
  /\ execJob      = [x \in Executions |-> None]
  /\ execExecutor = [x \in Executions |-> None]
  /\ schedStatus  = [s \in Schedules |-> "absent"]
  /\ activeJob    = [s \in Schedules |-> None]

-----------------------------------------------------------------------------
(* Helpers *)

FreshJobs  == {j \in Jobs : jobStatus[j] = "absent"}
FreshExecs == {x \in Executions : execStatus[x] = "absent"}

ActiveExecs == {x \in Executions : execStatus[x] \in Active}
ExecsOf(j)  == {x \in Executions : execJob[x] = j /\ execStatus[x] # "deleted"}
JobsOf(xs)  == {execJob[x] : x \in xs}

\* Schedules that want their next job (pending_schedules).
PendingSchedules ==
  {s \in Schedules : schedStatus[s] = "active" /\ activeJob[s] = None}

\* The ways to give every member of S a fresh execution id: functions from
\* the ids used onto S.
FreshFor(S) == UNION {Bijection(ids, S) : ids \in SUBSET FreshExecs}

\* The rows of xs get a final status, and in the same transaction a pending
\* execution of job new[x] is inserted for every fresh id x in DOMAIN new.
FinishAndInsert(xs, status, new) ==
  /\ execStatus' = [x \in Executions |->
        IF x \in DOMAIN new THEN "pending"
        ELSE IF x \in xs THEN status ELSE execStatus[x]]
  /\ execJob' = [x \in Executions |->
        IF x \in DOMAIN new THEN new[x] ELSE execJob[x]]
  /\ UNCHANGED execExecutor

NoNewExecs == [x \in {} |-> None]

\* The jobs are inactive with the given outcome, and the schedules whose active
\* job is among them are free to get the next one.
MarkJobsInactive(js, outcome) ==
  /\ jobStatus' = [j \in Jobs |-> IF j \in js THEN outcome ELSE jobStatus[j]]
  /\ activeJob' = [s \in Schedules |->
        IF activeJob[s] \in js THEN None ELSE activeJob[s]]

-----------------------------------------------------------------------------
(* Calls of the admin API and of the schedule loop *)

\* The requested jobs that are inserted: those of no schedule, and for every
\* schedule the one that claimed it.
Added(sched, claim) ==
  {j \in DOMAIN sched : \/ sched[j] = None
                        \/ \E s \in DOMAIN claim : claim[s] = j}

\* Mutant: the claim does not look at stopped_at.
Claimable_stopped(sched) ==
  {s \in Schedules : /\ schedStatus[s] \in {"active", "stopped"} /\ activeJob[s] = None
                     /\ \E j \in DOMAIN sched : sched[j] = s}

\* The schedules claimed by a call that requests the jobs DOMAIN sched.
Claimable(sched) ==
  {s \in PendingSchedules : \E j \in DOMAIN sched : sched[j] = s}

\* add_jobs: sched[j] is the schedule the new job j is for, or None.  When
\* several jobs name a schedule, the UPDATE picks one of them.
AddJobs(sched) ==
  \E claim \in [Claimable(sched) -> DOMAIN sched] :
    LET added == Added(sched, claim) IN
    /\ \A s \in DOMAIN claim : sched[claim[s]] = s
    /\ \E new \in FreshFor(added) : FinishAndInsert({}, "absent", new)
    /\ jobStatus' = [j \in Jobs |-> IF j \in added THEN "active" ELSE jobStatus[j]]
    /\ jobSchedule' = [j \in Jobs |-> IF j \in added THEN sched[j] ELSE jobSchedule[j]]
    /\ activeJob' = [s \in Schedules |->
          IF s \in DOMAIN claim THEN claim[s] ELSE activeJob[s]]
    /\ UNCHANGED schedStatus

\* The executions a cancellation of the jobs js cancels.
CancelledBy(js) == {x \in ActiveExecs : execJob[x] \in js}

\* cancel_jobs, for a filter that selects the jobs js.
CancelJobs(js) ==
  /\ FinishAndInsert(CancelledBy(js), "cancelled", NoNewExecs)
  /\ MarkJobsInactive(JobsOf(CancelledBy(js)), "cancelled")
  /\ UNCHANGED <<jobSchedule, schedStatus>>

AddSchedules(ss) ==
  /\ ss \subseteq {s \in Schedules : schedStatus[s] = "absent"}
  /\ schedStatus' = [s \in Schedules |-> IF s \in ss THEN "active" ELSE schedStatus[s]]
  /\ UNCHANGED <<jobVars, execVars, activeJob>>

\* stop_schedules: the active job of a stopped schedule stays as it is.
StopSchedules(ss) ==
  /\ schedStatus' = [s \in Schedules |->
        IF s \in ss /\ schedStatus[s] = "active" THEN "stopped" ELSE schedStatus[s]]
  /\ UNCHANGED <<jobVars, execVars, activeJob>>

\* Mutant: jobs are deleted by age alone.
Deletable_anyJob == {j \in Jobs : jobStatus[j] \in Outcome \cup {"active"}}

\* The jobs delete_history may delete: those with inactive_since set.
Deletable == {j \in Jobs : jobStatus[j] \in Outcome}

\* delete_history, first transaction: the executions go with their job.
DeleteJobs(js) ==
  /\ js \subseteq Deletable
  /\ jobStatus' = [j \in Jobs |-> IF j \in js THEN "deleted" ELSE jobStatus[j]]
  /\ execStatus' = [x \in Executions |->
        IF execJob[x] \in js THEN "deleted" ELSE execStatus[x]]
  /\ UNCHANGED <<jobSchedule, execJob, execExecutor, schedVars>>

\* delete_history, second transaction.  Jobs of the schedule stay.
DeleteSchedules(ss) ==
  /\ ss \subseteq {s \in Schedules : schedStatus[s] = "stopped"}
  /\ schedStatus' = [s \in Schedules |-> IF s \in ss THEN "deleted" ELSE schedStatus[s]]
  /\ activeJob' = [s \in Schedules |-> IF s \in ss THEN None ELSE activeJob[s]]
  /\ UNCHANGED <<jobVars, execVars>>

-----------------------------------------------------------------------------
(* Calls of the server's execution loops *)

\* Mutant: an execution that was started already is not returned again.
Startable_pendingOnly(by) == {x \in DOMAIN by : execStatus[x] = "pending"}

\* The executions executions_started starts and returns, by[x] being the
\* executor of x.  Repeating a call returns the same executions.
Startable(by) ==
  {x \in DOMAIN by : \/ execStatus[x] = "pending"
                     \/ execStatus[x] = "running" /\ execExecutor[x] = by[x]}

ExecutionsStarted(by) ==
  /\ execStatus' = [x \in Executions |->
        IF x \in Startable(by) THEN "running" ELSE execStatus[x]]
  /\ execExecutor' = [x \in Executions |->
        IF x \in Startable(by) THEN by[x] ELSE execExecutor[x]]
  /\ UNCHANGED <<jobVars, execJob, schedVars>>

\* Mutant: the guard "status < 2" is missing.
Unfinished_any(xs) == {x \in xs : execStatus[x] \in Active \cup Outcome}

\* The executions of a batch that a result still applies to.
Unfinished(xs) == xs \cap ActiveExecs

ExecutionsSucceeded(xs) ==
  /\ FinishAndInsert(Unfinished(xs), "succeeded", NoNewExecs)
  /\ MarkJobsInactive(JobsOf(Unfinished(xs)), "succeeded")
  /\ UNCHANGED <<jobSchedule, schedStatus>>

ExecutionsFailed(xs) ==
  /\ FinishAndInsert(Unfinished(xs), "failed", NoNewExecs)
  /\ MarkJobsInactive(JobsOf(Unfinished(xs)), "failed")
  /\ UNCHANGED <<jobSchedule, schedStatus>>

\* Mutant: every failed execution of the batch is retried.
Retryable_all(xs) == {x \in xs : execStatus[x] # "deleted"}

\* The executions of the batch xs that get a new attempt.  The filter compares
\* job ids: an execution that had finished before passes it when another
\* execution of its job fails in the same batch.
Retryable(xs) == {x \in xs : execJob[x] \in JobsOf(Unfinished(xs))}

\* executions_retried: the jobs stay active.
ExecutionsRetried(xs) ==
  /\ \E from \in FreshFor(Retryable(xs)) :
       FinishAndInsert(Unfinished(xs), "failed", [x \in DOMAIN from |-> execJob[from[x]]])
  /\ UNCHANGED <<jobVars, schedVars>>

-----------------------------------------------------------------------------
(* The backend under arbitrary callers *)

KnownExecs == {x \in Executions : execStatus[x] # "absent"}

\* A batch of failures: anything the callers have seen, or, under
\* OneFailurePerJob, at most one execution of each job.
FailureBatch(xs) ==
  OneFailurePerJob => \A x, y \in xs : execJob[x] = execJob[y] => x = y

BackendNext ==
  \/ \E js \in SUBSET FreshJobs : \E sched \in [js -> Schedules \cup {None}] : AddJobs(sched)
  \/ \E js \in SUBSET Jobs : CancelJobs(js) \/ DeleteJobs(js)
  \/ \E ss \in SUBSET Schedules : AddSchedules(ss) \/ StopSchedules(ss) \/ DeleteSchedules(ss)
  \/ \E xs \in SUBSET KnownExecs :
       \/ \E by \in [xs -> Executors] : ExecutionsStarted(by)
       \/ ExecutionsSucceeded(xs)
       \/ ExecutionsFailed(xs)
       \/ FailureBatch(xs) /\ ExecutionsRetried(xs)

BackendSpec == BackendInit /\ [][BackendNext]_backendVars

-----------------------------------------------------------------------------
(* Properties *)

\* A schedule points at exactly the job of it that is active: it never waits
\* for a job that finished (it would never get another one), and it never has
\* two jobs at once (ScheduleTracksJob; add_jobs claims, mark_jobs_inactive
\* frees, stop_schedules and delete_history must do neither).
ScheduleTracksJob ==
  \A s \in Schedules : schedStatus[s] # "deleted" =>
    \A j \in Jobs : activeJob[s] = j <=> (jobStatus[j] = "active" /\ jobSchedule[j] = s)

\* No job is stuck: an active job has an execution that can still be offered
\* or that runs, whatever batches of results and retries were applied.
ActiveJobHasExecution ==
  \A j \in Jobs : jobStatus[j] = "active" => \E x \in ActiveExecs : execJob[x] = j

\* Executions of one job never overlap: each retry replaces the attempt it
\* retries ("we must only retry jobs that are still active").
AtMostOneActive ==
  \A x, y \in ActiveExecs : execJob[x] = execJob[y] => x = y

\* An execution that can still be offered or runs belongs to an active job, so
\* that its job can neither be deleted under it nor get a second outcome.
ActiveExecutionHasJob ==
  \A x \in ActiveExecs : jobStatus[execJob[x]] = "active"

\* What holds of the stored rows whoever calls: the types, schedules that track
\* their job, and no job without an execution.
StoredInv == BackendTypeOK /\ ScheduleTracksJob /\ ActiveJobHasExecution

\* What holds as long as nobody names a job twice in a batch of retries: the jobs
\* that are active and the executions that are correspond one to one.
JobInv == BackendTypeOK /\ AtMostOneActive /\ ActiveExecutionHasJob

\* The outcome recorded for an execution or a job never changes afterwards: a
\* late or repeated result, cancellation or retry does not rewrite history.
OutcomesKept ==
  /\ \A x \in Executions : execStatus[x] \in Outcome =>
       execStatus'[x] \in {execStatus[x], "deleted"} /\ execExecutor'[x] = execExecutor[x]
  /\ \A j \in Jobs : jobStatus[j] \in Outcome => jobStatus'[j] \in {jobStatus[j], "deleted"}

OutcomesAreFinal == [][OutcomesKept]_backendVars

-----------------------------------------------------------------------------
(* What the backend implements *)

\* The phase of an active job is the status of its execution (status_filter).
JobPhase ==
  [j \in Jobs |-> IF jobStatus[j] # "active" THEN jobStatus[j]
                  ELSE IF \E x \in ActiveExecs : execJob[x] = j /\ execStatus[x] = "running"
                  THEN "running" ELSE "pending"]

\* The execution an active job is tried with.
CurrentAttempt ==
  [j \in Jobs |-> IF jobStatus[j] = "active"
                  THEN CHOOSE x \in ActiveExecs : execJob[x] = j ELSE None]

Lifecycle == INSTANCE JobLifecycle WITH
  phase <- JobPhase, attempt <- CurrentAttempt, used <- KnownExecs,
  owner <- jobSchedule, schedule <- schedStatus

\* The rows and batches of the backend implement the life of jobs its contract
\* describes: one attempt at a time, never reused, each retry in place of the
\* attempt it follows, one open job for a schedule, outcomes once and for all.
ImplementsLifecycle == Lifecycle!Spec
=============================================================================
