--------------------------- MODULE BackendProofs ---------------------------
(***************************************************************************)
(* Theorems about Backend, for any number of jobs, executions, schedules   *)
(* and executors: its invariants, and that it implements JobLifecycle.     *)
(*                                                                         *)
(* Argument: type correctness first.  Then StoredInv, which holds whatever *)
(* the callers do.  AtMostOneActive is not inductive alone: a new job must *)
(* not meet an old execution of it, which ActiveExecutionHasJob excludes,  *)
(* and a job that gets its outcome must not leave an execution behind,     *)
(* which AtMostOneActive excludes.  So the two are proved together, for    *)
(* callers that name a job at most once in a batch of retries.             *)
(***************************************************************************)
EXTENDS Backend, TLAPS

(***************************************************************************)
(* The two helpers every call is built from                                *)
(***************************************************************************)

\* The executions written by FinishAndInsert are well-typed.
LEMMA FinishAndInsertType ==
  ASSUME BackendTypeOK,
         NEW xs, NEW status \in ExecStates \ {"absent"}, xs \subseteq ActiveExecs,
         NEW ids \in SUBSET Executions, NEW new \in [ids -> Jobs],
         FinishAndInsert(xs, status, new)
  PROVE  /\ execStatus'   \in [Executions -> ExecStates]
         /\ execJob'      \in [Executions -> Jobs \cup {None}]
         /\ execExecutor' \in [Executions -> Executors \cup {None}]
         /\ \A x \in Executions : execStatus'[x] # "absent" => execJob'[x] \in Jobs
  BY DEF BackendTypeOK, FinishAndInsert, ExecStates, Active, ActiveExecs

\* The jobs and schedules written by MarkJobsInactive are well-typed.
LEMMA MarkJobsInactiveType ==
  ASSUME BackendTypeOK,
         NEW js, NEW outcome \in Outcome,
         MarkJobsInactive(js, outcome)
  PROVE  /\ jobStatus' \in [Jobs -> JobStates]
         /\ activeJob' \in [Schedules -> Jobs \cup {None}]
  BY DEF BackendTypeOK, MarkJobsInactive, JobStates

\* Nothing to insert is a function from a set of executions to jobs.
LEMMA NoNewExecsType == NoNewExecs \in [{} -> Jobs] /\ DOMAIN NoNewExecs = {}
  BY DEF NoNewExecs

\* The three calls that record a result without a new execution: the unfinished
\* executions among xs and their jobs get the outcome, everything else stays.
FinishJobs(xs, outcome) ==
  /\ FinishAndInsert(xs, outcome, NoNewExecs)
  /\ MarkJobsInactive(JobsOf(xs), outcome)
  /\ UNCHANGED <<jobSchedule, schedStatus>>

\* cancel_jobs, executions_succeeded and executions_failed are such calls.
LEMMA ResultsFinishJobs ==
  ASSUME NEW xs, xs \subseteq Executions
  PROVE  /\ ExecutionsSucceeded(xs) =>
              \E done \in SUBSET ActiveExecs : FinishJobs(done, "succeeded")
         /\ ExecutionsFailed(xs) =>
              \E done \in SUBSET ActiveExecs : FinishJobs(done, "failed")
  BY DEF ExecutionsSucceeded, ExecutionsFailed, FinishJobs, Unfinished

\* So is cancel_jobs: it finishes the active executions of the selected jobs.
LEMMA CancelFinishesJobs ==
  ASSUME NEW js, CancelJobs(js)
  PROVE  /\ FinishJobs(CancelledBy(js), "cancelled")
         /\ CancelledBy(js) \subseteq ActiveExecs
         /\ \A x \in CancelledBy(js), y \in ActiveExecs :
              execJob[x] = execJob[y] => y \in CancelledBy(js)
  BY DEF CancelJobs, FinishJobs, CancelledBy

\* A choice of fresh ids for S is a bijection from unused ids onto S.
LEMMA FreshForIs ==
  ASSUME NEW S, NEW from \in FreshFor(S)
  PROVE  /\ DOMAIN from \subseteq FreshExecs
         /\ from \in [DOMAIN from -> S]
         /\ \A a, b \in DOMAIN from : from[a] = from[b] => a = b
         /\ \A t \in S : \E x \in DOMAIN from : from[x] = t
  <1>1. PICK ids \in SUBSET FreshExecs : from \in Bijection(ids, S)
    BY DEF FreshFor
  <1>2. QED
    BY <1>1 DEF Bijection, Injection, Surjection, IsInjective

\* The jobs of the executions a batch of retries names.
LEMMA RetriedJobs ==
  ASSUME BackendTypeOK, NEW xs \in SUBSET KnownExecs, NEW from \in FreshFor(Retryable(xs))
  PROVE  [x \in DOMAIN from |-> execJob[from[x]]] \in [DOMAIN from -> Jobs]
  <1>1. \A x \in DOMAIN from : from[x] \in KnownExecs
    BY FreshForIs DEF Retryable
  <1>2. QED
    BY <1>1 DEF BackendTypeOK, KnownExecs

(***************************************************************************)
(* Type correctness                                                        *)
(***************************************************************************)

\* A call that finishes executions and their jobs keeps the rows well-typed.
LEMMA FinishJobsType ==
  ASSUME BackendTypeOK, NEW done \in SUBSET ActiveExecs, NEW outcome \in Outcome,
         FinishJobs(done, outcome)
  PROVE  BackendTypeOK'
  <1>1. outcome \in ExecStates \ {"absent"}
    BY DEF ExecStates, Outcome
  <1>2. /\ execStatus'   \in [Executions -> ExecStates]
        /\ execJob'      \in [Executions -> Jobs \cup {None}]
        /\ execExecutor' \in [Executions -> Executors \cup {None}]
        /\ \A x \in Executions : execStatus'[x] # "absent" => execJob'[x] \in Jobs
    BY <1>1, NoNewExecsType, FinishAndInsertType DEF FinishJobs
  <1>3. /\ jobStatus' \in [Jobs -> JobStates]
        /\ activeJob' \in [Schedules -> Jobs \cup {None}]
    BY MarkJobsInactiveType DEF FinishJobs
  <1>4. QED
    BY <1>2, <1>3 DEF BackendTypeOK, FinishJobs

\* add_jobs inserts well-typed rows.
LEMMA AddJobsType ==
  ASSUME BackendTypeOK, NEW js \in SUBSET FreshJobs,
         NEW sched \in [js -> Schedules \cup {None}], AddJobs(sched)
  PROVE  BackendTypeOK'
  <1>1. PICK claim \in [Claimable(sched) -> DOMAIN sched] :
          /\ \E new \in FreshFor(Added(sched, claim)) : FinishAndInsert({}, "absent", new)
          /\ jobStatus' = [j \in Jobs |->
               IF j \in Added(sched, claim) THEN "active" ELSE jobStatus[j]]
          /\ jobSchedule' = [j \in Jobs |->
               IF j \in Added(sched, claim) THEN sched[j] ELSE jobSchedule[j]]
          /\ activeJob' = [s \in Schedules |->
               IF s \in DOMAIN claim THEN claim[s] ELSE activeJob[s]]
          /\ UNCHANGED schedStatus
    BY DEF AddJobs
  <1>2. PICK new \in FreshFor(Added(sched, claim)) : FinishAndInsert({}, "absent", new)
    BY <1>1
  <1>3. new \in [DOMAIN new -> Jobs] /\ DOMAIN new \subseteq Executions
    BY FreshForIs DEF Added, FreshJobs, FreshExecs
  <1>4. /\ execStatus'   \in [Executions -> ExecStates]
        /\ execJob'      \in [Executions -> Jobs \cup {None}]
        /\ execExecutor' \in [Executions -> Executors \cup {None}]
        /\ \A x \in Executions : execStatus'[x] # "absent" => execJob'[x] \in Jobs
    BY <1>2, <1>3 DEF FinishAndInsert, BackendTypeOK, ExecStates, Active
  <1>5. jobStatus' \in [Jobs -> JobStates] /\ activeJob' \in [Schedules -> Jobs \cup {None}]
    BY <1>1 DEF BackendTypeOK, JobStates, FreshJobs
  <1>6. jobSchedule' \in [Jobs -> Schedules \cup {None}]
    BY <1>1 DEF BackendTypeOK, Added
  <1>7. QED
    BY <1>1, <1>4, <1>5, <1>6 DEF BackendTypeOK

\* executions_retried inserts well-typed rows.
LEMMA RetriedType ==
  ASSUME BackendTypeOK, NEW xs \in SUBSET KnownExecs, ExecutionsRetried(xs)
  PROVE  BackendTypeOK'
  <1> DEFINE new(from) == [x \in DOMAIN from |-> execJob[from[x]]]
  <1>1. PICK from \in FreshFor(Retryable(xs)) :
          FinishAndInsert(Unfinished(xs), "failed", new(from))
    BY DEF ExecutionsRetried
  <1>2. new(from) \in [DOMAIN from -> Jobs] /\ DOMAIN from \subseteq Executions
    BY RetriedJobs, FreshForIs DEF FreshExecs
  <1>3. "failed" \in ExecStates \ {"absent"} /\ Unfinished(xs) \subseteq ActiveExecs
    BY DEF ExecStates, Outcome, Unfinished
  <1> HIDE DEF new
  <1>4. /\ execStatus'   \in [Executions -> ExecStates]
        /\ execJob'      \in [Executions -> Jobs \cup {None}]
        /\ execExecutor' \in [Executions -> Executors \cup {None}]
        /\ \A x \in Executions : execStatus'[x] # "absent" => execJob'[x] \in Jobs
    BY <1>1, <1>2, <1>3, FinishAndInsertType
  <1>5. QED
    BY <1>4 DEF ExecutionsRetried, BackendTypeOK, jobVars, schedVars

\* Every call keeps the stored rows well-typed.
LEMMA NextTypeOK == BackendTypeOK /\ [BackendNext]_backendVars => BackendTypeOK'
  <1> SUFFICES ASSUME BackendTypeOK, [BackendNext]_backendVars PROVE BackendTypeOK'
    OBVIOUS
  <1>1. ASSUME NEW js \in SUBSET FreshJobs, NEW sched \in [js -> Schedules \cup {None}],
               AddJobs(sched)
        PROVE  BackendTypeOK'
    BY <1>1, AddJobsType
  <1>2. ASSUME NEW js \in SUBSET Jobs, CancelJobs(js) PROVE BackendTypeOK'
    BY <1>2, CancelFinishesJobs, FinishJobsType DEF Outcome
  <1>3. ASSUME NEW js \in SUBSET Jobs, DeleteJobs(js) PROVE BackendTypeOK'
    <2>1. /\ execStatus' \in [Executions -> ExecStates]
          /\ \A x \in Executions : execStatus'[x] # "absent" => execJob'[x] \in Jobs
      BY <1>3 DEF BackendTypeOK, DeleteJobs, ExecStates
    <2>2. jobStatus' \in [Jobs -> JobStates]
      BY <1>3 DEF BackendTypeOK, DeleteJobs, JobStates
    <2>3. QED
      BY <1>3, <2>1, <2>2 DEF BackendTypeOK, DeleteJobs, schedVars
  <1>4. ASSUME NEW ss \in SUBSET Schedules, AddSchedules(ss) PROVE BackendTypeOK'
    BY <1>4 DEF BackendTypeOK, AddSchedules, SchedStates, jobVars, execVars
  <1>5. ASSUME NEW ss \in SUBSET Schedules, StopSchedules(ss) PROVE BackendTypeOK'
    BY <1>5 DEF BackendTypeOK, StopSchedules, SchedStates, jobVars, execVars
  <1>6. ASSUME NEW ss \in SUBSET Schedules, DeleteSchedules(ss) PROVE BackendTypeOK'
    BY <1>6 DEF BackendTypeOK, DeleteSchedules, SchedStates, jobVars, execVars
  <1>7. ASSUME NEW xs \in SUBSET KnownExecs, NEW by \in [xs -> Executors],
               ExecutionsStarted(by)
        PROVE  BackendTypeOK'
    BY <1>7 DEF BackendTypeOK, ExecutionsStarted, Startable, KnownExecs, ExecStates,
                Active, jobVars, schedVars
  <1>8. ASSUME NEW xs \in SUBSET KnownExecs, ExecutionsSucceeded(xs) \/ ExecutionsFailed(xs)
        PROVE  BackendTypeOK'
    <2>1. xs \subseteq Executions
      BY DEF KnownExecs
    <2>2. QED
      BY <1>8, <2>1, ResultsFinishJobs, FinishJobsType DEF Outcome
  <1>9. ASSUME NEW xs \in SUBSET KnownExecs, ExecutionsRetried(xs) PROVE BackendTypeOK'
    BY <1>9, RetriedType
  <1>10. CASE UNCHANGED backendVars
    BY <1>10 DEF BackendTypeOK, backendVars, jobVars, execVars, schedVars
  <1>11. QED
    BY <1>1, <1>2, <1>3, <1>4, <1>5, <1>6, <1>7, <1>8, <1>9, <1>10 DEF BackendNext

\* The stored rows are always well-typed, and executions reference a job.
THEOREM TypeCorrect == BackendSpec => []BackendTypeOK
  <1>1. BackendInit => BackendTypeOK
    BY DEF BackendInit, BackendTypeOK, JobStates, ExecStates, SchedStates
  <1>2. QED
    BY <1>1, NextTypeOK, PTL DEF BackendSpec

(***************************************************************************)
(* What holds for arbitrary callers: schedules track their job, and no     *)
(* active job is left without an execution.                                *)
(***************************************************************************)

\* Finished jobs leave their schedules and need no execution any more.
LEMMA FinishJobsStored ==
  ASSUME StoredInv, NEW done \in SUBSET ActiveExecs, NEW outcome \in Outcome,
         FinishJobs(done, outcome)
  PROVE  ScheduleTracksJob' /\ ActiveJobHasExecution'
  <1>1. /\ jobStatus' = [j \in Jobs |-> IF j \in JobsOf(done) THEN outcome ELSE jobStatus[j]]
        /\ activeJob' = [s \in Schedules |->
             IF activeJob[s] \in JobsOf(done) THEN None ELSE activeJob[s]]
        /\ jobSchedule' = jobSchedule /\ schedStatus' = schedStatus
        /\ execStatus' = [x \in Executions |-> IF x \in done THEN outcome ELSE execStatus[x]]
        /\ execJob' = [x \in Executions |-> execJob[x]]
    BY DEF FinishJobs, FinishAndInsert, MarkJobsInactive, NoNewExecs
  <1>2. outcome # "active" /\ outcome \notin Active
    BY DEF Outcome, Active
  <1>3. ScheduleTracksJob'
    BY <1>1, <1>2, NoneAssumption DEF StoredInv, ScheduleTracksJob, BackendTypeOK
  <1>4. ASSUME NEW j \in Jobs, jobStatus'[j] = "active"
        PROVE  \E x \in ActiveExecs' : execJob'[x] = j
    <2>1. jobStatus[j] = "active" /\ j \notin JobsOf(done)
      BY <1>1, <1>2, <1>4
    <2>2. PICK x \in ActiveExecs : execJob[x] = j
      BY <2>1 DEF StoredInv, ActiveJobHasExecution
    <2>3. x \notin done
      BY <2>1, <2>2 DEF JobsOf
    <2>4. QED
      BY <1>1, <2>2, <2>3 DEF ActiveExecs
  <1>5. QED
    BY <1>3, <1>4 DEF ActiveJobHasExecution

\* add_jobs, with the claims of schedules named.
LEMMA AddJobsShape ==
  ASSUME NEW js \in SUBSET FreshJobs,
         NEW sched \in [js -> Schedules \cup {None}], AddJobs(sched)
  PROVE  \E claim \in [Claimable(sched) -> js] :
           /\ \A s \in Claimable(sched) : sched[claim[s]] = s
           /\ \E new \in FreshFor(Added(sched, claim)) : FinishAndInsert({}, "absent", new)
           /\ jobStatus' = [j \in Jobs |->
                IF j \in Added(sched, claim) THEN "active" ELSE jobStatus[j]]
           /\ jobSchedule' = [j \in Jobs |->
                IF j \in Added(sched, claim) THEN sched[j] ELSE jobSchedule[j]]
           /\ activeJob' = [s \in Schedules |->
                IF s \in Claimable(sched) THEN claim[s] ELSE activeJob[s]]
           /\ schedStatus' = schedStatus
           /\ Added(sched, claim) =
                {j \in js : sched[j] = None \/ \E s \in Claimable(sched) : claim[s] = j}
           /\ Added(sched, claim) \subseteq FreshJobs
  <1>1. PICK claim \in [Claimable(sched) -> DOMAIN sched] :
           /\ \A s \in DOMAIN claim : sched[claim[s]] = s
           /\ \E new \in FreshFor(Added(sched, claim)) : FinishAndInsert({}, "absent", new)
           /\ jobStatus' = [j \in Jobs |->
                IF j \in Added(sched, claim) THEN "active" ELSE jobStatus[j]]
           /\ jobSchedule' = [j \in Jobs |->
                IF j \in Added(sched, claim) THEN sched[j] ELSE jobSchedule[j]]
           /\ activeJob' = [s \in Schedules |->
                IF s \in DOMAIN claim THEN claim[s] ELSE activeJob[s]]
           /\ schedStatus' = schedStatus
    BY DEF AddJobs
  <1>2. DOMAIN sched = js /\ DOMAIN claim = Claimable(sched)
    OBVIOUS
  <1>3. /\ Added(sched, claim) =
             {j \in js : sched[j] = None \/ \E s \in Claimable(sched) : claim[s] = j}
        /\ Added(sched, claim) \subseteq FreshJobs
    BY <1>2 DEF Added
  <1>4. claim \in [Claimable(sched) -> js]
    BY <1>2
  <1>5. QED
    BY <1>1, <1>2, <1>3, <1>4

\* add_jobs claims the schedule of every job it inserts, with one execution.
LEMMA AddJobsStored ==
  ASSUME StoredInv, NEW js \in SUBSET FreshJobs,
         NEW sched \in [js -> Schedules \cup {None}], AddJobs(sched)
  PROVE  ScheduleTracksJob' /\ ActiveJobHasExecution'
  <1>1. PICK claim \in [Claimable(sched) -> js] :
           /\ \A s \in Claimable(sched) : sched[claim[s]] = s
           /\ \E new \in FreshFor(Added(sched, claim)) : FinishAndInsert({}, "absent", new)
           /\ jobStatus' = [j \in Jobs |->
                IF j \in Added(sched, claim) THEN "active" ELSE jobStatus[j]]
           /\ jobSchedule' = [j \in Jobs |->
                IF j \in Added(sched, claim) THEN sched[j] ELSE jobSchedule[j]]
           /\ activeJob' = [s \in Schedules |->
                IF s \in Claimable(sched) THEN claim[s] ELSE activeJob[s]]
           /\ schedStatus' = schedStatus
           /\ Added(sched, claim) =
                {j \in js : sched[j] = None \/ \E s \in Claimable(sched) : claim[s] = j}
           /\ Added(sched, claim) \subseteq FreshJobs
    BY AddJobsShape
  <1> DEFINE added == Added(sched, claim)
  <1>2. PICK new \in FreshFor(added) : FinishAndInsert({}, "absent", new)
    BY <1>1
  <1>3. /\ DOMAIN new \subseteq FreshExecs
        /\ new \in [DOMAIN new -> added]
        /\ \A j \in added : \E x \in DOMAIN new : new[x] = j
    BY <1>2, FreshForIs
  <1>4. /\ execStatus' = [x \in Executions |->
             IF x \in DOMAIN new THEN "pending" ELSE execStatus[x]]
        /\ execJob' = [x \in Executions |->
             IF x \in DOMAIN new THEN new[x] ELSE execJob[x]]
    BY <1>2 DEF FinishAndInsert
  <1>5. ASSUME NEW s \in Schedules, schedStatus'[s] # "deleted", NEW j \in Jobs
        PROVE  activeJob'[s] = j <=> (jobStatus'[j] = "active" /\ jobSchedule'[j] = s)
    <2>1. activeJob[s] = j <=> (jobStatus[j] = "active" /\ jobSchedule[j] = s)
      BY <1>1, <1>5 DEF StoredInv, ScheduleTracksJob
    <2>2. s # None
      BY NoneAssumption
    <2>3. CASE j \in added
      <3>1. jobStatus[j] = "absent" /\ jobStatus'[j] = "active" /\ jobSchedule'[j] = sched[j]
        BY <1>1, <1>2, <2>3 DEF FreshJobs
      <3>2. ASSUME s \in Claimable(sched) PROVE claim[s] = j <=> sched[j] = s
        BY <1>1, <1>2, <2>2, <2>3, <3>2
      <3>3. ASSUME s \notin Claimable(sched) PROVE activeJob[s] # j /\ sched[j] # s
        BY <1>1, <1>2, <2>1, <2>2, <2>3, <3>1, <3>3
      <3>4. QED
        BY <1>1, <3>1, <3>2, <3>3
    <2>4. CASE j \notin added
      <3>1. jobStatus'[j] = jobStatus[j] /\ jobSchedule'[j] = jobSchedule[j]
        BY <1>1, <2>4
      <3>2. s \in Claimable(sched) => claim[s] # j /\ activeJob[s] # j
        BY <1>1, <1>2, <2>4, NoneAssumption DEF Claimable, PendingSchedules
      <3>3. QED
        BY <1>1, <2>1, <3>1, <3>2
    <2>5. QED
      BY <2>3, <2>4
  <1>6. ASSUME NEW j \in Jobs, jobStatus'[j] = "active"
        PROVE  \E x \in ActiveExecs' : execJob'[x] = j
    <2>1. CASE j \in added
      <3>1. PICK x \in DOMAIN new : new[x] = j
        BY <1>3, <2>1
      <3>2. x \in Executions /\ execStatus'[x] = "pending" /\ execJob'[x] = j
        BY <1>3, <1>4, <3>1 DEF FreshExecs
      <3>3. QED
        BY <3>2 DEF ActiveExecs, Active
    <2>2. CASE j \notin added
      <3>1. PICK x \in ActiveExecs : execJob[x] = j
        BY <1>1, <1>6, <2>2 DEF StoredInv, ActiveJobHasExecution
      <3>2. x \notin DOMAIN new
        BY <1>3, <3>1 DEF ActiveExecs, Active, FreshExecs
      <3>3. QED
        BY <1>4, <3>1, <3>2 DEF ActiveExecs
    <2>3. QED
      BY <2>1, <2>2
  <1>7. QED
    BY <1>5, <1>6 DEF ScheduleTracksJob, ActiveJobHasExecution

\* executions_retried, with its choice named.
LEMMA RetriedShape ==
  ASSUME NEW xs, ExecutionsRetried(xs)
  PROVE  \E from \in FreshFor(Retryable(xs)) :
           /\ execStatus' = [x \in Executions |->
                IF x \in DOMAIN from THEN "pending"
                ELSE IF x \in Unfinished(xs) THEN "failed" ELSE execStatus[x]]
           /\ execJob' = [x \in Executions |->
                IF x \in DOMAIN from THEN execJob[from[x]] ELSE execJob[x]]
           /\ UNCHANGED <<jobVars, schedVars>>
  <1>1. PICK from \in FreshFor(Retryable(xs)) :
          FinishAndInsert(Unfinished(xs), "failed", [x \in DOMAIN from |-> execJob[from[x]]])
    BY DEF ExecutionsRetried
  <1>2. QED
    BY <1>1 DEF ExecutionsRetried, FinishAndInsert

\* executions_retried inserts an execution for every job it takes one from.
LEMMA RetriedStored ==
  ASSUME StoredInv, NEW xs \in SUBSET KnownExecs, ExecutionsRetried(xs)
  PROVE  ScheduleTracksJob' /\ ActiveJobHasExecution'
  <1>1. PICK from \in FreshFor(Retryable(xs)) :
           /\ execStatus' = [x \in Executions |->
                IF x \in DOMAIN from THEN "pending"
                ELSE IF x \in Unfinished(xs) THEN "failed" ELSE execStatus[x]]
           /\ execJob' = [x \in Executions |->
                IF x \in DOMAIN from THEN execJob[from[x]] ELSE execJob[x]]
           /\ UNCHANGED <<jobVars, schedVars>>
    BY RetriedShape
  <1>2. /\ DOMAIN from \subseteq FreshExecs
        /\ \A y \in Retryable(xs) : \E x \in DOMAIN from : from[x] = y
    BY FreshForIs
  <1>3. ASSUME NEW j \in Jobs, jobStatus'[j] = "active"
        PROVE  \E x \in ActiveExecs' : execJob'[x] = j
    <2>1. PICK y \in ActiveExecs : execJob[y] = j
      BY <1>1, <1>3 DEF StoredInv, ActiveJobHasExecution, jobVars
    <2>2. CASE y \in Unfinished(xs)
      <3>1. y \in Retryable(xs)
        BY <2>2 DEF Retryable, Unfinished, JobsOf
      <3>2. PICK x \in DOMAIN from : from[x] = y
        BY <1>2, <3>1
      <3>3. x \in Executions /\ execStatus'[x] = "pending" /\ execJob'[x] = j
        BY <1>1, <1>2, <2>1, <3>2 DEF FreshExecs
      <3>4. QED
        BY <3>3 DEF ActiveExecs, Active
    <2>3. CASE y \notin Unfinished(xs)
      <3>1. y \notin DOMAIN from
        BY <1>2, <2>1 DEF ActiveExecs, Active, FreshExecs
      <3>2. QED
        BY <1>1, <2>1, <2>3, <3>1 DEF ActiveExecs
    <2>4. QED
      BY <2>2, <2>3
  <1>4. ScheduleTracksJob'
    BY <1>1 DEF StoredInv, ScheduleTracksJob, jobVars, schedVars
  <1>5. QED
    BY <1>3, <1>4 DEF ActiveJobHasExecution

\* executions_started only moves executions from pending to running.
LEMMA StartedStored ==
  ASSUME StoredInv, NEW xs \in SUBSET KnownExecs, NEW by \in [xs -> Executors],
         ExecutionsStarted(by)
  PROVE  ScheduleTracksJob' /\ ActiveJobHasExecution'
  <1>1. \A x \in ActiveExecs : x \in ActiveExecs'
    BY DEF StoredInv, BackendTypeOK, ExecutionsStarted, ActiveExecs, Active
  <1>2. QED
    BY <1>1 DEF StoredInv, ExecutionsStarted, ScheduleTracksJob, ActiveJobHasExecution,
                jobVars, schedVars

\* delete_history takes inactive jobs only, whose schedules are free.
LEMMA DeleteJobsStored ==
  ASSUME StoredInv, NEW js \in SUBSET Jobs, DeleteJobs(js)
  PROVE  ScheduleTracksJob' /\ ActiveJobHasExecution'
  <1>1. /\ \A j \in js : jobStatus[j] # "active" /\ jobStatus'[j] # "active"
        /\ \A j \in Jobs \ js : jobStatus'[j] = jobStatus[j]
        /\ jobSchedule' = jobSchedule /\ execJob' = execJob
        /\ activeJob' = activeJob /\ schedStatus' = schedStatus
    BY DEF DeleteJobs, Deletable, Outcome, schedVars
  <1>2. ScheduleTracksJob'
    BY <1>1 DEF StoredInv, ScheduleTracksJob
  <1>3. ASSUME NEW j \in Jobs, jobStatus'[j] = "active"
        PROVE  \E x \in ActiveExecs' : execJob'[x] = j
    <2>1. j \notin js /\ jobStatus[j] = "active"
      BY <1>1, <1>3
    <2>2. PICK x \in ActiveExecs : execJob[x] = j
      BY <2>1 DEF StoredInv, ActiveJobHasExecution
    <2>3. QED
      BY <1>1, <2>1, <2>2 DEF DeleteJobs, ActiveExecs
  <1>4. QED
    BY <1>2, <1>3 DEF ActiveJobHasExecution

\* Adding, stopping and deleting schedules does not touch jobs.
LEMMA ScheduleCallsStored ==
  ASSUME StoredInv, NEW ss \in SUBSET Schedules,
         AddSchedules(ss) \/ StopSchedules(ss) \/ DeleteSchedules(ss)
  PROVE  ScheduleTracksJob' /\ ActiveJobHasExecution'
  <1>1. ActiveJobHasExecution'
    BY DEF StoredInv, AddSchedules, StopSchedules, DeleteSchedules,
           ActiveJobHasExecution, ActiveExecs, jobVars, execVars
  <1>2. ScheduleTracksJob'
    BY DEF StoredInv, AddSchedules, StopSchedules, DeleteSchedules,
           ScheduleTracksJob, jobVars
  <1>3. QED
    BY <1>1, <1>2

\* Every call keeps the invariant, whatever its arguments.
LEMMA NextStored == StoredInv /\ [BackendNext]_backendVars => StoredInv'
  <1> SUFFICES ASSUME StoredInv, [BackendNext]_backendVars
               PROVE  ScheduleTracksJob' /\ ActiveJobHasExecution'
    BY NextTypeOK DEF StoredInv
  <1>1. ASSUME NEW js \in SUBSET Jobs, CancelJobs(js)
        PROVE  ScheduleTracksJob' /\ ActiveJobHasExecution'
    BY <1>1, CancelFinishesJobs, FinishJobsStored DEF Outcome
  <1>2. ASSUME NEW xs \in SUBSET KnownExecs, ExecutionsSucceeded(xs) \/ ExecutionsFailed(xs)
        PROVE  ScheduleTracksJob' /\ ActiveJobHasExecution'
    <2>1. xs \subseteq Executions
      BY DEF KnownExecs
    <2>2. QED
      BY <1>2, <2>1, ResultsFinishJobs, FinishJobsStored DEF Outcome
  <1>3. CASE UNCHANGED backendVars
    BY <1>3 DEF StoredInv, ScheduleTracksJob, ActiveJobHasExecution, ActiveExecs,
                backendVars, jobVars, execVars, schedVars
  <1>4. QED
    BY <1>1, <1>2, <1>3, AddJobsStored, DeleteJobsStored, ScheduleCallsStored,
       StartedStored, RetriedStored DEF BackendNext

\* A schedule always tracks exactly its active job, and no active job is left
\* without an execution, whatever the callers do.
THEOREM StoredCorrect == BackendSpec => []StoredInv
  <1>1. BackendInit => StoredInv
    BY NoneAssumption DEF BackendInit, StoredInv, BackendTypeOK, JobStates, ExecStates,
       SchedStates, ScheduleTracksJob, ActiveJobHasExecution
  <1>2. QED
    BY <1>1, NextStored, PTL DEF BackendSpec

\* No active job is stuck without an execution, whatever the callers do, also
\* when they name a job several times in a batch.
THEOREM NoJobStuck == BackendSpec => []ActiveJobHasExecution
  <1>1. StoredInv => ActiveJobHasExecution
    BY DEF StoredInv
  <1>2. QED
    BY <1>1, StoredCorrect, PTL

(***************************************************************************)
(* What holds when callers name a job at most once per batch of retries:   *)
(* executions of a job never overlap, and outcomes are final.              *)
(***************************************************************************)

\* A result ends the only active execution of its job, and only active jobs end.
LEMMA FinishJobsInv ==
  ASSUME JobInv, NEW done \in SUBSET ActiveExecs, NEW outcome \in Outcome,
         FinishJobs(done, outcome)
  PROVE  AtMostOneActive' /\ ActiveExecutionHasJob' /\ OutcomesKept
  <1>1. /\ jobStatus' = [j \in Jobs |-> IF j \in JobsOf(done) THEN outcome ELSE jobStatus[j]]
        /\ execStatus' = [x \in Executions |-> IF x \in done THEN outcome ELSE execStatus[x]]
        /\ execJob' = [x \in Executions |-> execJob[x]]
        /\ execExecutor' = execExecutor
    BY DEF FinishJobs, FinishAndInsert, MarkJobsInactive, NoNewExecs
  <1>2. outcome \notin Active /\ ActiveExecs' = ActiveExecs \ done
    BY <1>1 DEF Outcome, Active, ActiveExecs
  <1>3. AtMostOneActive'
    BY <1>1, <1>2 DEF JobInv, AtMostOneActive, ActiveExecs
  <1>4. ASSUME NEW x \in ActiveExecs' PROVE jobStatus'[execJob'[x]] = "active"
    <2>1. x \in ActiveExecs \ done /\ x \in Executions /\ execJob'[x] = execJob[x]
      BY <1>1, <1>2 DEF ActiveExecs
    <2>2. execJob[x] \in Jobs /\ jobStatus[execJob[x]] = "active"
      BY <2>1 DEF JobInv, ActiveExecutionHasJob, BackendTypeOK, ActiveExecs, Active
    <2>3. execJob[x] \notin JobsOf(done)
      BY <2>1 DEF JobInv, AtMostOneActive, JobsOf
    <2>4. QED
      BY <1>1, <2>1, <2>2, <2>3
  <1>5. \A j \in JobsOf(done) : jobStatus[j] = "active"
    BY DEF JobInv, ActiveExecutionHasJob, JobsOf
  <1>6. OutcomesKept
    BY <1>1, <1>5 DEF OutcomesKept, Outcome, ActiveExecs, Active
  <1>7. QED
    BY <1>3, <1>4, <1>6 DEF ActiveExecutionHasJob

\* A new job gets one execution, and nothing can be active for it before.
LEMMA AddJobsInv ==
  ASSUME JobInv, NEW js \in SUBSET FreshJobs,
         NEW sched \in [js -> Schedules \cup {None}], AddJobs(sched)
  PROVE  AtMostOneActive' /\ ActiveExecutionHasJob' /\ OutcomesKept
  <1>1. PICK claim \in [Claimable(sched) -> js] :
           /\ \E new \in FreshFor(Added(sched, claim)) : FinishAndInsert({}, "absent", new)
           /\ jobStatus' = [j \in Jobs |->
                IF j \in Added(sched, claim) THEN "active" ELSE jobStatus[j]]
           /\ Added(sched, claim) \subseteq FreshJobs
    BY AddJobsShape
  <1> DEFINE added == Added(sched, claim)
  <1>2. PICK new \in FreshFor(added) : FinishAndInsert({}, "absent", new)
    BY <1>1
  <1>3. /\ DOMAIN new \subseteq FreshExecs
        /\ new \in [DOMAIN new -> added]
        /\ \A a, b \in DOMAIN new : new[a] = new[b] => a = b
    BY FreshForIs
  <1>4. /\ execStatus' = [x \in Executions |->
             IF x \in DOMAIN new THEN "pending" ELSE execStatus[x]]
        /\ execJob' = [x \in Executions |->
             IF x \in DOMAIN new THEN new[x] ELSE execJob[x]]
        /\ execExecutor' = execExecutor
    BY <1>2 DEF FinishAndInsert
  <1>5. \A x \in ActiveExecs' : \/ x \in DOMAIN new /\ execJob'[x] = new[x]
                                \/ x \in ActiveExecs /\ execJob'[x] = execJob[x]
    BY <1>4 DEF ActiveExecs
  <1>6. \A x \in ActiveExecs : execJob[x] \in Jobs /\ execJob[x] \notin added
    BY <1>1 DEF JobInv, ActiveExecutionHasJob, BackendTypeOK, ActiveExecs, Active, FreshJobs
  <1>7. AtMostOneActive'
    BY <1>3, <1>5, <1>6 DEF JobInv, AtMostOneActive
  <1>8. ActiveExecutionHasJob'
    BY <1>1, <1>3, <1>5, <1>6 DEF JobInv, ActiveExecutionHasJob, FreshJobs
  <1>9. OutcomesKept
    BY <1>1, <1>3, <1>4 DEF OutcomesKept, Outcome, FreshJobs, FreshExecs
  <1>10. QED
    BY <1>7, <1>8, <1>9

\* Each new attempt replaces the attempt it retries.
LEMMA RetriedInv ==
  ASSUME JobInv, NEW xs \in SUBSET KnownExecs, ExecutionsRetried(xs),
         \A x, y \in xs : execJob[x] = execJob[y] => x = y
  PROVE  AtMostOneActive' /\ ActiveExecutionHasJob' /\ OutcomesKept
  <1>1. PICK from \in FreshFor(Retryable(xs)) :
           /\ execStatus' = [x \in Executions |->
                IF x \in DOMAIN from THEN "pending"
                ELSE IF x \in Unfinished(xs) THEN "failed" ELSE execStatus[x]]
           /\ execJob' = [x \in Executions |->
                IF x \in DOMAIN from THEN execJob[from[x]] ELSE execJob[x]]
           /\ UNCHANGED <<jobVars, schedVars>>
    BY RetriedShape
  <1>2. execExecutor' = execExecutor
    BY DEF ExecutionsRetried, FinishAndInsert
  <1>3. Retryable(xs) \subseteq Unfinished(xs) /\ Unfinished(xs) \subseteq ActiveExecs
    BY DEF Retryable, Unfinished, JobsOf
  <1>4. /\ DOMAIN from \subseteq FreshExecs
        /\ \A x \in DOMAIN from : from[x] \in Unfinished(xs)
        /\ \A a, b \in DOMAIN from : from[a] = from[b] => a = b
    BY <1>3, FreshForIs
  <1>5. \A x \in ActiveExecs' :
          \/ x \in DOMAIN from /\ execJob'[x] = execJob[from[x]]
          \/ x \in ActiveExecs \ Unfinished(xs) /\ execJob'[x] = execJob[x]
    BY <1>1 DEF ActiveExecs, Active
  <1>6. AtMostOneActive'
    BY <1>3, <1>4, <1>5 DEF JobInv, AtMostOneActive
  <1>7. ActiveExecutionHasJob'
    BY <1>1, <1>3, <1>4, <1>5 DEF JobInv, ActiveExecutionHasJob, jobVars
  <1>8. OutcomesKept
    BY <1>1, <1>2, <1>3, <1>4 DEF OutcomesKept, Outcome, ActiveExecs, Active, FreshExecs, jobVars
  <1>9. QED
    BY <1>6, <1>7, <1>8

\* Starting, deleting and the calls about schedules add no active execution.
LEMMA OtherCallsInv ==
  ASSUME JobInv,
         \/ \E xs \in SUBSET KnownExecs : \E by \in [xs -> Executors] : ExecutionsStarted(by)
         \/ \E js \in SUBSET Jobs : DeleteJobs(js)
         \/ \E ss \in SUBSET Schedules :
              AddSchedules(ss) \/ StopSchedules(ss) \/ DeleteSchedules(ss)
         \/ UNCHANGED backendVars
  PROVE  AtMostOneActive' /\ ActiveExecutionHasJob' /\ OutcomesKept
  <1>1. ASSUME NEW xs \in SUBSET KnownExecs, NEW by \in [xs -> Executors], ExecutionsStarted(by)
        PROVE  AtMostOneActive' /\ ActiveExecutionHasJob' /\ OutcomesKept
    <2>1. ActiveExecs' = ActiveExecs /\ execJob' = execJob /\ jobStatus' = jobStatus
      BY <1>1 DEF ExecutionsStarted, Startable, ActiveExecs, Active, jobVars
    <2>2. OutcomesKept
      BY <1>1, <2>1 DEF JobInv, BackendTypeOK, OutcomesKept, ExecutionsStarted, Startable, Outcome
    <2>3. QED
      BY <2>1, <2>2 DEF JobInv, AtMostOneActive, ActiveExecutionHasJob
  <1>2. ASSUME NEW js \in SUBSET Jobs, DeleteJobs(js)
        PROVE  AtMostOneActive' /\ ActiveExecutionHasJob' /\ OutcomesKept
    <2>1. ActiveExecs' \subseteq ActiveExecs /\ execJob' = execJob
      BY <1>2 DEF DeleteJobs, ActiveExecs, Active
    <2>2. AtMostOneActive'
      BY <2>1 DEF JobInv, AtMostOneActive
    <2>3. \A x \in ActiveExecs' : execJob[x] \in Jobs /\ execJob[x] \notin js
      BY <1>2, <2>1 DEF DeleteJobs, JobInv, ActiveExecutionHasJob, Deletable, Outcome,
                        ActiveExecs, Active, BackendTypeOK
    <2>4. ActiveExecutionHasJob'
      BY <1>2, <2>1, <2>3 DEF DeleteJobs, JobInv, ActiveExecutionHasJob
    <2>5. OutcomesKept
      BY <1>2 DEF DeleteJobs, OutcomesKept, JobInv, BackendTypeOK
    <2>6. QED
      BY <2>2, <2>4, <2>5
  <1>3. ASSUME UNCHANGED <<jobVars, execVars>>
        PROVE  AtMostOneActive' /\ ActiveExecutionHasJob' /\ OutcomesKept
    BY <1>3 DEF JobInv, AtMostOneActive, ActiveExecutionHasJob, OutcomesKept, ActiveExecs,
                jobVars, execVars
  <1>4. ASSUME NEW ss \in SUBSET Schedules,
               AddSchedules(ss) \/ StopSchedules(ss) \/ DeleteSchedules(ss)
        PROVE  UNCHANGED <<jobVars, execVars>>
    BY <1>4 DEF AddSchedules, StopSchedules, DeleteSchedules
  <1>5. QED
    BY <1>1, <1>2, <1>3, <1>4 DEF backendVars

\* One step keeps the invariant and every recorded outcome.
LEMMA NextJobs ==
  ASSUME OneFailurePerJob
  PROVE  JobInv /\ [BackendNext]_backendVars => JobInv' /\ OutcomesKept
  <1> SUFFICES ASSUME JobInv, [BackendNext]_backendVars
               PROVE  AtMostOneActive' /\ ActiveExecutionHasJob' /\ OutcomesKept
    BY NextTypeOK DEF JobInv
  <1>1. ASSUME NEW js \in SUBSET Jobs, CancelJobs(js)
        PROVE  AtMostOneActive' /\ ActiveExecutionHasJob' /\ OutcomesKept
    BY <1>1, CancelFinishesJobs, FinishJobsInv DEF Outcome
  <1>2. ASSUME NEW xs \in SUBSET KnownExecs, ExecutionsSucceeded(xs) \/ ExecutionsFailed(xs)
        PROVE  AtMostOneActive' /\ ActiveExecutionHasJob' /\ OutcomesKept
    <2>1. xs \subseteq Executions
      BY DEF KnownExecs
    <2>2. QED
      BY <1>2, <2>1, ResultsFinishJobs, FinishJobsInv DEF Outcome
  <1>3. ASSUME NEW xs \in SUBSET KnownExecs, FailureBatch(xs), ExecutionsRetried(xs)
        PROVE  AtMostOneActive' /\ ActiveExecutionHasJob' /\ OutcomesKept
    BY <1>3, RetriedInv DEF FailureBatch
  <1>4. QED
    BY <1>1, <1>2, <1>3, AddJobsInv, OtherCallsInv DEF BackendNext

\* The invariant holds of the empty database.
LEMMA InitJobs == BackendInit => JobInv
  BY DEF BackendInit, JobInv, BackendTypeOK, JobStates, ExecStates, SchedStates,
         AtMostOneActive, ActiveExecutionHasJob, ActiveExecs, Active

\* The jobs that are active and the executions that are correspond one to one.
THEOREM JobsCorrect ==
  ASSUME OneFailurePerJob
  PROVE  BackendSpec => []JobInv
  <1>1. JobInv /\ [BackendNext]_backendVars => JobInv'
    BY NextJobs
  <1>2. QED
    BY <1>1, InitJobs, PTL DEF BackendSpec

\* Executions of one job never overlap: each retry replaces the attempt before it.
THEOREM NoOverlap ==
  ASSUME OneFailurePerJob
  PROVE  BackendSpec => []AtMostOneActive
  <1>1. JobInv => AtMostOneActive
    BY DEF JobInv
  <1>2. QED
    BY <1>1, JobsCorrect, PTL

\* The outcome recorded for an execution or a job never changes.
THEOREM HistoryIsFinal ==
  ASSUME OneFailurePerJob
  PROVE  BackendSpec => OutcomesAreFinal
  <1>1. JobInv /\ [BackendNext]_backendVars => JobInv' /\ [OutcomesKept]_backendVars
    BY NextJobs
  <1>2. BackendSpec => [][OutcomesKept]_backendVars
    BY <1>1, InitJobs, PTL DEF BackendSpec
  <1>3. QED
    BY <1>2 DEF OutcomesAreFinal

(***************************************************************************)
(* The refinement of JobLifecycle                                          *)
(*                                                                         *)
(* Argument: under the invariants above the current attempt of an active   *)
(* job is its only active execution, and its phase the status of that      *)
(* execution (ViewOK).  With ViewOK before and after a step, each call is  *)
(* one step of the abstract specification or a stutter.                    *)
(***************************************************************************)

\* An execution that was not created yet belongs to no job.
FreshUnused == \A x \in FreshExecs : execJob[x] = None

RefInv == StoredInv /\ JobInv /\ FreshUnused

\* What the refinement mapping shows of the stored rows.
ViewOK ==
  /\ JobPhase = [j \in Jobs |-> JobPhase[j]]
  /\ CurrentAttempt = [j \in Jobs |-> CurrentAttempt[j]]
  /\ \A j \in Jobs : jobStatus[j] # "active" =>
       JobPhase[j] = jobStatus[j] /\ CurrentAttempt[j] = None
  /\ \A j \in Jobs : jobStatus[j] = "active" =>
       /\ CurrentAttempt[j] \in ActiveExecs
       /\ execJob[CurrentAttempt[j]] = j
       /\ JobPhase[j] = execStatus[CurrentAttempt[j]]
  /\ \A x \in ActiveExecs :
       /\ execJob[x] \in Jobs /\ jobStatus[execJob[x]] = "active"
       /\ CurrentAttempt[execJob[x]] = x

\* An active job has exactly one active execution, its current attempt.
LEMMA View == RefInv => ViewOK
  <1> SUFFICES ASSUME RefInv PROVE ViewOK
    OBVIOUS
  <1>1. \A x \in ActiveExecs : execJob[x] \in Jobs /\ jobStatus[execJob[x]] = "active"
    BY DEF RefInv, JobInv, ActiveExecutionHasJob, BackendTypeOK, ActiveExecs, Active
  <1>2. ASSUME NEW j \in Jobs, jobStatus[j] = "active"
        PROVE  /\ CurrentAttempt[j] \in ActiveExecs
               /\ execJob[CurrentAttempt[j]] = j
               /\ \A x \in ActiveExecs : execJob[x] = j => x = CurrentAttempt[j]
               /\ JobPhase[j] = execStatus[CurrentAttempt[j]]
    <2>1. PICK y \in ActiveExecs : execJob[y] = j
      BY <1>2 DEF RefInv, StoredInv, ActiveJobHasExecution
    <2>2. \A x \in ActiveExecs : execJob[x] = j => x = y
      BY <2>1 DEF RefInv, JobInv, AtMostOneActive
    <2>3. CurrentAttempt[j] = CHOOSE x \in ActiveExecs : execJob[x] = j
      BY <1>2 DEF CurrentAttempt
    <2>4. CurrentAttempt[j] = y
      BY <2>1, <2>2, <2>3
    <2>5. JobPhase[j] = execStatus[y]
      BY <1>2, <2>1, <2>2 DEF JobPhase, ActiveExecs, Active
    <2>6. QED
      BY <2>1, <2>2, <2>4, <2>5
  <1>3. \A j \in Jobs : jobStatus[j] # "active" =>
          JobPhase[j] = jobStatus[j] /\ CurrentAttempt[j] = None
    BY DEF JobPhase, CurrentAttempt
  <1>4. /\ JobPhase = [j \in Jobs |-> JobPhase[j]]
        /\ CurrentAttempt = [j \in Jobs |-> CurrentAttempt[j]]
    BY DEF JobPhase, CurrentAttempt
  <1>5. QED
    BY <1>1, <1>2, <1>3, <1>4 DEF ViewOK

\* The same after a step.
LEMMA ViewNext == RefInv' => ViewOK'
  BY View, PTL

\* A result, a failure without retry and a cancellation end jobs.
LEMMA FinishRefines ==
  ASSUME RefInv, RefInv', NEW done \in SUBSET ActiveExecs, NEW outcome \in Outcome,
         FinishJobs(done, outcome)
  PROVE  Lifecycle!Next
  <1> DEFINE js == JobsOf(done)
  <1>1. /\ jobStatus' = [j \in Jobs |-> IF j \in js THEN outcome ELSE jobStatus[j]]
        /\ execStatus' = [x \in Executions |-> IF x \in done THEN outcome ELSE execStatus[x]]
        /\ execJob' = [x \in Executions |-> execJob[x]]
        /\ jobSchedule' = jobSchedule /\ schedStatus' = schedStatus
    BY DEF FinishJobs, FinishAndInsert, MarkJobsInactive, NoNewExecs
  <1>2. ViewOK /\ ViewOK'
    BY View, ViewNext
  <1>3. outcome \notin Active /\ outcome # "absent" /\ outcome # "active"
        /\ outcome \in Lifecycle!Outcomes
    BY DEF Outcome, Active, Lifecycle!Outcomes
  <1>4. js \subseteq Jobs /\ \A j \in js : jobStatus[j] = "active"
    BY <1>2 DEF ViewOK, JobsOf
  <1>5. \A j \in js : JobPhase[j] \in Lifecycle!Open
    BY <1>2, <1>4 DEF ViewOK, ActiveExecs, Active, Lifecycle!Open
  <1>6. ASSUME NEW j \in Jobs
        PROVE  /\ JobPhase'[j] = IF j \in js THEN outcome ELSE JobPhase[j]
               /\ CurrentAttempt'[j] = IF j \in js THEN None ELSE CurrentAttempt[j]
    <2>1. CASE j \in js
      BY <1>1, <1>2, <1>3, <2>1 DEF ViewOK
    <2>2. CASE j \notin js /\ jobStatus[j] # "active"
      BY <1>1, <1>2, <2>2 DEF ViewOK
    <2>3. CASE j \notin js /\ jobStatus[j] = "active"
      <3>1. CurrentAttempt[j] \in ActiveExecs /\ execJob[CurrentAttempt[j]] = j
        BY <1>2, <2>3 DEF ViewOK
      <3>2. CurrentAttempt[j] \notin done /\ CurrentAttempt[j] \in Executions
        BY <2>3, <3>1 DEF JobsOf, ActiveExecs
      <3>3. CurrentAttempt[j] \in ActiveExecs' /\ execJob'[CurrentAttempt[j]] = j
            /\ execStatus'[CurrentAttempt[j]] = execStatus[CurrentAttempt[j]]
        BY <1>1, <3>1, <3>2 DEF ActiveExecs
      <3>4. jobStatus'[j] = "active"
        BY <1>1, <2>3
      <3>5. CurrentAttempt'[j] = CurrentAttempt[j]
        BY <1>2, <3>3 DEF ViewOK
      <3>6. QED
        BY <1>2, <2>3, <3>3, <3>4, <3>5 DEF ViewOK
    <2>4. QED
      BY <2>1, <2>2, <2>3
  <1>7. KnownExecs' = KnownExecs
    BY <1>1, <1>3 DEF KnownExecs, ActiveExecs, Active
  <1> HIDE DEF js
  <1>8. /\ JobPhase' = [j \in Jobs |-> IF j \in js THEN outcome ELSE JobPhase[j]]
        /\ CurrentAttempt' = [j \in Jobs |-> IF j \in js THEN None ELSE CurrentAttempt[j]]
    BY <1>2, <1>6 DEF ViewOK
  <1>9. Lifecycle!End(js, outcome)
    BY <1>1, <1>5, <1>7, <1>8 DEF Lifecycle!End, Lifecycle!Move
  <1>10. QED
    BY <1>3, <1>4, <1>9 DEF Lifecycle!Next

\* New executions are the first attempts of new jobs.
LEMMA AddJobsRefines ==
  ASSUME RefInv, RefInv', NEW ns \in SUBSET FreshJobs,
         NEW sched \in [ns -> Schedules \cup {None}], AddJobs(sched)
  PROVE  Lifecycle!Next
  <1>1. PICK claim \in [Claimable(sched) -> ns] :
           /\ \A s \in Claimable(sched) : sched[claim[s]] = s
           /\ \E new \in FreshFor(Added(sched, claim)) : FinishAndInsert({}, "absent", new)
           /\ jobStatus' = [j \in Jobs |->
                IF j \in Added(sched, claim) THEN "active" ELSE jobStatus[j]]
           /\ jobSchedule' = [j \in Jobs |->
                IF j \in Added(sched, claim) THEN sched[j] ELSE jobSchedule[j]]
           /\ schedStatus' = schedStatus
           /\ Added(sched, claim) =
                {j \in ns : sched[j] = None \/ \E s \in Claimable(sched) : claim[s] = j}
           /\ Added(sched, claim) \subseteq FreshJobs
    BY AddJobsShape
  <1> DEFINE js == Added(sched, claim)
  <1>2. PICK new \in FreshFor(js) : FinishAndInsert({}, "absent", new)
    BY <1>1
  <1>3. /\ DOMAIN new \subseteq FreshExecs
        /\ new \in [DOMAIN new -> js]
        /\ \A a, b \in DOMAIN new : new[a] = new[b] => a = b
        /\ \A j \in js : \E x \in DOMAIN new : new[x] = j
    BY <1>2, FreshForIs
  <1>4. /\ execStatus' = [x \in Executions |->
             IF x \in DOMAIN new THEN "pending" ELSE execStatus[x]]
        /\ execJob' = [x \in Executions |->
             IF x \in DOMAIN new THEN new[x] ELSE execJob[x]]
    BY <1>2 DEF FinishAndInsert
  <1>5. ViewOK /\ ViewOK'
    BY View, ViewNext
  <1>6. /\ js \subseteq Jobs /\ \A j \in js : jobStatus[j] = "absent"
        /\ \A j \in js : jobStatus'[j] = "active" /\ jobSchedule'[j] = sched[j]
        /\ \A j \in Jobs \ js : jobStatus'[j] = jobStatus[j] /\ jobSchedule'[j] = jobSchedule[j]
    BY <1>1 DEF FreshJobs
  <1>7. \A j \in js : sched[j] # None => sched[j] \in Claimable(sched) /\ claim[sched[j]] = j
    BY <1>1
  <1> HIDE DEF js
  <1>8. ASSUME NEW j \in Jobs \ js
        PROVE  JobPhase'[j] = JobPhase[j] /\ CurrentAttempt'[j] = CurrentAttempt[j]
    <2>1. CASE jobStatus[j] # "active"
      BY <1>5, <1>6, <2>1 DEF ViewOK
    <2>2. CASE jobStatus[j] = "active"
      <3>1. CurrentAttempt[j] \in ActiveExecs /\ execJob[CurrentAttempt[j]] = j
            /\ JobPhase[j] = execStatus[CurrentAttempt[j]]
        BY <1>5, <2>2 DEF ViewOK
      <3>2. CurrentAttempt[j] \notin DOMAIN new /\ CurrentAttempt[j] \in Executions
        BY <1>3, <3>1 DEF FreshExecs, ActiveExecs, Active
      <3>3. CurrentAttempt[j] \in ActiveExecs' /\ execJob'[CurrentAttempt[j]] = j
            /\ execStatus'[CurrentAttempt[j]] = execStatus[CurrentAttempt[j]]
        BY <1>4, <3>1, <3>2 DEF ActiveExecs
      <3>4. CurrentAttempt'[j] = CurrentAttempt[j] /\ jobStatus'[j] = "active"
        BY <1>5, <1>6, <2>2, <3>3 DEF ViewOK
      <3>5. QED
        BY <1>5, <3>1, <3>3, <3>4 DEF ViewOK
    <2>3. QED
      BY <2>1, <2>2
  <1>9. ASSUME NEW j \in js
        PROVE  /\ JobPhase[j] = "absent" /\ JobPhase'[j] = "pending"
               /\ CurrentAttempt'[j] \in DOMAIN new /\ new[CurrentAttempt'[j]] = j
    <2>1. PICK x \in DOMAIN new : new[x] = j
      BY <1>3
    <2>2. x \in ActiveExecs' /\ execJob'[x] = j /\ execStatus'[x] = "pending"
      BY <1>3, <1>4, <2>1 DEF ActiveExecs, Active, FreshExecs
    <2>3. CurrentAttempt'[j] = x
      BY <1>5, <2>2 DEF ViewOK
    <2>4. QED
      BY <1>5, <1>6, <2>1, <2>2, <2>3 DEF ViewOK
  <1>10. JobPhase' = [j \in Jobs |-> IF j \in js THEN "pending" ELSE JobPhase[j]]
    <2>1. \A j \in Jobs : JobPhase'[j] = IF j \in js THEN "pending" ELSE JobPhase[j]
      BY <1>8, <1>9
    <2>2. JobPhase' = [j \in Jobs |-> JobPhase'[j]]
      BY <1>5 DEF ViewOK
    <2>3. QED
      BY <2>1, <2>2
  <1>11. Lifecycle!Move(js, {"absent"}, "pending")
    BY <1>9, <1>10 DEF Lifecycle!Move
  <1>12. CurrentAttempt' \in [Jobs -> Executions \cup {None}]
    BY <1>5 DEF ViewOK, ActiveExecs
  <1>13. {CurrentAttempt'[j] : j \in js} = DOMAIN new
    BY <1>3, <1>9
  <1>14. KnownExecs' = KnownExecs \cup DOMAIN new /\ DOMAIN new \subseteq Executions \ KnownExecs
    BY <1>3, <1>4 DEF KnownExecs, FreshExecs
  <1>15. Lifecycle!NewAttempts(js)
    BY <1>8, <1>9, <1>12, <1>13, <1>14 DEF Lifecycle!NewAttempts
  <1>16. ASSUME NEW j \in js PROVE Lifecycle!OnlyJob(j)
    <2> SUFFICES ASSUME sched[j] # None
                 PROVE  /\ schedStatus[sched[j]] = "active"
                        /\ \A k \in Jobs : (jobSchedule'[k] = sched[j]
                             /\ JobPhase'[k] \in Lifecycle!Open) => k = j
      BY <1>6 DEF Lifecycle!OnlyJob
    <2>1. sched[j] \in Schedules /\ schedStatus[sched[j]] = "active"
      BY <1>7 DEF Claimable, PendingSchedules
    <2>2. ASSUME NEW k \in Jobs, jobSchedule'[k] = sched[j], JobPhase'[k] \in Lifecycle!Open
          PROVE  k = j
      <3>1. jobStatus'[k] = "active"
        <4>1. jobStatus'[k] \in JobStates
          BY DEF RefInv, JobInv, BackendTypeOK
        <4>2. jobStatus'[k] # "pending" /\ jobStatus'[k] # "running"
          BY <4>1 DEF JobStates, Outcome
        <4>3. QED
          BY <1>5, <2>2, <4>2 DEF ViewOK, Lifecycle!Open
      <3>2. activeJob'[sched[j]] = k /\ activeJob'[sched[j]] = j
        <4>1. schedStatus'[sched[j]] # "deleted"
          BY <1>1, <2>1
        <4>2. j \in Jobs /\ jobStatus'[j] = "active" /\ jobSchedule'[j] = sched[j]
          BY <1>6
        <4>3. ScheduleTracksJob'
          BY DEF RefInv, StoredInv
        <4>4. QED
          BY <2>1, <2>2, <3>1, <4>1, <4>2, <4>3 DEF ScheduleTracksJob
      <3>3. QED
        BY <3>2
    <2>3. QED
      BY <2>1, <2>2
  <1>17. Lifecycle!Create(js)
    BY <1>1, <1>6, <1>11, <1>15, <1>16 DEF Lifecycle!Create, RefInv, JobInv, BackendTypeOK
  <1>18. QED
    BY <1>6, <1>17 DEF Lifecycle!Next

\* A retry replaces the attempts that failed.
LEMMA RetriedRefines ==
  ASSUME RefInv, RefInv', NEW xs \in SUBSET KnownExecs, ExecutionsRetried(xs),
         \A x, y \in xs : execJob[x] = execJob[y] => x = y
  PROVE  Lifecycle!Next
  <1>1. PICK from \in FreshFor(Retryable(xs)) :
           /\ execStatus' = [x \in Executions |->
                IF x \in DOMAIN from THEN "pending"
                ELSE IF x \in Unfinished(xs) THEN "failed" ELSE execStatus[x]]
           /\ execJob' = [x \in Executions |->
                IF x \in DOMAIN from THEN execJob[from[x]] ELSE execJob[x]]
           /\ UNCHANGED <<jobVars, schedVars>>
    BY RetriedShape
  <1> DEFINE js == JobsOf(Unfinished(xs))
  <1>2. Retryable(xs) = Unfinished(xs) /\ Unfinished(xs) \subseteq ActiveExecs
    BY DEF Retryable, Unfinished, JobsOf
  <1>3. /\ DOMAIN from \subseteq FreshExecs
        /\ \A x \in DOMAIN from : from[x] \in Unfinished(xs)
        /\ \A a, b \in DOMAIN from : from[a] = from[b] => a = b
        /\ \A y \in Unfinished(xs) : \E x \in DOMAIN from : from[x] = y
    BY <1>2, FreshForIs
  <1>4. ViewOK /\ ViewOK'
    BY View, ViewNext
  <1>5. js \subseteq Jobs /\ \A j \in js : jobStatus[j] = "active"
    BY <1>2, <1>4 DEF ViewOK, JobsOf
  <1>6. \A x \in DOMAIN from : execJob'[x] \in js
    BY <1>1, <1>3 DEF JobsOf, FreshExecs
  <1>7. ASSUME NEW j \in Jobs \ js
        PROVE  JobPhase'[j] = JobPhase[j] /\ CurrentAttempt'[j] = CurrentAttempt[j]
    <2>1. CASE jobStatus[j] # "active"
      BY <1>1, <1>4, <2>1 DEF ViewOK, jobVars
    <2>2. CASE jobStatus[j] = "active"
      <3>1. CurrentAttempt[j] \in ActiveExecs /\ execJob[CurrentAttempt[j]] = j
            /\ JobPhase[j] = execStatus[CurrentAttempt[j]]
        BY <1>4, <2>2 DEF ViewOK
      <3>2. CurrentAttempt[j] \notin DOMAIN from /\ CurrentAttempt[j] \in Executions
            /\ CurrentAttempt[j] \notin Unfinished(xs)
        BY <1>3, <3>1 DEF FreshExecs, ActiveExecs, Active, JobsOf
      <3>3. CurrentAttempt[j] \in ActiveExecs' /\ execJob'[CurrentAttempt[j]] = j
            /\ execStatus'[CurrentAttempt[j]] = execStatus[CurrentAttempt[j]]
        BY <1>1, <3>1, <3>2 DEF ActiveExecs
      <3>4. CurrentAttempt'[j] = CurrentAttempt[j] /\ jobStatus'[j] = "active"
        BY <1>1, <1>4, <2>2, <3>3 DEF ViewOK, jobVars
      <3>5. QED
        BY <1>4, <3>1, <3>3, <3>4 DEF ViewOK
    <2>3. QED
      BY <2>1, <2>2
  <1>8. ASSUME NEW j \in js
        PROVE  /\ JobPhase[j] \in Lifecycle!Open /\ JobPhase'[j] = "pending"
               /\ CurrentAttempt'[j] \in DOMAIN from /\ execJob'[CurrentAttempt'[j]] = j
    <2>1. PICK y \in Unfinished(xs) : execJob[y] = j
      BY DEF JobsOf
    <2>2. PICK x \in DOMAIN from : from[x] = y
      BY <1>3, <2>1
    <2>3. x \in ActiveExecs' /\ execJob'[x] = j /\ execStatus'[x] = "pending"
      BY <1>1, <1>3, <2>1, <2>2 DEF ActiveExecs, Active, FreshExecs
    <2>4. CurrentAttempt'[j] = x /\ jobStatus'[j] = "active"
      BY <1>4, <2>3 DEF ViewOK
    <2>5. JobPhase[j] \in Lifecycle!Open
      BY <1>4, <1>5 DEF ViewOK, ActiveExecs, Active, Lifecycle!Open
    <2>6. QED
      BY <1>4, <1>5, <2>2, <2>3, <2>4, <2>5 DEF ViewOK
  <1>9. {CurrentAttempt'[j] : j \in js} = DOMAIN from
    <2>1. ASSUME NEW x \in DOMAIN from PROVE CurrentAttempt'[execJob'[x]] = x
      BY <1>1, <1>3, <1>4 DEF ViewOK, ActiveExecs, Active, FreshExecs
    <2>2. QED
      BY <1>6, <1>8, <2>1
  <1> HIDE DEF js
  <1>10. JobPhase' = [j \in Jobs |-> IF j \in js THEN "pending" ELSE JobPhase[j]]
    BY <1>4, <1>5, <1>7, <1>8 DEF ViewOK
  <1>11. Lifecycle!Move(js, Lifecycle!Open, "pending")
    BY <1>8, <1>10 DEF Lifecycle!Move
  <1>12. CurrentAttempt' \in [Jobs -> Executions \cup {None}]
    BY <1>4 DEF ViewOK, ActiveExecs
  <1>13. KnownExecs' = KnownExecs \cup DOMAIN from /\ DOMAIN from \subseteq Executions \ KnownExecs
    BY <1>1, <1>2, <1>3 DEF KnownExecs, FreshExecs, ActiveExecs, Active
  <1>14. Lifecycle!NewAttempts(js)
    BY <1>7, <1>8, <1>9, <1>12, <1>13 DEF Lifecycle!NewAttempts
  <1>15. Lifecycle!Retry(js)
    BY <1>1, <1>11, <1>14 DEF Lifecycle!Retry, jobVars, schedVars
  <1>16. QED
    BY <1>5, <1>15 DEF Lifecycle!Next

\* Starting, deleting, and the calls about schedules.
LEMMA OtherCallsRefine ==
  ASSUME RefInv, RefInv',
         \/ \E xs \in SUBSET KnownExecs : \E by \in [xs -> Executors] : ExecutionsStarted(by)
         \/ \E js \in SUBSET Jobs : DeleteJobs(js)
         \/ \E ss \in SUBSET Schedules :
              AddSchedules(ss) \/ StopSchedules(ss) \/ DeleteSchedules(ss)
  PROVE  [Lifecycle!Next]_Lifecycle!vars
  <1>1. ViewOK /\ ViewOK'
    BY View, ViewNext
  <1>2. ASSUME NEW xs \in SUBSET KnownExecs, NEW by \in [xs -> Executors], ExecutionsStarted(by)
        PROVE  Lifecycle!Next
    <2> DEFINE started == {x \in Startable(by) : execStatus[x] = "pending"}
               js      == JobsOf(started)
    <2>1. /\ ActiveExecs' = ActiveExecs /\ execJob' = execJob
          /\ jobStatus' = jobStatus /\ jobSchedule' = jobSchedule
          /\ schedStatus' = schedStatus /\ KnownExecs' = KnownExecs
      BY <1>2 DEF ExecutionsStarted, Startable, ActiveExecs, Active, KnownExecs, jobVars, schedVars
    <2>2. \A x \in ActiveExecs : execStatus'[x] = IF x \in started THEN "running" ELSE execStatus[x]
      BY <1>2 DEF ExecutionsStarted, Startable, ActiveExecs
    <2>3. started \subseteq ActiveExecs
      BY DEF Startable, ActiveExecs, Active, KnownExecs
    <2>4. js \subseteq Jobs /\ \A j \in js : jobStatus[j] = "active" /\ CurrentAttempt[j] \in started
      BY <1>1, <2>3 DEF ViewOK, JobsOf
    <2>5. \A j \in Jobs : CurrentAttempt'[j] = CurrentAttempt[j]
      BY <1>1, <2>1 DEF ViewOK
    <2>6. \A j \in Jobs : JobPhase'[j] = IF j \in js THEN "running" ELSE JobPhase[j]
      <3>1. ASSUME NEW j \in Jobs, jobStatus[j] = "active"
            PROVE  JobPhase'[j] = IF CurrentAttempt[j] \in started THEN "running" ELSE JobPhase[j]
        BY <1>1, <2>1, <2>2, <2>5, <3>1 DEF ViewOK
      <3>2. ASSUME NEW j \in Jobs, jobStatus[j] = "active"
            PROVE  CurrentAttempt[j] \in started <=> j \in js
        <4>1. execJob[CurrentAttempt[j]] = j
          BY <1>1, <3>2 DEF ViewOK
        <4>2. CurrentAttempt[j] \in started => j \in js
          BY <4>1 DEF JobsOf
        <4>3. j \in js => CurrentAttempt[j] \in started
          BY <2>4
        <4>4. QED
          BY <4>2, <4>3
      <3>3. ASSUME NEW j \in Jobs, jobStatus[j] # "active"
            PROVE  JobPhase'[j] = JobPhase[j] /\ j \notin js
        BY <1>1, <2>1, <2>4, <3>3 DEF ViewOK
      <3>4. QED
        BY <3>1, <3>2, <3>3
    <2>7. ASSUME NEW j \in js PROVE JobPhase[j] = "pending"
      <3>1. j \in Jobs /\ jobStatus[j] = "active" /\ execStatus[CurrentAttempt[j]] = "pending"
        BY <2>4
      <3>2. QED
        BY <1>1, <3>1 DEF ViewOK
    <2> HIDE DEF started, js
    <2>8. JobPhase' = [j \in Jobs |-> IF j \in js THEN "running" ELSE JobPhase[j]]
      BY <1>1, <2>6 DEF ViewOK
    <2>9. CurrentAttempt' = CurrentAttempt
      BY <1>1, <2>5 DEF ViewOK
    <2>10. Lifecycle!Start(js)
      BY <2>1, <2>7, <2>8, <2>9 DEF Lifecycle!Start, Lifecycle!Move
    <2>11. QED
      BY <2>4, <2>10 DEF Lifecycle!Next
  <1>3. ASSUME NEW js \in SUBSET Jobs, DeleteJobs(js)
        PROVE  Lifecycle!Next
    <2>1. /\ jobStatus' = [j \in Jobs |-> IF j \in js THEN "deleted" ELSE jobStatus[j]]
          /\ execStatus' = [x \in Executions |->
               IF execJob[x] \in js THEN "deleted" ELSE execStatus[x]]
          /\ execJob' = execJob /\ jobSchedule' = jobSchedule /\ schedStatus' = schedStatus
          /\ \A j \in js : jobStatus[j] \in Outcome
      BY <1>3 DEF DeleteJobs, Deletable, schedVars
    <2>2. \A x \in Executions : execJob[x] \in js => execStatus[x] # "absent"
      BY NoneAssumption DEF RefInv, FreshUnused, FreshExecs
    <2>3. KnownExecs' = KnownExecs
      BY <2>1, <2>2 DEF KnownExecs
    <2>4. \A j \in Jobs : jobStatus[j] = "active" => jobStatus'[j] = "active" /\ j \notin js
      BY <2>1 DEF Outcome
    <2>5. ASSUME NEW x \in ActiveExecs, execJob[x] \notin js
          PROVE  x \in ActiveExecs' /\ execStatus'[x] = execStatus[x]
      BY <2>1, <2>5 DEF ActiveExecs
    <2>6. \A j \in Jobs : /\ CurrentAttempt'[j] = CurrentAttempt[j]
                          /\ JobPhase'[j] = IF j \in js THEN "deleted" ELSE JobPhase[j]
      <3>1. ASSUME NEW j \in Jobs, jobStatus[j] = "active"
            PROVE  CurrentAttempt'[j] = CurrentAttempt[j] /\ JobPhase'[j] = JobPhase[j] /\ j \notin js
        <4>1. /\ CurrentAttempt[j] \in ActiveExecs /\ execJob[CurrentAttempt[j]] = j
              /\ JobPhase[j] = execStatus[CurrentAttempt[j]]
          BY <1>1, <3>1 DEF ViewOK
        <4>2. /\ CurrentAttempt[j] \in ActiveExecs' /\ execJob'[CurrentAttempt[j]] = j
              /\ execStatus'[CurrentAttempt[j]] = execStatus[CurrentAttempt[j]]
          BY <2>1, <2>4, <2>5, <3>1, <4>1
        <4>3. CurrentAttempt'[j] = CurrentAttempt[j]
          BY <1>1, <4>2 DEF ViewOK
        <4>4. QED
          BY <1>1, <2>4, <3>1, <4>1, <4>2, <4>3 DEF ViewOK
      <3>2. ASSUME NEW j \in Jobs, jobStatus[j] # "active"
            PROVE  /\ CurrentAttempt'[j] = CurrentAttempt[j]
                   /\ JobPhase'[j] = IF j \in js THEN "deleted" ELSE JobPhase[j]
        <4>1. jobStatus'[j] = IF j \in js THEN "deleted" ELSE jobStatus[j]
          BY <2>1
        <4>2. jobStatus'[j] # "active"
          BY <3>2, <4>1
        <4>3. QED
          BY <1>1, <3>2, <4>1, <4>2 DEF ViewOK
      <3>3. QED
        BY <3>1, <3>2
    <2>7. CurrentAttempt' = CurrentAttempt
      BY <1>1, <2>6 DEF ViewOK
    <2>8. JobPhase' = [j \in Jobs |-> IF j \in js THEN "deleted" ELSE JobPhase[j]]
      BY <1>1, <2>6 DEF ViewOK
    <2>9. \A j \in js : JobPhase[j] \in Lifecycle!Outcomes
      BY <1>1, <2>1 DEF ViewOK, Outcome, Lifecycle!Outcomes
    <2>10. Lifecycle!Delete(js)
      BY <2>1, <2>3, <2>7, <2>8, <2>9 DEF Lifecycle!Delete, Lifecycle!Move
    <2>11. QED
      BY <2>10 DEF Lifecycle!Next
  <1>4. ASSUME NEW ss \in SUBSET Schedules,
               AddSchedules(ss) \/ StopSchedules(ss) \/ DeleteSchedules(ss)
        PROVE  Lifecycle!Next
    <2>1. /\ jobStatus' = jobStatus /\ jobSchedule' = jobSchedule
          /\ execStatus' = execStatus /\ execJob' = execJob
      BY <1>4 DEF AddSchedules, StopSchedules, DeleteSchedules, jobVars, execVars
    <2>2. JobPhase' = JobPhase /\ CurrentAttempt' = CurrentAttempt /\ KnownExecs' = KnownExecs
      BY <2>1 DEF JobPhase, CurrentAttempt, KnownExecs, ActiveExecs
    <2>3. AddSchedules(ss) => Lifecycle!MoveSchedules(ss, "absent", "active")
      BY <2>1, <2>2 DEF AddSchedules, Lifecycle!MoveSchedules
    <2>4. ASSUME StopSchedules(ss)
          PROVE  Lifecycle!MoveSchedules({s \in ss : schedStatus[s] = "active"}, "active", "stopped")
      BY <2>1, <2>2, <2>4 DEF StopSchedules, Lifecycle!MoveSchedules
    <2>5. DeleteSchedules(ss) => Lifecycle!MoveSchedules(ss, "stopped", "deleted")
      BY <2>1, <2>2 DEF DeleteSchedules, Lifecycle!MoveSchedules
    <2>6. {s \in ss : schedStatus[s] = "active"} \in SUBSET Schedules
      OBVIOUS
    <2>7. QED
      BY <1>4, <2>3, <2>4, <2>5, <2>6 DEF Lifecycle!Next
  <1>5. QED
    BY <1>2, <1>3, <1>4

\* No call gives a job to an execution without creating it.
LEMMA NextFresh == RefInv /\ [BackendNext]_backendVars => FreshUnused'
  <1> SUFFICES ASSUME RefInv, [BackendNext]_backendVars PROVE FreshUnused'
    OBVIOUS
  <1>1. ASSUME NEW done \in SUBSET ActiveExecs, NEW outcome \in Outcome,
               FinishJobs(done, outcome)
        PROVE  FreshUnused'
    BY <1>1 DEF RefInv, FreshUnused, FreshExecs, FinishJobs, FinishAndInsert, NoNewExecs,
                ActiveExecs, Active, Outcome
  <1>2. ASSUME NEW js \in SUBSET FreshJobs, NEW sched \in [js -> Schedules \cup {None}],
               AddJobs(sched)
        PROVE  FreshUnused'
    <2>1. PICK new : FinishAndInsert({}, "absent", new)
      BY <1>2, AddJobsShape
    <2>2. ASSUME NEW x \in Executions, execStatus'[x] = "absent" PROVE execJob'[x] = None
      <3>1. x \notin DOMAIN new /\ execStatus[x] = "absent"
        BY <2>1, <2>2 DEF FinishAndInsert
      <3>2. execJob'[x] = execJob[x]
        BY <2>1, <3>1 DEF FinishAndInsert
      <3> QED BY <3>1, <3>2 DEF RefInv, FreshUnused, FreshExecs
    <2> QED BY <2>2 DEF FreshUnused, FreshExecs
  <1>3. ASSUME NEW xs \in SUBSET KnownExecs, ExecutionsRetried(xs) PROVE FreshUnused'
    BY <1>3, RetriedShape DEF RefInv, FreshUnused, FreshExecs, Unfinished, ActiveExecs, Active
  <1>4. ASSUME NEW xs \in SUBSET KnownExecs, NEW by \in [xs -> Executors], ExecutionsStarted(by)
        PROVE  FreshUnused'
    BY <1>4 DEF RefInv, FreshUnused, FreshExecs, ExecutionsStarted
  <1>5. ASSUME NEW js \in SUBSET Jobs, DeleteJobs(js) PROVE FreshUnused'
    BY <1>5 DEF RefInv, FreshUnused, FreshExecs, DeleteJobs
  <1>6. ASSUME NEW ss \in SUBSET Schedules,
               AddSchedules(ss) \/ StopSchedules(ss) \/ DeleteSchedules(ss)
        PROVE  FreshUnused'
    BY <1>6 DEF RefInv, FreshUnused, FreshExecs, AddSchedules, StopSchedules, DeleteSchedules,
                execVars
  <1>7. ASSUME NEW js \in SUBSET Jobs, CancelJobs(js) PROVE FreshUnused'
    BY <1>1, <1>7, CancelFinishesJobs DEF Outcome
  <1>8. ASSUME NEW xs \in SUBSET KnownExecs, ExecutionsSucceeded(xs) \/ ExecutionsFailed(xs)
        PROVE  FreshUnused'
    <2>1. xs \subseteq Executions
      BY DEF KnownExecs
    <2>2. QED
      BY <1>1, <1>8, <2>1, ResultsFinishJobs DEF Outcome
  <1>9. CASE UNCHANGED backendVars
    BY <1>9 DEF RefInv, FreshUnused, FreshExecs, backendVars, execVars
  <1>10. QED
    BY <1>2, <1>3, <1>4, <1>5, <1>6, <1>7, <1>8, <1>9 DEF BackendNext

\* Every call is a step of JobLifecycle, or changes nothing it shows.
LEMMA NextRefines ==
  ASSUME RefInv, RefInv', [BackendNext]_backendVars, OneFailurePerJob
  PROVE  [Lifecycle!Next]_Lifecycle!vars
  <1>1. ASSUME NEW js \in SUBSET Jobs, CancelJobs(js) PROVE Lifecycle!Next
    BY <1>1, CancelFinishesJobs, FinishRefines DEF Outcome
  <1>2. ASSUME NEW xs \in SUBSET KnownExecs, ExecutionsSucceeded(xs) \/ ExecutionsFailed(xs)
        PROVE  Lifecycle!Next
    <2>1. xs \subseteq Executions
      BY DEF KnownExecs
    <2>2. QED
      BY <1>2, <2>1, ResultsFinishJobs, FinishRefines DEF Outcome
  <1>3. ASSUME NEW xs \in SUBSET KnownExecs, FailureBatch(xs), ExecutionsRetried(xs)
        PROVE  Lifecycle!Next
    BY <1>3, RetriedRefines DEF FailureBatch
  <1>4. CASE UNCHANGED backendVars
    BY <1>4 DEF backendVars, jobVars, execVars, schedVars, Lifecycle!vars, JobPhase,
                CurrentAttempt, KnownExecs, ActiveExecs
  <1>5. ASSUME NEW ns \in SUBSET FreshJobs, NEW sched \in [ns -> Schedules \cup {None}],
               AddJobs(sched)
        PROVE  Lifecycle!Next
    BY <1>5, AddJobsRefines
  <1>6. QED
    BY <1>1, <1>2, <1>3, <1>4, <1>5, OtherCallsRefine DEF BackendNext

\* The empty database shows no jobs.
LEMMA InitRefines == BackendInit => RefInv /\ Lifecycle!Init
  <1> SUFFICES ASSUME BackendInit PROVE RefInv /\ Lifecycle!Init
    OBVIOUS
  <1>1. StoredInv
    BY NoneAssumption DEF BackendInit, StoredInv, BackendTypeOK, JobStates, ExecStates,
       SchedStates, ScheduleTracksJob, ActiveJobHasExecution
  <1>2. RefInv
    BY <1>1, InitJobs DEF BackendInit, RefInv, FreshUnused, FreshExecs
  <1>3. Lifecycle!Init
    BY DEF BackendInit, Lifecycle!Init, JobPhase, CurrentAttempt, KnownExecs
  <1>4. QED
    BY <1>2, <1>3

\* The stored rows and the batches of calls implement the life of jobs that the
\* contract of the backend describes, for callers that name a job at most once
\* in a batch of retries.
THEOREM LifecycleImplemented ==
  ASSUME OneFailurePerJob
  PROVE  BackendSpec => ImplementsLifecycle
  <1>1. BackendInit => RefInv /\ Lifecycle!Init
    BY InitRefines
  <1>2. RefInv /\ [BackendNext]_backendVars => RefInv'
    BY NextStored, NextJobs, NextFresh DEF RefInv
  <1>3. RefInv /\ RefInv' /\ [BackendNext]_backendVars => [Lifecycle!Next]_Lifecycle!vars
    BY NextRefines
  <1>4. BackendSpec => Lifecycle!Spec
    BY <1>1, <1>2, <1>3, PTL DEF BackendSpec, Lifecycle!Spec
  <1>5. QED
    BY <1>4 DEF ImplementsLifecycle
=============================================================================
