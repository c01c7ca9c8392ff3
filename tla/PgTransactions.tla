--------------------------- MODULE PgTransactions ---------------------------
(***************************************************************************)
(* The transactions of the Postgres backend that touch the executions of a *)
(* job, statement by statement, under READ COMMITTED.  Backend takes each  *)
(* for one step; here they run concurrently:                               *)
(*                                                                         *)
(*   - a statement sees what was committed before it began, and what its   *)
(*     own transaction wrote;                                              *)
(*   - an UPDATE waits for a row another transaction has written, and then *)
(*     looks at its WHERE again, but for rows it found before only.        *)
(*                                                                         *)
(* A transaction may also fail at any moment.                              *)
(***************************************************************************)
EXTENDS Naturals, FiniteSets

CONSTANTS
  Jobs, Executions, None,
  Cancels, Retries, Failures, Successes, Starts, Adds  \* the transactions

ASSUME RowsAssumption ==
  /\ Jobs # {} /\ Executions # {}
  /\ None \notin Jobs
  /\ None \notin {"none", "pending", "running", "failed", "succeeded", "cancelled"}
  /\ \A x \in Executions, j \in Jobs : None # [x |-> x, job |-> j]

\* A transaction is of one kind.
ASSUME KindsAssumption ==
  /\ Cancels \cap (Retries \cup Failures \cup Successes \cup Starts \cup Adds) = {}
  /\ Retries \cap (Failures \cup Successes \cup Starts \cup Adds) = {}
  /\ Failures \cap (Successes \cup Starts \cup Adds) = {}
  /\ Successes \cap (Starts \cup Adds) = {}
  /\ Starts \cap Adds = {}
  /\ None \notin Cancels \cup Retries \cup Failures \cup Successes \cup Starts \cup Adds

Txs == Cancels \cup Retries \cup Failures \cup Successes \cup Starts \cup Adds

VARIABLES
  exec,      \* committed: the status of an execution
  jobOf,     \* committed: the job of an execution
  job,       \* committed: none, active or the inactive_status of a job
  pc,        \* of a transaction: its next statement
  todo,      \* the rows the running statement has found and not yet updated
  mine,      \* what a transaction has written of executions
  jobs,      \* the jobs of the executions it ended
  inserts,   \* the execution and the job it inserted
  saw,       \* history: the jobs that were active when a cancellation began
  advisory   \* the transaction that holds the lock for if_not_exists

pgVars == <<exec, jobOf, job, pc, todo, mine, jobs, inserts, saw, advisory>>

Active == {"pending", "running"}

\* The types, and: no two transactions have written the same row, and none has
\* once it is over.
PgTypeOK ==
  /\ exec \in [Executions -> {"none", "failed", "succeeded", "cancelled"} \cup Active]
  /\ jobOf \in [Executions -> Jobs \cup {None}]
  /\ job \in [Jobs -> {"none", "active", "failed", "succeeded", "cancelled"}]
  /\ \A t \in Txs : todo[t] \subseteq Executions
  /\ \A x \in Executions : Cardinality({t \in Txs : mine[t][x] # None}) <= 1
  /\ \A t \in Txs : pc[t] \in {"begin", "done", "failed"} =>
       \A x \in Executions : mine[t][x] = None

\* Some job has an execution that runs; which ids they have does not matter.
PgInit ==
  /\ LET x == CHOOSE y \in Executions : TRUE
         j == CHOOSE i \in Jobs : TRUE
     IN  /\ exec = [y \in Executions |-> IF y = x THEN "running" ELSE "none"]
         /\ jobOf = [y \in Executions |-> IF y = x THEN j ELSE None]
         /\ job = [i \in Jobs |-> IF i = j THEN "active" ELSE "none"]
  /\ pc = [t \in Txs |-> "begin"]
  /\ todo = [t \in Txs |-> {}]
  /\ mine = [t \in Txs |-> [x \in Executions |-> None]]
  /\ jobs = [t \in Txs |-> {}]
  /\ inserts = [t \in Txs |-> None]
  /\ saw = [t \in Txs |-> {}]
  /\ advisory = None

-----------------------------------------------------------------------------
(* Statements *)

committed == <<exec, jobOf, job>>

\* What t sees of a row when a statement begins, or when it looks again.
Seen(t, x) == IF mine[t][x] # None THEN mine[t][x] ELSE exec[x]

\* A row another transaction has written, until that is over.
Locked(t, x) == \E u \in Txs \ {t} : mine[u][x] # None

\* A statement begins: it finds its rows.
Find(t, from, to, xs) ==
  /\ pc[t] = from
  /\ pc' = [pc EXCEPT ![t] = to]
  /\ todo' = [todo EXCEPT ![t] = xs]

\* The WHERE is evaluated again for a row that had to be waited for.
StillMatches(t, x, statuses) == Seen(t, x) \in statuses

\* A row of the statement is updated, or skipped if it does not match any more.
UpdateRow(t, at, statuses, status) ==
  /\ pc[t] = at
  /\ \E x \in todo[t] :
       /\ ~Locked(t, x)
       /\ todo' = [todo EXCEPT ![t] = @ \ {x}]
       /\ IF StillMatches(t, x, statuses)
          THEN /\ mine' = [mine EXCEPT ![t][x] = status]
               /\ jobs' = [jobs EXCEPT ![t] = @ \cup {jobOf[x]}]
          ELSE UNCHANGED <<mine, jobs>>
  /\ UNCHANGED <<committed, pc, inserts, saw, advisory>>

\* The transaction commits; the jobs it ended become inactive with it.
Commit(t, at, status) ==
  /\ pc[t] = at /\ todo[t] = {}
  /\ pc' = [pc EXCEPT ![t] = "done"]
  /\ exec' = [x \in Executions |->
       IF inserts[t] # None /\ inserts[t].x = x THEN "pending" ELSE Seen(t, x)]
  /\ jobOf' = [x \in Executions |->
       IF inserts[t] # None /\ inserts[t].x = x THEN inserts[t].job ELSE jobOf[x]]
  /\ job' = [j \in Jobs |->
       IF inserts[t] # None /\ inserts[t].job = j THEN "active"
       ELSE IF status # None /\ j \in jobs[t] THEN status ELSE job[j]]
  /\ mine' = [mine EXCEPT ![t] = [x \in Executions |-> None]]
  /\ inserts' = [inserts EXCEPT ![t] = None]
  /\ advisory' = IF advisory = t THEN None ELSE advisory
  /\ UNCHANGED <<todo, jobs, saw>>

\* The connection or a statement fails.
Rollback(t) ==
  /\ pc[t] \notin {"begin", "done", "failed"}
  /\ pc' = [pc EXCEPT ![t] = "failed"]
  /\ todo' = [todo EXCEPT ![t] = {}]
  /\ mine' = [mine EXCEPT ![t] = [x \in Executions |-> None]]
  /\ inserts' = [inserts EXCEPT ![t] = None]
  /\ advisory' = IF advisory = t THEN None ELSE advisory
  /\ UNCHANGED <<committed, jobs, saw>>

\* A fresh id for a row to be inserted, unknown to everyone.
Fresh(x) == exec[x] = "none" /\ \A u \in Txs : inserts[u] # None => inserts[u].x # x

Insert(t, j) ==
  \E x \in Executions : Fresh(x) /\ inserts' = [inserts EXCEPT ![t] = [x |-> x, job |-> j]]

-----------------------------------------------------------------------------
(* Transactions *)

\* Mutant: executions are updated once.
Repeats_once == {"first"}

\* The update of cancel_jobs is repeated once.
Repeats == {"first", "second"}

\* cancel_jobs of all active jobs.
CancelJobs(t) ==
  \/ /\ Find(t, "begin", "first", {x \in Executions : exec[x] \in Active})
     /\ saw' = [saw EXCEPT ![t] = {j \in Jobs : job[j] = "active"}]
     /\ UNCHANGED <<committed, mine, jobs, inserts, advisory>>
  \/ UpdateRow(t, "first", Active, "cancelled")
  \/ /\ todo[t] = {} /\ "second" \in Repeats
     /\ Find(t, "first", "second", {x \in Executions : Seen(t, x) \in Active})
     /\ UNCHANGED <<committed, mine, jobs, inserts, saw, advisory>>
  \/ UpdateRow(t, "second", Active, "cancelled")
  \/ Commit(t, IF "second" \in Repeats THEN "second" ELSE "first", "cancelled")

\* An execution the server believes to be running.
FindRunning(t) ==
  /\ \E x \in Executions : exec[x] = "running" /\ Find(t, "begin", "update", {x})
  /\ UNCHANGED <<committed, mine, jobs, inserts, saw, advisory>>

\* executions_retried: fail, and insert the next execution if it was active.
RetryExecution(t) ==
  \/ FindRunning(t)
  \/ UpdateRow(t, "update", Active, "failed")
  \/ /\ pc[t] = "update" /\ todo[t] = {} /\ jobs[t] # {} /\ inserts[t] = None
     /\ \E j \in jobs[t] : Insert(t, j)
     /\ UNCHANGED <<committed, pc, todo, mine, jobs, saw, advisory>>
  \/ (jobs[t] # {} => inserts[t] # None) /\ Commit(t, "update", None)

FailExecution(t) ==
  FindRunning(t) \/ UpdateRow(t, "update", Active, "failed") \/ Commit(t, "update", "failed")

SucceedExecution(t) ==
  FindRunning(t) \/ UpdateRow(t, "update", Active, "succeeded") \/ Commit(t, "update", "succeeded")

StartExecution(t) ==
  \/ /\ \E x \in Executions : exec[x] = "pending" /\ Find(t, "begin", "update", {x})
     /\ UNCHANGED <<committed, mine, jobs, inserts, saw, advisory>>
  \/ UpdateRow(t, "update", {"pending"}, "running")
  \/ Commit(t, "update", None)

\* pg_advisory_xact_lock waits for the transaction that has the lock.
LockFree(t) == advisory = None

\* add_jobs with if_not_exists, for a job like those that are active.
AddJob(t) ==
  \/ /\ LockFree(t)
     /\ Find(t, "begin", "locked", {})
     /\ advisory' = t
     /\ UNCHANGED <<committed, mine, jobs, inserts, saw>>
  \/ /\ Find(t, "locked", "checked", {})
     /\ IF \E j \in Jobs : job[j] = "active"
        THEN UNCHANGED inserts
        ELSE \E j \in Jobs : job[j] = "none" /\ Insert(t, j)
     /\ UNCHANGED <<committed, mine, jobs, saw, advisory>>
  \/ Commit(t, "checked", None)

PgNext ==
  \/ \E t \in Cancels : CancelJobs(t)
  \/ \E t \in Retries : RetryExecution(t)
  \/ \E t \in Failures : FailExecution(t)
  \/ \E t \in Successes : SucceedExecution(t)
  \/ \E t \in Starts : StartExecution(t)
  \/ \E t \in Adds : AddJob(t)
  \/ \E t \in Txs : Rollback(t)

PgSpec == PgInit /\ [][PgNext]_pgVars

-----------------------------------------------------------------------------
(* Properties *)

\* Whatever the transactions interleave, a job that is active has one execution
\* that is active, and a job that is not has none.
JobsMatchExecutions ==
  \A j \in Jobs :
    Cardinality({x \in Executions : jobOf[x] = j /\ exec[x] \in Active})
      = IF job[j] = "active" THEN 1 ELSE 0

\* A cancellation that is committed leaves none of the jobs active that were when
\* it began, although a retry may commit while it waits for the failed execution.
CancelTakesEffect ==
  \A t \in Cancels : pc[t] = "done" => \A j \in saw[t] : job[j] # "active"

\* Calls with if_not_exists never add two jobs that match each other's filters.
NoDuplicateJobs == Cardinality({j \in Jobs : job[j] = "active"}) <= 1

\* Transactions that interleave leave what they would leave one after another.
TransactionsAgree ==
  PgTypeOK /\ JobsMatchExecutions /\ CancelTakesEffect /\ NoDuplicateJobs
=============================================================================
