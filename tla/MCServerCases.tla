--------------------------- MODULE MCServerCases ---------------------------
(***************************************************************************)
(* Server for TLC, with two executors and two kinds of jobs, those that    *)
(* are retried and those that are not, in three cases.  Each restricts the *)
(* steps of the environment, so that TLC can explore what remains:         *)
(* retries on two executors that accept offers while the server may crash, *)
(* batches of starts and results on one executor, and cancellations that   *)
(* report an error.  A behaviour is one of a single case.                  *)
(***************************************************************************)
EXTENDS Server, TLC

CONSTANT RetriedJobs \* the jobs that are retried once; the others are not

VARIABLE case

CaseRetries == [j \in Jobs |-> IF j \in RetriedJobs THEN 1 ELSE 0]

\* After a step there are no other jobs than js, and at most n executors, which have
\* room for max executions, and accept offers if accepts.
Limited(js, n, max, accepts) ==
  /\ {j \in Jobs : jobStatus'[j] # "absent"} \subseteq js
  /\ Cardinality({e \in Executors : conn'[e] # "absent"}) <= n
  /\ \A e \in Executors : conn'[e] = "ready" => limit'[e] = max /\ handshake'[e] = accepts

\* The events loop takes one event at a time.
EventByEvent == crashes' = crashes => Len(events) <= Len(events') + 1

\* The events loop waits for all starts.
WaitsForStarts ==
  crashes' = crashes /\ eventWaits /\ ~eventWaits' => \A x \in EventsHeld : accepted[x] # "unstarted"

\* One job that may be retried once, two executors that accept offers, one crash.
\* The third execution is never created unless a job is retried too often.
Retrying == Limited(RetriedJobs, 2, 1, TRUE) /\ EventByEvent /\ WaitsForStarts

\* Two jobs without retries on one executor that runs both at once: starts and
\* results are handled in batches, and START_WAIT_TIMEOUT may elapse.
Batching == Limited(Jobs \ RetriedJobs, 1, 2, FALSE)

\* One job that may be retried once, on one executor, and cancellations that are
\* applied although an error is reported.
Failing == Limited(RetriedJobs, 1, 1, TRUE) /\ EventByEvent

CasesInit == ServerInit /\ case \in {"retrying", "batching", "failing"}

\* Steps of ServerNext.
CasesNext ==
  /\ \/ AddJob
     \/ case = "failing" /\ \E js \in SUBSET RetriedJobs : AdminCancelJobs(js)
     \/ ReadyLoop \/ StartsLoop \/ EventsLoop \/ TimeoutsLoop
     \/ ExecutorAct
     \/ case = "retrying" /\ Crash
  /\ case = "retrying" => Retrying
  /\ case = "batching" => Batching
  /\ case = "failing" => Failing
  /\ UNCHANGED case

CasesSpec == CasesInit /\ [][CasesNext]_<<serverVars, case>>

\* The ids of each kind are interchangeable.
Symmetry ==
  Permutations(Jobs \ RetriedJobs) \cup Permutations(Executions) \cup Permutations(Executors)
=============================================================================
