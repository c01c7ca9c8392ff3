------------------------------- MODULE Server -------------------------------
(***************************************************************************)
(* The execution side of the server: the backend, the executor pool, and   *)
(* the four loops between them (ready executions, execution starts,        *)
(* executor events, execution timeouts), admin cancellations, and crashes. *)
(* A loop reads, awaits and acts in separate steps, so that everything it  *)
(* carries over an await may be stale.                                     *)
(*                                                                         *)
(* A backend call is retried until it succeeds (retry_backend); an attempt *)
(* that is applied but reported as failed leaves the loop where it is.     *)
(* Schedules and graceful shutdown are not part of this module.            *)
(***************************************************************************)
EXTENDS Backend, ExecutorPool

CONSTANTS
  Retries,          \* retry_policy.retries of each job
  EventBatch,       \* bound of the number of events processed together
  StartWaitElapses, \* may START_WAIT_TIMEOUT elapse before starts are recorded?
  CancelReplies,    \* how cancel_jobs may end: "ok", or applied but reported as an "error"
  Timeouts,         \* do jobs have a timeout?
  MaxCrashes        \* bound of the number of crashes of the server

ASSUME RetriesAssumption == Retries \in [Jobs -> Nat]
ASSUME SwitchesAssumption == StartWaitElapses \in BOOLEAN /\ Timeouts \in BOOLEAN
ASSUME CancelAssumption == CancelReplies \subseteq {"ok", "error"}
ASSUME CrashesAssumption == MaxCrashes \in Nat
ASSUME EventBatchAssumption == EventBatch \in Nat \ {0}

VARIABLES
  attempt,     \* attempt_number of the ExecutorExecution in the pool or an event
  readyPc,     \* ready_executions_loop: start, stamp, query, offer
  readyIgnore, \* in_flight_execution_ids
  readyPage,   \* fetched page: execution -> attempt_number
  startPc,     \* execution_starts_loop: idle, commit, mark, cancel
  startBatch,  \* executions being started: execution -> executor
  notStarted,  \* those of the batch the backend did not start
  eventWaits,  \* executor_events_loop: in wait_for_starts?
  eventOk,     \* succeeded executions of the batch, not applied yet
  eventFail,   \* failed executions not to be retried, not applied yet
  eventRetry,  \* failed executions to be retried, not applied yet
  progress,    \* execution_timeouts_loop: fetched page: execution -> attempt_number
  lateFail,    \* timed out, not to be retried
  lateRetry,   \* timed out, to be retried
  lateCancel,  \* timed out, to be cancelled in the pool afterwards
  orphanFail,  \* orphaned, not to be retried
  orphanRetry, \* orphaned, to be retried
  adminCancel, \* cancelled in the backend, not yet in the pool
  crashes      \* how often the server crashed

readyVars   == <<attempt, readyPc, readyIgnore, readyPage>>
startVars   == <<startPc, startBatch, notStarted>>
eventVars   == <<eventWaits, eventOk, eventFail, eventRetry>>
timeoutVars == <<progress, lateFail, lateRetry, lateCancel, orphanFail, orphanRetry>>
otherVars   == <<adminCancel, crashes>>
loopVars    == <<readyVars, startVars, eventVars, timeoutVars, otherVars>>
serverVars  == <<backendVars, poolVars, loopVars>>

EmptyMap == [x \in {} |-> None]

\* The type of the loops' state.
ServerTypeOK ==
  /\ BackendTypeOK /\ PoolTypeOK
  /\ attempt \in [Executions -> Nat]
  /\ readyPc \in {"start", "stamp", "query", "offer"}
  /\ readyIgnore \subseteq Executions
  /\ DOMAIN readyPage \subseteq Executions
  /\ startPc \in {"idle", "commit", "mark", "cancel"}
  /\ DOMAIN startBatch \subseteq Executions
  /\ notStarted \subseteq DOMAIN startBatch
  /\ eventWaits \in BOOLEAN
  /\ DOMAIN progress \subseteq Executions
  /\ \A xs \in {eventOk, eventFail, eventRetry, lateFail, lateRetry, lateCancel,
                orphanFail, orphanRetry, adminCancel} : xs \subseteq Executions
  /\ crashes \in 0..MaxCrashes

LoopsInit ==
  /\ readyPc = "start" /\ readyIgnore = {} /\ readyPage = EmptyMap
  /\ startPc = "idle" /\ startBatch = EmptyMap /\ notStarted = {}
  /\ eventWaits = FALSE /\ eventOk = {} /\ eventFail = {} /\ eventRetry = {}
  /\ progress = EmptyMap /\ lateFail = {} /\ lateRetry = {} /\ lateCancel = {}
  /\ orphanFail = {} /\ orphanRetry = {}
  /\ adminCancel = {}

ServerInit ==
  /\ BackendInit /\ PoolInit /\ LoopsInit
  /\ attempt = [x \in Executions |-> 0]
  /\ crashes = 0

\* attempt_number as the backend's queries compute it: COUNT of executions.
AttemptNumber(x) == Cardinality(ExecsOf(execJob[x]))

\* retry_executions: those of the failed executions that are retried.
Retried(xs, number) == {x \in xs : number[x] <= Retries[execJob[x]]}

-----------------------------------------------------------------------------
(* Admin requests *)

AddJob ==
  /\ \E j \in FreshJobs : AddJobs([i \in {j} |-> None])
  /\ UNCHANGED <<poolVars, loopVars>>

\* cancel_jobs of the backend returns one cancelled execution of every job.
OnePerJob(xs) ==
  {ys \in SUBSET xs : \A j \in JobsOf(xs) : Cardinality({y \in ys : execJob[y] = j}) = 1}

\* cancel_jobs: first in the backend (if that reports an error, the handler
\* returns although the jobs may be cancelled), then in the pool.
AdminCancelJobs(js) ==
  /\ js # {} /\ CancelJobs(js)
  /\ \/ /\ "ok" \in CancelReplies
        /\ \E told \in OnePerJob(CancelledBy(js)) : adminCancel' = adminCancel \cup told
     \/ /\ "error" \in CancelReplies
        /\ UNCHANGED adminCancel
  /\ UNCHANGED <<poolVars, readyVars, startVars, eventVars, timeoutVars, crashes>>

AdminCancelInPool ==
  /\ adminCancel # {}
  /\ CancelIds(adminCancel)
  /\ adminCancel' = {}
  /\ UNCHANGED <<backendVars, readyVars, startVars, eventVars, timeoutVars, crashes>>

-----------------------------------------------------------------------------
(* ready_executions_loop *)

ReadyStart ==
  /\ readyPc = "start"
  /\ readyIgnore' = InFlight
  /\ readyPc' = "stamp"
  /\ UNCHANGED <<backendVars, poolVars, attempt, readyPage, startVars, eventVars,
                 timeoutVars, otherVars>>

\* fetched_at is taken before the fetch.
ReadyStamp ==
  /\ readyPc = "stamp"
  /\ StampFetch
  /\ readyPc' = "query"
  /\ UNCHANGED <<backendVars, attempt, readyIgnore, readyPage, startVars, eventVars,
                 timeoutVars, otherVars>>

\* The executions ready_executions can return: pending ones that are due.
Ready == {x \in Executions : execStatus[x] = "pending"} \ readyIgnore

\* The next page; after an empty one the loop waits, and starts over at any
\* moment (every 5 seconds at the latest).
ReadyQuery ==
  /\ readyPc = "query"
  /\ \E xs \in SUBSET Ready :
       /\ readyPage' = [x \in xs |-> AttemptNumber(x)]
       /\ readyPc' = IF xs = {} THEN "start" ELSE "offer"
  /\ UNCHANGED <<backendVars, poolVars, attempt, readyIgnore, startVars, eventVars,
                 timeoutVars, otherVars>>

\* try_offer; then the next page, or the wait if no executor has capacity.
ReadyOffer ==
  /\ readyPc = "offer"
  /\ \E to \in Assignments(DOMAIN readyPage \ Taken) :
       /\ Offer(to)
       /\ attempt' = [x \in Executions |-> IF x \in DOMAIN to THEN readyPage[x] ELSE attempt[x]]
  /\ readyPage' = EmptyMap
  /\ readyPc' = IF AnyCapacity' THEN "stamp" ELSE "start"
  /\ UNCHANGED <<backendVars, readyIgnore, startVars, eventVars, timeoutVars, otherVars>>

-----------------------------------------------------------------------------
(* execution_starts_loop *)

StartsReceive ==
  /\ startPc = "idle"
  /\ \E batch \in SUBSET startQueue :
       /\ batch # {}
       /\ TakeStarts(batch)
       /\ startBatch' = [x \in {p[1] : p \in batch} |-> (CHOOSE p \in batch : p[1] = x)[2]]
  /\ startPc' = "commit"
  /\ UNCHANGED <<backendVars, readyVars, notStarted, eventVars, timeoutVars, otherVars>>

\* executions_started; an attempt reported as failed is repeated.
StartsCommit ==
  /\ startPc = "commit"
  /\ ExecutionsStarted(startBatch)
  /\ \/ UNCHANGED <<startPc, notStarted>>
     \/ startPc' = "mark" /\ notStarted' = DOMAIN startBatch \ Startable(startBatch)
  /\ UNCHANGED <<poolVars, readyVars, startBatch, eventVars, timeoutVars, otherVars>>

\* Mutant: only the executions that were started are not in flight anymore.
StartsMark_startedOnly ==
  /\ startPc = "mark"
  /\ MarkStarted(DOMAIN startBatch \ notStarted)
  /\ startPc' = IF notStarted = {} THEN "idle" ELSE "cancel"
  /\ startBatch' = IF notStarted = {} THEN EmptyMap ELSE startBatch
  /\ UNCHANGED <<backendVars, readyVars, notStarted, eventVars, timeoutVars, otherVars>>

\* Mutant: the executors are not told what was not started.
StartsMark_noCancel ==
  /\ startPc = "mark"
  /\ MarkStarted(DOMAIN startBatch)
  /\ startPc' = "idle" /\ startBatch' = EmptyMap /\ notStarted' = {}
  /\ UNCHANGED <<backendVars, readyVars, eventVars, timeoutVars, otherVars>>

\* accepted_executions_started, for the whole batch.
StartsMark ==
  /\ startPc = "mark"
  /\ MarkStarted(DOMAIN startBatch)
  /\ startPc' = IF notStarted = {} THEN "idle" ELSE "cancel"
  /\ startBatch' = IF notStarted = {} THEN EmptyMap ELSE startBatch
  /\ UNCHANGED <<backendVars, readyVars, notStarted, eventVars, timeoutVars, otherVars>>

\* Executions that are not pending anymore must not run.
StartsCancel ==
  /\ startPc = "cancel"
  /\ CancelIds(notStarted)
  /\ startPc' = "idle" /\ startBatch' = EmptyMap /\ notStarted' = {}
  /\ UNCHANGED <<backendVars, readyVars, eventVars, timeoutVars, otherVars>>

-----------------------------------------------------------------------------
(* executor_events_loop *)

EventsIdle == ~eventWaits /\ eventOk = {} /\ eventFail = {} /\ eventRetry = {}

EventsReceive ==
  /\ EventsIdle
  /\ \E n \in 1..(IF Len(events) < EventBatch THEN Len(events) ELSE EventBatch) :
       LET of(result) == UNION {events[i].xs : i \in {k \in 1..n : events[k].result = result}}
       IN  /\ TakeEvents(n)
           /\ eventOk' = of("succeeded")
           /\ eventRetry' = Retried(of("failed"), attempt)
           /\ eventFail' = of("failed") \ eventRetry'
  /\ eventWaits' = TRUE
  /\ UNCHANGED <<backendVars, readyVars, startVars, timeoutVars, otherVars>>

\* Mutant: results are applied without waiting for the starts.
EventsWaited_never == eventWaits

\* Mutant: waits until the executions are not tracked any more.
EventsWaited_untilForgotten ==
  eventWaits /\ \A x \in eventOk \cup eventFail \cup eventRetry : accepted[x] = "none"

\* wait_for_starts
EventsWaited ==
  /\ eventWaits
  /\ \/ \A x \in eventOk \cup eventFail \cup eventRetry : accepted[x] # "unstarted"
     \/ StartWaitElapses

EventsWait ==
  /\ EventsWaited
  /\ eventWaits' = FALSE
  /\ UNCHANGED <<backendVars, poolVars, readyVars, startVars, eventOk, eventFail, eventRetry,
                 timeoutVars, otherVars>>

EventsSucceed ==
  /\ ~eventWaits /\ eventOk # {}
  /\ ExecutionsSucceeded(eventOk)
  /\ eventOk' \in {{}, eventOk}
  /\ UNCHANGED <<poolVars, readyVars, startVars, eventWaits, eventFail, eventRetry,
                 timeoutVars, otherVars>>

EventsFail ==
  /\ ~eventWaits /\ eventOk = {} /\ eventFail # {}
  /\ ExecutionsFailed(eventFail)
  /\ eventFail' \in {{}, eventFail}
  /\ UNCHANGED <<poolVars, readyVars, startVars, eventWaits, eventOk, eventRetry,
                 timeoutVars, otherVars>>

EventsRetry ==
  /\ ~eventWaits /\ eventOk = {} /\ eventFail = {} /\ eventRetry # {}
  /\ ExecutionsRetried(eventRetry)
  /\ eventRetry' \in {{}, eventRetry}
  /\ UNCHANGED <<poolVars, readyVars, startVars, eventWaits, eventOk, eventFail,
                 timeoutVars, otherVars>>

-----------------------------------------------------------------------------
(* execution_timeouts_loop *)

TimeoutsIdle ==
  lateFail = {} /\ lateRetry = {} /\ lateCancel = {} /\ orphanFail = {} /\ orphanRetry = {}

\* in_progress_executions (an empty page has no effect, and is left out).
TimeoutsRead ==
  /\ TimeoutsIdle /\ progress = EmptyMap
  /\ \E x \in Executions : execStatus[x] = "running"
  /\ progress' = [x \in {y \in Executions : execStatus[y] = "running"} |-> AttemptNumber(x)]
  /\ UNCHANGED <<backendVars, poolVars, readyVars, startVars, eventVars, lateFail, lateRetry,
                 lateCancel, orphanFail, orphanRetry, otherVars>>

\* Mutant: orphans are not looked for.
Orphans_none == {}

\* Executions of the page whose executor is not in the pool.  (Executor ids are
\* unique, and the executor of a started execution never changes.)
Orphans == {x \in DOMAIN progress : ~InPool(execExecutor[x])}

\* The check of every execution of the page: an execution of an executor in
\* the pool may have timed out.
TimeoutsCheck ==
  /\ progress # EmptyMap
  /\ \E late \in SUBSET (DOMAIN progress \ Orphans) :
       /\ late # {} => Timeouts
       /\ lateRetry' = Retried(late, progress) /\ lateFail' = late \ lateRetry'
       /\ lateCancel' = late
  /\ orphanRetry' = Retried(Orphans, progress) /\ orphanFail' = Orphans \ orphanRetry'
  /\ progress' = EmptyMap
  /\ UNCHANGED <<backendVars, poolVars, readyVars, startVars, eventVars, otherVars>>

TimeoutsFail ==
  /\ lateFail # {}
  /\ ExecutionsFailed(lateFail)
  /\ lateFail' \in {{}, lateFail}
  /\ UNCHANGED <<poolVars, readyVars, startVars, eventVars, progress, lateRetry, lateCancel,
                 orphanFail, orphanRetry, otherVars>>

TimeoutsRetry ==
  /\ lateFail = {} /\ lateRetry # {}
  /\ ExecutionsRetried(lateRetry)
  /\ lateRetry' \in {{}, lateRetry}
  /\ UNCHANGED <<poolVars, readyVars, startVars, eventVars, progress, lateFail, lateCancel,
                 orphanFail, orphanRetry, otherVars>>

\* The executors might still be running the executions.
TimeoutsCancel ==
  /\ lateFail = {} /\ lateRetry = {} /\ lateCancel # {}
  /\ CancelIds(lateCancel)
  /\ lateCancel' = {}
  /\ UNCHANGED <<backendVars, readyVars, startVars, eventVars, progress, lateFail, lateRetry,
                 orphanFail, orphanRetry, otherVars>>

OrphansFail ==
  /\ lateCancel = {} /\ orphanFail # {}
  /\ ExecutionsFailed(orphanFail)
  /\ orphanFail' \in {{}, orphanFail}
  /\ UNCHANGED <<poolVars, readyVars, startVars, eventVars, progress, lateFail, lateRetry,
                 lateCancel, orphanRetry, otherVars>>

OrphansRetry ==
  /\ lateCancel = {} /\ orphanFail = {} /\ orphanRetry # {}
  /\ ExecutionsRetried(orphanRetry)
  /\ orphanRetry' \in {{}, orphanRetry}
  /\ UNCHANGED <<poolVars, readyVars, startVars, eventVars, progress, lateFail, lateRetry,
                 lateCancel, orphanFail, otherVars>>

-----------------------------------------------------------------------------
(* Executors, crashes, and the system *)

ExecutorAct ==
  /\ \E e \in Executors : ExecutorStep(e)
  /\ UNCHANGED <<backendVars, loopVars>>

\* The server process dies and another one is started: only the backend stays.
\* Executors connect again, as new ones.
Crash ==
  /\ crashes < MaxCrashes
  /\ crashes' = crashes + 1
  /\ conn' = [e \in Executors |-> IF conn[e] = "absent" THEN "absent" ELSE "gone"]
  /\ open' = [e \in Executors |-> FALSE]
  /\ held' = [e \in Executors |-> [x \in Executions |-> "none"]]
  /\ limit' = [e \in Executors |-> 0]
  /\ handshake' = [e \in Executors |-> FALSE]
  /\ backoff' = [e \in Executors |-> FALSE]
  /\ believed' = [e \in Executors |-> {}]
  /\ accepted' = [x \in Executions |-> "none"]
  /\ startQueue' = {} /\ events' = <<>>
  /\ readyPc' = "start" /\ readyIgnore' = {} /\ readyPage' = EmptyMap
  /\ startPc' = "idle" /\ startBatch' = EmptyMap /\ notStarted' = {}
  /\ eventWaits' = FALSE /\ eventOk' = {} /\ eventFail' = {} /\ eventRetry' = {}
  /\ progress' = EmptyMap /\ lateFail' = {} /\ lateRetry' = {} /\ lateCancel' = {}
  /\ orphanFail' = {} /\ orphanRetry' = {}
  /\ adminCancel' = {}
  /\ UNCHANGED <<backendVars, shutdown, attempt>>

ReadyLoop    == ReadyStart \/ ReadyStamp \/ ReadyQuery \/ ReadyOffer
StartsLoop   == StartsReceive \/ StartsCommit \/ StartsMark \/ StartsCancel
EventsLoop   == EventsReceive \/ EventsWait \/ EventsSucceed \/ EventsFail \/ EventsRetry
TimeoutsLoop == TimeoutsRead \/ TimeoutsCheck \/ TimeoutsFail \/ TimeoutsRetry \/ TimeoutsCancel
                \/ OrphansFail \/ OrphansRetry

ServerNext ==
  \/ AddJob
  \/ \E js \in SUBSET Jobs : AdminCancelJobs(js)
  \/ AdminCancelInPool
  \/ ReadyLoop \/ StartsLoop \/ EventsLoop \/ TimeoutsLoop
  \/ ExecutorAct
  \/ Crash

ServerSpec == ServerInit /\ [][ServerNext]_serverVars
-----------------------------------------------------------------------------
(* Fairness: every loop goes on, and a backend call that is retried succeeds  *)
(* at last.  Nothing is assumed of executors, except that the loop of one     *)
(* whose connection is lost notices it; nothing of users.                     *)

ServerFairness ==
  /\ WF_serverVars(StartsReceive) /\ WF_serverVars(StartsMark) /\ WF_serverVars(StartsCancel)
  /\ WF_serverVars(StartsCommit /\ startPc' = "mark")
  /\ WF_serverVars(EventsReceive) /\ WF_serverVars(EventsWait)
  /\ WF_serverVars(EventsSucceed /\ eventOk' = {})
  /\ WF_serverVars(EventsFail /\ eventFail' = {})
  /\ WF_serverVars(EventsRetry /\ eventRetry' = {})
  /\ WF_serverVars(TimeoutsRead) /\ WF_serverVars(TimeoutsCheck) /\ WF_serverVars(TimeoutsCancel)
  /\ WF_serverVars(TimeoutsFail /\ lateFail' = {})
  /\ WF_serverVars(TimeoutsRetry /\ lateRetry' = {})
  /\ WF_serverVars(OrphansFail /\ orphanFail' = {})
  /\ WF_serverVars(OrphansRetry /\ orphanRetry' = {})
  /\ \A e \in Executors : WF_serverVars(~open[e] /\ Drop(e) /\ UNCHANGED <<backendVars, loopVars>>)

FairServerSpec == ServerSpec /\ ServerFairness

-----------------------------------------------------------------------------
(* Properties *)

Reported(x) == \E i \in DOMAIN events : x \in events[i].xs
EventsHeld  == eventOk \cup eventFail \cup eventRetry

\* An execution that was started by one executor is not run by, or offered to,
\* another one, although ready executions are fetched, offered, accepted and
\* started by different loops (try_offer, AcceptedExecutions, executions_started).
OneExecutorRuns ==
  \A x \in Executions, e \in Executors :
    execStatus[x] = "running" /\ x \in HeldBy(e) =>
      held[e][x] = "accepted" /\ execExecutor[x] = e

\* No started execution is lost: while its executor is connected, the executor
\* still holds it or its result is on the way to the backend.  (Otherwise it
\* runs forever: the executor exists, so that it is not an orphan.)
RunningIsTracked ==
  \A x \in Executions :
    execStatus[x] = "running" /\ conn[execExecutor[x]] \in {"ready", "draining"} =>
      held[execExecutor[x]][x] = "accepted" \/ Reported(x) \/ x \in EventsHeld

\* An executor never goes on with an execution that has finished in the backend
\* (cancelled by a user, timed out, or not started): a loop is about to cancel it.
FinishedIsWithdrawn ==
  \A x \in Executions, e \in Executors :
    held[e][x] = "accepted" /\ execStatus[x] \in Outcome =>
      x \in adminCancel \cup lateCancel \cup notStarted \/ accepted[x] = "unstarted"

\* What in_flight_execution_ids and wait_for_starts wait for will happen: an
\* execution that is accepted and not started is in the hands of the starts loop.
UnstartedIsQueued ==
  \A x \in Executions : accepted[x] = "unstarted" =>
    x \in DOMAIN startBatch \/ \E e \in Executors : <<x, e>> \in startQueue

\* A job has at most retries + 1 executions, whichever loops retry them.
AttemptsBounded == \A j \in Jobs : Cardinality(ExecsOf(j)) <= Retries[j] + 1

\* The types, attempts that stay within the job's retries, and starts the events
\* loop can wait for.
ServerInv == ServerTypeOK /\ AttemptsBounded /\ UnstartedIsQueued

\* "Executions must be started in the backend before they can succeed or fail":
\* a result does not overtake the start of its execution (executor_events_loop).
StartBeforeResult ==
  [][\A x \in Executions : execStatus[x] = "pending" =>
       execStatus'[x] \in {"pending", "running", "cancelled"}]_serverVars

\* Every result or disconnection an executor's loop reports is applied, unless
\* the server crashes: the events loop never waits for ever for the starts loop,
\* nor the starts loop for executors.
ResultsApplied ==
  \A x \in Executions, n \in 0..MaxCrashes :
    (Reported(x) /\ crashes = n) ~> (execStatus[x] \notin Active \/ crashes > n)

\* Every execution whose executor is gone ends, also after a crash.
OrphansEnd ==
  \A x \in Executions :
    (execStatus[x] = "running" /\ ~InPool(execExecutor[x])) ~> execStatus[x] # "running"
=============================================================================
