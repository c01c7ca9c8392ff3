# Verification of ora

ora is a job scheduler: users add jobs and schedules through an admin API, a server keeps
them in a database, and executors (worker processes connected over gRPC) run them.  This
directory holds TLA+ specifications of ora: what runs where and when and what is recorded
about it, what becomes of a request on its way, and what users see of it; TLC
configurations that check them on small instances; and TLAPS proofs of what matters most
for instances of any size.

Paths below are relative to `src/crates/`.

- [1. The system](#1-the-system)
- [2. Modules](#2-modules)
- [3. Runs](#3-runs)
- [4. Fairness](#4-fairness)
- [5. What the model shows to be wrong](#5-what-the-model-shows-to-be-wrong)
- [6. Proofs](#6-proofs)
- [7. What is not modelled](#7-what-is-not-modelled)
- [8. Plan](#8-plan)

## 1. The system

### Components

**Stored state** (`ora-backend` is the contract, `ora-backend-postgres` the implementation).
State: the tables `ora.schedule` (with `active_job_id`, `stopped_at`), `ora.job` (with
`inactive_since`, `inactive_status`) and `ora.execution` (whose generated column `status`
is pending, running, succeeded, failed or cancelled).  A job has one execution for every
attempt; a retry inserts the next one.  Operations: `add_jobs`, `cancel_jobs`,
`add_schedules`, `stop_schedules`, `delete_history`, `executions_started`,
`executions_succeeded`, `executions_failed`, `executions_retried`; queries
`pending_schedules`, `ready_executions`, `in_progress_executions`.  Each writing call is a
transaction; `delete_history` is a sequence of them.  *Hard*: every call may be repeated after it
was applied and reported as failed, and may come late; the rows of three tables have to stay
consistent over any sequence.  *Correct* when a schedule points at exactly its active job, an
active job has exactly one execution that is pending or running, and an outcome once
recorded never changes.

**Executor pool** (`ora-server/src/executor_pool.rs`).  State: the connected executors, each with
job queues of executions that are offered or accepted; `AcceptedExecutions`, the accepted
executions together with the moment their start was recorded; the channels of accepted
executions and of events.  Operations: `try_offer`, `accepted_executions_started`,
`cancel_execution_ids` and others called by the loops, and one `executor_loop` per
connection that handles messages, expiring offers, heartbeats and shutdown.  *Hard*: offers are
made from pages of ready executions that are out of date; acceptances cross
withdrawals; a loop ends for many reasons.  *Correct* when no execution is held twice, no executor
is given more than it announced, and server and executor agree on what is running.

**Execution loops** (`ora-server/src/server/executions.rs`).  `ready_executions_loop` fetches ready
executions and offers them; `execution_starts_loop` records the starts of accepted ones;
`executor_events_loop` applies results and disconnections, after waiting for the starts;
`execution_timeouts_loop` looks for executions that timed out or whose executor is gone.  Their
state is local variables carried over awaits.  *Hard*: four loops and the admin
handlers interleave at each await; backend calls are repeated until they succeed.  *Correct* when an
execution runs on one executor, is never forgotten while the backend shows it running, is
cancelled on its executor once it has finished in the backend, and its result is applied.

**Schedule loop** (`ora-server/src/server/schedules.rs`).  Keeps no state but a set of schedules it
could not handle; asks for schedules without an active job, page by page, and adds their next job or
stops them.  *Hard*: the time arithmetic (missed times, bounds, overflow, a clock that is set
back), schedules that change between the query and the call, and one bad schedule that must not stop
the others.  *Correct* when jobs keep their distance and range, none is missed that should
be made, and the loop neither stops nor spins.

**Admin service** (`ora-server/src/grpc/admin.rs`, `conv.rs`) and **executor service**
(`ora-server/src/grpc/executors.rs`).  Handlers without state: validation and conversion, backend
call, then pool.  *Hard*: `cancel_jobs` and `stop_schedules` are two steps, of which the second may
not happen; absent and unspecified fields are filled in differently by the two sides;
calls are repeated.  *Correct* when what was written is stored with the same meaning, whole requests
or nothing, and filters select what their documentation says.

**Server start and shutdown** (`ora-server/src/server.rs`, `ora-server/src/lib.rs`, `wgroup`).
`spawn_server` starts the loops; a wait group tells them to stop and waits for them.
*Hard*: the loops end in an order that lets running executions finish, and some give up then; the
last guard may be dropped while the waiter is about to sleep.  *Correct* when the
server stops, in time, and loses no result it had time for.

**History deletion** (`ora-server/src/server/delete_history.rs`) calls `delete_history` from time
to time.

**Client library** (`ora/src`).  The executor side (`executor/implementation`) receives offers,
accepts or rejects them, runs handlers and reports, over one connection after another.  *Hard*:
answers cross withdrawals; executions of a lost connection are still ending when the next one
offers work; the executor has to stop whatever its handlers do.  The admin side (`ora/src/admin`)
builds requests, walks pages and waits for results with a handle that caches.  *Hard*: pages
are separate queries while jobs change; a cached end may not be the end.

**Terminal interface** (`ora-cli/src/tui.rs`, `tui/`).  State: the tables with the
filters and pages asked for, the tabs' detail views, forms, a confirmation.  Requests are tasks
whose answers come as events.  *Hard*: answers to what is no longer shown, two requests for one
table, keys that reach the wrong layer, carets in rows that vanish, and all that a copy of a
row can lose between schema, form and request.

**The rest** (`ora-cli`'s other commands, `ora-ui`, `ora-bench`, `ora-macros`, metrics,
migrations) observes, presents or generates.

### Interactions

    admin service ──calls──> backend <──calls── schedule loop, history deletion
         │ cancel               ▲
         ▼                      │ ready_executions / executions_started /
    executor pool <──calls──  the four execution loops   succeeded / failed / retried
         │    └──channels: accepted executions, events──> starts loop, events loop
         ▼
    executors (gRPC stream: ExecutionReady, ExecutionCancelled / Accepted, Rejected, results)

    library, CLI, terminal interface ──gRPC──> admin service

Each backend call is atomic (a transaction) and so is each pool call (a mutex); everything between
two of them interleaves.  That is the grain of the models.

## 2. Modules

| Module | Models | Uses |
|---|---|---|
| `OraIds` | the sets of ids | |
| `JobLifecycle` | what the backend promises of jobs (abstract) | |
| `Backend` | the stored state and its calls | `OraIds` |
| `PgTransactions` | the statements of concurrent transactions under READ COMMITTED | `OraIds` |
| `ExecutorPool` | the pool and the executors' loops | `OraIds` |
| `Server` | backend, pool, the four loops, admin cancellations, crashes | `Backend`, `ExecutorPool` |
| `ServerShutdown` | the end of the loops, executors and backend calls | |
| `Notifications` | what wakes up the loop of ready executions | `OraIds` |
| `Backoff` | delays of retries, rejections and repeated calls | |
| `ScheduleTimes` | the time of a schedule's next job (pure) | |
| `Scheduler` | the schedule loop, users, history, a clock | `Backend`, `ScheduleTimes` |
| `WaitGroup` | guards and those who wait for them | |
| `ExecutorClient` | an executor of the client library | `OraIds` |
| `ExecutorSession` | that executor and the server over a stream | `ExecutorClient` |
| `JobHandle` | a client's handle of a job, and waits on it | |
| `JobListing`, `ScheduleListing` | listing, counting, cancelling and stopping by filters | |
| `Conversions` | definitions between library, wire and backend, and their shapes (pure) | |
| `WireFormat` | additions of any client, stored, listed and read | `Conversions` |
| `TuiTables`, `TuiDialogs`, `TuiForm`, `TuiCopies` | the terminal interface | `Conversions` |
| `BackendProofs` | theorems about `Backend` | `JobLifecycle` |
| `ServerProofs` | theorems about `ExecutorPool` and `Server` | `BackendProofs` |
| `ServerShutdownProofs` | theorems about `ServerShutdown` | |
| `ScheduleTimesProofs` | theorems about `ScheduleTimes`, and the well-ordering of numbers | |
| `LoopsProofs` | theorems about `Scheduler`, `Notifications` and `Backoff` | `BackendProofs`, `ScheduleTimesProofs` |
| `RequestsProofs` | theorems about the times of `MCScheduleTimes`, about `PgTransactions` and `WireFormat` | `ScheduleTimesProofs` |
| `ClientProofs` | theorems about `ExecutorSession`, `WaitGroup` and `JobHandle` | |
| `TuiProofs` | theorems about `TuiTables`, `TuiDialogs` and `TuiForm` | |
| `MC*`, `RequestInputs`, `TuiInputs` | instances and inputs for TLC | |

The names of actions are those of the functions they model, in CamelCase;
`PROJECT.json` ("map") gives the lines of each definition.  A definition with a suffix
(`Retryable_all`) is a *mutant*: the definition after it changed the way a plausible bug would,
which the runs must notice.

### Backend and JobLifecycle

One action per writing call.  A call takes a set of ids, and acts on those that satisfy its WHERE
clause, so that stale, repeated and senseless batches are covered.  Points where the
model follows the SQL closely:

- `AddJobs`: the `UPDATE ... FROM UNNEST` that claims schedules lets only one of
  several jobs of a schedule through, and skips schedules that were stopped or have a job.
- `ExecutionsStarted` accepts an execution that the same executor has started already.
- `Retryable`: `executions_retried` compares *job ids*, not execution ids, see section 5.
- `MarkJobsInactive`: releases `active_job_id`; `DeleteJobs` removes executions by cascade.

`BackendNext` lets anybody call anything.  `OneFailurePerJob` restricts it to callers that
name a job at most once in a batch of retries.  `JobLifecycle` is the contract without
rows, statuses and batches: jobs in phases with one attempt at a time.  `Backend` implements it under
the mapping of `Backend` (a job's phase is `JobPhase`, the status its current attempt has),
as property `ImplementsLifecycle` of run `backend` and as a theorem.

### PgTransactions

`Backend` takes each transaction for one step.  `PgTransactions` has them statement by statement: a
statement sees what was committed before it began; an `UPDATE` waits for a row that another
transaction has written (`Locked`), and looks at its WHERE again (`StillMatches`), for the rows it found
only.  That is why `cancel_jobs` repeats its update (`Repeats`) and why `add_jobs` takes an
advisory lock (`LockFree`).  A transaction may fail at any moment.

### ExecutorPool

`conn[e]` says where the loop of executor `e` is: not connected, connected, ready
(capabilities received), draining (shutdown noticed, waiting for accepted executions), ending
(about to `drop_executor`), gone.  `open[e]` is the channel to the executor, which breaks
before the loop notices.  An executor id is used once, a reconnection is another executor.
`accepted` is `AcceptedExecutions`, with the start time reduced to whether it precedes the
last `fetched_at`.  `believed[e]` is what the executor thinks it holds when it has read all
that was sent to it; it exists to state `BeliefsAgree`: nothing is removed from a queue
without telling the executor.  Heartbeats, duplicate capabilities and
unparsable ids end the loop, and the loop of the model may end (`Drop`) at any moment.

### Server

Every loop is a small program counter with one step for each backend or pool call:

- ready: `ReadyStart` (in-flight ids) → `ReadyStamp` (`fetched_at`) → `ReadyQuery` →
  `ReadyOffer` → next page, or start over.
- starts: `StartsReceive` → `StartsCommit` → `StartsMark` → `StartsCancel`.
- events: `EventsReceive` → `EventsWait` → `EventsSucceed` → `EventsFail` → `EventsRetry`.
- timeouts: `TimeoutsRead` → `TimeoutsCheck` → `TimeoutsFail`/`Retry`/`Cancel` →
  `OrphansFail`/`Retry`.
- admin: `AdminCancelJobs` (backend) and `AdminCancelInPool` are separate steps; under
  `"error"` the second never comes.

`retry_backend` is the disjunct of a call's action that applies the call and stays: the attempt
was committed and reported as failed.  (An attempt that is not applied is a stutter.)
`Crash` loses everything but the backend.

### ServerShutdown, WaitGroup

`ServerShutdown` is the same loops once `stop()` was called: each executor's loop withdraws its
offers and drains for its grace period; `execution_starts_loop` and `executor_events_loop` check
that the executors are gone *and then* their channel once more (`FirstCheck`, `SecondCheck`); a
repeated call is given up after `MaxAttempts`; deadlines pass after the grace period.
`WaitGroup` is the crate the loops register with: a guard's drop is two steps (`Remove` its id under
the mutex, `Wake` the waiter), the future checks, registers its waker and sleeps with the
mutex held.

### Notifications, Backoff

In `Server` the ready loop may look again at any moment.  `Notifications` asks whether it does when it
should: the flags are the `Notify` futures as they are created before each query, and time is
what is left until each execution's target, poll, check and backoff.  `Backoff` has the arithmetic of
`retry_backoff`, `rejected` and `retry_backend` with integers of a few bits, so that every
`checked_` and `saturating_` operation overflows.

### ScheduleTimes, Scheduler

`NextTime` is `next_execution_time` branch by branch, with times as ticks and a cron expression
as the set of times it matches.  `Scheduler` reads a page of pending schedules (`ReadPage`), determines
times (`Decide`), adds jobs (`Add`), stops what is over (`Stop`), and waits (`WakeTimer`), while
users add, stop and cancel, jobs end, history is deleted and the clock goes forward or is set back;
`ReadFails`, `AddFails` and `StopFails` are calls that fail, applied or not.

### ExecutorClient, ExecutorSession

The main loop of the library's executor (`ConnectionEnds`, `Reconnect`, `ShutDown`), the loop of each
connection (`Receive`, `LoopEnds`) and `run_execution` (`Reserve`, `Accept`, `HandlerReturns`,
`Leave`), with one semaphore for all connections.  `ExecutorSession` adds the server's side of
the stream; messages are queues in both directions that are lost with the connection.

### JobHandle, JobListing, ScheduleListing

A client's call is a sequence of fetches.  `JobHandle` has the cached job, whether it is still fetched
(`Final`), and the loops of `wait_result`, `executions_changed` and the CLI's `jobs wait`.  The
listings have a client that walks pages, each a query of its own that continues after the last row
(`AfterToken`), among jobs that are added, retried, ended and deleted.  Filters keep their
`Option`s: `ToWire` and `FromWire` model that a list of the wire cannot be absent.

### Conversions, WireFormat

One operator per conversion of `convert.rs` (library) and `conv.rs` (server), on records whose fields may be
`Absent`; `JobDefinitions`, `WireJobs`, ... are the shapes of what each side may hold.  `WireFormat` lets the library or any other client write a definition, add it, lose the answer and add
it again, list it, read it.

### TuiTables, TuiDialogs, TuiForm, TuiCopies

Each method of `App` and of `Form` is an operator from the state before to the state
after, and each key, tick or answer an action that composes them.  A request is live until it is
superseded or cancelled; aborted tasks may still answer.  `TuiCopies` models what *copy* does with a
row: the fields of the input schema, prefilled (`ApplyDefault`, `FillPolicies`), edited, and
built into a request (`BuildJob`, `BuildSchedule`) that `Conversions` takes to the server.  Texts are a few values;
`Trim` takes the blanks off those that have some, where the code does (`Parsed`, `FieldValue`, `ParseLabels`).

## 3. Runs

| Run | Instance | Checks |
|---|---|---|
| `backend` | 2 jobs, 3 executions, 2 schedules, 2 executors; 22 thousand states | `StoredInv`, `JobInv`, `OutcomesAreFinal`, `ImplementsLifecycle` |
| `executor_pool` | 2 executors of both kinds, 2 executions, limit 1, 1 event; 0.8 million | `HeldOnce`, `WithinLimit`, `BeliefsAgree` |
| `server_cases` | retrying: 1 job, 1 retry, 2 executors that accept offers, 1 crash; batching: 2 jobs without retries, 1 executor running both, batches of 2, slow starts; failing: 1 job, 1 retry, 1 executor, cancellations that report an error; 1 million | `ServerInv`, `OneExecutorRuns`, `RunningIsTracked` |
| `server_cancels` | 1 job, 1 retry, timeouts, cancellations, 1 executor; 0.5 million | `FinishedIsWithdrawn`, `StartBeforeResult` |
| `server_live` | 1 job, 2 executors, 1 crash, no symmetry; 0.2 million | `ResultsApplied`, `OrphansEnd` |
| `server_overlap` | 1 job, 2 retries, timeouts, 1 executor with room for two | finds `AtMostOneActive` violated |
| `loops` | `Scheduler`: 2 schedules, one that ends and creates what it missed, one that is immediate, begins late and skips, 3 jobs, pages of 1, and in some behaviours 1 failing call and 1 setback of the clock, in the others deletions; `Notifications`: 3 executions of 2 types, room for 2 of each; `Backoff`: all policies over 5 durations, 9 attempts; `ExecutorSession`: 1 execution over 2 connections with late answers, and 2 executions on 1; 2.6 million | `SchedulerTypeOK`, `NoBusyLoop`, `TimesKept`, `WithdrawnHasNoJob`, `SleepsWhileIdle`, `DelaysAreRight`, `SidesAgree` |
| `waits` | `WaitGroup`: 4 guards; `JobHandle`: 3 attempts, each call, both strategies; `Scheduler`: 2 schedules on 1 page, or 1 that misses times, 1 failing call; 90 thousand | `NoLostWakeup`, `NobodyLeftBehind`, `WaitsEnd`, `ResultIsRight`, `PendingIsHandled`, `NoTimeIsLost` |
| `stops` | `ExecutorSession`: 1 execution, 2 connections; `ServerShutdown`: 2 executors, 1 execution, 2 attempts; 0.2 million | `ShutdownInv`, `OfferIsAnswered`, `ExecutorStops`, `ServerStops` |
| `requests` | `ScheduleTimes`: 7 ticks, all small schedules; `WireFormat`: the requests of `RequestInputs`, empty ones too, 2 additions; `PgTransactions`: 7 transactions, 3 jobs, 3 executions; `JobListing` three times: 2 jobs under all filters, 3 jobs in all orders, 3 jobs with 2 attempts; `ScheduleListing`: 4 schedules; pages of 2; 1.4 million | `TimesAreRight`, `MeaningIsKept`, `TransactionsAgree`, `PagesAreOneListing`, `FiltersAreMeant` |
| `tui` | `TuiTables`: 2 keys, 3 pages, 2 filters; `TuiDialogs`: 2 executors, 2 forms, 3 submissions; `TuiForm`: a field of each kind, 4 characters; `TuiCopies`: the rows and schemas of `TuiInputs`; 0.7 million | `AnswersInPlace`, `DialogsAgree`, `CopiesAgree`, `EditsAreRight` |
| `shutdown_down` | `ServerShutdown` with a backend that is down | finds `ServerStops` violated |

Several runs check instances of several modules at once.  These parts share no state: the initial state
chooses one (`part`, `case`), only its steps are taken, and the others' variables
keep a value.  What is checked of a part is what a run of its own would check.

`server_cases` restricts the steps of one instance of `Server` in three ways: what a case leaves out
(other jobs, executors, cancellations, crashes) does not happen in it, so its states are states of
`Server`, and the properties checked are those of `Server` itself.

What the properties say is written above each of them.  Most are conjunctions of named parts, each of which
is stated and commented where it is defined:

- **StoredInv** (`BackendTypeOK`, `ScheduleTracksJob`, `ActiveJobHasExecution`): `active_job_id` is exactly the
  active job.  A schedule whose job finished without releasing it would never get another job; one released
  too early would have two.  No active job is left without an execution that is pending or running.
- **JobInv** (`AtMostOneActive`, `ActiveExecutionHasJob`), and **TransactionsAgree**, the same statement by
  statement: a job is active exactly while one of its executions is pending or running.
- **ImplementsLifecycle**: an attempt is never used twice, is replaced by its retry, a schedule has
  one open job, and it is made while the schedule is active.
- **OutcomesAreFinal**: late or repeated results, cancellations and retries do not rewrite history.
- **HeldOnce**, **WithinLimit**, **BeliefsAgree**: the pool under any calls in any order,
  including offers from arbitrarily old pages.
- **OneExecutorRuns**: what `fetched_at` and `in_flight_execution_ids` are for: an execution that
  runs on an executor is not offered to another.
- **RunningIsTracked**: an execution that is running in the backend is held by its executor or
  its result is on the way.  Otherwise it would run for ever, as its executor exists.
- **FinishedIsWithdrawn**: an executor never goes on with something that is finished in the
  backend, unless a loop or handler is about to cancel it.
- **ServerInv** (types, `AttemptsBounded`, `UnstartedIsQueued`), **StartBeforeResult**: a job gets at most
  `retries + 1` executions, whichever loops retry it; what `wait_for_starts` waits for is really
  about to happen, and waiting keeps results behind starts.
- **TimesKept** (`IntervalApart`, `InTimeRange`), **WithdrawnHasNoJob**: the schedule loop decides on pages that
  are old, with calls that fail after they were applied and a clock that is set back.
- **SleepsWhileIdle** (`NotifyTypeOK`, `ReadyIsOffered`, `NoSpin`), **NoBusyLoop**: loops sleep when there is
  nothing to do, and only then.
- **DelaysAreRight** (`DelayIsExact`, `RejectionsBackOff`): the arithmetic of delays, with
  every number overflowing.
- **SidesAgree** (`SlotsWithinLimit`, `StrayRunIsCancelled`, `AcceptedIsRun`): what the server takes for running
  and what runs agree up to messages on their way.
- **ShutdownInv** (`StartsOutliveExecutors`, `CleanShutdown`): results that arrived in time are recorded,
  and nothing is left in progress.
- **ResultIsRight** (`ResultIsFinal`, `FrozenIsFinal`, `ResultSurvivesDeletion`), **WaitsEnd** (`WaitEnds`,
  `ResultIsReturned`): a handle that stops to fetch has what a fetch would give.
- **TimesAreRight** (`EarliestRegularTime`, `AfterLast`, `FirstTimeValid`): `next_execution_time` against the
  definition of regular times.
- **PagesAreOneListing** (`NeverTwice`, `NoneMissed`, `InOrder`, ...), **FiltersAreMeant** (`StatusesAreLatest`,
  `CountsAgree`, `CancelsWhatMatches`, `StopsWhatMatches`): pages of a changing table are one listing of what the
  filters say.
- **MeaningIsKept** (`LibraryIsUnderstood`, `ReadAsStored`, `WholeRequests`, ...), **CopiesAgree** (`InputKept`,
  `OptionsKept`, `AsShown`): fields that are absent, unspecified or too large keep their meaning between forms,
  library, wire and backend.  A copy's labels are the original's but for blanks (`LabelsCopied`): none with a key is lost.
- **AnswersInPlace**, **DialogsAgree**, **EditsAreRight**: answers reach the table, view or form they were asked
  for, and an edit changes the text it is made in.

Why the bounds are enough.  Two executors are what it takes to offer an execution twice; two
jobs and two schedules to mix up rows of a batch.  Three executions let one job be
retried twice, or two jobs once each.  In `server_cases` the third execution is one too many: no step
creates it unless a retry is counted wrongly or done twice.  One crash, at any moment, leaves orphans
in every state a job can be in; a second one would only add orphans of another server run.  `EventBatch`
1 or 2 stands for 1000: a batch is processed as sets, so two members show what mixing results does.
The length of the event queue of `Server` is not bounded: it is finite because executions are.
`MaxEvents` bounds the pool's channel only in `executor_pool`, where events are emitted
and never applied; one event does not constrain the others, as nothing in the pool reads the channel.
Pages of one and two elements with three or four rows have a first, a middle and a last page, and ties
across their ends.  Two connections show an execution of one that is still ending on the other;
one message in each direction shows every crossing of two, a second one a stale answer behind
a new one.  Room for two executions, of which three may be held, lets a queue be neither full nor empty: with
one the wake-up that an acceptance does not cause (section 5) does not matter, because who accepts is full.
One failing call may fail anywhere, applied or not; a second would repeat what follows the
first.  In `PgTransactions` each kind of transaction occurs once, and `add_jobs` twice, because
conflicts are between two transactions over rows of one job.  In the pure parts the bounds are chosen for
every branch, including overflow, to be taken.

Deadlock is checked in all runs whose system never rests; the others are about clients,
inputs and shutdowns that come to an end.

## 4. Fairness

*Server* (`server_live`).  `ResultsApplied` and `OrphansEnd` are checked under weak fairness of each step of the starts,
events and timeouts loops.  The code justifies it: each loop is a tokio task
of its own that is never blocked by another, with the one exception of
`wait_for_starts`, which is modelled by the guard of `EventsWait`.  Of a backend call, fairness is assumed of the
attempt that succeeds: `retry_backend` repeats it, at least every five seconds, up to `u32::MAX` times, so
this says that the database is not down for ever.  `Drop` is fair only for an executor
whose channel is closed (the `is_disconnected` checks of `executor_loop`, on a tick and on each message, and the end of the
stream).  Nothing is assumed of
users, of executors (they may run for ever, or never answer), or of the ready loop.  `START_WAIT_TIMEOUT` is off in that run: the
events loop must not depend on it.

*ServerShutdown* (`stops`).  Each loop takes its steps, an executor's loop notices the shutdown and its
grace period ends (timers of its own task).  Strong fairness only of `Fetch`, the call of the
timeouts loop that succeeds: it is repeated without limit, and the database is not down for ever.  Nothing
is assumed of executors.  In `shutdown_down` the database is.

*Scheduler* (`waits`).  The loop goes on (its calls succeed when no failures are left, of which there
are finitely many), the clock advances, and a job that is due ends.  Nothing is assumed of users.

*WaitGroup* (`waits`).  The waiter's task is polled when it is woken, and its poll ends; a task that is told to stop drops
its guard; a drop that has begun ends.

*ExecutorSession* (`stops`).  The library's tasks take their steps; the server reads its stream and
notices its end.  A handler need not return, and the server need not offer anything.

*JobHandle* (`waits`).  The client polls again.  Nothing is assumed of the job.

## 5. What the model shows to be wrong

**Two executions of one job at once** (run `server_overlap`).

1. Execution X1 of a job runs on executor E and times out.  The timeouts loop retries
   it in the backend: X1 is failed, X2 pending.
2. Before the same loop cancels X1 in the pool (`cancel_execution_ids` after `retry_executions`),
   the ready loop fetches X2, and offers it to E, which has room.
3. E disconnects.  `drop_executor` reports X1 and X2 in one event, and the events loop
   passes both to `executions_retried`.
4. X2 is failed and its job is returned as still active.  `new_executions.retain(...)`
   (`ora-backend-postgres/src/lib.rs:1123`) keeps every new execution *of that job*, also the
   one asked for in the name of X1.  Two executions are inserted, and both are run.

The same happens when the events of X1 and X2 are taken from the channel in one batch.  The comment
above the line says that the filter is there against such races; the contract says "For each
job, a new execution must be created".  Comparing execution ids, or removing
duplicate job ids, would close it.  With at most one failure per job in a batch (`OneFailurePerJob`)
the property holds, and is proved (section 6).

**A server whose backend is down cannot be stopped** (run `shutdown_down`).  When
`execution_timeouts_loop` cannot fetch the executions in progress it sleeps and starts over
(`ora-server/src/server/executions.rs:494`) without looking at its wait guard.  All other
loops give up after `MAX_SHUTDOWN_ATTEMPTS`.

**Further disagreements** between a comment and the code that the models show.  Each is stated by a
definition, and TLC finds it violated when it is put into the named configuration with the constant
given.

| Definition | With | What happens |
|---|---|---|
| `ExecutorSession!AcceptedIsRun` | `Late = TRUE` | Answers do not say which offer they answer.  An acceptance that is on its way when its offer expires (30 s) and the execution is offered to the same executor again (after 1 s) is taken for the answer to the second offer, and that one's rejection is ignored: the execution stays assigned to an executor that does not run it (`executor_pool.rs:1121`). |
| `Notifications!ReadyIsOffered` | `SlowPasses = TRUE` | `earliest_backoff_end` leaves out backoffs that have ended.  One that ends after `try_offer` skipped the queue and before the end of the pass is not waited for; the loop sleeps up to 5 s (`executions.rs:96`). |
| `Notifications!ReadyIsOffered` | `rejected` left alone by `Accepts` | An acceptance lifts the backoff of its queue (`executor_pool.rs:751`) and, unlike what frees room, notifies nobody.  If the pass that skipped the queue is not over, the backoff is not among those `earliest_backoff_end` sees either, and the loop sleeps up to 5 s although "executions that were not offered might be offered now" (`executions.rs:124`). |
| `Scheduler!IntervalApart`, for jobs that were deleted too | | Once `delete_history` has removed a schedule's last job it counts as new: an immediate schedule gets a job at once (`schedules.rs:291`; "Whether to immediately create a job upon schedule creation", `ora-backend/src/schedules.rs:56`). |
| `JobHandle!ChangedReturns` | under `FairSpec` | `executions_changed` of a job that has ended never returns, although it "will also return if no more execution changes are expected" (`ora/src/admin/jobs.rs:657`); nor does `ora jobs wait`. |
| `ScheduleListing!ScheduleLimitKept` | | `list_schedules` looks at its limit between pages only: 30 yields up to 50 (`ora/src/admin/schedules.rs:311`). |
| `WireFormat!BackoffAsWritten` | | A backoff that the wire cannot carry is sent as none, and retries come at once, although "the backoff duration is capped at the maximum" (`ora/src/job.rs:213`). |
| `TuiDialogs!FailureOnItsForm` | `LeavesForm = TRUE` | A creation that fails after its form was closed puts its message on the form that is open then, and lets it be sent twice (`tui.rs:620`). |
| `TuiDialogs!ConfirmMatchesForm` | `Modified = TRUE` | Capital letters typed over a confirmation go to the form below it (`tui.rs:678`). |
| `TuiDialogs!JobsRequested` | | The answer with an executor's jobs is dropped if another tab is shown, and still waited for (`tui.rs:601`). |
| `TuiCopies!InputWithoutSchemaKept` | | Without an input schema a copy has an empty payload (`form.rs:981`). |
| `TuiCopies!ListsKept` | | A copy loses the items of lists that are not texts (`form.rs:1305`). |
| `TuiCopies!RestIsEmpty` | | A `null` becomes the default of the schema (`form.rs:1291`). |
| `TuiCopies!TemplateLabelsKept` | | The labels of a schedule's job template are not copied (`tui.rs:2018`). |
| `TuiCopies!LabelsKept` | | Labels are trimmed, those with a blank key are dropped, and two whose keys differ in blanks become one, which has the value of the first (`tui.rs:1745`); the server accepts and lists them all. |

What a copy changes on purpose or cannot avoid is part of `InputKept` and `OptionsKept`: plain dates
become timestamps, texts of nothing but blanks are left out, an integer in a number field becomes the nearest float (above
2^53 another number, `form.rs:318`), a maximum backoff of zero is not shown, a time range that has ended is
left out, labels lose the blanks around them (`LabelsCopied`), and required nested objects are left to the
schema's check.

## 6. Proofs

Everything below is proved by TLAPS for every value of the constants, from the assumptions
that the modules declare: `None` is no id (`OraIds`), limits are numbers and there are finitely many
executions (`ExecutorPool`, `Notifications`), finitely many guards (`WaitGroup`), a last representable time and
distinct values for *no time* and *error* (`ScheduleTimes`), at least one attempt of a call
(`ServerShutdown`), finitely many jobs and schedules with ids in an
order and with definitions the code can store (`Scheduler`), a number of retries for each job and at least
one event to a batch (`Server`), at least one connection (`ExecutorClient`), kinds of transactions
that are disjoint (`PgTransactions`), the absence of a value is none of the values (`JobHandle`, `TuiTables`,
`TuiDialogs`, `Conversions`), times that are not zero where the code has constants (`Notifications`), maxima that fit
their widths (`Backoff`), a wire that can carry every supported interval (`Conversions`), and the types of
requests (`WireFormat`).  Each is evaluated by TLC in the runs that use the module.

**BackendProofs** (`Backend`, any ids, any calls with any batches).

| Theorem | Says |
|---|---|
| `TypeCorrect` | the types |
| `StoredCorrect` | `StoredInv` |
| `NoJobStuck` | `ActiveJobHasExecution`, for callers of any kind |
| `JobsCorrect`, `NoOverlap` | `JobInv` and its part `AtMostOneActive`, if `OneFailurePerJob` |
| `HistoryIsFinal` | `OutcomesAreFinal`, if `OneFailurePerJob` |

`StoredInv` is inductive on its own and needs nothing of callers.  `AtMostOneActive` is not: that an outcome
ends *the* attempt of its job needs that an active execution has an active job, and that one in turn needs
that there is one active execution only.  `JobInv` has both, and `OneFailurePerJob`, without which section
5's first counterexample is a behaviour.  The calls share `FinishAndInsert` in the code (one statement each
for executions, jobs and schedules); lemmas about it (`FinishJobsStored`, `FinishJobsInv`, ...) serve
results, failures and cancellations alike, and `RetriedShape` says what a retry does to jobs that go on and
jobs that end.

`LifecycleImplemented`: `Backend` implements `JobLifecycle`, if `OneFailurePerJob`.  The mapping
is in `ViewOK`: an active job's phase is the status of its only active execution.  Given `RefInv`
(`StoredInv`, `JobInv`, and that executions not yet created belong to no job) before and after a step,
each call maps to one step of the contract or to a stutter (`FinishRefines`, `AddJobsRefines`,
`RetriedRefines`, `OtherCallsRefine`).

**ServerProofs**, of the pool (`ExecutorPool`, any executors, limits, messages and stale pages): `PoolTypeCorrect`,
`NothingHeldTwice`, `LimitsHold`, `ExecutorsAgree`, all from `PoolCorrect`.  `PoolInv` is the conjunction of the
four: that an offer goes to somebody with room and open channel needs the limit, that it goes to one executor
only needs the types.  All steps but `TryOffer` only take executions from executors (`Shrinks`,
`Narrows`), so the invariant is argued once for them and once for offers, where
`AssignmentsFit` says what the greedy assignment of `try_offer` can give.

**ServerProofs**, of the server (`Server`, any jobs, executors, batches, timeouts, retries and crashes).

| Theorem | Says |
|---|---|
| `LoopsCorrect` | the inductive invariant `LoopsInv` |
| `ServerTypes`, `WaitsAreForStarts`, `PoolInServer` | types, `UnstartedIsQueued`, and `PoolInv` with the server as caller |
| `OneRuns` | `OneExecutorRuns` |
| `NoneIsLost` | `RunningIsTracked` |
| `StartsPrecedeResults` | `StartBeforeResult`, if `START_WAIT_TIMEOUT` does not elapse |
| `EndedAreWithdrawn` | `FinishedIsWithdrawn`, if no error of `cancel_jobs` hides its success, and while `AtMostOneActive` |
| `AttemptsCorrect` | `ServerInv`, while `AtMostOneActive` |
| `ServerCallsBackend`, `ServerStores` | the server implements `BackendSpec`, and `StoredInv`, with batches of any kind |
| `ServerKeepsContract`, `ServerHistory`, `ServerLifecycle` | `BackendSpec` with `OneFailurePerJob`, `OutcomesAreFinal` and `ImplementsLifecycle`, while `AtMostOneActive` |

None of the properties is inductive: between a fetch and an offer, or an acceptance and a start, nothing in the
pool or the backend alone says that an execution is not handed out again.  `LoopsInv` follows each execution
on its way from a page through an executor's queue, the queue and batch of starts, to a result.  Its central
parts are `StartsTracked`, that `accepted` is *unstarted* exactly while one start is on its way; `PageFresh`, that
what was started since a page was fetched is still marked so (this is what `fetched_at` is for); `ResultsFollow`,
that a result is behind its start; and `CancelsEnded`, that what loops are about to cancel has ended.  Steps are
grouped by what they do (`StepKinds`), so that each part is argued for a few kinds and not for 24 actions.

The hypothesis `[]AtMostOneActive` appears in the theorems as it is: section 5 shows that the server does not
keep it, so that what depends on it holds as long as no batch has named two executions of one job.  The
theorems without it hold regardless.  `StartWaitElapses` and an `"error"` among the `CancelReplies` are
excluded only where TLC shows that the property fails with them.

**LoopsProofs**, of the schedule loop (`Scheduler`, any schedules, jobs, definitions, pages, failures and setbacks of the clock).

| Theorem | Says |
|---|---|
| `SchedulerCorrect`, `SchedulerTypes` | the inductive invariant `SchedulerInv`, and the types |
| `LoopIsNotBusy` | `NoBusyLoop` |
| `TimesAreKept` | `TimesKept` |
| `WithdrawnStaysIdle` | `WithdrawnHasNoJob` |
| `SchedulerCallsBackend`, `SchedulerHistory`, `SchedulerLifecycle` | the loop, users and history implement `BackendSpec`; `OutcomesAreFinal`; `ImplementsLifecycle` |

`TimesKept` needs that what the loop holds stays true while others write: `TimesInv` says that a page shows a time not
before the last job of each schedule *that is stored now* (deletions only help), and that a time in `newJobs`
is an interval after all stored jobs.  The step from one to the other is `Decide`, where the lemmas about
`next_execution_time` (`ScheduleTimesProofs`) are used; that nobody else adds a job to a schedule in the
meantime is the claim of `add_jobs`.  `HandledInv` says that whatever was read in a round is in hand, over or
counted as unhandled; `StoppedInv` that a stop is for good, so that a page read before cannot undo it.
That jobs are added in the order of their ids to the schedules of the page (`InOrder`, `Greatest`) is proved by
counting (`RankOnto`).

**LoopsProofs**, of the wake-ups (`Notifications`, any executions, types, limits, polls, checks and backoffs):
`SleepsCorrect`, that is `SleepsWhileIdle`, if no time passes during a pass (`~SlowPasses`; section 5 shows
that a slow one may miss the end of a backoff).  `ReadyIsOffered` speaks of a moment at which the loop sleeps,
and what it rests on was done in the pass before and while it was going to sleep.  The invariant has
`RefusedInv`, that what was refused is still refused until `executor_available` is notified or the
next check is due; `PollInv`, that the poll ends before anything is due that was not refused, or somebody is
yet to notify; and for `NoSpin`, `QuietInv`, that as long as nothing has happened since a pass began it has seen all that is
due and no flag is set.  `OfferIs` is what `try_offer` leaves: an execution that is left pending has a queue
that is full or backs off, which counts what was held and what is given.

**LoopsProofs**, of the backoffs (`Backoff`, any widths, policies and numbers of attempts): `DelaysCorrect`,
that is `DelaysAreRight`.  Where a `u32` or a `Duration` overflows the operations saturate, elsewhere they are exact; as a
maximum is never above a width, the delay is the least of the exact product and of the maxima
(`SaturatingIs`, `RetryBackoffIs`).  A counter of rejections that stays at `u32::MAX` is no flaw because
the backoff is at its maximum long before (`RejectionsDouble`).  That `Pow2` doubles and exceeds its exponent, so that it
overflows every width in the end, is induction over numbers; it is argued by the least counterexample
(`LeastNatural`), also that a function with this definition exists (`Pow2Is`).

**ScheduleTimesProofs** (any schedule, any clock): `SkipMissedIsEarliest`, that the rounded division
finds the least regular time that is not in the past; and `NextIsAfterLast`, that a next time is after the last
one.

**RequestsProofs**, of times (`MCScheduleTimes`), `TimesRight`: `TimesAreRight`, for all inputs: the result is the
earliest valid time after the last one, or there is none in range.  The least match
of a cron expression exists by well-ordering (`LeastNatural`).

**RequestsProofs**, of transactions (`PgTransactions`, any number of transactions of each kind, any rows):
`RowsMatch`, that the committed rows agree and no conditional call adds a second job; and `TransactionsCorrect`,
`TransactionsAgree`, if executions are retried at most once (`OneRetry`).  That is what the comment on the
repeated update of `cancel_jobs` supposes (`ora-backend-postgres/src/query/jobs.rs:72`: "The update is repeated
once"); with a second retry between the two updates TLC finds an execution that outlives the cancellation
of its job.  The invariant says who holds which row: what a transaction has written nobody else has, so a commit finds
the rows as its statements left them (`RowsHeld`), and what it inserts is new (`RowsInserted`).  `CancelHolds` follows a
cancellation from its first statement, which finds each active execution of its jobs or loses it to a retry, to the second,
which finds the retry's.

**RequestsProofs**, of definitions (`WireFormat`, any requests that the library or others may send, any widths and number
of additions): `MeaningCorrect`, that is `MeaningIsKept`.  It assumes of the constants that the longest supported interval
is shorter than the longest duration of the wire, that `Absent` is no value of a field, and that requests have the shapes of
the library's and the wire's types; which values and labels they hold, and how often, is free.  The operators come first: `AddAll`
keeps the first label of each key (`AddAllIs`), a definition that is accepted is read as it was written (`WrittenJobIs`,
`WrittenScheduleIs`), and what is stored is listed and read as it is (`ListedJobIs`, `ListedScheduleIs`).  `MeaningIsKept`
compares a request that may be sent again with what is stored, so its invariant `WireInv` follows one: the request is what the
caller wrote (`RequestAgrees`), what it added is behind the rest (`AddedAgree`), and after a list only copies of
what was listed are added (`ListedAgree`), so that the store always holds a number of whole requests.

**ServerShutdownProofs** (any executors, executions and number of attempts, with a backend that may be down):
`ShutdownCorrect`, that is `ShutdownInv`.  Its parts look at the end only, and say nothing of how one gets there.
`StoppingInv` adds the order in which a loop looks around (`EndsInOrder`: when it looks at its channel the
executors are gone, and who is gone sends nothing) and where an execution is between its acceptance and its end
(`NothingLost`: held by the executor that accepted it, reported, in the batch of the events loop, or given up).

**ClientProofs**, of sessions (`ExecutorSession`, any executions, connections, slots, late answers and numbers
of messages on their way): `SessionCorrect`, that is `SidesAgree`.  The invariant `SessionInv` relates what the server
holds of an execution to what the executor does with it by the messages between them, in their order (`SidesMatch`): a run
that is not to be cancelled has its acceptance on the way, or the server counts on it; unless answers are late, nothing is on the
way that would let the executor drop an offer the server waits for, and what it has accepted runs until its
result is on the way.  That the connections before the current one are down (`LinksFollowMain`) and that all of them share
the slots (`SlotBound`) needs no messages.

**ClientProofs**, of wait groups (`WaitGroup`, any number of guards): `WakeupsAreNotLost`, `GroupIsDone`,
`GuardsAreCounted`.  `NoLostWakeup` is not inductive.  It is strengthened by `Mutex`, that
between check and registration the mutex is held and some guard is counted, and by `Awake`, the
property for waiters that have registered.  `NobodyLeftBehind` follows from the counting in `WaitGroupTypeOK`.

**ClientProofs**, of handles (`JobHandle`, any number of attempts, either strategy of caching): `ResultCorrect`, that
is `ResultIsRight`.  What has ended stays as it is or is deleted (`JobEnds`), so whoever has seen the end has seen the last
execution; and a client that caches holds on to it before it takes the result (`EndIsSeen`).

**TuiProofs** (any filters, types, lengths of listings, rows and forms).  `TablesCorrect`, that is `AnswersInPlace`:
a live request asks for the first page of a table or for the one after those that have come, with the filters the table has now
(`TablesInv`).  The methods of `App` are operators; a lemma says of each that it keeps the invariant, so that the handlers,
which compose methods, keep it too.  `ViewsCorrect`, the types and `JobsOfDetail`, for all users.  `DialogsCorrect`, that is
`DialogsAgree`, for users as in the run (`~LeavesForm`, `~Modified`): `PromptInv` adds that while a form waits for its
answer there is nothing to confirm, and only one creation.  `EditsCorrect`, that is `EditsAreRight`, for any fields and
lengths of texts: every method of `Form` keeps `EditorOK` (types, the caret in its text, no empty row) and is `Local`, which is
`EditsLocally` of the fields before and after.  That words are deleted whole is an induction on the characters `pop_char` has
removed: after n of them the text lacks the n characters before the caret (`Cut`), and its row is there until the last.
The assumption, `FieldsAssumption`, is that a form has two fields or more; every form of the code has.

Model-checked only:

- Liveness: `ResultsApplied`, `OrphansEnd`, `WaitsEnd`, `PendingIsHandled`, `NoTimeIsLost`, `OfferIsAnswered`,
  `ExecutorStops`, `ServerStops`.  Fairness and `ENABLED` are out of the prover's reach.
- `PagesAreOneListing`, `FiltersAreMeant`: pages are sorted sequences; that sorting a set lists it would
  need induction over data.
- `CopiesAgree`: `TuiCopies` follows references within a schema by a `RECURSIVE` operator, which theorems cannot reach.

## 7. What is not modelled

- *Time in `Server`.*  Timeouts, offers' expiry and backoffs may happen at any moment there.  Their
  arithmetic is in `Backoff`, the sleeps in `Notifications`, target times in `Scheduler`.
- *Payloads and outputs* are not looked at, except by `TuiCopies`.  `Server` and `ExecutorPool` have one
  job type and one queue for each executor; `Notifications` has two types.
- *The order of pages of ready executions* (priority, target time) does not matter to the pool.
- *Executors that connect while the server shuts down*: `ServerShutdown` starts with those there are.
- *Heartbeats*: the end of a connection may happen at any moment.
- *Job types, the executors' list, metrics*: written through or only read; no other component depends
  on them.
- *Postgres connections and migrations*, the pool of connections, TLS: outside of the code's own logic.
- *Rendering*, parsing of typed values (numbers, durations, cron expressions, JSON).
- *The CLI's commands* other than `jobs wait`, which send one request each and print its answer (the filters by
  target time look swapped: the one for *after* is sent as the end of the range, `ora-cli/src/commands/jobs.rs:269`);
  `ora-ui` (assets), `ora-bench`, `ora-macros`, generated protobuf code, the backends' test suite.
- *The library's schedule handle* only fetches.

Hazards no property covers: that `cancel_jobs` is committed and reported as failed
(`ora-server/src/grpc/admin.rs:190`): the handler returns before it tells the pool, and the executor goes on with a
job that is cancelled.  `FinishedIsWithdrawn` is checked without this error (`CancelReplies = {"ok"}`), and
does not hold with it; `RunningIsTracked` is checked with it.

## 8. Plan

Done: the stored state, its contract and its transactions; the pool; the loops with crashes; the schedule
loop; shutdown; the executor's session; listings, conversions and the terminal interface.  Proved: the
safety of all of these but the listings and the copies.

Left, in this order:

1. Theorems about what filters mean (`FiltersAreMeant`).
2. Executors that connect during a shutdown.
