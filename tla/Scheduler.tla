----------------------------- MODULE Scheduler -----------------------------
(***************************************************************************)
(* The schedule loop of the server, with the backend it works on: pages of *)
(* pending schedules, the time of each one's next job, the jobs added and  *)
(* the schedules stopped.  Around it: time, jobs that end, users who add,  *)
(* stop and cancel, and the deletion of history.                           *)
(*                                                                         *)
(* Every backend call of the loop may fail, applied or not.  The way an    *)
(* execution takes to its result is Server's part: here a job that is due  *)
(* ends in one step.                                                       *)
(***************************************************************************)
EXTENDS Backend, ScheduleTimes

CONSTANTS
  Defs,        \* the definitions each schedule may be created with
  PageSize,    \* schedules in a page of pending_schedules (1000 in the code)
  MaxErrors,   \* bound of the number of failing backend calls
  MaxSetbacks, \* bound of the number of times the clock is set back
  Deletions    \* is history deleted?

ASSUME SchedulerAssumption ==
  /\ Jobs \subseteq Nat /\ Schedules \subseteq Nat  \* ids (UUIDv7) grow with time
  /\ IsFiniteSet(Jobs) /\ IsFiniteSet(Schedules)
  /\ Executions = Jobs                             \* a job's only execution has its number
  /\ PageSize \in Nat \ {0} /\ MaxErrors \in Nat /\ MaxSetbacks \in Nat
  /\ Deletions \in BOOLEAN

ASSUME DefsAssumption == \A s \in Schedules : Defs[s] \subseteq Definitions(Nat, SUBSET Times)

VARIABLES
  clock,     \* SystemTime::now
  setbacks,  \* how often the clock was set back
  target,    \* ora.job.target_execution_time
  def,       \* the definition of a schedule
  pc,        \* the loop: read, decide, add, stop, wait
  cursor,    \* last_schedule_id of pending_schedules
  page,      \* pending_schedules: the target of each one's last job
  newJobs,   \* the next time of schedules that get a job
  over,      \* stop_scheduling_ids
  unhandled, \* unhandled_schedules
  seen,      \* read in this round of the loop, and pending ever since
  errors,    \* how many calls have failed
  stopping,  \* stop_schedules of the admin API: stopped, jobs not cancelled yet
  withdrawn  \* schedules a user has stopped together with their active job

loopVars == <<pc, cursor, page, newJobs, over, unhandled, seen, errors>>
userVars == <<stopping, withdrawn>>
vars     == <<backendVars, clock, setbacks, target, def, loopVars, userVars>>

EmptyMap == [s \in {} |-> NoTime]

\* The types, and: the loop adds jobs only for times that can be represented, and does
\* not stop a schedule it adds a job to.
SchedulerTypeOK ==
  /\ BackendTypeOK
  /\ clock \in Times /\ setbacks \in 0..MaxSetbacks
  /\ target \in [Jobs -> Times \cup {NoTime}]
  /\ \A s \in Schedules : def[s] \in Defs[s] \cup {None}
  /\ pc \in {"read", "decide", "add", "stop", "wait"}
  /\ cursor \in Schedules \cup {None}
  /\ DOMAIN page \subseteq Schedules /\ DOMAIN newJobs \subseteq Schedules
  /\ \A s \in DOMAIN newJobs : newJobs[s] \in Times
  /\ over \subseteq Schedules /\ over \cap DOMAIN newJobs = {}
  /\ unhandled \in BOOLEAN /\ errors \in 0..MaxErrors
  /\ seen \subseteq Schedules /\ stopping \subseteq Schedules /\ withdrawn \subseteq Schedules

SchedulerInit ==
  /\ BackendInit
  /\ clock = 0 /\ setbacks = 0
  /\ target = [j \in Jobs |-> NoTime]
  /\ def = [s \in Schedules |-> None]
  /\ pc = "read" /\ cursor = None /\ page = EmptyMap /\ newJobs = EmptyMap /\ over = {}
  /\ unhandled = FALSE /\ seen = {} /\ errors = 0
  /\ stopping = {} /\ withdrawn = {}

-----------------------------------------------------------------------------
(* The loop *)

JobsOfSchedule(s) == {j \in Jobs : jobSchedule[j] = s}
Greatest(S) == CHOOSE j \in S : \A i \in S : i <= j

\* Mutant: the job with the least id.
LastTarget_first(s) ==
  LET left == {j \in JobsOfSchedule(s) : jobStatus[j] # "deleted"}
  IN  IF left = {} THEN NoTime ELSE target[CHOOSE j \in left : \A i \in left : j <= i]

\* last_target_execution_time: of the job with the greatest id that is left.
LastTarget(s) ==
  LET left == {j \in JobsOfSchedule(s) : jobStatus[j] # "deleted"}
  IN  IF left = {} THEN NoTime ELSE target[Greatest(left)]

\* The next page: the first PageSize pending schedules after the cursor.
NextPage ==
  LET rest == {s \in PendingSchedules : cursor # None => s > cursor}
  IN  {s \in rest : Cardinality({r \in rest : r < s}) < PageSize}

\* What a call that changes the backend leaves of seen.
StillSeen == seen' = seen \cap PendingSchedules'

CallFails == errors < MaxErrors /\ errors' = errors + 1

ReadPage ==
  /\ pc = "read"
  /\ page' = [s \in NextPage |-> LastTarget(s)]
  /\ seen' = seen \cup NextPage
  /\ cursor' = IF NextPage = {} THEN cursor ELSE Greatest(NextPage)
  /\ pc' = IF NextPage = {} THEN "wait" ELSE "decide"
  /\ UNCHANGED <<backendVars, clock, setbacks, target, def, newJobs, over, unhandled, errors, userVars>>

\* The stream of pages ends with the first error.
ReadFails ==
  /\ pc = "read"
  /\ CallFails
  /\ pc' = "wait" /\ unhandled' = TRUE
  /\ UNCHANGED <<backendVars, clock, setbacks, target, def, cursor, page, newJobs, over, seen, userVars>>

\* Mutant: a schedule whose time cannot be determined does not count.
Unhandled_never(times) == unhandled

\* Schedules with an error stay pending.
Unhandled(times) == unhandled \/ \E s \in DOMAIN times : times[s] = Error

\* Mutant: nothing is done for a page with an error.
Decide_allOrNothing ==
  /\ pc = "decide"
  /\ LET times == [s \in DOMAIN page |-> NextTime(def[s], page[s], clock)]
         ended == {s \in DOMAIN page : IsOver(def[s], times[s])}
         again == {s \in DOMAIN page \ ended : times[s] # Error}
         clean == again = DOMAIN page \ ended
     IN  /\ over' = IF clean THEN ended ELSE {}
         /\ newJobs' = [s \in IF clean THEN again ELSE {} |-> times[s]]
         /\ unhandled' = Unhandled(times)
  /\ page' = EmptyMap
  /\ pc' = "add"
  /\ UNCHANGED <<backendVars, clock, setbacks, target, def, cursor, seen, errors, userVars>>

\* now, and the next time of every schedule of the page.
Decide ==
  /\ pc = "decide"
  /\ LET times == [s \in DOMAIN page |-> NextTime(def[s], page[s], clock)]
         ended == {s \in DOMAIN page : IsOver(def[s], times[s])}
         again == {s \in DOMAIN page \ ended : times[s] # Error}
     IN  /\ over' = ended
         /\ newJobs' = [s \in again |-> times[s]]
         /\ unhandled' = Unhandled(times)
  /\ page' = EmptyMap
  /\ pc' = "add"
  /\ UNCHANGED <<backendVars, clock, setbacks, target, def, cursor, seen, errors, userVars>>

\* The new jobs get the next ids, in the order of the page.
NewIds(n) ==
  LET next == {j \in Jobs : \A i \in Jobs \ FreshJobs : i < j}
  IN  {j \in next : Cardinality({i \in next : i < j}) < n}
InOrder(ids, ss) ==
  [j \in ids |-> CHOOSE s \in ss : Cardinality({r \in ss : r < s})
                                   = Cardinality({i \in ids : i < j})]

\* add_jobs for the schedules ss of the page.
AddPageJobs(ss) ==
  LET ids   == NewIds(Cardinality(ss))
      sched == InOrder(ids, ss)
  IN  /\ Cardinality(ids) = Cardinality(ss)
      /\ AddJobs(sched)
      /\ \A x \in Executions : execJob'[x] \in {None, x}
      /\ target' = [j \in Jobs |-> IF j \in ids /\ jobStatus'[j] = "active"
                                   THEN newJobs[sched[j]] ELSE target[j]]

Add ==
  /\ pc = "add"
  /\ IF DOMAIN newJobs = {} THEN UNCHANGED <<backendVars, target>>
     ELSE AddPageJobs(DOMAIN newJobs)
  /\ newJobs' = EmptyMap
  /\ pc' = "stop"
  /\ StillSeen
  /\ UNCHANGED <<clock, setbacks, def, cursor, page, over, unhandled, errors, userVars>>

\* A failed call may have added the jobs or not.
AddFails ==
  /\ pc = "add" /\ DOMAIN newJobs # {}
  /\ CallFails
  /\ AddPageJobs(DOMAIN newJobs) \/ UNCHANGED <<backendVars, target>>
  /\ newJobs' = EmptyMap
  /\ unhandled' = TRUE
  /\ pc' = "stop"
  /\ StillSeen
  /\ UNCHANGED <<clock, setbacks, def, cursor, page, over, userVars>>

Stop ==
  /\ pc = "stop"
  /\ StopSchedules(over)
  /\ over' = {}
  /\ pc' = "read"
  /\ StillSeen
  /\ UNCHANGED <<clock, setbacks, target, def, cursor, page, newJobs, unhandled, errors, userVars>>

StopFails ==
  /\ pc = "stop" /\ over # {}
  /\ CallFails
  /\ StopSchedules(over) \/ UNCHANGED backendVars
  /\ over' = {}
  /\ unhandled' = TRUE
  /\ pc' = "read"
  /\ StillSeen
  /\ UNCHANGED <<clock, setbacks, target, def, cursor, page, newJobs, userVars>>

NextRound ==
  /\ pc' = "read" /\ cursor' = None /\ unhandled' = FALSE /\ seen' = {}
  /\ UNCHANGED <<backendVars, clock, setbacks, target, def, page, newJobs, over, errors, userVars>>

\* wait_for_pending_schedules, only if every schedule was handled.
WakePending == pc = "wait" /\ ~unhandled /\ PendingSchedules # {} /\ NextRound

\* The periodic check.
WakeTimer == pc = "wait" /\ NextRound

-----------------------------------------------------------------------------
(* Jobs, users, history, time *)

\* A job of a schedule ends: it was due, or is cancelled by a user.
JobEnds(j) ==
  /\ jobStatus[j] = "active" /\ target[j] <= clock
  /\ ExecutionsSucceeded(CancelledBy({j}))
  /\ StillSeen
  /\ UNCHANGED <<clock, setbacks, target, def, pc, cursor, page, newJobs, over, unhandled, errors, userVars>>

JobCancelled(j) ==
  /\ jobStatus[j] = "active"
  /\ CancelJobs({j})
  /\ StillSeen
  /\ UNCHANGED <<clock, setbacks, target, def, pc, cursor, page, newJobs, over, unhandled, errors, userVars>>

\* add_schedules, after validate_schedule.
ScheduleAdded(s, d) ==
  /\ Valid(d, clock)
  /\ AddSchedules({s}) /\ schedStatus[s] = "absent"
  /\ def' = [def EXCEPT ![s] = d]
  /\ StillSeen
  /\ UNCHANGED <<clock, setbacks, target, pc, cursor, page, newJobs, over, unhandled, errors, userVars>>

\* stop_schedules of the admin API, with cancel_active_jobs: two transactions.
UserStops(s) ==
  /\ schedStatus[s] = "active" /\ stopping = {}
  /\ StopSchedules({s})
  /\ stopping' = {s}
  /\ StillSeen
  /\ UNCHANGED <<clock, setbacks, target, def, pc, cursor, page, newJobs, over, unhandled, errors, withdrawn>>

UserCancels ==
  /\ stopping # {}
  /\ CancelJobs({j \in Jobs : jobSchedule[j] \in stopping /\ jobStatus[j] # "deleted"})
  /\ withdrawn' = withdrawn \cup stopping
  /\ stopping' = {}
  /\ StillSeen
  /\ UNCHANGED <<clock, setbacks, target, def, pc, cursor, page, newJobs, over, unhandled, errors>>

\* The second call fails: the handler gives up.
UserCancelFails ==
  /\ stopping # {}
  /\ CallFails
  /\ stopping' = {}
  /\ UNCHANGED <<backendVars, clock, setbacks, target, def, pc, cursor, page, newJobs, over,
                 unhandled, seen, withdrawn>>

\* The jobs of s that ended up to j: history is deleted by age.
EndedUpTo(j) == {i \in JobsOfSchedule(jobSchedule[j]) : i <= j}

HistoryDeleted ==
  /\ Deletions
  /\ \/ \E j \in Deletable : DeleteJobs(EndedUpTo(j) \cap Deletable)
     \/ \E s \in Schedules : schedStatus[s] = "stopped" /\ DeleteSchedules({s})
  /\ StillSeen
  /\ UNCHANGED <<clock, setbacks, target, def, pc, cursor, page, newJobs, over, unhandled, errors, userVars>>

ClockAdvances ==
  /\ clock < MaxTime
  /\ clock' = clock + 1
  /\ UNCHANGED <<backendVars, setbacks, target, def, loopVars, userVars>>

ClockSetBack ==
  /\ setbacks < MaxSetbacks /\ clock > 0
  /\ clock' = clock - 1
  /\ setbacks' = setbacks + 1
  /\ UNCHANGED <<backendVars, target, def, loopVars, userVars>>

Loop ==
  \/ ReadPage \/ ReadFails \/ Decide \/ Add \/ AddFails \/ Stop \/ StopFails
  \/ WakePending \/ WakeTimer

Environment ==
  \/ \E j \in Jobs : JobEnds(j) \/ JobCancelled(j)
  \/ \E s \in Schedules : UserStops(s) \/ \E d \in Defs[s] : ScheduleAdded(s, d)
  \/ UserCancels \/ UserCancelFails
  \/ HistoryDeleted
  \/ ClockAdvances \/ ClockSetBack

SchedulerSpec == SchedulerInit /\ [][Loop \/ Environment]_vars

\* The loop goes on: its calls do not fail for ever, and its timer fires.  Jobs
\* that are due end, and time passes.  Nothing is assumed of users.
Fairness ==
  /\ WF_vars(ReadPage \/ Decide \/ Add \/ Stop \/ WakeTimer)
  /\ WF_vars(\E j \in Jobs : JobEnds(j))
  /\ WF_vars(ClockAdvances)

FairSchedulerSpec == SchedulerSpec /\ Fairness

-----------------------------------------------------------------------------
(* Properties *)

\* After a round that handled everything no schedule it has read is still
\* pending: wait_for_pending_schedules, which returns at once when there is a
\* pending schedule, never turns the loop into a busy loop (unhandled_schedules).
NoBusyLoop == (pc = "wait" /\ ~unhandled) => seen \cap PendingSchedules = {}

\* "The interval between each job": the jobs of an interval schedule are at
\* least an interval apart, whatever the clock does, whichever jobs are
\* cancelled early and whichever calls of the loop fail after being applied.
\* It is said of jobs that are stored together: after its last job was deleted
\* an immediate schedule starts over.
IntervalApart ==
  \A i, j \in {k \in Jobs : jobStatus[k] # "deleted"} :
    (i < j /\ jobSchedule[i] # None /\ jobSchedule[i] = jobSchedule[j]) =>
      LET policy == def[jobSchedule[i]].policy
      IN  target[j] >= target[i] + (IF policy.kind = "interval" THEN policy.interval ELSE 1)

\* A schedule has no job outside of its time range, also when it is stopped late.
InTimeRange ==
  \A j \in Jobs : jobSchedule[j] # None =>
    LET d == def[jobSchedule[j]]
    IN  (d.start # NoTime => target[j] >= d.start) /\ (d.end # NoTime => target[j] < d.end)

\* The jobs of a schedule keep their distance and its range.
TimesKept == IntervalApart /\ InTimeRange

\* A schedule stopped together with its active job has no active job ever
\* after, although the loop may hold a page that was read before, and the two
\* calls are not one transaction (stop_schedules of the admin API).
WithdrawnHasNoJob ==
  \A s \in withdrawn : \A j \in JobsOfSchedule(s) : jobStatus[j] # "active"

\* Every schedule that needs a job gets one, or is stopped, however many calls
\* fail before, and whatever other schedules there are; unless its next time
\* cannot be represented.
PendingIsHandled ==
  \A s \in Schedules :
    s \in PendingSchedules ~> (s \notin PendingSchedules \/ NextTime(def[s], LastTarget(s), clock) = Error)

\* u is a regular time of d after its regular time t.
Follows(u, t, d) ==
  /\ d.policy.kind = "interval" /\ d.missed = "create"
  /\ u > t /\ (u - t) % d.policy.interval = 0
  /\ d.end # NoTime => u < d.end

\* s has had a job for a regular time, and there is none for a later one.
Behind(s) ==
  LET had == {target[j] : j \in JobsOfSchedule(s)}
  IN  /\ schedStatus[s] = "active"
      /\ \E t \in had, u \in Times \ had : Follows(u, t, def[s])

\* "Create jobs for missed execution times": once a schedule has its first job,
\* all later times of its range get one, unless a user stops it.
NoTimeIsLost == \A s \in Schedules : Behind(s) ~> ~Behind(s)
=============================================================================
