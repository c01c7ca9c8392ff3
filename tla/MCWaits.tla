------------------------------ MODULE MCWaits ------------------------------
(***************************************************************************)
(* What is waited for comes: the last guard of a wait group, the result of *)
(* a job, the jobs of a schedule.                                          *)
(*                                                                         *)
(* These parts share no state.  A behaviour is one of a single part, while *)
(* the others rest in an initial state.                                    *)
(***************************************************************************)
EXTENDS WaitGroup, JobHandle

CONSTANTS NoTime, Error

VARIABLES
  part,                \* which part is not at rest
  \* Scheduler
  jobStatus, jobSchedule, execStatus, execJob, execExecutor, schedStatus, activeJob,
  clock, setbacks, target, def, pc, cursor, page, newJobs, over, unhandled, seen, errors,
  stopping, withdrawn

scheduleVars == <<jobStatus, jobSchedule, execStatus, execJob, execExecutor, schedStatus,
                  activeJob, clock, setbacks, target, def, pc, cursor, page, newJobs, over,
                  unhandled, seen, errors, stopping, withdrawn>>

\* An interval whose missed times are created until they cannot be represented,
\* and a cron expression whose times run out.
Every(immediate) ==
  [policy |-> [kind |-> "interval", interval |-> 1], immediate |-> immediate,
   missed |-> "create", start |-> NoTime, end |-> NoTime]
Once == [policy |-> [kind |-> "cron", matches |-> {1}], immediate |-> FALSE,
         missed |-> "skip", start |-> NoTime, end |-> NoTime]

\* Both on one page.
Pair == INSTANCE Scheduler WITH
  None <- Nothing, Jobs <- 1..4, Executions <- 1..4, Schedules <- {1, 2}, OneFailurePerJob <- TRUE,
  MaxTime <- 2, Defs <- [s \in {1, 2} |-> {IF s = 1 THEN Every(FALSE) ELSE Once}],
  Executors <- {"e"}, PageSize <- 2, MaxErrors <- 1, MaxSetbacks <- 0, Deletions <- FALSE

\* One alone, whose time 1 may be missed.
Single == INSTANCE Scheduler WITH
  None <- Nothing, Jobs <- 1..4, Executions <- 1..4, Schedules <- {1, 2}, OneFailurePerJob <- TRUE,
  MaxTime <- 2, Defs <- [s \in {1, 2} |-> IF s = 1 THEN {Every(TRUE)} ELSE {}],
  Executors <- {"e"}, PageSize <- 2, MaxErrors <- 1, MaxSetbacks <- 0, Deletions <- FALSE

WaitsInit ==
  /\ part \in {"group", "handle", "pair", "single"}
  /\ Init /\ HandleInit /\ Pair!SchedulerInit
  /\ part # "handle" => job = <<"Ready">>

InGroup     == part = "group"
InHandle    == part = "handle"
InSchedules == part \in {"pair", "single"}

WaitsNext ==
  /\ UNCHANGED part
  /\ \/ InGroup /\ Next /\ UNCHANGED <<handleVars, scheduleVars>>
     \/ InHandle /\ HandleNext /\ UNCHANGED <<vars, scheduleVars>>
     \/ /\ InSchedules /\ UNCHANGED <<vars, handleVars>>
        /\ \/ Pair!Loop
           \/ part = "pair" /\ Pair!Environment
           \/ part = "single" /\ Single!Environment

-----------------------------------------------------------------------------
(* The fairness of each part (its module states it) while it moves. *)

\* The steps of one thread are never enabled together.
GroupFairness ==
  /\ WF_vars(InGroup /\ (Check \/ Register \/ Repoll))
  /\ \A g \in Guards : WF_vars(InGroup /\ (Wake(g) \/ (waiting /\ RemoveGuard(g))))

SchedulesFairness ==
  /\ WF_scheduleVars(InSchedules /\ (Pair!ReadPage \/ Pair!Decide \/ Pair!Add
                                     \/ Pair!Stop \/ Pair!WakeTimer))
  /\ WF_scheduleVars(InSchedules /\ \E j \in 1..4 : Pair!JobEnds(j))
  /\ WF_scheduleVars(InSchedules /\ Pair!ClockAdvances)

WaitsSpec ==
  /\ WaitsInit /\ [][WaitsNext]_<<part, vars, handleVars, scheduleVars>>
  /\ GroupFairness /\ SchedulesFairness
  /\ WF_handleVars(InHandle /\ ClientStep)

-----------------------------------------------------------------------------
(* The properties of the parts, besides those of WaitGroup and JobHandle *)

\* WaitGroup and JobHandle: waiting for guards and for results comes to an end.
WaitsEnd == WaitEnds /\ ResultIsReturned

\* Scheduler: every schedule that needs a job gets one.
PendingIsHandled == Pair!PendingIsHandled

\* Scheduler: no time of a schedule that creates missed ones is left out.
NoTimeIsLost == Pair!NoTimeIsLost
=============================================================================
