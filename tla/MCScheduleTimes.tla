-------------------------- MODULE MCScheduleTimes --------------------------
(***************************************************************************)
(* next_execution_time for every small input: a schedule, the time of its  *)
(* last job and the time of day.  A state is an input; the clock goes on.  *)
(***************************************************************************)
EXTENDS ScheduleTimes, FiniteSetsExt

CONSTANTS
  Intervals, \* intervals of the schedules tried
  Crons,     \* sets of matching times of the cron expressions tried
  Ends       \* start and end times tried

ASSUME InputsAssumption ==
  Intervals \subseteq Nat /\ Crons \subseteq SUBSET Times /\ Ends \subseteq Times \cup {NoTime}

VARIABLES schedule, last, now
vars == <<schedule, last, now>>

Init ==
  /\ schedule \in Definitions(Intervals, Crons)
  /\ schedule.start \in Ends /\ schedule.end \in Ends
  /\ last \in Times \cup {NoTime}
  /\ now = 0

Tick ==
  /\ now < MaxTime
  /\ now' = now + 1
  /\ UNCHANGED <<schedule, last>>

\* The clock stops at the end of time.
End == now = MaxTime /\ UNCHANGED vars

Spec == Init /\ [][Tick \/ End]_vars

-----------------------------------------------------------------------------

NextJobTime == NextTime(schedule, last, now)

\* The regular times after the last job, as the policy defines them.
RegularTimes ==
  IF schedule.policy.kind = "interval"
  THEN {u \in Times : u > last /\ (u - last) % schedule.policy.interval = 0}
  ELSE {u \in schedule.policy.matches : u > last}

\* A time a job is created for when missed times are skipped: an interval
\* schedule may be exactly on time, a cron schedule is after now.
NotMissed(u) ==
  \/ schedule.missed = "create"
  \/ u > From(schedule, now)
  \/ u = From(schedule, now) /\ schedule.policy.kind = "interval"

\* next_execution_time is the earliest regular time that is to be executed:
\* no time is left out unless it was missed, and none comes twice.
EarliestRegularTime ==
  (last # NoTime /\ schedule.policy # [kind |-> "interval", interval |-> 0]) =>
    LET due == {u \in RegularTimes : NotMissed(u)}
    IN  IF due # {} THEN NextJobTime = Min(due) ELSE NextJobTime \in {NoTime, Error}

\* Whatever the clock does, the next job of a schedule is after its last one,
\* so that a time is never scheduled twice (next_execution_time, Cron, Skip).
AfterLast == (last # NoTime /\ NextJobTime \in Times) => NextJobTime > last

\* A schedule that validate_schedule accepts has a first job, not before the
\* start of its time range, as long as it has not run out of times since.
FirstTimeValid ==
  (last = NoTime /\ Valid(schedule, now)) =>
    /\ NextJobTime \in Times
    /\ schedule.start # NoTime => NextJobTime >= schedule.start

\* The time of the next job: regular, the earliest that is due, after the last.
TimesAreRight == EarliestRegularTime /\ AfterLast /\ FirstTimeValid
=============================================================================
