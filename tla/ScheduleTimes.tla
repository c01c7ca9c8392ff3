--------------------------- MODULE ScheduleTimes ---------------------------
(***************************************************************************)
(* When the next job of a schedule is to be executed, as the schedule loop *)
(* of the server determines it (next_execution_time), and what the loop    *)
(* does with the schedule then.                                            *)
(*                                                                         *)
(* A time is a natural number of ticks.  A cron expression is the set of   *)
(* times it matches; cronexpr finds the first of them after a given time.  *)
(***************************************************************************)
EXTENDS Integers

CONSTANTS
  NoTime,   \* no time: an open end, no job yet, no more execution times
  Error,    \* the time of a schedule cannot be determined
  MaxTime   \* the last time jiff::Timestamp can represent

ASSUME MaxTimeAssumption == MaxTime \in Nat
ASSUME NoTimeAssumption == NoTime \notin Int /\ Error \notin Int /\ NoTime # Error

Times == 0..MaxTime

\* The scheduling policy and time range of a schedule.
Definitions(intervals, crons) ==
  [ policy : [kind : {"interval"}, interval : intervals]
             \cup [kind : {"cron"}, matches : crons],
    immediate : BOOLEAN,
    missed : {"skip", "create"},
    start : Times \cup {NoTime},
    end : Times \cup {NoTime} ]

-----------------------------------------------------------------------------

\* u128::div_ceil
DivCeil(a, b) == (a + b - 1) \div b

\* add_time, to_timestamp: the result must be in the supported range.
InRange(t) == IF t <= MaxTime THEN t ELSE Error

\* Mutant: the number of missed intervals is rounded down.
SkipMissed_floor(next, interval, now) ==
  IF now < next THEN next
  ELSE InRange(next + ((now - next) \div interval) * interval)

\* The regular time next, or the first one after it that is not before now.
SkipMissed(next, interval, now) ==
  IF now < next THEN next
  ELSE InRange(next + DivCeil(now - next, interval) * interval)

\* Mutant: missed times are always skipped.
NextInterval_skips(interval, s, last, now) ==
  IF interval = 0 THEN Error
  ELSE IF last = NoTime THEN InRange(IF s.immediate THEN now ELSE now + interval)
  ELSE IF last + interval > MaxTime THEN Error
  ELSE SkipMissed(last + interval, interval, now)

\* Mutant: the sum is not checked.
NextInterval_unchecked(interval, s, last, now) ==
  IF interval = 0 THEN Error
  ELSE IF last = NoTime THEN InRange(IF s.immediate THEN now ELSE now + interval)
  ELSE IF s.missed = "create" THEN last + interval
  ELSE SkipMissed(last + interval, interval, now)

\* The next time of an interval schedule whose last job was for time last.
NextInterval(interval, s, last, now) ==
  IF interval = 0 THEN Error
  ELSE IF last = NoTime THEN InRange(IF s.immediate THEN now ELSE now + interval)
  ELSE IF last + interval > MaxTime THEN Error
  ELSE IF s.missed = "create" THEN last + interval
  ELSE SkipMissed(last + interval, interval, now)

\* find_next_cron: NoTime if the expression has no match after t.
FindNext(matches, t) ==
  IF \E u \in matches : u > t
  THEN CHOOSE u \in matches : u > t /\ \A v \in matches : v > t => u <= v
  ELSE NoTime

Later(t, u) == IF t < u THEN u ELSE t

\* The next time of a cron schedule; it is after the last one even if the
\* clock is behind.
NextCron(matches, s, last, now) ==
  IF InRange(now) = Error THEN Error
  ELSE IF last = NoTime THEN IF s.immediate THEN now ELSE FindNext(matches, now)
  ELSE FindNext(matches, IF s.missed = "create" THEN last ELSE Later(last, now))

\* Before the start of its time range, a schedule is handled ahead of time.
From(s, now) == IF s.start # NoTime THEN Later(now, s.start) ELSE now

\* next_execution_time: a time, NoTime if there are no more, or Error.
NextTime(s, last, now) ==
  IF s.policy.kind = "interval"
  THEN NextInterval(s.policy.interval, s, last, From(s, now))
  ELSE NextCron(s.policy.matches, s, last, From(s, now))

\* The loop stops a schedule without a next time, or with one past its end.
IsOver(s, t) == t = NoTime \/ (s.end # NoTime /\ t # Error /\ t >= s.end)

\* validate_schedule: new schedules must have a first regular time.
Valid(s, now) == NextTime([s EXCEPT !.immediate = FALSE], NoTime, now) \in Times
=============================================================================
