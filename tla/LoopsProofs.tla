---------------------------- MODULE LoopsProofs ----------------------------
(***************************************************************************)
(* Theorems about the loops that hand out work.                            *)
(*                                                                         *)
(* Scheduler, for any jobs, schedules and definitions, any size of pages,  *)
(* any number of failing calls, and a clock set back any number of times.  *)
(* Every step is a call the backend allows, without retries, so that the   *)
(* stored rows keep their invariant (StepCalls).  A step adds the jobs of  *)
(* the page, or adds none and leaves those there are to their schedules    *)
(* and times (StepCases); ids grow, so a new job is the last of its        *)
(* schedule.  With that three parts follow one page each on its way        *)
(* through the loop: the time of a new job is an interval after the last   *)
(* (TimesInv), what was read is added or stopped or counts as unhandled    *)
(* (HandledInv), and a stopped schedule claims no job (StoppedInv).        *)
(*                                                                         *)
(* Notifications, for any executions, types, limits and times.  What a     *)
(* pass refused is still refused until executor_available is notified or   *)
(* the next check is due (RefusedInv), what it did not see is waited for   *)
(* or will be notified (PollInv), and as long as nothing happens nothing   *)
(* wakes the loop (QuietInv).                                              *)
(*                                                                         *)
(* Backoff, for any widths and policies.  Above the largest u32 or the     *)
(* longest Duration the operations saturate, and below they are exact; so  *)
(* a delay is the least of the exact product and the maxima                *)
(* (RetryBackoffIs, RejectionBackoffIs).  That Pow2 doubles follows from   *)
(* its definition by the least counterexample (Pow2Is).                    *)
(***************************************************************************)
EXTENDS Scheduler, Notifications, Backoff, BackendProofs, ScheduleTimesProofs,
        FiniteSetTheorems, FunctionTheorems

(***************************************************************************)
(* The order of ids                                                        *)
(***************************************************************************)

Rank(x, S) == Cardinality({r \in S : r < x})

\* The rank of an element is below the size of the set.
LEMMA RankBelow ==
  ASSUME NEW S \in SUBSET Nat, IsFiniteSet(S), NEW x \in S
  PROVE  Rank(x, S) \in 0..(Cardinality(S) - 1)
<1> DEFINE below == {r \in S : r < x}
<1>1. IsFiniteSet(S \ {x}) /\ Cardinality(S \ {x}) = Cardinality(S) - 1
  BY FS_RemoveElement
<1>2. below \in SUBSET (S \ {x})
  OBVIOUS
<1>3. IsFiniteSet(below) /\ Cardinality(below) <= Cardinality(S \ {x})
  BY <1>1, <1>2, FS_Subset
<1>4. Cardinality(below) \in Nat /\ Cardinality(S) \in Nat
  BY <1>3, FS_CardinalityType
<1> QED
  BY <1>1, <1>3, <1>4 DEF Rank

\* A greater element has a greater rank.
LEMMA RankGrows ==
  ASSUME NEW S \in SUBSET Nat, IsFiniteSet(S), NEW x \in S, NEW y \in S, x < y
  PROVE  Rank(x, S) < Rank(y, S)
<1> DEFINE below == {r \in S : r < y}
<1>1. IsFiniteSet(below)
  BY FS_Subset
<1>2. below \in SUBSET Nat
  OBVIOUS
<1>3. x \in below
  OBVIOUS
<1> HIDE DEF below
<1>4. Rank(x, below) \in 0..(Cardinality(below) - 1)
  BY <1>1, <1>2, <1>3, RankBelow
<1>5. \A r \in S : r < x => r < y
  OBVIOUS
<1>6. {r \in below : r < x} = {r \in S : r < x}
  BY <1>5, Zenon DEF below
<1>7. Cardinality(below) \in Nat
  BY <1>1, FS_CardinalityType
<1> QED
  BY <1>4, <1>6, <1>7 DEF Rank, below

\* Every rank below the number of elements is the rank of exactly one element.
LEMMA RankOnto ==
  ASSUME NEW S \in SUBSET Nat, IsFiniteSet(S), NEW i \in 0..(Cardinality(S) - 1)
  PROVE  \E x \in S : Rank(x, S) = i
<1> DEFINE n == Cardinality(S)
           rank == [x \in S |-> Rank(x, S)]
<1>1. n \in Nat
  BY FS_CardinalityType
<1>2. rank \in [S -> 0..(n - 1)]
  BY RankBelow
<1>3. \A x, y \in S : rank[x] = rank[y] => x = y
  <2> SUFFICES ASSUME NEW x \in S, NEW y \in S, Rank(x, S) = Rank(y, S), x # y PROVE FALSE
    OBVIOUS
  <2>1. x < y \/ y < x
    OBVIOUS
  <2>2. Rank(x, S) < Rank(y, S) \/ Rank(y, S) < Rank(x, S)
    BY <2>1, RankGrows
  <2>3. Rank(x, S) \in Int /\ Rank(y, S) \in Int
    BY <1>1, RankBelow
  <2> QED
    BY <2>2, <2>3
<1>4. IsFiniteSet(0..(n - 1)) /\ Cardinality(0..(n - 1)) = n
  BY <1>1, FS_Interval
<1> HIDE DEF rank
<1>5. rank \in Injection(S, 0..(n - 1))
  BY <1>2, <1>3, Fun_IsInj
<1>6. rank \in Surjection(S, 0..(n - 1))
  BY <1>4, <1>5, FS_Injection
<1>7. \E x \in S : rank[x] = i
  BY <1>6 DEF Surjection
<1> QED
  BY <1>7 DEF rank

\* A nonempty finite set of ids has a greatest member.
LEMMA GreatestIs ==
  ASSUME NEW S \in SUBSET Nat, IsFiniteSet(S), S # {}
  PROVE  Greatest(S) \in S /\ \A i \in S : i <= Greatest(S)
<1>1. Cardinality(S) \in Nat /\ Cardinality(S) # 0
  BY FS_CardinalityType, FS_EmptySet
<1>2. PICK j \in S : Rank(j, S) = Cardinality(S) - 1
  BY <1>1, RankOnto
<1>3. ASSUME NEW i \in S PROVE i <= j
  <2>1. CASE j < i
    <3>1. Rank(j, S) < Rank(i, S) /\ Rank(i, S) \in 0..(Cardinality(S) - 1)
      BY <2>1, RankGrows, RankBelow
    <3> QED
      BY <1>1, <1>2, <3>1
  <2> QED
    BY <2>1
<1> QED
  BY <1>3 DEF Greatest

\* The ids ids, in their order, go to the schedules ss, in theirs.
LEMMA InOrderIs ==
  ASSUME NEW ids \in SUBSET Nat, IsFiniteSet(ids), NEW ss \in SUBSET Nat, IsFiniteSet(ss),
         Cardinality(ids) = Cardinality(ss)
  PROVE  /\ InOrder(ids, ss) \in [ids -> ss]
         /\ \A s \in ss : \E j \in ids : InOrder(ids, ss)[j] = s
<1> DEFINE sched == InOrder(ids, ss)
<1>1. sched = [j \in ids |-> CHOOSE s \in ss : Rank(s, ss) = Rank(j, ids)]
  BY DEF InOrder, Rank
<1>2. ASSUME NEW j \in ids PROVE \E s \in ss : Rank(s, ss) = Rank(j, ids)
  BY RankBelow, RankOnto
<1>3. sched \in [ids -> ss]
  <2>1. ASSUME NEW j \in ids
        PROVE  (CHOOSE s \in ss : Rank(s, ss) = Rank(j, ids)) \in ss
    BY <1>2
  <2> QED
    BY <1>1, <2>1
<1>4. ASSUME NEW s \in ss PROVE \E j \in ids : sched[j] = s
  <2>1. PICK j \in ids : Rank(j, ids) = Rank(s, ss)
    BY RankBelow, RankOnto
  <2>2. \A r \in ss : Rank(r, ss) = Rank(j, ids) => r = s
    <3> SUFFICES ASSUME NEW r \in ss, Rank(r, ss) = Rank(s, ss), r # s PROVE FALSE
      BY <2>1
    <3>1. Rank(r, ss) < Rank(s, ss) \/ Rank(s, ss) < Rank(r, ss)
      BY RankGrows
    <3>2. Rank(r, ss) \in Int /\ Rank(s, ss) \in Int
      BY RankBelow
    <3> QED
      BY <3>1, <3>2
  <2>3. (CHOOSE r \in ss : Rank(r, ss) = Rank(j, ids)) = s
    BY <2>1, <2>2
  <2> QED
    BY <1>1, <2>3
<1> QED
  BY <1>3, <1>4

(***************************************************************************)
(* The time of the next job                                                *)
(***************************************************************************)

\* The least distance of two jobs of a schedule.
Gap(d) == IF d.policy.kind = "interval" THEN d.policy.interval ELSE 1

\* Times are natural numbers, and neither of the two special values.
LEMMA TimesAreNatural == Times \subseteq Nat /\ NoTime \notin Times /\ Error \notin Times
  BY MaxTimeAssumption, NoTimeAssumption DEF Times

\* What a definition of a schedule consists of.
LEMMA DefinitionIs ==
  ASSUME NEW s \in Schedules, NEW d \in Defs[s]
  PROVE  /\ Schedule(d) /\ d.immediate \in BOOLEAN
         /\ d.start \in Times \cup {NoTime} /\ d.end \in Times \cup {NoTime}
         /\ d.policy.kind = "cron" => d.policy.matches \subseteq Times
<1>1. d \in Definitions(Nat, SUBSET Times)
  BY DefsAssumption
<1>2. /\ d.policy \in [kind : {"interval"}, interval : Nat]
                          \cup [kind : {"cron"}, matches : SUBSET Times]
      /\ d.immediate \in BOOLEAN /\ d.missed \in {"skip", "create"}
      /\ d.start \in Times \cup {NoTime} /\ d.end \in Times \cup {NoTime}
  BY <1>1 DEF Definitions
<1>3. /\ d.policy.kind \in {"interval", "cron"}
      /\ d.policy.kind = "interval" => d.policy.interval \in Nat
      /\ d.policy.kind = "cron" => d.policy.matches \in SUBSET Times
  BY <1>2
<1> QED
  BY <1>2, <1>3, TimesAreNatural DEF Schedule

\* next_execution_time returns a time, no time, or an error.
LEMMA NextTimeIs ==
  ASSUME NEW s \in Schedules, NEW d \in Defs[s], NEW previous \in Times \cup {NoTime},
         NEW now \in Times
  PROVE  NextTime(d, previous, now) \in Times \cup {NoTime, Error}
<1> DEFINE from == From(d, now)
<1>1. from \in Nat /\ from >= now
  BY DefinitionIs, FromIsLater, TimesAreNatural
<1> HIDE DEF from
<1>2. \A t \in Nat : InRange(t) \in Times \cup {Error}
  BY MaxTimeAssumption DEF InRange, Times
<1>3. CASE d.policy.kind = "interval"
  <2> DEFINE interval == d.policy.interval
  <2>1. interval \in Nat /\ NextTime(d, previous, now) = NextInterval(interval, d, previous, from)
    BY <1>3, DefinitionIs DEF NextTime, Schedule, from
  <2> HIDE DEF interval
  <2>2. CASE previous = NoTime
    BY <1>1, <1>2, <2>1, <2>2, TimesAreNatural DEF NextInterval
  <2>3. CASE previous # NoTime
    <3>1. previous \in Nat
      BY <2>3, TimesAreNatural
    <3>2. SkipMissed(previous + interval, interval, from) \in Times \cup {Error}
             \/ interval = 0 \/ previous + interval > MaxTime
      <4> SUFFICES ASSUME interval # 0, previous + interval <= MaxTime
                   PROVE  SkipMissed(previous + interval, interval, from) \in Times \cup {Error}
        BY <2>1, <3>1, MaxTimeAssumption
      <4> DEFINE next == previous + interval
      <4>1. next \in Times
        BY <2>1, <3>1 DEF Times
      <4>2. CASE from < next
        BY <4>1, <4>2 DEF SkipMissed
      <4>3. CASE ~(from < next)
        <5>1. from - next \in Nat /\ interval \in Nat \ {0}
          BY <1>1, <2>1, <4>1, <4>3, TimesAreNatural
        <5> DEFINE skipped == DivCeil(from - next, interval) * interval
        <5>2. skipped \in Nat
          BY <5>1, DivCeilBounds
        <5>3. SkipMissed(next, interval, from) = InRange(next + skipped)
          BY <4>3 DEF SkipMissed
        <5> HIDE DEF skipped, next
        <5>4. next + skipped \in Nat
          BY <4>1, <5>2, TimesAreNatural
        <5> QED
          BY <1>2, <5>3, <5>4 DEF next
      <4> QED
        BY <4>2, <4>3
    <3>3. previous + interval \in Times \/ previous + interval > MaxTime
      BY <2>1, <3>1, MaxTimeAssumption DEF Times
    <3> QED
      BY <2>1, <2>3, <3>2, <3>3 DEF NextInterval
  <2> QED
    BY <2>2, <2>3
<1>4. CASE d.policy.kind = "cron"
  <2> DEFINE matches == d.policy.matches
             after == IF previous = NoTime THEN from
                      ELSE IF d.missed = "create" THEN previous ELSE Later(previous, from)
  <2>1. /\ matches \in SUBSET Times
        /\ NextTime(d, previous, now) = NextCron(matches, d, previous, from)
    BY <1>4, DefinitionIs DEF NextTime, from
  <2>2. after \in Nat
    BY <1>1, TimesAreNatural DEF Later
  <2>3. FindNext(matches, after) \in Times \cup {NoTime}
    BY <2>1, <2>2, FindNextCorrect, TimesAreNatural
  <2>4. InRange(from) = Error \/ from \in Times
    BY <1>1, MaxTimeAssumption DEF InRange, Times
  <2> QED
    BY <2>1, <2>3, <2>4 DEF NextCron
<1> QED
  BY <1>3, <1>4, DefinitionIs DEF Schedule

\* It is an interval after the last one, and not before the start of the range.
LEMMA NextTimeApart ==
  ASSUME NEW s \in Schedules, NEW d \in Defs[s], NEW previous \in Times \cup {NoTime},
         NEW now \in Times, NextTime(d, previous, now) \in Times,
         previous # NoTime /\ d.start # NoTime => previous >= d.start
  PROVE  /\ previous # NoTime => NextTime(d, previous, now) >= previous + Gap(d)
         /\ d.start # NoTime => NextTime(d, previous, now) >= d.start
<1> DEFINE from == From(d, now)
           t == NextTime(d, previous, now)
<1>1. from \in Nat /\ t \in Nat /\ (previous # NoTime => previous \in Nat)
  BY DefinitionIs, FromIsLater, TimesAreNatural
<1>2. d.start # NoTime => d.start \in Nat /\ from >= d.start
  BY DefinitionIs, TimesAreNatural DEF From, Later
<1>3. previous # NoTime => t > previous
  BY <1>1, DefinitionIs, NextIsAfterLast, TimesAreNatural
<1>4. CASE d.policy.kind = "interval"
  <2> DEFINE interval == d.policy.interval
  <2>1. interval \in Nat /\ t = NextInterval(interval, d, previous, from)
    BY <1>4, DefinitionIs DEF NextTime, Schedule
  <2> HIDE DEF interval, from, t
  <2>2. interval # 0
    BY <1>1, <2>1, NoTimeAssumption DEF NextInterval
  <2>3. CASE previous = NoTime
    BY <1>1, <1>2, <2>1, <2>2, <2>3, NoTimeAssumption DEF NextInterval, InRange, t
  <2>4. CASE previous # NoTime
    <3>1. t = previous + interval \/ SkipMissed(previous + interval, interval, from) = t
      BY <1>1, <2>1, <2>2, <2>4, NoTimeAssumption DEF NextInterval
    <3>2. t \in Nat /\ previous + interval \in Nat
      BY <1>1, <2>1, <2>4
    <3>3. t >= previous + interval
      BY <1>1, <2>1, <2>2, <3>1, <3>2, SkipMissedIsLater
    <3>4. d.start # NoTime => t >= d.start
      BY <1>1, <1>2, <2>1, <2>4, <3>3
    <3> QED
      BY <1>4, <3>3, <3>4 DEF Gap, t, interval
  <2> QED
    BY <2>3, <2>4
<1>5. CASE d.policy.kind = "cron"
  <2> DEFINE matches == d.policy.matches
  <2>1. matches \in SUBSET Nat /\ t = NextCron(matches, d, previous, from)
    BY <1>5, DefinitionIs, TimesAreNatural DEF NextTime
  <2> HIDE DEF matches, from, t
  <2>2. CASE previous = NoTime
    <3>1. t = from \/ t = FindNext(matches, from)
      BY <1>1, <2>1, <2>2, NoTimeAssumption DEF NextCron, InRange
    <3>2. t >= from
      BY <1>1, <2>1, <3>1, FindNextCorrect, NoTimeAssumption
    <3> QED
      BY <1>1, <1>2, <2>2, <3>2 DEF t
  <2>3. CASE previous # NoTime
    <3>1. t >= previous + 1
      BY <1>1, <1>3, <2>3
    <3>2. d.start # NoTime => t >= d.start
      BY <1>1, <1>2, <2>3, <3>1
    <3> QED
      BY <1>5, <3>1, <3>2 DEF Gap, t
  <2> QED
    BY <2>2, <2>3
<1> QED
  BY <1>4, <1>5, DefinitionIs DEF Schedule

(***************************************************************************)
(* The invariant                                                           *)
(***************************************************************************)

\* The variables of the loop, each in use in its phases.
LoopOK ==
  /\ clock \in Times /\ setbacks \in 0..MaxSetbacks
  /\ pc \in {"read", "decide", "add", "stop", "wait"}
  /\ cursor \in Schedules \cup {None}
  /\ unhandled \in BOOLEAN /\ errors \in 0..MaxErrors
  /\ DOMAIN page \subseteq Schedules /\ \A s \in DOMAIN page : page[s] \in Times \cup {NoTime}
  /\ DOMAIN newJobs \subseteq Schedules /\ \A s \in DOMAIN newJobs : newJobs[s] \in Times
  /\ over \subseteq Schedules /\ over \cap DOMAIN newJobs = {}
  /\ seen \subseteq Schedules /\ stopping \subseteq Schedules /\ withdrawn \subseteq Schedules
  /\ pc # "decide" => DOMAIN page = {}
  /\ pc # "add" => DOMAIN newJobs = {}
  /\ pc \notin {"add", "stop"} => over = {}

\* The rows of schedules and jobs: a schedule has a definition, and a job for it a time.
RowsOK ==
  /\ target \in [Jobs -> Times \cup {NoTime}]
  /\ def = [s \in Schedules |-> def[s]]
  /\ \A s \in Schedules : def[s] \in Defs[s] \cup {None}
  /\ \A s \in Schedules : schedStatus[s] # "absent" => def[s] \in Defs[s]
  /\ \A j \in Jobs : jobStatus[j] = "absent" => jobSchedule[j] = None
  /\ \A j \in Jobs : jobSchedule[j] # None =>
       target[j] \in Times /\ schedStatus[jobSchedule[j]] # "absent"
  /\ \A s \in DOMAIN page \cup DOMAIN newJobs : schedStatus[s] # "absent"

RowsInv == RefInv /\ LoopOK /\ RowsOK

\* What was read in this round and is still pending is in hand, or counts as unhandled.
HandledInv ==
  /\ seen \subseteq PendingSchedules
  /\ ~unhandled => seen \subseteq DOMAIN page \cup DOMAIN newJobs \cup over

\* A schedule a user has stopped is stopped for good.
StoppedInv ==
  /\ \A s \in stopping \cup withdrawn : schedStatus[s] \in {"stopped", "deleted"}
  /\ WithdrawnHasNoJob

Stored == {j \in Jobs : jobStatus[j] # "deleted" /\ jobSchedule[j] # None}

\* Time t is an interval after the jobs of s, and in its range.
FitsAfter(s, t) ==
  /\ \A j \in Stored : jobSchedule[j] = s => t >= target[j] + Gap(def[s])
  /\ def[s].start # NoTime => t >= def[s].start

\* A page shows the last job of its schedules; what is decided on it fits.
TimesInv ==
  /\ TimesKept
  /\ \A s \in DOMAIN page :
       /\ \A j \in Stored : jobSchedule[j] = s => page[s] # NoTime /\ page[s] >= target[j]
       /\ page[s] # NoTime /\ def[s].start # NoTime => page[s] >= def[s].start
  /\ \A s \in DOMAIN newJobs :
       FitsAfter(s, newJobs[s]) /\ (def[s].end # NoTime => newJobs[s] < def[s].end)

SchedulerInv == RowsInv /\ HandledInv /\ StoppedInv /\ TimesInv

(***************************************************************************)
(* Steps                                                                   *)
(***************************************************************************)

\* A call of the backend other than those about executions that start or fail.
PlainCall ==
  \/ \E js \in SUBSET FreshJobs : \E sched \in [js -> Schedules \cup {None}] : AddJobs(sched)
  \/ \E js \in SUBSET Jobs : CancelJobs(js) \/ DeleteJobs(js)
  \/ \E ss \in SUBSET Schedules : AddSchedules(ss) \/ StopSchedules(ss) \/ DeleteSchedules(ss)
  \/ \E xs \in SUBSET KnownExecs : ExecutionsSucceeded(xs)
  \/ UNCHANGED backendVars

\* Such calls are steps of the backend.
LEMMA PlainIsCall == PlainCall => [BackendNext]_backendVars
  BY DEF PlainCall, BackendNext

\* Such calls keep the invariant of the backend, and outcomes.
LEMMA PlainKeeps == RefInv /\ PlainCall => RefInv' /\ OutcomesKept
<1> SUFFICES ASSUME RefInv, PlainCall PROVE RefInv' /\ OutcomesKept
  OBVIOUS
<1>1. StoredInv' /\ FreshUnused'
  BY PlainIsCall, NextStored, NextFresh DEF RefInv
<1>2. BackendTypeOK'
  BY <1>1 DEF StoredInv
<1>3. ASSUME NEW js \in SUBSET Jobs, CancelJobs(js)
      PROVE  AtMostOneActive' /\ ActiveExecutionHasJob' /\ OutcomesKept
  BY <1>3, CancelFinishesJobs, FinishJobsInv DEF RefInv, Outcome
<1>4. ASSUME NEW xs \in SUBSET KnownExecs, ExecutionsSucceeded(xs)
      PROVE  AtMostOneActive' /\ ActiveExecutionHasJob' /\ OutcomesKept
  <2>1. xs \subseteq Executions
    BY DEF KnownExecs
  <2> QED
    BY <1>4, <2>1, ResultsFinishJobs, FinishJobsInv DEF RefInv, Outcome
<1>5. ASSUME NEW js \in SUBSET FreshJobs, NEW sched \in [js -> Schedules \cup {None}],
             AddJobs(sched)
      PROVE  AtMostOneActive' /\ ActiveExecutionHasJob' /\ OutcomesKept
  BY <1>5, AddJobsInv DEF RefInv
<1>6. AtMostOneActive' /\ ActiveExecutionHasJob' /\ OutcomesKept
  BY <1>3, <1>4, <1>5, OtherCallsInv DEF RefInv, PlainCall
<1> QED
  BY <1>1, <1>2, <1>6 DEF RefInv, JobInv

\* And each is a step of the life of jobs.
LEMMA PlainRefines ==
  ASSUME RefInv, RefInv', PlainCall
  PROVE  [Lifecycle!Next]_Lifecycle!vars
<1>1. ASSUME NEW js \in SUBSET Jobs, CancelJobs(js) PROVE Lifecycle!Next
  BY <1>1, CancelFinishesJobs, FinishRefines DEF Outcome
<1>2. ASSUME NEW xs \in SUBSET KnownExecs, ExecutionsSucceeded(xs) PROVE Lifecycle!Next
  <2>1. xs \subseteq Executions
    BY DEF KnownExecs
  <2> QED
    BY <1>2, <2>1, ResultsFinishJobs, FinishRefines DEF Outcome
<1>3. CASE UNCHANGED backendVars
  BY <1>3 DEF backendVars, jobVars, execVars, schedVars, Lifecycle!vars, JobPhase,
              CurrentAttempt, KnownExecs, ActiveExecs
<1>4. ASSUME NEW js \in SUBSET FreshJobs, NEW sched \in [js -> Schedules \cup {None}],
             AddJobs(sched)
      PROVE  Lifecycle!Next
  BY <1>4, AddJobsRefines
<1> QED
  BY <1>1, <1>2, <1>3, <1>4, OtherCallsRefine DEF PlainCall

\* The jobs of a page get fresh ids, one for each of its schedules.
LEMMA PageIds ==
  ASSUME NEW ss \in SUBSET Schedules,
         Cardinality(NewIds(Cardinality(ss))) = Cardinality(ss)
  PROVE  LET ids == NewIds(Cardinality(ss)) IN
         /\ ids \in SUBSET FreshJobs /\ \A j \in ids : \A i \in Jobs \ FreshJobs : i < j
         /\ InOrder(ids, ss) \in [ids -> ss]
         /\ \A s \in ss : \E j \in ids : InOrder(ids, ss)[j] = s
<1> DEFINE ids == NewIds(Cardinality(ss))
<1>1. ids \in SUBSET Jobs /\ \A j \in ids : \A i \in Jobs \ FreshJobs : i < j
  BY DEF NewIds
<1>2. ids \in SUBSET FreshJobs
  <2>1. \A j \in Jobs : ~(j < j)
    BY SchedulerAssumption
  <2> QED
    BY <1>1, <2>1
<1>3. IsFiniteSet(ids) /\ IsFiniteSet(ss) /\ ids \in SUBSET Nat /\ ss \in SUBSET Nat
  BY <1>1, SchedulerAssumption, FS_Subset
<1> HIDE DEF ids
<1>4. /\ InOrder(ids, ss) \in [ids -> ss]
      /\ \A s \in ss : \E j \in ids : InOrder(ids, ss)[j] = s
  <2>1. Cardinality(ids) = Cardinality(ss)
    BY DEF ids
  <2> QED
    BY <1>3, <2>1, InOrderIs
<1> QED
  BY <1>1, <1>2, <1>4 DEF ids

\* Every step is a plain call of the backend, or none.
LEMMA StepCalls ==
  ASSUME LoopOK, [Loop \/ Environment]_vars
  PROVE  PlainCall
<1>1. ASSUME AddPageJobs(DOMAIN newJobs) PROVE PlainCall
  <2> DEFINE ids == NewIds(Cardinality(DOMAIN newJobs))
  <2>1. ids \in SUBSET FreshJobs /\ InOrder(ids, DOMAIN newJobs) \in [ids -> DOMAIN newJobs]
    BY <1>1, PageIds DEF AddPageJobs, LoopOK
  <2>2. InOrder(ids, DOMAIN newJobs) \in [ids -> Schedules \cup {None}]
    BY <2>1 DEF LoopOK
  <2>3. AddJobs(InOrder(ids, DOMAIN newJobs))
    BY <1>1 DEF AddPageJobs
  <2> QED
    BY <2>1, <2>2, <2>3 DEF PlainCall
<1>2. CASE ReadPage \/ ReadFails \/ Decide \/ WakePending \/ WakeTimer \/ UserCancelFails
           \/ ClockAdvances \/ ClockSetBack \/ UNCHANGED vars
  BY <1>2 DEF ReadPage, ReadFails, Decide, WakePending, WakeTimer, NextRound, UserCancelFails,
              ClockAdvances, ClockSetBack, vars, PlainCall
<1>3. CASE Add \/ AddFails
  BY <1>1, <1>3 DEF Add, AddFails, PlainCall
<1>4. CASE Stop \/ StopFails
  BY <1>4 DEF Stop, StopFails, PlainCall, LoopOK
<1>5. CASE \E j \in Jobs : JobEnds(j) \/ JobCancelled(j)
  <2>1. PICK j \in Jobs : JobEnds(j) \/ JobCancelled(j)
    BY <1>5
  <2>2. CancelledBy({j}) \in SUBSET KnownExecs /\ {j} \in SUBSET Jobs
    BY DEF CancelledBy, ActiveExecs, Active, KnownExecs
  <2>3. ExecutionsSucceeded(CancelledBy({j})) \/ CancelJobs({j})
    BY <2>1 DEF JobEnds, JobCancelled
  <2> QED
    BY <2>2, <2>3 DEF PlainCall
<1>6. CASE \E s \in Schedules : UserStops(s) \/ \E d \in Defs[s] : ScheduleAdded(s, d)
  <2>1. PICK s \in Schedules : UserStops(s) \/ \E d \in Defs[s] : ScheduleAdded(s, d)
    BY <1>6
  <2>2. StopSchedules({s}) \/ AddSchedules({s})
    BY <2>1 DEF UserStops, ScheduleAdded
  <2> QED
    BY <2>2 DEF PlainCall
<1>7. CASE UserCancels
  BY <1>7 DEF UserCancels, PlainCall
<1>8. CASE HistoryDeleted
  <2>1. CASE \E j \in Deletable : DeleteJobs(EndedUpTo(j) \cap Deletable)
    BY <2>1 DEF Deletable, PlainCall
  <2>2. CASE \E s \in Schedules : schedStatus[s] = "stopped" /\ DeleteSchedules({s})
    BY <2>2 DEF PlainCall
  <2> QED
    BY <1>8, <2>1, <2>2 DEF HistoryDeleted
<1> QED
  BY <1>2, <1>3, <1>4, <1>5, <1>6, <1>7, <1>8 DEF Loop, Environment

\* Schedules are stopped for good, and keep their definition.
SchedulesKept ==
  /\ def' = [s \in Schedules |-> def'[s]]
  /\ \A s \in Schedules :
       /\ schedStatus[s] # "absent" => schedStatus'[s] # "absent" /\ def'[s] = def[s]
       /\ schedStatus[s] \in {"stopped", "deleted"} => schedStatus'[s] \in {"stopped", "deleted"}
       /\ \/ def'[s] \in Defs[s]
          \/ def'[s] = def[s] /\ (schedStatus[s] = "absent" => schedStatus'[s] = "absent")

\* No job is added, and those there are keep their schedule and time.
JobsKept ==
  /\ jobSchedule' = jobSchedule
  /\ \A j \in Jobs : /\ jobStatus'[j] = "absent" <=> jobStatus[j] = "absent"
                     /\ jobStatus[j] = "deleted" => jobStatus'[j] = "deleted"
                     /\ jobStatus'[j] = "active" => jobStatus[j] = "active"

\* Jobs with greater ids are added for the schedules of newJobs that are still pending.
JobsAdded ==
  /\ schedStatus' = schedStatus
  /\ \E added \in SUBSET FreshJobs :
       /\ \A j \in added : \A i \in Jobs \ FreshJobs : i < j
       /\ \A j \in added :
            /\ jobStatus'[j] = "active"
            /\ jobSchedule'[j] \in DOMAIN newJobs \cap PendingSchedules
            /\ target'[j] = newJobs[jobSchedule'[j]]
            /\ activeJob'[jobSchedule'[j]] = j
       /\ \A j \in Jobs \ added : /\ jobStatus'[j] = jobStatus[j]
                                  /\ jobSchedule'[j] = jobSchedule[j]
                                  /\ target'[j] = target[j]
  /\ DOMAIN newJobs \cap PendingSchedules' = {}
  /\ target' = [j \in Jobs |-> target'[j]]

\* Ending jobs keeps the schedules and times of jobs, and stores none again.
LEMMA FinishJobsKeep ==
  ASSUME RefInv, NEW done \in SUBSET ActiveExecs, NEW outcome \in Outcome,
         FinishJobs(done, outcome)
  PROVE  JobsKept
<1>1. jobStatus' = [j \in Jobs |-> IF j \in JobsOf(done) THEN outcome ELSE jobStatus[j]]
      /\ jobSchedule' = jobSchedule
  BY DEF FinishJobs, MarkJobsInactive
<1>2. \A j \in JobsOf(done) : jobStatus[j] = "active"
  BY DEF JobsOf, RefInv, JobInv, ActiveExecutionHasJob
<1> QED
  BY <1>1, <1>2 DEF JobsKept, Outcome

\* What the calls other than add_jobs keep of jobs and schedules.
LEMMA CallsKeep ==
  ASSUME RefInv
  PROVE  /\ \A js \in SUBSET Jobs : CancelJobs(js) => JobsKept /\ schedStatus' = schedStatus
         /\ \A xs \in SUBSET Executions :
              ExecutionsSucceeded(xs) => JobsKept /\ schedStatus' = schedStatus
         /\ \A js \in SUBSET Jobs : DeleteJobs(js) => JobsKept /\ schedStatus' = schedStatus
         /\ \A ss \in SUBSET Schedules :
              AddSchedules(ss) \/ StopSchedules(ss) \/ DeleteSchedules(ss) => JobsKept
<1>1. ASSUME NEW js \in SUBSET Jobs, CancelJobs(js) PROVE JobsKept /\ schedStatus' = schedStatus
  BY <1>1, CancelFinishesJobs, FinishJobsKeep DEF Outcome, FinishJobs
<1>2. ASSUME NEW xs \in SUBSET Executions, ExecutionsSucceeded(xs)
      PROVE  JobsKept /\ schedStatus' = schedStatus
  BY <1>2, ResultsFinishJobs, FinishJobsKeep DEF Outcome, FinishJobs
<1>3. ASSUME NEW js \in SUBSET Jobs, DeleteJobs(js) PROVE JobsKept /\ schedStatus' = schedStatus
  BY <1>3 DEF DeleteJobs, Deletable, Outcome, JobsKept, schedVars
<1>4. ASSUME NEW ss \in SUBSET Schedules,
             AddSchedules(ss) \/ StopSchedules(ss) \/ DeleteSchedules(ss)
      PROVE  JobsKept
  BY <1>4 DEF AddSchedules, StopSchedules, DeleteSchedules, jobVars, JobsKept
<1> QED
  BY <1>1, <1>2, <1>3, <1>4

\* add_jobs for the page: a job for every schedule of it that is still pending.
LEMMA PageJobsAdded ==
  ASSUME RowsInv, AddPageJobs(DOMAIN newJobs)
  PROVE  JobsAdded
<1> DEFINE ss == DOMAIN newJobs
           ids == NewIds(Cardinality(ss))
           sched == InOrder(ids, ss)
<1>1. ss \in SUBSET Schedules
  BY DEF RowsInv, LoopOK
<1>2. /\ ids \in SUBSET FreshJobs /\ \A j \in ids : \A i \in Jobs \ FreshJobs : i < j
      /\ sched \in [ids -> ss]
      /\ \A s \in ss : \E j \in ids : sched[j] = s
  BY <1>1, PageIds DEF AddPageJobs
<1>3. AddJobs(sched)
  BY DEF AddPageJobs
<1>4. target' = [j \in Jobs |-> IF j \in ids /\ jobStatus'[j] = "active"
                                THEN newJobs[sched[j]] ELSE target[j]]
  BY DEF AddPageJobs
<1> HIDE DEF ss, ids, sched
<1>5. sched \in [ids -> Schedules \cup {None}]
  BY <1>1, <1>2
<1>6. PICK claim \in [Claimable(sched) -> ids] :
        /\ \A s \in Claimable(sched) : sched[claim[s]] = s
        /\ \E new \in FreshFor(Added(sched, claim)) : FinishAndInsert({}, "absent", new)
        /\ jobStatus' = [j \in Jobs |->
             IF j \in Added(sched, claim) THEN "active" ELSE jobStatus[j]]
        /\ jobSchedule' = [j \in Jobs |->
             IF j \in Added(sched, claim) THEN sched[j] ELSE jobSchedule[j]]
        /\ activeJob' = [s \in Schedules |->
             IF s \in Claimable(sched) THEN claim[s] ELSE activeJob[s]]
        /\ schedStatus' = schedStatus
        /\ Added(sched, claim) =
             {j \in ids : sched[j] = None \/ \E s \in Claimable(sched) : claim[s] = j}
        /\ Added(sched, claim) \subseteq FreshJobs
  <2>1. ids \in SUBSET FreshJobs
    BY <1>2
  <2> QED
    BY <2>1, <1>3, <1>5, AddJobsShape
<1> DEFINE added == {claim[s] : s \in Claimable(sched)}
<1>7. Added(sched, claim) = added
  <2>1. \A j \in ids : sched[j] # None
    BY <1>1, <1>2, NoneAssumption
  <2> QED
    BY <1>6, <2>1
<1>8. Claimable(sched) = ss \cap PendingSchedules
  BY <1>1, <1>2 DEF Claimable, PendingSchedules
<1>9. ASSUME NEW j \in added
      PROVE  /\ j \in ids /\ jobStatus'[j] = "active"
             /\ jobSchedule'[j] \in ss \cap PendingSchedules
             /\ target'[j] = newJobs[jobSchedule'[j]]
             /\ activeJob'[jobSchedule'[j]] = j
  <2>1. PICK s \in Claimable(sched) : claim[s] = j
    BY <1>9
  <2>2. j \in ids /\ sched[j] = s /\ j \in Jobs
    BY <1>2, <1>6, <2>1 DEF FreshJobs
  <2>3. jobStatus'[j] = "active" /\ jobSchedule'[j] = s
    BY <1>6, <1>7, <1>9, <2>2
  <2>4. target'[j] = newJobs[s]
    BY <1>4, <2>2, <2>3
  <2>5. activeJob'[s] = j
    BY <1>6, <1>8, <2>1 DEF PendingSchedules
  <2> QED
    BY <1>8, <2>1, <2>2, <2>3, <2>4, <2>5
<1>10. ASSUME NEW j \in Jobs, j \notin added
       PROVE  /\ jobStatus'[j] = jobStatus[j] /\ jobSchedule'[j] = jobSchedule[j]
              /\ target'[j] = target[j]
  <2>1. jobStatus'[j] = jobStatus[j] /\ jobSchedule'[j] = jobSchedule[j]
    BY <1>6, <1>7, <1>10
  <2>2. j \in ids => jobStatus[j] = "absent"
    BY <1>2 DEF FreshJobs
  <2>3. target'[j] = target[j]
    BY <1>4, <2>1, <2>2 DEF RowsInv, RowsOK
  <2> QED
    BY <2>1, <2>3
<1>11. ss \cap PendingSchedules' = {}
  <2> SUFFICES ASSUME NEW s \in ss, s \in PendingSchedules' PROVE FALSE
    OBVIOUS
  <2>1. s \in Schedules /\ schedStatus'[s] = "active" /\ activeJob'[s] = None
    BY DEF PendingSchedules
  <2>2. CASE s \in Claimable(sched)
    <3>1. activeJob'[s] = claim[s] /\ claim[s] \in Jobs
      BY <1>2, <1>6, <2>1, <2>2 DEF FreshJobs
    <3> QED
      BY <2>1, <3>1, NoneAssumption
  <2>3. CASE s \notin Claimable(sched)
    BY <1>6, <1>8, <2>1, <2>3 DEF PendingSchedules
  <2> QED
    BY <2>2, <2>3
<1>12. added \in SUBSET FreshJobs /\ \A j \in added : \A i \in Jobs \ FreshJobs : i < j
  BY <1>2, <1>9
<1> HIDE DEF added
<1>13. \A j \in Jobs \ added : /\ jobStatus'[j] = jobStatus[j]
                                /\ jobSchedule'[j] = jobSchedule[j]
                                /\ target'[j] = target[j]
  BY <1>10
<1>14. schedStatus' = schedStatus /\ target' = [j \in Jobs |-> target'[j]]
  BY <1>4, <1>6
<1> QED
  BY <1>9, <1>11, <1>12, <1>13, <1>14 DEF JobsAdded, ss

\* Every step keeps the schedules, and keeps the jobs or adds those of newJobs.
LEMMA StepCases ==
  ASSUME RowsInv, [Loop \/ Environment]_vars
  PROVE  /\ SchedulesKept
         /\ \/ JobsKept /\ target' = target
            \/ (Add \/ AddFails) /\ JobsAdded /\ def' = def
<1>1. ASSUME UNCHANGED <<schedStatus, def>> PROVE SchedulesKept
  BY <1>1 DEF SchedulesKept, RowsInv, RowsOK
<1>2. ASSUME UNCHANGED <<jobStatus, jobSchedule>> PROVE JobsKept
  BY <1>2 DEF JobsKept
<1>3. CASE ReadPage \/ ReadFails \/ Decide \/ WakePending \/ WakeTimer \/ UserCancelFails
           \/ ClockAdvances \/ ClockSetBack \/ UNCHANGED vars
  <2>1. UNCHANGED <<backendVars, target, def>>
    BY <1>3 DEF ReadPage, ReadFails, Decide, WakePending, WakeTimer, NextRound, UserCancelFails,
                ClockAdvances, ClockSetBack, vars
  <2> QED
    BY <1>1, <1>2, <2>1 DEF backendVars, jobVars, schedVars
<1>4. CASE Add \/ AddFails
  <2>1. def' = def /\ (AddPageJobs(DOMAIN newJobs) \/ UNCHANGED <<backendVars, target>>)
    BY <1>4 DEF Add, AddFails
  <2>2. CASE AddPageJobs(DOMAIN newJobs)
    BY <1>1, <1>4, <2>1, <2>2, PageJobsAdded DEF JobsAdded
  <2>3. CASE UNCHANGED <<backendVars, target>>
    BY <1>1, <1>2, <2>1, <2>3 DEF backendVars, jobVars, schedVars
  <2> QED
    BY <2>1, <2>2, <2>3
<1>5. ASSUME NEW ss \in SUBSET Schedules, StopSchedules(ss) \/ DeleteSchedules(ss), def' = def
      PROVE  JobsKept /\ SchedulesKept
  BY <1>5, CallsKeep DEF RowsInv, RowsOK, SchedulesKept, StopSchedules, DeleteSchedules
<1>6. CASE Stop \/ StopFails
  <2>1. def' = def /\ target' = target /\ (StopSchedules(over) \/ UNCHANGED backendVars)
    BY <1>6 DEF Stop, StopFails
  <2>2. over \in SUBSET Schedules
    BY DEF RowsInv, LoopOK
  <2> QED
    BY <1>1, <1>2, <1>5, <2>1, <2>2 DEF backendVars, jobVars, schedVars
<1>7. ASSUME NEW j \in Jobs, JobEnds(j) \/ JobCancelled(j)
      PROVE  JobsKept /\ SchedulesKept /\ target' = target
  <2>1. CancelledBy({j}) \in SUBSET Executions /\ {j} \in SUBSET Jobs
    BY DEF CancelledBy, ActiveExecs
  <2>2. /\ ExecutionsSucceeded(CancelledBy({j})) \/ CancelJobs({j})
        /\ def' = def /\ target' = target
    BY <1>7 DEF JobEnds, JobCancelled
  <2> QED
    BY <1>1, <2>1, <2>2, CallsKeep DEF RowsInv
<1>8. ASSUME NEW s \in Schedules, UserStops(s)
      PROVE  JobsKept /\ SchedulesKept /\ target' = target
  BY <1>5, <1>8 DEF UserStops
<1>9. ASSUME NEW s \in Schedules, NEW d \in Defs[s], ScheduleAdded(s, d)
      PROVE  JobsKept /\ SchedulesKept /\ target' = target
  <2>1. /\ schedStatus[s] = "absent" /\ AddSchedules({s})
        /\ def' = [def EXCEPT ![s] = d] /\ target' = target
    BY <1>9 DEF ScheduleAdded
  <2>2. JobsKept
    BY <2>1, CallsKeep DEF RowsInv
  <2>3. \A r \in Schedules : r # s => schedStatus'[r] = schedStatus[r] /\ def'[r] = def[r]
    BY <2>1 DEF AddSchedules, RowsInv, RowsOK
  <2>4. def' = [r \in Schedules |-> def'[r]] /\ def'[s] = d
    BY <2>1 DEF RowsInv, RowsOK
  <2>5. schedStatus[s] \notin {"stopped", "deleted"}
    BY <2>1
  <2>6. \A r \in Schedules :
          /\ schedStatus[r] # "absent" => schedStatus'[r] # "absent" /\ def'[r] = def[r]
          /\ schedStatus[r] \in {"stopped", "deleted"} => schedStatus'[r] \in {"stopped", "deleted"}
          /\ \/ def'[r] \in Defs[r]
             \/ def'[r] = def[r] /\ (schedStatus[r] = "absent" => schedStatus'[r] = "absent")
    BY <2>1, <2>3, <2>4, <2>5
  <2> QED
    BY <2>1, <2>2, <2>4, <2>6 DEF SchedulesKept
<1>10. CASE UserCancels
  BY <1>1, <1>10, CallsKeep DEF UserCancels, RowsInv
<1>11. CASE HistoryDeleted
  <2>1. def' = def /\ target' = target
    BY <1>11 DEF HistoryDeleted
  <2>2. CASE \E j \in Deletable : DeleteJobs(EndedUpTo(j) \cap Deletable)
    BY <1>1, <2>1, <2>2, CallsKeep DEF Deletable, RowsInv
  <2>3. CASE \E s \in Schedules : schedStatus[s] = "stopped" /\ DeleteSchedules({s})
    BY <1>5, <2>1, <2>3
  <2> QED
    BY <1>11, <2>1, <2>2, <2>3 DEF HistoryDeleted
<1> QED
  BY <1>3, <1>4, <1>6, <1>7, <1>8, <1>9, <1>10, <1>11 DEF Loop, Environment

(***************************************************************************)
(* Steps keep the invariant                                                *)
(***************************************************************************)

\* The invariant of the rows includes the types.
LEMMA RowsType == RowsInv => SchedulerTypeOK
  BY DEF RowsInv, RefInv, StoredInv, LoopOK, RowsOK, SchedulerTypeOK

\* The last target of a schedule is a time if it has jobs left.
LEMMA LastTargetIs ==
  ASSUME RowsInv, NEW s \in Schedules
  PROVE  LET left == {j \in Stored : jobSchedule[j] = s} IN
         \/ left = {} /\ LastTarget(s) = NoTime
         \/ \E j \in left : /\ LastTarget(s) = target[j] /\ target[j] \in Times
                            /\ \A i \in left : i <= j
<1> DEFINE left == {j \in JobsOfSchedule(s) : jobStatus[j] # "deleted"}
<1>1. left = {j \in Stored : jobSchedule[j] = s}
  BY NoneAssumption DEF JobsOfSchedule, Stored
<1>2. left \in SUBSET Jobs /\ LastTarget(s) = IF left = {} THEN NoTime ELSE target[Greatest(left)]
  BY DEF JobsOfSchedule, LastTarget
<1>3. left \in SUBSET Nat /\ IsFiniteSet(left)
  BY <1>2, SchedulerAssumption, FS_Subset
<1>4. \A j \in left : target[j] \in Times
  BY <1>1 DEF Stored, RowsInv, RowsOK
<1> HIDE DEF left
<1> QED
  BY <1>1, <1>2, <1>3, <1>4, GreatestIs

\* A page holds schedules that are pending, and its last one is in it.
LEMMA NextPageIs ==
  /\ NextPage \in SUBSET PendingSchedules
  /\ NextPage # {} => Greatest(NextPage) \in NextPage
<1>1. NextPage \in SUBSET PendingSchedules
  BY DEF NextPage
<1>2. NextPage \in SUBSET Nat /\ IsFiniteSet(NextPage)
  BY <1>1, SchedulerAssumption, FS_Subset DEF PendingSchedules
<1> QED
  BY <1>1, <1>2, GreatestIs

\* What is decided on a page: times for some of its schedules, the others are over.
LEMMA DecideIs ==
  ASSUME RowsInv, Decide
  PROVE  /\ DOMAIN newJobs' \subseteq DOMAIN page /\ over' \subseteq DOMAIN page
         /\ over' \cap DOMAIN newJobs' = {}
         /\ \A s \in DOMAIN newJobs' : /\ newJobs'[s] = NextTime(def[s], page[s], clock)
                                       /\ newJobs'[s] \in Times
                                       /\ ~IsOver(def[s], newJobs'[s])
         /\ ~unhandled' => ~unhandled /\ DOMAIN page \subseteq DOMAIN newJobs' \cup over'
<1> DEFINE times == [s \in DOMAIN page |-> NextTime(def[s], page[s], clock)]
           ended == {s \in DOMAIN page : IsOver(def[s], times[s])}
           again == {s \in DOMAIN page \ ended : times[s] # Error}
<1>1. over' = ended /\ newJobs' = [s \in again |-> times[s]] /\ unhandled' = Unhandled(times)
  BY DEF Decide
<1>2. ASSUME NEW s \in DOMAIN page PROVE times[s] \in Times \cup {NoTime, Error}
  <2>1. s \in Schedules /\ def[s] \in Defs[s]
    BY DEF RowsInv, LoopOK, RowsOK
  <2> QED
    BY <2>1, NextTimeIs DEF RowsInv, LoopOK
<1>3. \A s \in again : times[s] \in Times /\ ~IsOver(def[s], times[s])
  BY <1>2 DEF IsOver
<1>4. ~unhandled' => ~unhandled /\ DOMAIN page = again \cup ended
  BY <1>1 DEF Unhandled
<1> QED
  BY <1>1, <1>3, <1>4

\* Every step keeps the loop's own state well-formed.
LEMMA LoopKeeps ==
  ASSUME RowsInv, [Loop \/ Environment]_vars
  PROVE  LoopOK'
<1> USE DEF LoopOK
<1>0. LoopOK
  BY DEF RowsInv
<1> DEFINE Errors == errors' \in 0..MaxErrors
<1>e. CallFails \/ errors' = errors => Errors
  BY <1>0, SchedulerAssumption DEF CallFails
<1> HIDE DEF Errors
<1>1. CASE ReadPage
  <2>1. NextPage \in SUBSET Schedules /\ (NextPage # {} => Greatest(NextPage) \in Schedules)
    BY NextPageIs DEF PendingSchedules
  <2>2. \A s \in NextPage : LastTarget(s) \in Times \cup {NoTime}
    BY <2>1, LastTargetIs
  <2> QED
    BY <1>0, <1>1, <2>1, <2>2 DEF ReadPage, userVars
<1>2. CASE ReadFails
  BY <1>0, <1>2, SchedulerAssumption DEF ReadFails, CallFails, userVars
<1>3. CASE Decide
  <2>1. pc = "decide" /\ pc' = "add" /\ page' = EmptyMap
        /\ UNCHANGED <<clock, setbacks, cursor, seen, errors, stopping, withdrawn>>
    BY <1>3 DEF Decide, userVars
  <2>2. unhandled' \in BOOLEAN
    BY <1>3 DEF Decide, Unhandled
  <2>3. DOMAIN page' = {}
    BY <2>1 DEF EmptyMap
  <2> QED
    BY <1>0, <1>3, <2>1, <2>2, <2>3, DecideIs
<1>4. CASE Add \/ AddFails
  <2>1. /\ pc = "add" /\ pc' = "stop" /\ unhandled' \in {TRUE, unhandled}
        /\ newJobs' = EmptyMap /\ StillSeen /\ Errors
        /\ UNCHANGED <<clock, setbacks, cursor, page, over, stopping, withdrawn>>
    BY <1>4, <1>e DEF Add, AddFails, userVars
  <2>2. DOMAIN newJobs' = {} /\ seen' \subseteq seen
    BY <2>1 DEF EmptyMap, StillSeen
  <2> QED
    BY <1>0, <2>1, <2>2 DEF Errors
<1>5. CASE Stop \/ StopFails
  <2>1. /\ pc = "stop" /\ pc' = "read" /\ over' = {} /\ unhandled' \in {TRUE, unhandled}
        /\ StillSeen /\ Errors
        /\ UNCHANGED <<clock, setbacks, cursor, page, newJobs, stopping, withdrawn>>
    BY <1>5, <1>e DEF Stop, StopFails, userVars
  <2>2. seen' \subseteq seen
    BY <2>1 DEF StillSeen
  <2> QED
    BY <1>0, <2>1, <2>2 DEF Errors
<1>6. CASE WakePending \/ WakeTimer
  BY <1>0, <1>6 DEF WakePending, WakeTimer, NextRound, userVars
<1>7. CASE ClockAdvances \/ ClockSetBack
  <2>1. clock' \in Times
    BY <1>0, <1>7, MaxTimeAssumption DEF ClockAdvances, ClockSetBack, Times
  <2>2. setbacks' \in 0..MaxSetbacks
    BY <1>0, <1>7, SchedulerAssumption DEF ClockAdvances, ClockSetBack
  <2>3. UNCHANGED <<loopVars, userVars>>
    BY <1>7 DEF ClockAdvances, ClockSetBack
  <2> QED
    BY <1>0, <2>1, <2>2, <2>3 DEF loopVars, userVars
<1>8. CASE UserCancelFails
  BY <1>0, <1>8, SchedulerAssumption DEF UserCancelFails, CallFails
<1>9. CASE UserCancels \/ \E s \in Schedules : UserStops(s)
  BY <1>0, <1>9 DEF UserCancels, UserStops, StillSeen
<1>10. CASE \/ \E j \in Jobs : JobEnds(j) \/ JobCancelled(j)
            \/ \E s \in Schedules : \E d \in Defs[s] : ScheduleAdded(s, d)
            \/ HistoryDeleted
  <2>1. /\ StillSeen
        /\ UNCHANGED <<clock, setbacks, pc, cursor, page, newJobs, over, unhandled, errors, userVars>>
    BY <1>10 DEF JobEnds, JobCancelled, ScheduleAdded, HistoryDeleted
  <2> QED
    BY <1>0, <2>1 DEF StillSeen, userVars
<1>11. CASE UNCHANGED vars
  BY <1>0, <1>11 DEF vars, loopVars, userVars
<1> QED
  BY <1>1, <1>2, <1>3, <1>4, <1>5, <1>6, <1>7, <1>8, <1>9, <1>10, <1>11 DEF Loop, Environment

\* Pages are read and decided on; everything else leaves them, or lets them go.
LEMMA HandsMove ==
  ASSUME [Loop \/ Environment]_vars
  PROVE  /\ ReadPage \/ DOMAIN page' = {} \/ page' = page
         /\ Decide \/ DOMAIN newJobs' = {} \/ newJobs' = newJobs
<1>1. CASE ReadPage \/ ReadFails \/ Decide
  BY <1>1 DEF ReadPage, ReadFails, Decide, EmptyMap
<1>2. CASE Add \/ AddFails \/ Stop \/ StopFails
  BY <1>2 DEF Add, AddFails, Stop, StopFails, EmptyMap
<1>3. CASE WakePending \/ WakeTimer
  BY <1>3 DEF WakePending, WakeTimer, NextRound
<1>4. CASE Environment
  BY <1>4 DEF Environment, JobEnds, JobCancelled, UserStops, ScheduleAdded, UserCancels,
              UserCancelFails, HistoryDeleted, ClockAdvances, ClockSetBack, loopVars
<1>5. CASE UNCHANGED vars
  BY <1>5 DEF vars, loopVars
<1> QED
  BY <1>1, <1>2, <1>3, <1>4, <1>5 DEF Loop

\* Every step keeps the rows and what the loop knows of them in step.
LEMMA RowsKeep == RowsInv /\ [Loop \/ Environment]_vars => RowsInv'
<1> SUFFICES ASSUME RowsInv, [Loop \/ Environment]_vars PROVE RowsInv'
  OBVIOUS
<1>1. LoopOK' /\ LoopOK
  BY LoopKeeps DEF RowsInv
<1>2. RefInv'
  BY <1>1, StepCalls, PlainKeeps DEF RowsInv
<1>3. SchedulesKept
  BY StepCases
<1>4. /\ def' = [s \in Schedules |-> def'[s]]
      /\ \A s \in Schedules : def'[s] \in Defs[s] \cup {None}
      /\ \A s \in Schedules : schedStatus'[s] # "absent" => def'[s] \in Defs[s]
  BY <1>3 DEF SchedulesKept, RowsInv, RowsOK
<1>5. \A j \in Jobs : jobSchedule[j] \in Schedules \cup {None}
  BY DEF RowsInv, RefInv, StoredInv, BackendTypeOK
<1>6. /\ target' \in [Jobs -> Times \cup {NoTime}]
      /\ \A j \in Jobs : jobStatus'[j] = "absent" => jobSchedule'[j] = None
      /\ \A j \in Jobs : jobSchedule'[j] # None =>
           target'[j] \in Times /\ schedStatus'[jobSchedule'[j]] # "absent"
  <2>1. CASE JobsKept /\ target' = target
    BY <1>3, <1>5, <2>1 DEF JobsKept, SchedulesKept, RowsInv, RowsOK
  <2>2. CASE JobsAdded
    <3>1. PICK added \in SUBSET FreshJobs :
            /\ \A j \in added : /\ jobStatus'[j] = "active"
                                /\ jobSchedule'[j] \in DOMAIN newJobs \cap PendingSchedules
                                /\ target'[j] = newJobs[jobSchedule'[j]]
            /\ \A j \in Jobs \ added : /\ jobStatus'[j] = jobStatus[j]
                                       /\ jobSchedule'[j] = jobSchedule[j]
                                       /\ target'[j] = target[j]
      BY <2>2 DEF JobsAdded
    <3>2. target' = [j \in Jobs |-> target'[j]] /\ schedStatus' = schedStatus
      BY <2>2 DEF JobsAdded
    <3>3. \A s \in DOMAIN newJobs : newJobs[s] \in Times /\ schedStatus[s] # "absent"
      BY DEF RowsInv, LoopOK, RowsOK
    <3>4. \A j \in Jobs : target'[j] \in Times \cup {NoTime}
      BY <3>1, <3>3 DEF RowsInv, RowsOK
    <3> QED
      BY <3>1, <3>2, <3>3, <3>4 DEF RowsInv, RowsOK
  <2> QED
    BY <2>1, <2>2, StepCases
<1>7. \A s \in DOMAIN page' \cup DOMAIN newJobs' : schedStatus'[s] # "absent"
  <2>1. \A s \in DOMAIN page \cup DOMAIN newJobs : s \in Schedules /\ schedStatus[s] # "absent"
    BY <1>1 DEF LoopOK, RowsInv, RowsOK
  <2>2. ReadPage => \A s \in DOMAIN page' : s \in Schedules /\ schedStatus[s] # "absent"
    BY NextPageIs DEF ReadPage, PendingSchedules
  <2>3. \A s \in DOMAIN page' : s \in Schedules /\ schedStatus[s] # "absent"
    BY <2>1, <2>2, HandsMove
  <2>4. Decide => \A s \in DOMAIN newJobs' : s \in DOMAIN page
    BY DecideIs
  <2>5. \A s \in DOMAIN newJobs' : s \in Schedules /\ schedStatus[s] # "absent"
    BY <2>1, <2>4, HandsMove
  <2> QED
    BY <1>3, <2>3, <2>5 DEF SchedulesKept
<1>8. RowsOK'
  BY <1>4, <1>6, <1>7 DEF RowsOK
<1> QED
  BY <1>1, <1>2, <1>8 DEF RowsInv

\* What was read is handled: every part of it has its way out of the round.
LEMMA HandledKeep ==
  ASSUME RowsInv, HandledInv, [Loop \/ Environment]_vars
  PROVE  HandledInv'
<1> DEFINE hand == DOMAIN page \cup DOMAIN newJobs \cup over
<1>0. LoopOK /\ seen \subseteq PendingSchedules /\ (~unhandled => seen \subseteq hand)
  BY DEF RowsInv, HandledInv
<1>1. CASE ReadPage
  <2>1. /\ pc = "read" /\ seen' = seen \cup NextPage /\ DOMAIN page' = NextPage
        /\ UNCHANGED <<backendVars, newJobs, over, unhandled>>
    BY <1>1 DEF ReadPage
  <2>2. hand = {}
    BY <1>0, <2>1 DEF LoopOK
  <2>3. PendingSchedules' = PendingSchedules
    BY <2>1 DEF PendingSchedules, backendVars, schedVars
  <2> QED
    BY <1>0, <2>1, <2>2, <2>3, NextPageIs DEF HandledInv
<1>2. CASE Decide
  <2>1. /\ pc = "decide" /\ UNCHANGED <<backendVars, seen>>
    BY <1>2 DEF Decide
  <2>2. DOMAIN newJobs = {} /\ over = {}
    BY <1>0, <2>1 DEF LoopOK
  <2>3. PendingSchedules' = PendingSchedules
    BY <2>1 DEF PendingSchedules, backendVars, schedVars
  <2> QED
    BY <1>0, <1>2, <2>1, <2>2, <2>3, DecideIs DEF HandledInv
<1>3. CASE Add
  <2>1. pc = "add" /\ seen' = seen \cap PendingSchedules' /\ UNCHANGED <<over, unhandled>>
    BY <1>3 DEF Add, StillSeen
  <2>2. DOMAIN page = {}
    BY <1>0, <2>1 DEF LoopOK
  <2>3. DOMAIN newJobs \cap PendingSchedules' = {}
    BY <1>3, PageJobsAdded DEF Add, JobsAdded
  <2> QED
    BY <1>0, <2>1, <2>2, <2>3 DEF HandledInv
<1>4. CASE Stop
  <2>1. pc = "stop" /\ StopSchedules(over) /\ seen' = seen \cap PendingSchedules'
        /\ unhandled' = unhandled
    BY <1>4 DEF Stop, StillSeen
  <2>2. DOMAIN page = {} /\ DOMAIN newJobs = {}
    BY <1>0, <2>1 DEF LoopOK
  <2>3. over \cap PendingSchedules' = {}
    BY <1>0, <2>1 DEF StopSchedules, PendingSchedules, LoopOK
  <2> QED
    BY <1>0, <2>1, <2>2, <2>3 DEF HandledInv
<1>5. CASE AddFails \/ StopFails
  BY <1>5 DEF AddFails, StopFails, StillSeen, HandledInv
<1>6. CASE ReadFails
  <2>1. unhandled' = TRUE /\ UNCHANGED <<backendVars, seen>>
    BY <1>6 DEF ReadFails
  <2>2. PendingSchedules' = PendingSchedules
    BY <2>1 DEF PendingSchedules, backendVars, schedVars
  <2> QED
    BY <1>0, <2>1, <2>2 DEF HandledInv
<1>7. CASE WakePending \/ WakeTimer
  BY <1>7 DEF WakePending, WakeTimer, NextRound, HandledInv
<1>8. CASE UNCHANGED vars \/ ClockAdvances \/ ClockSetBack \/ UserCancelFails
  <2>1. UNCHANGED <<backendVars, seen, page, newJobs, over, unhandled>>
    BY <1>8 DEF vars, loopVars, ClockAdvances, ClockSetBack, UserCancelFails
  <2>2. PendingSchedules' = PendingSchedules
    BY <2>1 DEF PendingSchedules, backendVars, schedVars
  <2> QED
    BY <1>0, <2>1, <2>2 DEF HandledInv
<1>9. CASE \/ \E j \in Jobs : JobEnds(j) \/ JobCancelled(j)
           \/ \E s \in Schedules : UserStops(s) \/ \E d \in Defs[s] : ScheduleAdded(s, d)
           \/ UserCancels \/ HistoryDeleted
  <2>1. seen' = seen \cap PendingSchedules' /\ UNCHANGED <<page, newJobs, over, unhandled>>
    BY <1>9 DEF JobEnds, JobCancelled, UserStops, ScheduleAdded, UserCancels, HistoryDeleted,
                StillSeen
  <2> QED
    BY <1>0, <2>1 DEF HandledInv
<1> QED
  BY <1>1, <1>2, <1>3, <1>4, <1>5, <1>6, <1>7, <1>8, <1>9 DEF Loop, Environment

\* A stopped schedule is not pending, so no job is added for it, and the second call of
\* stop_schedules cancels the one it had.
LEMMA StoppedKeep ==
  ASSUME RowsInv, StoppedInv, [Loop \/ Environment]_vars
  PROVE  StoppedInv'
<1>1. SchedulesKept /\ stopping \subseteq Schedules /\ withdrawn \subseteq Schedules
  BY StepCases DEF RowsInv, LoopOK
<1>2. \A s \in stopping \cup withdrawn : schedStatus'[s] \in {"stopped", "deleted"}
  BY <1>1 DEF SchedulesKept, StoppedInv
<1>3. \A s \in withdrawn, j \in Jobs : jobSchedule'[j] = s => jobStatus'[j] # "active"
  <2>1. \A s \in withdrawn, j \in Jobs : jobSchedule[j] = s => jobStatus[j] # "active"
    BY DEF StoppedInv, WithdrawnHasNoJob, JobsOfSchedule
  <2>2. CASE JobsKept
    BY <2>1, <2>2 DEF JobsKept
  <2>3. CASE JobsAdded
    <3>1. PICK added \in SUBSET FreshJobs :
            /\ \A j \in added : jobSchedule'[j] \in PendingSchedules
            /\ \A j \in Jobs \ added : /\ jobStatus'[j] = jobStatus[j]
                                       /\ jobSchedule'[j] = jobSchedule[j]
      BY <2>3 DEF JobsAdded
    <3>2. \A s \in withdrawn : s \notin PendingSchedules
      BY DEF StoppedInv, PendingSchedules
    <3> QED
      BY <2>1, <3>1, <3>2
  <2> QED
    BY <2>2, <2>3, StepCases
<1>4. CASE UNCHANGED <<stopping, withdrawn>>
  BY <1>2, <1>3, <1>4 DEF StoppedInv, WithdrawnHasNoJob, JobsOfSchedule
<1>5. CASE UserCancelFails
  BY <1>2, <1>3, <1>5 DEF UserCancelFails, StoppedInv, WithdrawnHasNoJob, JobsOfSchedule
<1>6. ASSUME NEW s \in Schedules, UserStops(s) PROVE StoppedInv'
  <2>1. schedStatus'[s] = "stopped" /\ stopping' = {s} /\ withdrawn' = withdrawn
    BY <1>6 DEF UserStops, StopSchedules
  <2> QED
    BY <1>2, <1>3, <2>1 DEF StoppedInv, WithdrawnHasNoJob, JobsOfSchedule
<1>7. CASE UserCancels
  <2> DEFINE js == {j \in Jobs : jobSchedule[j] \in stopping /\ jobStatus[j] # "deleted"}
  <2>1. /\ CancelJobs(js) /\ stopping' = {} /\ withdrawn' = withdrawn \cup stopping
        /\ jobSchedule' = jobSchedule
    BY <1>7 DEF UserCancels, CancelJobs
  <2>2. jobStatus' = [j \in Jobs |-> IF j \in JobsOf(CancelledBy(js)) THEN "cancelled" ELSE jobStatus[j]]
    BY <2>1 DEF CancelJobs, MarkJobsInactive
  <2>3. ASSUME NEW j \in Jobs, jobSchedule[j] \in stopping PROVE jobStatus'[j] # "active"
    <3>1. CASE jobStatus[j] = "active"
      <4>1. PICK x \in ActiveExecs : execJob[x] = j
        BY <3>1 DEF RowsInv, RefInv, StoredInv, ActiveJobHasExecution
      <4>2. j \in JobsOf(CancelledBy(js))
        BY <2>3, <3>1, <4>1 DEF JobsOf, CancelledBy
      <4> QED
        BY <2>2, <4>2
    <3>2. CASE jobStatus[j] # "active"
      BY <2>2, <3>2
    <3> QED
      BY <3>1, <3>2
  <2> HIDE DEF js
  <2> QED
    BY <1>2, <1>3, <2>1, <2>3 DEF StoppedInv, WithdrawnHasNoJob, JobsOfSchedule
<1>8. UserCancelFails \/ UserCancels \/ (\E s \in Schedules : UserStops(s))
         \/ UNCHANGED <<stopping, withdrawn>>
  <2>1. Loop => UNCHANGED <<stopping, withdrawn>>
    BY DEF Loop, ReadPage, ReadFails, Decide, Add, AddFails, Stop, StopFails, WakePending,
           WakeTimer, NextRound, userVars
  <2>2. (\E j \in Jobs : JobEnds(j) \/ JobCancelled(j)) \/ HistoryDeleted
           \/ (\E s \in Schedules : \E d \in Defs[s] : ScheduleAdded(s, d))
           \/ ClockAdvances \/ ClockSetBack \/ UNCHANGED vars => UNCHANGED <<stopping, withdrawn>>
    BY DEF JobEnds, JobCancelled, HistoryDeleted, ScheduleAdded, ClockAdvances, ClockSetBack,
           vars, userVars
  <2> QED
    BY <2>1, <2>2 DEF Environment
<1> QED
  BY <1>4, <1>5, <1>6, <1>7, <1>8

\* IntervalApart says it of the stored jobs of schedules.
LEMMA ApartIs ==
  IntervalApart <=> \A i, j \in Stored : i < j /\ jobSchedule[i] = jobSchedule[j] =>
                      target[j] >= target[i] + Gap(def[jobSchedule[i]])
  BY DEF IntervalApart, Stored, Gap

\* The distance of jobs of one schedule, in the next state.
LEMMA ApartNext ==
  IntervalApart' <=> \A i, j \in Stored' : i < j /\ jobSchedule'[i] = jobSchedule'[j] =>
                       target'[j] >= target'[i] + Gap(def'[jobSchedule'[i]])
  BY DEF IntervalApart, Stored, Gap

\* Jobs that stay keep their distance and range; less is stored.
LEMMA KeptJobs ==
  ASSUME RowsInv, SchedulesKept, JobsKept, target' = target
  PROVE  /\ Stored' \subseteq Stored /\ jobSchedule' = jobSchedule
         /\ \A j \in Jobs : jobSchedule[j] # None =>
              /\ jobSchedule[j] \in Schedules /\ def'[jobSchedule[j]] = def[jobSchedule[j]]
              /\ target'[j] = target[j]
         /\ TimesKept => TimesKept'
<1>1. Stored' \subseteq Stored /\ jobSchedule' = jobSchedule
  BY DEF Stored, JobsKept
<1>2. \A j \in Jobs : jobSchedule[j] # None =>
        /\ jobSchedule[j] \in Schedules /\ def'[jobSchedule[j]] = def[jobSchedule[j]]
        /\ target'[j] = target[j]
  BY DEF RowsInv, RefInv, StoredInv, BackendTypeOK, RowsOK, SchedulesKept
<1>3. IntervalApart => IntervalApart'
  <2>1. \A j \in Stored : j \in Jobs /\ jobSchedule[j] # None
    BY DEF Stored
  <2> QED
    BY <1>1, <1>2, <2>1, ApartIs, ApartNext
<1>4. InTimeRange => InTimeRange'
  BY <1>1, <1>2 DEF InTimeRange
<1> QED
  BY <1>1, <1>2, <1>3, <1>4 DEF TimesKept

\* A new job is the last of its schedule, and comes an interval after the others.
LEMMA AddedJobs ==
  ASSUME RowsInv, TimesInv, JobsAdded, def' = def
  PROVE  TimesKept'
<1>1. PICK added \in SUBSET FreshJobs :
        /\ \A j \in added : \A i \in Jobs \ FreshJobs : i < j
        /\ \A j \in added : /\ jobSchedule'[j] \in DOMAIN newJobs \cap PendingSchedules
                            /\ target'[j] = newJobs[jobSchedule'[j]]
                            /\ activeJob'[jobSchedule'[j]] = j
        /\ \A j \in Jobs \ added : /\ jobStatus'[j] = jobStatus[j]
                                   /\ jobSchedule'[j] = jobSchedule[j]
                                   /\ target'[j] = target[j]
  BY DEF JobsAdded
<1>2. \A j \in added : /\ j \in Jobs /\ jobSchedule'[j] \in DOMAIN newJobs
                       /\ FitsAfter(jobSchedule'[j], target'[j])
                       /\ def[jobSchedule'[j]].end # NoTime => target'[j] < def[jobSchedule'[j]].end
  BY <1>1 DEF TimesInv, FreshJobs
<1>3. \A j \in Stored' : j \in added \/ (j \in Stored /\ j \in Jobs \ FreshJobs /\ j \notin added)
  BY <1>1 DEF Stored, FreshJobs, RowsInv, RowsOK
<1>4. InTimeRange'
  <2>1. ASSUME NEW j \in added
        PROVE  LET d == def[jobSchedule'[j]]
               IN  /\ d.start # NoTime => target'[j] >= d.start
                   /\ d.end # NoTime => target'[j] < d.end
    BY <1>2 DEF FitsAfter
  <2>2. ASSUME NEW j \in Jobs \ added, jobSchedule'[j] # None
        PROVE  LET d == def[jobSchedule'[j]]
               IN  /\ d.start # NoTime => target'[j] >= d.start
                   /\ d.end # NoTime => target'[j] < d.end
    BY <1>1, <2>2 DEF TimesInv, TimesKept, InTimeRange
  <2> QED
    BY <2>1, <2>2 DEF InTimeRange
<1>5. ASSUME NEW i \in Stored', NEW j \in Stored', i < j, jobSchedule'[i] = jobSchedule'[j]
      PROVE  target'[j] >= target'[i] + Gap(def'[jobSchedule'[i]])
  <2>1. CASE i \notin added /\ j \notin added
    <3>1. i \in Stored /\ j \in Stored /\ i \in Jobs \ added /\ j \in Jobs \ added
      BY <1>3, <2>1
    <3> QED
      BY <1>1, <1>5, <3>1, ApartIs DEF TimesInv, TimesKept
  <2>2. CASE i \notin added /\ j \in added
    <3>1. i \in Stored /\ i \in Jobs \ added
      BY <1>3, <2>2
    <3>2. jobSchedule[i] = jobSchedule'[j] /\ target'[i] = target[i]
      BY <1>1, <1>5, <3>1
    <3> QED
      BY <1>2, <1>5, <2>2, <3>1, <3>2 DEF FitsAfter
  <2>3. CASE i \in added /\ j \notin added
    <3>1. j < i
      BY <1>1, <1>3, <2>3
    <3>2. i \in Nat /\ j \in Nat
      BY SchedulerAssumption DEF Stored
    <3> QED
      BY <1>5, <3>1, <3>2
  <2>4. CASE i \in added /\ j \in added
    <3>1. i = j
      BY <1>1, <1>5, <2>4
    <3>2. i \in Nat
      BY SchedulerAssumption DEF Stored
    <3> QED
      BY <1>5, <3>1, <3>2
  <2> QED
    BY <2>1, <2>2, <2>3, <2>4
<1> QED
  BY <1>4, <1>5, ApartNext DEF TimesKept

\* A page shows the latest time of each of its schedules.
LEMMA PageTimes ==
  ASSUME RowsInv, TimesInv, NEW s \in Schedules
  PROVE  /\ \A j \in Stored : jobSchedule[j] = s =>
              LastTarget(s) # NoTime /\ LastTarget(s) >= target[j]
         /\ LastTarget(s) # NoTime /\ def[s].start # NoTime => LastTarget(s) >= def[s].start
<1> DEFINE left == {j \in Stored : jobSchedule[j] = s}
<1>1. CASE left = {} /\ LastTarget(s) = NoTime
  BY <1>1
<1>2. ASSUME NEW last \in left, LastTarget(s) = target[last], target[last] \in Times,
             \A i \in left : i <= last
      PROVE  /\ \A j \in left : LastTarget(s) # NoTime /\ LastTarget(s) >= target[j]
             /\ def[s].start # NoTime => LastTarget(s) >= def[s].start
  <2>1. target[last] \in Nat /\ target[last] # NoTime
    BY <1>2, TimesAreNatural
  <2>2. ASSUME NEW j \in left, j # last PROVE target[last] >= target[j]
    <3>1. j \in Nat /\ last \in Nat /\ j < last
      BY <1>2, <2>2, SchedulerAssumption DEF Stored
    <3>2. target[last] >= target[j] + Gap(def[s])
      BY <3>1, ApartIs DEF TimesInv, TimesKept
    <3>3. target[j] \in Nat /\ def[s] \in Defs[s]
      BY TimesAreNatural DEF Stored, RowsInv, RowsOK
    <3>4. Gap(def[s]) \in Nat
      BY <3>3, DefinitionIs DEF Gap, Schedule
    <3> QED
      BY <2>1, <3>2, <3>3, <3>4
  <2>3. def[s].start # NoTime => target[last] >= def[s].start
    BY <1>2 DEF TimesInv, TimesKept, InTimeRange, Stored
  <2> QED
    BY <1>2, <2>1, <2>2, <2>3
<1>3. \/ left = {} /\ LastTarget(s) = NoTime
      \/ \E j \in left : /\ LastTarget(s) = target[j] /\ target[j] \in Times
                         /\ \A i \in left : i <= j
  BY LastTargetIs
<1> QED
  BY <1>1, <1>2, <1>3

\* What is decided on a page fits after the jobs there are.
LEMMA DecidedFits ==
  ASSUME RowsInv, TimesInv, Decide, NEW s \in DOMAIN newJobs'
  PROVE  FitsAfter(s, newJobs'[s]) /\ (def[s].end # NoTime => newJobs'[s] < def[s].end)
<1> DEFINE t == newJobs'[s]
<1>1. /\ s \in DOMAIN page /\ t = NextTime(def[s], page[s], clock)
      /\ t \in Times /\ ~IsOver(def[s], t)
  BY DecideIs
<1>2. /\ s \in Schedules /\ def[s] \in Defs[s] /\ page[s] \in Times \cup {NoTime}
      /\ clock \in Times
  BY <1>1 DEF RowsInv, LoopOK, RowsOK
<1>3. /\ \A j \in Stored : jobSchedule[j] = s => page[s] # NoTime /\ page[s] >= target[j]
      /\ page[s] # NoTime /\ def[s].start # NoTime => page[s] >= def[s].start
  BY <1>1 DEF TimesInv
<1>4. /\ page[s] # NoTime => t >= page[s] + Gap(def[s])
      /\ def[s].start # NoTime => t >= def[s].start
  BY <1>1, <1>2, <1>3, NextTimeApart
<1> HIDE DEF t
<1>5. def[s].end # NoTime => t < def[s].end
  <2>1. t \in Nat /\ t # Error /\ (def[s].end # NoTime => def[s].end \in Nat)
    BY <1>1, <1>2, DefinitionIs, TimesAreNatural
  <2>2. def[s].end # NoTime => ~(t >= def[s].end)
    BY <1>1, <2>1 DEF IsOver
  <2> QED
    BY <2>1, <2>2
<1>6. ASSUME NEW j \in Stored, jobSchedule[j] = s PROVE t >= target[j] + Gap(def[s])
  <2>1. target[j] \in Nat /\ t \in Nat /\ page[s] \in Nat
    BY <1>1, <1>2, <1>3, <1>6, TimesAreNatural DEF Stored, RowsInv, RowsOK
  <2>2. Gap(def[s]) \in Nat
    BY <1>2, DefinitionIs DEF Gap, Schedule
  <2> QED
    BY <1>3, <1>4, <1>6, <2>1, <2>2
<1> QED
  BY <1>4, <1>5, <1>6 DEF FitsAfter, t

\* Every step keeps the times of scheduled jobs, and those about to be added, in range.
LEMMA TimesKeep ==
  ASSUME RowsInv, TimesInv, [Loop \/ Environment]_vars
  PROVE  TimesInv'
<1> DEFINE PageFits(s) ==
             /\ \A j \in Stored : jobSchedule[j] = s => page[s] # NoTime /\ page[s] >= target[j]
             /\ page[s] # NoTime /\ def[s].start # NoTime => page[s] >= def[s].start
           JobFits(s) ==
             FitsAfter(s, newJobs[s]) /\ (def[s].end # NoTime => newJobs[s] < def[s].end)
<1>1. /\ \A s \in DOMAIN page : PageFits(s)
      /\ \A s \in DOMAIN newJobs : JobFits(s)
      /\ TimesKept
  BY DEF TimesInv
<1>2. SchedulesKept
  BY StepCases
<1>3. \A s \in DOMAIN page \cup DOMAIN newJobs : s \in Schedules /\ def'[s] = def[s]
  BY <1>2 DEF SchedulesKept, RowsInv, LoopOK, RowsOK
<1>4. CASE (Add \/ AddFails) /\ JobsAdded /\ def' = def
  <2>1. DOMAIN newJobs' = {} /\ page' = page /\ pc = "add"
    BY <1>4 DEF Add, AddFails, EmptyMap
  <2>2. DOMAIN page' = {}
    BY <2>1 DEF RowsInv, LoopOK
  <2> QED
    BY <1>4, <2>1, <2>2, AddedJobs DEF TimesInv
<1>5. CASE JobsKept /\ target' = target
  <2>1. /\ Stored' \subseteq Stored /\ jobSchedule' = jobSchedule /\ target' = target /\ TimesKept'
    BY <1>1, <1>2, <1>5, KeptJobs
  <2>2. ASSUME NEW s \in DOMAIN page'
        PROVE  /\ \A j \in Stored' : jobSchedule'[j] = s => page'[s] # NoTime /\ page'[s] >= target'[j]
               /\ page'[s] # NoTime /\ def'[s].start # NoTime => page'[s] >= def'[s].start
    <3>1. CASE ReadPage
      <4>1. page' = [r \in NextPage |-> LastTarget(r)] /\ def' = def
        BY <3>1 DEF ReadPage
      <4>2. s \in Schedules /\ page'[s] = LastTarget(s)
        BY <2>2, <4>1, NextPageIs DEF PendingSchedules
      <4> QED
        BY <2>1, <4>1, <4>2, PageTimes
    <3>2. CASE page' = page
      <4>1. PageFits(s) /\ def'[s] = def[s]
        BY <1>1, <1>3, <2>2, <3>2
      <4> QED
        BY <2>1, <3>2, <4>1
    <3> QED
      BY <2>2, <3>1, <3>2, HandsMove
  <2>3. ASSUME NEW s \in DOMAIN newJobs'
        PROVE  /\ FitsAfter(s, newJobs[s])'
               /\ def'[s].end # NoTime => newJobs'[s] < def'[s].end
    <3>1. def'[s] = def[s] /\ FitsAfter(s, newJobs'[s])
            /\ (def[s].end # NoTime => newJobs'[s] < def[s].end)
      <4>1. CASE Decide
        BY <2>3, <4>1, DecidedFits DEF Decide
      <4>2. CASE newJobs' = newJobs
        BY <1>1, <1>3, <2>3, <4>2
      <4> QED
        BY <2>3, <4>1, <4>2, HandsMove
    <3> QED
      BY <2>1, <3>1 DEF FitsAfter
  <2> QED
    BY <2>1, <2>2, <2>3 DEF TimesInv
<1> QED
  BY <1>4, <1>5, StepCases

\* The invariant holds initially,
LEMMA InitInv == SchedulerInit => SchedulerInv
<1> SUFFICES ASSUME SchedulerInit PROVE SchedulerInv
  OBVIOUS
<1> USE DEF SchedulerInit
<1>1. RefInv
  BY InitRefines
<1>2. DOMAIN page = {} /\ DOMAIN newJobs = {}
  BY DEF EmptyMap
<1>3. LoopOK
  <2>1. clock \in Times /\ setbacks \in 0..MaxSetbacks /\ errors \in 0..MaxErrors
    BY MaxTimeAssumption, SchedulerAssumption DEF Times
  <2> QED
    BY <1>2, <2>1 DEF LoopOK
<1>4. \A j \in Jobs : jobStatus[j] = "absent" /\ jobSchedule[j] = None
  BY DEF BackendInit
<1>5. \A s \in Schedules : schedStatus[s] = "absent"
  BY DEF BackendInit
<1>6. RowsOK
  BY <1>2, <1>4, <1>5 DEF RowsOK
<1>7. HandledInv /\ StoppedInv
  BY DEF HandledInv, StoppedInv, WithdrawnHasNoJob
<1>8. TimesInv
  BY <1>2, <1>4 DEF TimesInv, TimesKept, IntervalApart, InTimeRange
<1> QED
  BY <1>1, <1>3, <1>6, <1>7, <1>8 DEF SchedulerInv, RowsInv

\* and every step keeps it.
LEMMA NextInv == SchedulerInv /\ [Loop \/ Environment]_vars => SchedulerInv'
  BY RowsKeep, HandledKeep, StoppedKeep, TimesKeep DEF SchedulerInv

(***************************************************************************)
(* Theorems                                                                *)
(***************************************************************************)

\* The invariant of the schedule loop with its backend.
THEOREM SchedulerCorrect == SchedulerSpec => []SchedulerInv
  BY InitInv, NextInv, PTL DEF SchedulerSpec

\* The variables have their types; in particular a job is only added for a time that can be
\* represented, and no schedule gets a job and is stopped in the same round.
THEOREM SchedulerTypes == SchedulerSpec => []SchedulerTypeOK
<1>1. SchedulerInv => SchedulerTypeOK
  BY RowsType DEF SchedulerInv
<1> QED
  BY <1>1, SchedulerCorrect, PTL

\* The loop never turns into a busy loop: when it waits for pending schedules
\* (wait_for_pending_schedules), those it has read in its last round are not pending.
THEOREM LoopIsNotBusy == SchedulerSpec => []NoBusyLoop
<1>1. SchedulerInv => NoBusyLoop
  BY DEF SchedulerInv, RowsInv, LoopOK, HandledInv, NoBusyLoop
<1> QED
  BY <1>1, SchedulerCorrect, PTL

\* The jobs of a schedule are an interval apart and in its time range, whatever the clock
\* does, whichever calls of the loop fail and however old the page is it decides on.
THEOREM TimesAreKept == SchedulerSpec => []TimesKept
<1>1. SchedulerInv => TimesKept
  BY DEF SchedulerInv, TimesInv
<1> QED
  BY <1>1, SchedulerCorrect, PTL

\* A schedule stopped together with its active job (stop_schedules of the admin API) has no
\* active job ever after.
THEOREM WithdrawnStaysIdle == SchedulerSpec => []WithdrawnHasNoJob
<1>1. SchedulerInv => WithdrawnHasNoJob
  BY DEF SchedulerInv, StoppedInv
<1> QED
  BY <1>1, SchedulerCorrect, PTL

\* The schedule loop, its users and the deletion of history call the backend as it allows.
THEOREM SchedulerCallsBackend == SchedulerSpec => BackendSpec
<1>1. SchedulerInit => BackendInit
  BY DEF SchedulerInit
<1>2. SchedulerInv /\ [Loop \/ Environment]_vars => [BackendNext]_backendVars
  BY StepCalls, PlainIsCall DEF SchedulerInv, RowsInv
<1> QED
  BY <1>1, <1>2, SchedulerCorrect, PTL DEF SchedulerSpec, BackendSpec

\* With nobody who retries, the outcomes the loop's jobs end with are final, and the loop
\* with its backend implements the life of jobs, whatever OneFailurePerJob is.
THEOREM SchedulerHistory == SchedulerSpec => OutcomesAreFinal
<1>1. SchedulerInv /\ [Loop \/ Environment]_vars => [OutcomesKept]_backendVars
  BY StepCalls, PlainKeeps DEF SchedulerInv, RowsInv
<1> QED
  BY <1>1, SchedulerCorrect, PTL DEF SchedulerSpec, OutcomesAreFinal

\* With the schedule loop as its caller the backend implements the life of a
\* job, without an assumption on the batches of failures: the loop and the
\* other callers of this model end no execution as failed.
THEOREM SchedulerLifecycle == SchedulerSpec => ImplementsLifecycle
<1>1. SchedulerInit => Lifecycle!Init
  BY InitRefines DEF SchedulerInit
<1>2. SchedulerInv /\ SchedulerInv' /\ [Loop \/ Environment]_vars => [Lifecycle!Next]_Lifecycle!vars
  BY StepCalls, PlainRefines DEF SchedulerInv, RowsInv
<1>3. SchedulerSpec => Lifecycle!Spec
  BY <1>1, <1>2, SchedulerCorrect, PTL DEF SchedulerSpec, Lifecycle!Spec
<1> QED
  BY <1>3 DEF ImplementsLifecycle

(***************************************************************************)
(* What wakes the loop of ready executions                                 *)
(***************************************************************************)

\* The rest of the types.
NotifyTypes ==
  /\ dueIn \in [Executions -> Nat] /\ blind \in [Executions -> Nat]
  /\ backoff \in [Types -> Nat] /\ rejected \in [Types -> Nat]
  /\ owed \subseteq Executions /\ inFlight \subseteq Executions /\ fetched \subseteq Executions
  /\ batch \subseteq Executions /\ ignored \subseteq Executions
  /\ saturated \in BOOLEAN /\ newNote \in BOOLEAN /\ availNote \in BOOLEAN /\ event \in BOOLEAN

Full(k) == Cardinality(Held(k)) = Limit

\* Type k has no capacity, or will not have been given any before the next check.
FullOrOff(k) ==
  \/ Full(k)
  \/ Waiting /\ checkIn <= rejected[k]
  \/ ~Waiting /\ (backoff[k] # 0 \/ rejected[k] = CheckDelay)

\* Where the pass is, and what it knows of what the executor holds.
PassInv ==
  /\ \A k \in Types : backoff[k] \in {0, rejected[k]}
  /\ readyAt # "offer" => batch = {}
  /\ readyAt \in {"fetch", "offer"} => ~saturated
  /\ Waiting => \A x \in Executions : status[x] = "held" => x \in ignored

\* What was refused is still refused, until executor_available is notified.
RefusedInv ==
  ~availNote =>
    /\ \A x \in ignored : status[x] = "pending" => FullOrOff(TypeOf[x])
    /\ readyAt = "saturated" \/ (readyAt = "ignore" /\ saturated) => \A k \in Types : FullOrOff(k)

\* The poll ends before any execution is due that was not refused, or somebody is yet
\* to notify, or has.
PollInv ==
  readyAt = "polling" =>
    \A x \in Executions \ ignored :
      status[x] = "pending" =>
        \/ pollIn <= dueIn[x] \/ pollIn <= blind[x]
        \/ x \in owed \/ newNote

Due == {x \in Unstarted : dueIn[x] = 0}

\* As long as nothing happens, the pass misses nothing that is due, and nothing wakes
\* the loop.
QuietInv ==
  ~event =>
    /\ ~availNote
    /\ Waiting => checkIn > 0
    /\ readyAt \in {"query", "polling"} => ~newNote
    /\ \A x \in inFlight \cup fetched : x \in ignored \/ status[x] = "held"
    /\ \/ readyAt = "offer" \/ (readyAt = "ignore" /\ ~saturated)
       \/ readyAt = "fetch" /\ fetched # {}
       => Due \subseteq inFlight \cup fetched \cup batch
    /\ readyAt \in {"wait", "query", "polling"} => Due \subseteq ignored

NotifyInv ==
  NotifyTypeOK /\ NotifyTypes /\ PassInv /\ RefusedInv /\ PollInv /\ QuietInv

LEMMA LeastIs ==
  ASSUME NEW S \in SUBSET Nat, S # {}
  PROVE  Min(S) \in S /\ \A t \in S : Min(S) <= t
BY LeastNatural DEF Min

LEMMA LessIs ==
  ASSUME NEW t \in Nat
  PROVE  Less(t) = IF t = 0 THEN 0 ELSE t - 1
<1>1. \E y \in {0, t - 1} : \A z \in {0, t - 1} : y >= z
  OBVIOUS
<1>2. Max({0, t - 1}) \in {0, t - 1} /\ \A z \in {0, t - 1} : Max({0, t - 1}) >= z
  BY <1>1 DEF Max
<1> QED BY <1>2 DEF Less

\* The executor holds finitely many executions.
LEMMA HeldFinite ==
  ASSUME NEW k
  PROVE  IsFiniteSet(Held(k)) /\ Cardinality(Held(k)) \in Nat
<1>1. Held(k) \in SUBSET Executions
  BY DEF Held
<1> QED BY <1>1, NotifyAssumption, FS_Subset, FS_CardinalityType

LEMMA NextCheckIs ==
  ASSUME NotifyTypes
  PROVE  /\ NextCheck \in 1..CheckDelay
         /\ \A k \in Types : backoff[k] # 0 => NextCheck <= backoff[k]
<1> DEFINE S == {CheckDelay} \cup ({backoff[k] : k \in Types} \ {0})
<1>1. S \in SUBSET Nat /\ CheckDelay \in S /\ 0 \notin S
  BY NotifyAssumption DEF NotifyTypes
<1>2. \A k \in Types : backoff[k] # 0 => backoff[k] \in S
  OBVIOUS
<1> HIDE DEF S
<1>3. Min(S) \in S /\ \A t \in S : Min(S) <= t
  BY <1>1, LeastIs
<1>4. NextCheck = Min(S)
  BY DEF NextCheck, S
<1>5. NextCheck \in Nat /\ NextCheck # 0 /\ CheckDelay \in Nat /\ NextCheck <= CheckDelay
  BY <1>1, <1>3, <1>4
<1> QED BY <1>2, <1>3, <1>4, <1>5

\* try_offer gives each queue as much as it has room for: what is left of a type is
\* left because its queue is full or has a backoff.
LEMMA OfferIs ==
  ASSUME NotifyInv, TryOffer
  PROVE  /\ status' \in [Executions -> {"none", "pending", "held", "done"}]
         /\ \A x \in Executions :
              status'[x] # status[x] => status[x] = "pending" /\ status'[x] = "held" /\ x \in batch
         /\ ignored \subseteq ignored' /\ ignored' \subseteq ignored \cup batch
         /\ \A x \in batch : x \in ignored' \/ status'[x] = "held"
         /\ \A k \in Types : Cardinality(Held(k)') <= Limit /\ (Full(k) => Full(k)')
         /\ \A x \in ignored' :
              status'[x] = "pending" =>
                x \in ignored \/ Full(TypeOf[x])' \/ backoff[TypeOf[x]] # 0
<1> DEFINE wanted(k) == {x \in batch : status[x] = "pending" /\ TypeOf[x] = k}
<1>1. PICK given \in SUBSET {x \in batch : status[x] = "pending"} :
        /\ \A k \in Types :
             Cardinality({x \in given : TypeOf[x] = k}) = Min({Cardinality(wanted(k)), Free(k)})
        /\ status' = [x \in Executions |-> IF x \in given THEN "held" ELSE status[x]]
        /\ ignored' = ignored \cup (batch \ given)
  BY DEF TryOffer
<1>2. status \in [Executions -> {"none", "pending", "held", "done"}] /\ batch \subseteq Executions
      /\ TypeOf \in [Executions -> Types] /\ IsFiniteSet(Executions) /\ Limit \in Nat
      /\ backoff \in [Types -> Nat]
  BY NotifyAssumption DEF NotifyInv, NotifyTypeOK, NotifyTypes
<1>3. ASSUME NEW k \in Types
      PROVE  /\ Cardinality(Held(k)') <= Limit
             /\ Full(k) => Full(k)'
             /\ \/ wanted(k) \subseteq given
                \/ Full(k)' \/ backoff[k] # 0
  <2> DEFINE g == {x \in given : TypeOf[x] = k}
             c == Cardinality(g)
             h == Cardinality(Held(k))
             w == Cardinality(wanted(k))
  <2>1. Held(k)' = Held(k) \cup g /\ Held(k) \cap g = {} /\ g \subseteq wanted(k)
    BY <1>1, <1>2 DEF Held
  <2>2. IsFiniteSet(g) /\ IsFiniteSet(wanted(k)) /\ c \in Nat /\ w \in Nat
        /\ (c = w => g = wanted(k)) /\ c <= w
    <3>1. wanted(k) \in SUBSET Executions /\ g \in SUBSET wanted(k)
      BY <1>2, <2>1
    <3> HIDE DEF g, wanted
    <3>2. IsFiniteSet(wanted(k))
      BY <1>2, <3>1, FS_Subset
    <3> QED BY <3>1, <3>2, FS_Subset, FS_CardinalityType
  <2>3. Cardinality(Held(k)') = h + c /\ h \in Nat
    <3> HIDE DEF g
    <3>1. Cardinality(Held(k) \cap g) = 0
      BY <2>1, FS_EmptySet
    <3>2. IsFiniteSet(Held(k)) /\ h \in Nat
      BY HeldFinite
    <3>3. Cardinality(Held(k) \cup g) = h + c - Cardinality(Held(k) \cap g)
      BY <2>2, <3>2, FS_Union
    <3> QED BY <2>1, <2>2, <3>1, <3>2, <3>3
  <2>4. h <= Limit
    BY DEF NotifyInv, NotifyTypeOK
  <2>5. Free(k) \in Nat /\ Free(k) = IF backoff[k] = 0 THEN Limit - h ELSE 0
    BY <1>2, <2>3, <2>4 DEF Free
  <2>6. c \in {w, Free(k)} /\ c <= w /\ c <= Free(k)
    <3>1. c = Min({w, Free(k)})
      BY <1>1
    <3>2. {w, Free(k)} \in SUBSET Nat /\ {w, Free(k)} # {}
      BY <2>2, <2>5
    <3> HIDE DEF c, w
    <3> QED BY <3>1, <3>2, LeastIs
  <2>7. Full(k) => Full(k)'
    BY <1>2, <2>2, <2>3, <2>5, <2>6 DEF Full
  <2>8. ASSUME ~(wanted(k) \subseteq given), backoff[k] = 0 PROVE Full(k)'
    <3>1. g # wanted(k)
      BY <2>8
    <3>2. c = Limit - h
      BY <2>2, <2>5, <2>6, <2>8, <3>1
    <3> QED BY <1>2, <2>2, <2>3, <3>2 DEF Full
  <2> QED BY <1>2, <2>2, <2>3, <2>4, <2>5, <2>6, <2>7, <2>8
<1>4. ASSUME NEW x \in ignored', status'[x] = "pending", x \notin ignored
      PROVE  Full(TypeOf[x])' \/ backoff[TypeOf[x]] # 0
  <2>1. x \in batch /\ x \notin given /\ x \in Executions /\ TypeOf[x] \in Types
    BY <1>1, <1>2, <1>4
  <2>2. status[x] = "pending"
    BY <1>1, <1>4, <2>1
  <2> QED BY <1>3, <2>1, <2>2
<1>5. status' \in [Executions -> {"none", "pending", "held", "done"}]
  BY <1>1, <1>2
<1>6. \A x \in Executions :
        status'[x] # status[x] => status[x] = "pending" /\ status'[x] = "held" /\ x \in batch
  BY <1>1, <1>2
<1>7. \A x \in batch : x \in ignored' \/ status'[x] = "held"
  BY <1>1, <1>2
<1> QED BY <1>1, <1>3, <1>4, <1>5, <1>6, <1>7

\* Queries the backend for the execution that is due next.
LEMMA QueryIs ==
  ASSUME NotifyInv
  PROVE  LET d == Min({Poll} \cup {dueIn[x] : x \in Unstarted \ ignored})
         IN  /\ d \in 0..Poll
             /\ \A x \in Unstarted \ ignored : d <= dueIn[x]
             /\ d = 0 => \E x \in Unstarted \ ignored : dueIn[x] = 0
<1> DEFINE S == {Poll} \cup {dueIn[x] : x \in Unstarted \ ignored}
<1>1. S \in SUBSET Nat /\ Poll \in S /\ \A x \in Unstarted \ ignored : dueIn[x] \in S
  BY NotifyAssumption DEF NotifyInv, NotifyTypes, Unstarted
<1>2. \A t \in S : t = Poll \/ \E x \in Unstarted \ ignored : t = dueIn[x]
  OBVIOUS
<1> HIDE DEF S
<1>3. Min(S) \in S /\ \A t \in S : Min(S) <= t
  BY <1>1, LeastIs
<1>4. Min(S) \in Nat /\ Poll \in Nat \ {0} /\ Min(S) <= Poll
  BY <1>1, <1>3, NotifyAssumption
<1>5. Min(S) = 0 => \E x \in Unstarted \ ignored : dueIn[x] = 0
  BY <1>2, <1>3, <1>4
<1>6. Min(S) \in 0..Poll
  BY <1>4
<1>7. ASSUME NEW x \in Unstarted \ ignored PROVE Min(S) <= dueIn[x]
  <2>1. dueIn[x] \in S
    BY <1>1
  <2> QED BY <1>3, <2>1
<1> QED BY <1>5, <1>6, <1>7 DEF S


\* Executions leave the executor: no queue grows.
LEMMA HeldShrinks ==
  ASSUME NotifyTypeOK, NEW k \in Types,
         \A x \in Executions : status'[x] = "held" => status[x] = "held"
  PROVE  Cardinality(Held(k)') <= Limit
<1>1. Held(k)' \in SUBSET Held(k)
  BY DEF Held
<1>2. Cardinality(Held(k)') <= Cardinality(Held(k)) /\ IsFiniteSet(Held(k)')
  BY <1>1, HeldFinite, FS_Subset
<1> QED BY <1>2, HeldFinite, FS_CardinalityType, NotifyAssumption DEF NotifyTypeOK

LEMMA NotifyTypesKept ==
  ASSUME NotifyInv, [NotifyNext]_notifyVars
  PROVE  (NotifyTypeOK /\ NotifyTypes)'
<1> USE DEF executionVars, passVars, timers, notes, backoffs
<1>0. NotifyTypeOK /\ NotifyTypes
  BY DEF NotifyInv
<1>1. ASSUME NEW x \in Executions, Commit(x) PROVE (NotifyTypeOK /\ NotifyTypes)'
  <2>1. status[x] = "none" /\ status' = [status EXCEPT ![x] = "pending"]
    BY <1>1 DEF Commit
  <2>2. PICK d \in Delays : dueIn' = [dueIn EXCEPT ![x] = d]
    BY <1>1 DEF Commit
  <2>3. d \in Nat /\ Poll \in Nat
    BY NotifyAssumption
  <2>4. status' \in [Executions -> {"none", "pending", "held", "done"}]
        /\ \A y \in Executions : status'[y] = "held" => status[y] = "held" /\ y # x
    BY <1>0, <2>1 DEF NotifyTypeOK
  <2>5. \A k \in Types : Cardinality(Held(k)') <= Limit
    BY <1>0, <2>4, HeldShrinks
  <2>6. NotifyTypeOK'
    BY <1>0, <1>1, <2>1, <2>2, <2>4, <2>5 DEF Commit, NotifyTypeOK, NotifyTypes
  <2>7. NotifyTypes'
    BY <1>0, <1>1, <2>2, <2>3 DEF Commit, NotifyTypes
  <2> QED BY <2>6, <2>7
<1>2. ASSUME NEW x \in Executions, Announce(x) PROVE (NotifyTypeOK /\ NotifyTypes)'
  <2>1. \A k : Held(k)' = Held(k)
    BY <1>2 DEF Announce, Held
  <2>2. NotifyTypeOK'
    BY <1>0, <1>2, <2>1 DEF Announce, NotifyTypeOK
  <2> QED BY <1>0, <1>2, <2>2 DEF Announce, NotifyTypes
<1>3. ASSUME NEW x \in Executions, Ends(x) PROVE (NotifyTypeOK /\ NotifyTypes)'
  <2>1. status' \in [Executions -> {"none", "pending", "held", "done"}]
        /\ \A y \in Executions : /\ status'[y] = "held" => status[y] = "held"
                                 /\ status'[y] = "none" => status[y] = "none"
    BY <1>0, <1>3 DEF Ends, NotifyTypeOK
  <2>2. \A k \in Types : Cardinality(Held(k)') <= Limit
    BY <1>0, <2>1, HeldShrinks
  <2>3. NotifyTypeOK'
    BY <1>0, <1>3, <2>1, <2>2 DEF Ends, NotifyTypeOK, NotifyTypes
  <2> QED BY <1>0, <1>3, <2>3 DEF Ends, Available, NotifyTypes
<1>4. ASSUME NEW x \in Executions, Rejects(x) PROVE (NotifyTypeOK /\ NotifyTypes)'
  <2>1. status' \in [Executions -> {"none", "pending", "held", "done"}]
        /\ \A y \in Executions : /\ status'[y] = "held" => status[y] = "held"
                                 /\ status'[y] = "none" => status[y] = "none"
    BY <1>0, <1>4 DEF Rejects, NotifyTypeOK
  <2>2. \A k \in Types : Cardinality(Held(k)') <= Limit
    BY <1>0, <2>1, HeldShrinks
  <2>3. NotifyTypeOK'
    BY <1>0, <1>4, <2>1, <2>2 DEF Rejects, NotifyTypeOK, NotifyTypes
  <2>4. PICK b \in Backoffs :
          /\ backoff' = [backoff EXCEPT ![TypeOf[x]] = b]
          /\ rejected' = [rejected EXCEPT ![TypeOf[x]] = b]
    BY <1>4 DEF Rejects
  <2>5. b \in Nat
    BY NotifyAssumption
  <2> QED BY <1>0, <1>4, <2>3, <2>4, <2>5 DEF Rejects, Available, NotifyTypes
<1>5. ASSUME NEW x \in Executions, Accepts(x) PROVE (NotifyTypeOK /\ NotifyTypes)'
  <2>1. \A k : Held(k)' = Held(k)
    BY <1>5 DEF Accepts, Held
  <2>2. NotifyTypeOK'
    BY <1>0, <1>5, <2>1 DEF Accepts, NotifyTypeOK
  <2> QED BY <1>0, <1>5, <2>2, NotifyAssumption DEF Accepts, NotifyTypes
<1>6. CASE Fetch
  <2>1. PICK pageRead \in SUBSET ({x \in Unstarted : dueIn[x] = 0} \ (inFlight \cup fetched)) :
          batch' = pageRead /\ readyAt' \in {"ignore", "offer"}
    BY <1>6 DEF Fetch
  <2>2. \A x \in pageRead : x \in Executions /\ dueIn[x] = 0 /\ status[x] # "none"
    BY <1>0, <2>1 DEF Unstarted
  <2>3. \A k : Held(k)' = Held(k)
    BY <1>6 DEF Fetch, Held
  <2>4. NotifyTypeOK'
    BY <1>0, <1>6, <2>1, <2>2, <2>3 DEF Fetch, NotifyTypeOK
  <2> QED BY <1>0, <1>6, <2>1, <2>2, <2>4 DEF Fetch, NotifyTypes
<1>7. CASE TryOffer
  <2>1. /\ UNCHANGED <<dueIn, owed, blind, inFlight, timers, notes, backoffs, event>>
        /\ fetched' = fetched \cup batch /\ batch' = {}
        /\ saturated' \in BOOLEAN /\ readyAt' \in {"ignore", "fetch"}
    BY <1>7 DEF TryOffer
  <2>2. \A x \in Executions :
          /\ status'[x] = "held" => status[x] = "held" \/ x \in batch
          /\ status'[x] = "none" => status[x] = "none"
    BY <1>7, OfferIs
  <2>3. ignored' \subseteq ignored \cup batch
        /\ status' \in [Executions -> {"none", "pending", "held", "done"}]
        /\ \A k \in Types : Cardinality(Held(k)') <= Limit
    BY <1>7, OfferIs
  <2>4. NotifyTypeOK'
    BY <1>0, <2>1, <2>2, <2>3 DEF NotifyTypeOK, NotifyTypes
  <2> QED BY <1>0, <2>1, <2>3, <2>4 DEF NotifyTypes
<1>8. CASE Wait
  <2>1. \A k : Held(k)' = Held(k)
    BY <1>8 DEF Wait, Held
  <2>2. checkIn' \in 0..CheckDelay
    BY <1>0, <1>8, NextCheckIs, NotifyAssumption DEF Wait
  <2>3. NotifyTypeOK'
    BY <1>0, <1>8, <2>1, <2>2 DEF Wait, Ignored, NotifyTypeOK
  <2> QED BY <1>0, <1>8, <2>3 DEF Wait, Ignored, NotifyTypes
<1>9. CASE Register \/ PollAgain
  <2>1. \A k : Held(k)' = Held(k)
    BY <1>9 DEF Register, PollAgain, Held
  <2>2. NotifyTypeOK'
    BY <1>0, <1>9, <2>1 DEF Register, PollAgain, NotifyTypeOK
  <2> QED BY <1>0, <1>9, <2>2 DEF Register, PollAgain, NotifyTypes
<1>10. ASSUME PassBegins, UNCHANGED <<executionVars, batch, newNote, backoffs>>
       PROVE  (NotifyTypeOK /\ NotifyTypes)'
  <2>1. \A k : Held(k)' = Held(k)
    BY <1>10 DEF Held
  <2>2. NotifyTypeOK'
    BY <1>0, <1>10, <2>1, NotifyAssumption DEF PassBegins, NotifyTypeOK, NotifyTypes
  <2> QED BY <1>0, <1>10, <2>2 DEF PassBegins, NotifyTypes
<1>11. CASE Query
  <2> DEFINE d == Min({Poll} \cup {dueIn[x] : x \in Unstarted \ ignored})
  <2>1. d \in 0..Poll
    BY QueryIs
  <2> HIDE DEF d
  <2>2. CASE d = 0
    BY <1>10, <1>11, <2>2 DEF Query, d
  <2>3. CASE d # 0
    <3>1. /\ pollIn' = d /\ readyAt' = "polling"
          /\ UNCHANGED <<inFlight, fetched, ignored, saturated, checkIn, availNote, event>>
          /\ UNCHANGED <<executionVars, batch, newNote, backoffs>>
      BY <1>11, <2>3 DEF Query, d
    <3>2. \A k : Held(k)' = Held(k)
      BY <3>1 DEF Held
    <3>3. NotifyTypeOK'
      BY <1>0, <2>1, <3>1, <3>2 DEF NotifyTypeOK
    <3> QED BY <1>0, <3>1, <3>3 DEF NotifyTypes
  <2> QED BY <2>2, <2>3
<1>12. CASE WakeUp
  BY <1>10, <1>12 DEF WakeUp
<1>13. CASE Tick
  <2>1. \A k : Held(k)' = Held(k)
    BY <1>13 DEF Tick, Held
  <2>2. Less(pollIn) \in 0..Poll /\ Less(checkIn) \in 0..CheckDelay
    BY <1>0, LessIs, NotifyAssumption DEF NotifyTypeOK
  <2>3. \A t \in Nat : Less(t) \in Nat /\ (t = 0 => Less(t) = 0)
    BY LessIs
  <2>4. NotifyTypeOK'
    BY <1>0, <1>13, <2>1, <2>2, <2>3 DEF Tick, NotifyTypeOK, NotifyTypes
  <2> QED BY <1>0, <1>13, <2>3, <2>4 DEF Tick, NotifyTypes
<1>14. CASE UNCHANGED notifyVars
  <2>1. \A k : Held(k)' = Held(k)
    BY <1>14 DEF notifyVars, Held
  <2>2. NotifyTypeOK'
    BY <1>0, <1>14, <2>1 DEF notifyVars, NotifyTypeOK
  <2> QED BY <1>0, <1>14, <2>2 DEF notifyVars, NotifyTypes
<1> QED BY <1>1, <1>2, <1>3, <1>4, <1>5, <1>6, <1>7, <1>8, <1>9, <1>11, <1>12, <1>13, <1>14
        DEF NotifyNext

LEMMA PassKept ==
  ASSUME NotifyInv, [NotifyNext]_notifyVars
  PROVE  PassInv'
<1> USE DEF executionVars, passVars, timers, notes, backoffs, Waiting, PassInv
<1>0. NotifyTypeOK /\ NotifyTypes /\ PassInv /\ TypeOf \in [Executions -> Types]
  BY NotifyAssumption DEF NotifyInv
<1>1. ASSUME NEW x \in Executions, Commit(x) \/ Announce(x) \/ Ends(x) PROVE PassInv'
  BY <1>0, <1>1 DEF Commit, Announce, Ends, NotifyTypeOK
<1>2. ASSUME NEW x \in Executions, Rejects(x) PROVE PassInv'
  <2>1. PICK b \in Backoffs :
          /\ backoff' = [backoff EXCEPT ![TypeOf[x]] = b]
          /\ rejected' = [rejected EXCEPT ![TypeOf[x]] = b]
    BY <1>2 DEF Rejects
  <2>2. \A k \in Types : backoff'[k] \in {0, rejected'[k]}
    BY <1>0, <2>1 DEF NotifyTypes
  <2> QED BY <1>0, <1>2, <2>2 DEF Rejects, NotifyTypeOK
<1>3. ASSUME NEW x \in Executions, Accepts(x) PROVE PassInv'
  <2>1. \A k \in Types : backoff'[k] \in {0, rejected'[k]}
    BY <1>0, <1>3 DEF Accepts, NotifyTypes
  <2> QED BY <1>0, <1>3, <2>1 DEF Accepts
<1>4. CASE Fetch
  BY <1>0, <1>4 DEF Fetch
<1>5. CASE TryOffer
  BY <1>0, <1>5 DEF TryOffer
<1>6. CASE Wait
  BY <1>0, <1>6 DEF Wait, Ignored
<1>7. CASE Register \/ PollAgain
  BY <1>0, <1>7 DEF Register, PollAgain
<1>8. CASE Query
  BY <1>0, <1>8 DEF Query, PassBegins
<1>9. CASE WakeUp
  BY <1>0, <1>9 DEF WakeUp, PassBegins, Woken
<1>10. CASE Tick
  <2>1. \A t \in Nat : Less(t) = IF t = 0 THEN 0 ELSE t - 1
    BY LessIs
  <2>2. \A k \in Types : backoff'[k] \in {0, rejected'[k]}
    BY <1>0, <1>10, <2>1 DEF Tick, NotifyTypes
  <2> QED BY <1>0, <1>10, <2>2 DEF Tick
<1>11. CASE UNCHANGED notifyVars
  BY <1>0, <1>11 DEF notifyVars
<1> QED BY <1>1, <1>2, <1>3, <1>4, <1>5, <1>6, <1>7, <1>8, <1>9, <1>10, <1>11 DEF NotifyNext

LEMMA RefusedKept ==
  ASSUME NotifyInv, [NotifyNext]_notifyVars, ~SlowPasses
  PROVE  RefusedInv'
<1> USE DEF executionVars, passVars, timers, notes, backoffs
<1>0. NotifyTypeOK /\ NotifyTypes /\ PassInv /\ RefusedInv /\ TypeOf \in [Executions -> Types]
  BY NotifyAssumption DEF NotifyInv
<1>a. ASSUME readyAt' # "saturated", ~(readyAt' = "ignore" /\ saturated'), ignored' = {}
      PROVE  RefusedInv'
  BY <1>a DEF RefusedInv
<1>b. ASSUME availNote' = availNote, readyAt' = readyAt, ignored' = ignored, saturated' = saturated,
             \A x \in ignored : status'[x] = "pending" => status[x] = "pending",
             \A k \in Types : FullOrOff(k) => FullOrOff(k)'
      PROVE  RefusedInv'
  BY <1>0, <1>b DEF RefusedInv, NotifyTypes
<1>1. ASSUME NEW x \in Executions, Commit(x) PROVE RefusedInv'
  <2>1. \A k : Held(k)' = Held(k)
    BY <1>0, <1>1 DEF Commit, Held, NotifyTypeOK
  <2>2. \A y \in ignored : status'[y] = "pending" => status[y] = "pending"
    BY <1>0, <1>1 DEF Commit, NotifyTypeOK, NotifyTypes
  <2>3. \A k \in Types : FullOrOff(k) => FullOrOff(k)'
    BY <1>1, <2>1 DEF Commit, FullOrOff, Full, Waiting
  <2> QED BY <1>1, <1>b, <2>2, <2>3 DEF Commit
<1>2. ASSUME NEW x \in Executions, Announce(x) PROVE RefusedInv'
  <2>1. \A k : Held(k)' = Held(k)
    BY <1>2 DEF Announce, Held
  <2>2. \A k \in Types : FullOrOff(k) => FullOrOff(k)'
    BY <1>2, <2>1 DEF Announce, FullOrOff, Full, Waiting
  <2> QED BY <1>2, <1>b, <2>2 DEF Announce
<1>3. ASSUME NEW x \in Executions, Ends(x) \/ Rejects(x) PROVE RefusedInv'
  BY <1>3 DEF Ends, Rejects, Available, RefusedInv
<1>4. ASSUME NEW x \in Executions, Accepts(x) PROVE RefusedInv'
  <2>1. \A k : Held(k)' = Held(k)
    BY <1>4 DEF Accepts, Held
  <2>2. \A k \in Types : FullOrOff(k) => FullOrOff(k)'
    <3>1. CASE Waiting
      BY <1>4, <2>1, <3>1 DEF Accepts, FullOrOff, Full, Waiting
    <3>2. CASE ~Waiting
      BY <1>0, <1>4, <2>1, <3>2 DEF Accepts, FullOrOff, Full, Waiting, NotifyTypes
    <3> QED BY <3>1, <3>2
  <2> QED BY <1>4, <1>b, <2>2 DEF Accepts
<1>5. CASE Fetch
  <2>1. \A k : Held(k)' = Held(k)
    BY <1>5 DEF Fetch, Held
  <2>2. \A k \in Types : FullOrOff(k) => FullOrOff(k)'
    BY <1>5, <2>1 DEF Fetch, FullOrOff, Full, Waiting
  <2>3. readyAt' \in {"ignore", "offer"} /\ ~saturated'
    BY <1>0, <1>5 DEF Fetch, PassInv
  <2> QED BY <1>0, <1>5, <2>2, <2>3 DEF Fetch, RefusedInv, NotifyTypes
<1>6. CASE TryOffer
  <2>1. /\ UNCHANGED <<timers, notes, backoffs>>
        /\ saturated' = ~(\E k \in Types : HasCapacity(k)')
        /\ readyAt = "offer" /\ readyAt' \in {"ignore", "fetch"}
    BY <1>6 DEF TryOffer
  <2>2. \A k \in Types : (Full(k)' \/ backoff[k] # 0) => FullOrOff(k)'
    BY <2>1 DEF FullOrOff, Waiting
  <2>3. \A k \in Types : Full(k) => Full(k)'
    BY <1>6, OfferIs
  <2>4. \A k \in Types : FullOrOff(k) => FullOrOff(k)'
    BY <2>1, <2>2, <2>3 DEF FullOrOff, Waiting
  <2>5. \A x \in ignored' : status'[x] = "pending" => FullOrOff(TypeOf[x])' \/ x \in ignored
    <3>1. ignored' \subseteq Executions
      BY <1>0, <1>6, OfferIs DEF NotifyTypes
    <3>2. \A x \in ignored' :
            status'[x] = "pending" =>
              x \in ignored \/ Full(TypeOf[x])' \/ backoff[TypeOf[x]] # 0
      BY <1>6, OfferIs
    <3> QED BY <1>0, <2>2, <3>1, <3>2
  <2>6. \A x \in ignored : status'[x] = "pending" => status[x] = "pending"
    BY <1>0, <1>6, OfferIs DEF NotifyTypes
  <2>7. saturated' => \A k \in Types : FullOrOff(k)'
    <3>1. ASSUME NEW k \in Types, ~HasCapacity(k)' PROVE Full(k)' \/ backoff[k] # 0
      <4>1. Cardinality(Held(k)') <= Limit
        BY <1>6, OfferIs
      <4>2. Cardinality(Held(k)') \in Nat /\ Limit \in Nat
        <5>1. Held(k)' \in SUBSET Executions
          BY DEF Held
        <5> QED BY <5>1, NotifyAssumption, FS_Subset, FS_CardinalityType
      <4>3. ~(Cardinality(Held(k)') < Limit /\ backoff[k] = 0)
        BY <2>1, <3>1 DEF HasCapacity
      <4> QED BY <4>1, <4>2, <4>3 DEF Full
    <3> QED BY <2>1, <2>2, <3>1
  <2>8. \A x \in ignored' : x \in Executions
    BY <1>0, <1>6, OfferIs DEF NotifyTypes
  <2> QED BY <1>0, <2>1, <2>4, <2>5, <2>6, <2>7, <2>8 DEF RefusedInv
<1>7. CASE Wait
  <2>1. \A k : Held(k)' = Held(k)
    BY <1>7 DEF Wait, Held
  <2>2. ASSUME NEW k \in Types, FullOrOff(k) PROVE FullOrOff(k)'
    <3>1. ~Waiting /\ Waiting' /\ checkIn' = NextCheck /\ rejected' = rejected
      BY <1>7 DEF Wait, Waiting
    <3>2. NextCheck \in Nat /\ NextCheck <= CheckDelay /\ (backoff[k] # 0 => NextCheck <= backoff[k])
      BY <1>0, NextCheckIs
    <3>3. backoff[k] \in {0, rejected[k]} /\ rejected[k] \in Nat /\ CheckDelay \in Nat
      BY <1>0, NotifyAssumption DEF PassInv, NotifyTypes
    <3> QED BY <2>1, <2>2, <3>1, <3>2, <3>3 DEF FullOrOff, Full
  <2>3. \A x \in ignored' : status'[x] = "pending" => x \in ignored /\ status[x] = "pending"
    BY <1>7 DEF Wait, Ignored
  <2> QED BY <1>0, <1>7, <2>2, <2>3 DEF Wait, RefusedInv, NotifyTypes
<1>8. CASE Register \/ PollAgain
  <2>1. \A k : Held(k)' = Held(k)
    BY <1>8 DEF Register, PollAgain, Held
  <2>2. \A k \in Types : FullOrOff(k) => FullOrOff(k)'
    BY <1>8, <2>1 DEF Register, PollAgain, FullOrOff, Full, Waiting
  <2> QED BY <1>0, <1>8, <2>2 DEF Register, PollAgain, RefusedInv, NotifyTypes
<1>9. CASE Query
  <2> DEFINE d == Min({Poll} \cup {dueIn[x] : x \in Unstarted \ ignored})
  <2> HIDE DEF d
  <2>1. CASE d = 0
    BY <1>9, <1>a, <2>1 DEF Query, PassBegins, d
  <2>2. CASE d # 0
    <3>1. /\ readyAt = "query" /\ readyAt' = "polling"
          /\ UNCHANGED <<ignored, saturated, checkIn, availNote>>
          /\ UNCHANGED <<executionVars, backoffs>>
      BY <1>9, <2>2 DEF Query, d
    <3>2. \A k : Held(k)' = Held(k)
      BY <3>1 DEF Held
    <3>3. \A k \in Types : FullOrOff(k) => FullOrOff(k)'
      BY <3>1, <3>2 DEF FullOrOff, Full, Waiting
    <3> QED BY <1>0, <3>1, <3>3 DEF RefusedInv, NotifyTypes
  <2> QED BY <2>1, <2>2
<1>10. CASE WakeUp
  BY <1>10, <1>a DEF WakeUp, PassBegins
<1>11. CASE Tick
  <2>1. \A k : Held(k)' = Held(k)
    BY <1>11 DEF Tick, Held
  <2>2. \A k \in Types : FullOrOff(k) => FullOrOff(k)'
    <3>1. Waiting /\ Waiting'
      BY <1>11 DEF Tick, Asleep, Waiting
    <3>2. \A t \in Nat : Less(t) = IF t = 0 THEN 0 ELSE t - 1
      BY LessIs
    <3>3. checkIn \in Nat /\ checkIn' = Less(checkIn)
      BY <1>0, <1>11, NotifyAssumption DEF Tick, NotifyTypeOK
    <3>4. \A k \in Types : rejected[k] \in Nat /\ rejected'[k] = Less(rejected[k])
      BY <1>0, <1>11 DEF Tick, NotifyTypes
    <3>5. \A k \in Types : checkIn <= rejected[k] => checkIn' <= rejected'[k]
      BY <3>2, <3>3, <3>4
    <3> QED BY <2>1, <3>1, <3>5 DEF FullOrOff, Full
  <2> QED BY <1>11, <1>b, <2>2 DEF Tick
<1>12. CASE UNCHANGED notifyVars
  <2>1. \A k : Held(k)' = Held(k)
    BY <1>12 DEF notifyVars, Held
  <2>2. \A k \in Types : FullOrOff(k) => FullOrOff(k)'
    BY <1>12, <2>1 DEF notifyVars, FullOrOff, Full, Waiting
  <2> QED BY <1>12, <1>b, <2>2 DEF notifyVars
<1> QED BY <1>1, <1>2, <1>3, <1>4, <1>5, <1>6, <1>7, <1>8, <1>9, <1>10, <1>11, <1>12 DEF NotifyNext

LEMMA PollKept ==
  ASSUME NotifyInv, [NotifyNext]_notifyVars
  PROVE  PollInv'
<1> USE DEF executionVars, passVars, timers, notes, backoffs
<1>0. NotifyTypeOK /\ NotifyTypes /\ PassInv /\ PollInv /\ Poll \in Nat
  BY NotifyAssumption DEF NotifyInv
<1>1. ASSUME NEW x \in Executions, Commit(x) PROVE PollInv'
  <2>1. /\ status' = [status EXCEPT ![x] = "pending"] /\ owed = {}
        /\ UNCHANGED <<readyAt, ignored, pollIn, newNote>>
    BY <1>1 DEF Commit
  <2>2. ASSUME NEW y \in Executions \ ignored, y # x, readyAt = "polling", status'[y] = "pending"
        PROVE  pollIn <= dueIn'[y] \/ pollIn <= blind'[y] \/ newNote
    <3>1. status[y] = "pending" /\ dueIn'[y] = dueIn[y] /\ blind'[y] = blind[y]
      BY <1>0, <1>1, <2>2 DEF Commit, NotifyTypeOK, NotifyTypes
    <3> QED BY <1>0, <2>1, <2>2, <3>1 DEF PollInv
  <2>3. x \in owed' \/ pollIn <= blind'[x]
    BY <1>0, <1>1 DEF Commit, NotifyTypeOK, NotifyTypes
  <2> QED BY <2>1, <2>2, <2>3 DEF PollInv
<1>2. ASSUME NEW x \in Executions, Announce(x) PROVE PollInv'
  <2>1. readyAt = "polling" => newNote' \/ pollIn <= dueIn[x]
    <3>1. CASE DueBeforePoll(x)
      BY <1>2, <3>1 DEF Announce
    <3>2. CASE ~DueBeforePoll(x)
      BY <1>0, <3>2 DEF DueBeforePoll, NotifyTypeOK, NotifyTypes
    <3> QED BY <3>1, <3>2
  <2> QED BY <1>0, <1>2, <2>1 DEF Announce, PollInv
<1>3. ASSUME NEW x \in Executions, Ends(x) \/ Rejects(x) PROVE PollInv'
  <2>1. readyAt = "polling" => x \in ignored
    BY <1>0, <1>3 DEF Ends, Rejects, PassInv, Waiting
  <2> QED BY <1>0, <1>3, <2>1 DEF Ends, Rejects, PollInv, NotifyTypeOK
<1>4. ASSUME NEW x \in Executions, Accepts(x) PROVE PollInv'
  BY <1>0, <1>4 DEF Accepts, PollInv
<1>5. CASE Fetch \/ TryOffer \/ Wait \/ Register \/ PollAgain
  BY <1>5 DEF Fetch, TryOffer, Wait, Register, PollAgain, PollInv
<1>6. CASE Query
  <2> DEFINE d == Min({Poll} \cup {dueIn[x] : x \in Unstarted \ ignored})
  <2>1. \A x \in Unstarted \ ignored : d <= dueIn[x]
    BY QueryIs
  <2> HIDE DEF d
  <2>2. CASE d = 0
    BY <1>6, <2>2 DEF Query, PassBegins, PollInv, d
  <2>3. CASE d # 0
    <3>1. /\ pollIn' = d /\ UNCHANGED <<status, dueIn, ignored>>
      BY <1>6, <2>3 DEF Query, d
    <3> QED BY <2>1, <3>1 DEF PollInv, Unstarted
  <2> QED BY <2>2, <2>3
<1>7. CASE WakeUp
  BY <1>7 DEF WakeUp, PassBegins, PollInv
<1>8. CASE Tick
  <2>1. \A t \in Nat : Less(t) = IF t = 0 THEN 0 ELSE t - 1
    BY LessIs
  <2>2. pollIn \in Nat /\ pollIn' = Less(pollIn)
    BY <1>0, <1>8 DEF Tick, NotifyTypeOK
  <2>3. \A x \in Executions : /\ dueIn[x] \in Nat /\ dueIn'[x] = Less(dueIn[x])
                              /\ blind[x] \in Nat /\ blind'[x] = Less(blind[x])
    BY <1>0, <1>8 DEF Tick, NotifyTypes
  <2>4. \A x \in Executions : /\ pollIn <= dueIn[x] => pollIn' <= dueIn'[x]
                              /\ pollIn <= blind[x] => pollIn' <= blind'[x]
    BY <2>1, <2>2, <2>3
  <2> QED BY <1>0, <1>8, <2>4 DEF Tick, PollInv
<1>9. CASE UNCHANGED notifyVars
  BY <1>0, <1>9 DEF notifyVars, PollInv
<1> QED BY <1>1, <1>2, <1>3, <1>4, <1>5, <1>6, <1>7, <1>8, <1>9 DEF NotifyNext

LEMMA QuietKept ==
  ASSUME NotifyInv, [NotifyNext]_notifyVars
  PROVE  QuietInv'
<1> USE DEF executionVars, passVars, timers, notes, backoffs
<1>0. NotifyTypeOK /\ NotifyTypes /\ PassInv /\ QuietInv
  BY DEF NotifyInv
<1>1. ASSUME NEW x \in Executions,
             Commit(x) \/ Announce(x) \/ Ends(x) \/ Rejects(x) \/ Accepts(x) \/ Tick
      PROVE  QuietInv'
  BY <1>1 DEF Commit, Announce, Ends, Rejects, Accepts, Tick, QuietInv
<1>2. ASSUME PassBegins, UNCHANGED executionVars PROVE QuietInv'
  BY <1>2 DEF PassBegins, QuietInv, Waiting
<1>3. CASE Fetch
  <2> DEFINE ready == {x \in Unstarted : dueIn[x] = 0} \ (inFlight \cup fetched)
  <2>1. PICK pageRead \in SUBSET ready :
          /\ fetched = {} => pageRead = ready
          /\ batch' = pageRead
          /\ readyAt' = IF pageRead = {} THEN "ignore" ELSE "offer"
    BY <1>3 DEF Fetch
  <2>2. /\ readyAt = "fetch" /\ ~saturated
        /\ UNCHANGED <<executionVars, inFlight, fetched, ignored, saturated, timers, notes, backoffs, event>>
    BY <1>0, <1>3 DEF Fetch, PassInv
  <2>3. ready = Due \ (inFlight \cup fetched) /\ Due' = Due
    BY <2>2 DEF Due, Unstarted
  <2> HIDE DEF ready
  <2>4. ~event => Due \subseteq inFlight \cup fetched \cup batch'
    <3>1. CASE fetched = {}
      BY <2>1, <2>3, <3>1
    <3>2. CASE fetched # {}
      BY <1>0, <2>1, <2>2, <3>2 DEF QuietInv, PassInv
    <3> QED BY <3>1, <3>2
  <2>5. readyAt' \notin {"saturated", "wait", "query", "polling", "fetch"}
    BY <2>1
  <2> QED BY <1>0, <2>2, <2>3, <2>4, <2>5 DEF QuietInv, Waiting
<1>4. CASE TryOffer
  <2>1. /\ UNCHANGED <<dueIn, inFlight, timers, notes, event>>
        /\ readyAt = "offer" /\ readyAt' \in {"ignore", "fetch"}
        /\ fetched' = fetched \cup batch /\ batch' = {}
    BY <1>4 DEF TryOffer
  <2>2. \A x \in Executions :
          status'[x] # status[x] => status[x] = "pending" /\ status'[x] = "held" /\ x \in batch
    BY <1>4, OfferIs
  <2>3. ignored \subseteq ignored' /\ \A x \in batch : x \in ignored' \/ status'[x] = "held"
    BY <1>4, OfferIs
  <2>4. Due' = Due
    BY <2>1, <2>2 DEF Due, Unstarted
  <2>5. ~event => \A x \in inFlight' \cup fetched' : x \in ignored' \/ status'[x] = "held"
    BY <1>0, <2>1, <2>2, <2>3 DEF QuietInv, NotifyTypes
  <2>6. ~event => Due' \subseteq inFlight' \cup fetched' \cup batch'
    BY <1>0, <2>1, <2>4 DEF QuietInv
  <2> QED BY <1>0, <2>1, <2>5, <2>6 DEF QuietInv, Waiting
<1>5. CASE Wait
  <2>1. /\ UNCHANGED <<executionVars, availNote, event>>
        /\ readyAt = "ignore" /\ checkIn' = NextCheck
        /\ readyAt' = IF saturated THEN "saturated" ELSE "wait"
        /\ inFlight' = {} /\ fetched' = {}
        /\ ignored' = ignored \cup {x \in Executions : status[x] = "held"}
    BY <1>5 DEF Wait, Ignored
  <2>2. checkIn' > 0
    BY <1>0, <2>1, NextCheckIs, NotifyAssumption
  <2>3. Due' = Due /\ batch = {}
    BY <1>0, <2>1 DEF Due, Unstarted, PassInv
  <2>4. ~event /\ readyAt' = "wait" => Due' \subseteq ignored'
    <3> SUFFICES ASSUME ~event, readyAt' = "wait", NEW x \in Due PROVE x \in ignored'
      BY <2>3
    <3>1. x \in inFlight \cup fetched
      BY <1>0, <2>1, <2>3 DEF QuietInv
    <3>2. x \in Executions /\ (x \in ignored \/ status[x] = "held")
      BY <1>0, <3>1 DEF QuietInv, NotifyTypes
    <3> QED BY <2>1, <3>2
  <2>5. readyAt' \in {"saturated", "wait"}
    BY <2>1
  <2> QED BY <1>0, <2>1, <2>2, <2>4, <2>5 DEF QuietInv
<1>6. CASE Register
  <2>1. Due' = Due
    BY <1>6 DEF Register, Due, Unstarted
  <2> QED BY <1>0, <1>6, <2>1 DEF Register, QuietInv, Waiting
<1>7. CASE PollAgain
  <2>1. Due' = Due
    BY <1>7 DEF PollAgain, Due, Unstarted
  <2> QED BY <1>0, <1>7, <2>1 DEF PollAgain, QuietInv, Waiting
<1>8. CASE Query
  <2> DEFINE d == Min({Poll} \cup {dueIn[x] : x \in Unstarted \ ignored})
  <2> HIDE DEF d
  <2>1. CASE d = 0
    BY <1>2, <1>8, <2>1 DEF Query, d
  <2>2. CASE d # 0
    <3>1. /\ readyAt = "query" /\ readyAt' = "polling"
          /\ UNCHANGED <<inFlight, fetched, ignored, saturated, checkIn, availNote, event>>
          /\ UNCHANGED <<executionVars, batch, newNote, backoffs>>
      BY <1>8, <2>2 DEF Query, d
    <3>2. Due' = Due
      BY <3>1 DEF Due, Unstarted
    <3> QED BY <1>0, <3>1, <3>2 DEF QuietInv, Waiting
  <2> QED BY <2>1, <2>2
<1>9. CASE WakeUp
  BY <1>2, <1>9 DEF WakeUp
<1>10. CASE UNCHANGED notifyVars
  <2>1. Due' = Due
    BY <1>10 DEF notifyVars, Due, Unstarted
  <2> QED BY <1>0, <1>10, <2>1 DEF notifyVars, QuietInv, Waiting
<1>11. CASE Tick
  BY <1>11 DEF Tick, QuietInv
<1> QED BY <1>1, <1>3, <1>4, <1>5, <1>6, <1>7, <1>8, <1>9, <1>10, <1>11 DEF NotifyNext

\* A pass begins only if something has happened.
LEMMA PassNeedsEvent ==
  ASSUME NotifyInv, [NotifyNext]_notifyVars, Waiting, ~Waiting'
  PROVE  event
<1> USE DEF executionVars, passVars, timers, notes, backoffs, Waiting
<1>0. NotifyTypeOK /\ NotifyTypes /\ QuietInv
  BY DEF NotifyInv
<1>1. CASE WakeUp
  BY <1>0, <1>1 DEF WakeUp, Woken, QuietInv
<1>2. CASE Query
  <2> DEFINE d == Min({Poll} \cup {dueIn[x] : x \in Unstarted \ ignored})
  <2>1. d = 0 => \E x \in Unstarted \ ignored : dueIn[x] = 0
    BY QueryIs
  <2> HIDE DEF d
  <2>2. d = 0
    BY <1>2 DEF Query, d
  <2> QED BY <1>0, <1>2, <2>1, <2>2 DEF Query, QuietInv, Due
<1>3. ASSUME UNCHANGED readyAt PROVE FALSE
  BY <1>3
<1>4. ASSUME NEW x \in Executions, Commit(x) \/ Announce(x) \/ Ends(x) \/ Rejects(x) \/ Accepts(x)
      PROVE  FALSE
  BY <1>4 DEF Commit, Announce, Ends, Rejects, Accepts
<1>5. CASE Fetch \/ TryOffer \/ Wait \/ Register \/ PollAgain \/ Tick \/ UNCHANGED notifyVars
  BY <1>5 DEF Fetch, TryOffer, Wait, Register, PollAgain, Tick, notifyVars
<1> QED BY <1>1, <1>2, <1>4, <1>5 DEF NotifyNext

\* Whoever could be offered wakes the loop.
LEMMA SleepsOnlyIdle == NotifyInv => ReadyIsOffered
<1> SUFFICES ASSUME NotifyInv, Asleep, NEW x \in Executions, Offerable(x) PROVE owed # {}
  BY DEF ReadyIsOffered
<1>0. NotifyTypeOK /\ NotifyTypes /\ PassInv /\ RefusedInv /\ PollInv
      /\ TypeOf[x] \in Types /\ Limit \in Nat /\ CheckDelay \in Nat /\ Poll \in Nat
  BY NotifyAssumption DEF NotifyInv
<1>1. Waiting /\ checkIn > 0
  BY <1>0 DEF Asleep, Waiting, Woken, NotifyTypeOK
<1>2. ~FullOrOff(TypeOf[x])
  <2>1. Cardinality(Held(TypeOf[x])) \in Nat /\ Cardinality(Held(TypeOf[x])) < Limit
    BY HeldFinite DEF Offerable, HasCapacity
  <2>2. rejected[TypeOf[x]] = 0 /\ checkIn \in Nat
    BY <1>0 DEF Offerable, NotifyTypeOK
  <2> QED BY <1>0, <1>1, <2>1, <2>2 DEF FullOrOff, Full
<1>3. CASE readyAt = "saturated"
  BY <1>0, <1>1, <1>2, <1>3 DEF RefusedInv, Asleep, Woken
<1>4. CASE readyAt = "polling"
  <2>1. CASE x \in ignored
    BY <1>0, <1>1, <1>2, <1>4, <2>1 DEF RefusedInv, Asleep, Woken, Offerable
  <2>2. CASE x \notin ignored
    <3>1. pollIn > 0 /\ ~newNote
      BY <1>4 DEF Asleep, Woken
    <3>2. dueIn[x] = 0 /\ blind[x] = 0 /\ status[x] = "pending"
      BY DEF Offerable
    <3>3. ~(pollIn <= dueIn[x]) /\ ~(pollIn <= blind[x])
      BY <1>0, <3>1, <3>2 DEF NotifyTypeOK
    <3> QED BY <1>0, <1>4, <2>2, <3>1, <3>2, <3>3 DEF PollInv
  <2> QED BY <2>1, <2>2
<1> QED BY <1>3, <1>4 DEF Asleep

\* The loop of ready executions sleeps when there is nothing to offer and only then, for
\* any executions, types, limits and times, if a pass takes no time.
THEOREM SleepsCorrect ==
  ASSUME ~SlowPasses
  PROVE  NotifySpec => SleepsWhileIdle
<1>1. NotifyInit => NotifyInv
  <2> SUFFICES ASSUME NotifyInit PROVE NotifyInv
    OBVIOUS
  <2>1. \A k : Held(k) = {}
    BY DEF NotifyInit, Held
  <2>2. NotifyTypeOK
    <3>1. \A k \in Types : Cardinality(Held(k)) <= Limit
      BY <2>1, NotifyAssumption, FS_EmptySet
    <3> QED BY <3>1, NotifyAssumption DEF NotifyInit, NotifyTypeOK
  <2>4. NotifyTypes
    BY NotifyAssumption DEF NotifyInit, NotifyTypes
  <2>3. PassInv /\ RefusedInv /\ PollInv /\ QuietInv
    BY DEF NotifyInit, PassInv, RefusedInv, PollInv, QuietInv, Waiting
  <2> QED BY <2>2, <2>4, <2>3 DEF NotifyInv
<1>2. NotifyInv /\ [NotifyNext]_notifyVars => NotifyInv'
  BY NotifyTypesKept, PassKept, RefusedKept, PollKept, QuietKept DEF NotifyInv
<1>3. NotifyInv => NotifyTypeOK /\ ReadyIsOffered
  BY SleepsOnlyIdle DEF NotifyInv
<1>4. NotifyInv /\ [NotifyNext]_notifyVars => [Waiting /\ ~Waiting' => event]_notifyVars
  BY PassNeedsEvent
<1> QED BY <1>1, <1>2, <1>3, <1>4, PTL DEF NotifySpec, SleepsWhileIdle, NoSpin

(***************************************************************************)
(* Backoffs                                                                *)
(***************************************************************************)

\* The least of a set of numbers.
LEMMA MinIs ==
  ASSUME NEW S \in SUBSET Int, NEW m \in S, \A s \in S : m <= s
  PROVE  Min(S) = m
<1>1. \E x \in S : \A y \in S : x <= y
  OBVIOUS
<1>2. Min(S) \in S /\ \A y \in S : Min(S) <= y
  BY <1>1 DEF Min
<1>3. Min(S) \in Int /\ m \in Int /\ Min(S) <= m /\ m <= Min(S)
  BY <1>2
<1> QED BY <1>3

\* The least of two.
LEMMA MinOfTwo ==
  ASSUME NEW a \in Int, NEW b \in Int
  PROVE  Min({a, b}) = IF a <= b THEN a ELSE b
<1> DEFINE m == IF a <= b THEN a ELSE b
<1>1. m \in {a, b} /\ \A s \in {a, b} : m <= s
  OBVIOUS
<1> QED BY <1>1, MinIs

\* There is a function that satisfies the definition of Pow2: its values up to n are
\* determined, for every n.
LEMMA Pow2Is == Pow2 = [n \in Nat |-> IF n = 0 THEN 1 ELSE 2 * Pow2[n - 1]]
<1> DEFINE UpTo(n) == {g \in [0..n -> Nat] : g[0] = 1 /\ \A i \in 1..n : g[i] = 2 * g[i - 1]}
<1>1. ASSUME NEW k \in Nat PROVE UpTo(k) # {}
  <2> DEFINE bad == {n \in Nat : UpTo(n) = {}}
  <2> SUFFICES ASSUME bad # {} PROVE FALSE
    OBVIOUS
  <2>1. PICK n \in bad : \A v \in bad : n <= v
    <3> HIDE DEF bad
    <3>1. bad \in SUBSET Nat
      BY DEF bad
    <3> QED BY <3>1, LeastNatural
  <2>2. n # 0
    <3>1. [i \in 0..0 |-> 1] \in UpTo(0)
      OBVIOUS
    <3> QED BY <2>1, <3>1
  <2>3. n \in Nat /\ n - 1 \in Nat /\ n - 1 \notin bad
    <3>1. n \in Nat /\ n - 1 \in Nat /\ n - 1 < n
      BY <2>2
    <3> HIDE DEF bad
    <3> QED BY <2>1, <3>1
  <2>4. PICK g \in UpTo(n - 1) : TRUE
    BY <2>3
  <2> DEFINE h == [i \in 0..n |-> IF i = n THEN 2 * g[n - 1] ELSE g[i]]
  <2>5. h \in [0..n -> Nat]
    <3>1. \A i \in 0..n : i # n => i \in 0..(n - 1)
      BY <2>3
    <3>2. g \in [0..(n - 1) -> Nat] /\ n - 1 \in 0..(n - 1)
      BY <2>3, <2>4
    <3> QED BY <2>3, <3>1, <3>2
  <2>6. h[0] = 1
    BY <2>2, <2>3, <2>4
  <2>7. ASSUME NEW i \in 1..n PROVE h[i] = 2 * h[i - 1]
    <3>1. CASE i = n
      BY <2>3, <3>1
    <3>2. CASE i # n
      <4>1. i \in 1..(n - 1) /\ i \in 0..n /\ i - 1 \in 0..n /\ i - 1 # n
        BY <2>1, <3>2
      <4> QED BY <2>4, <3>2, <4>1
    <3> QED BY <3>1, <3>2
  <2>8. h \in UpTo(n)
    BY <2>5, <2>6, <2>7
  <2> QED BY <2>1, <2>8
<1>2. ASSUME NEW k \in Nat, NEW n \in Nat, NEW g \in UpTo(k), NEW h \in UpTo(n),
             NEW j \in (0..k) \cap (0..n)
      PROVE  g[j] = h[j]
  <2> DEFINE bad == {i \in (0..k) \cap (0..n) : g[i] # h[i]}
  <2> SUFFICES ASSUME bad # {} PROVE FALSE
    OBVIOUS
  <2>1. PICK i \in bad : \A v \in bad : i <= v
    <3> HIDE DEF bad
    <3>1. bad \in SUBSET Nat
      BY DEF bad
    <3> QED BY <3>1, LeastNatural
  <2>2. i # 0
    BY <2>1
  <2>3. i - 1 \in (0..k) \cap (0..n) /\ i - 1 \notin bad
    BY <2>1, <2>2
  <2>4. i \in 1..k /\ i \in 1..n
    BY <2>1, <2>2
  <2> QED BY <2>1, <2>3, <2>4
<1> DEFINE G(n) == CHOOSE g \in UpTo(n) : TRUE
           f == [n \in Nat |-> G(n)[n]]
<1>3. ASSUME NEW n \in Nat PROVE G(n) \in UpTo(n)
  BY <1>1
<1>4. ASSUME NEW n \in Nat PROVE f[n] = IF n = 0 THEN 1 ELSE 2 * f[n - 1]
  <2>1. CASE n = 0
    <3>1. G(0) \in UpTo(0)
      BY <1>3
    <3> HIDE DEF G
    <3> QED BY <2>1, <3>1
  <2>2. CASE n # 0
    <3>1. n - 1 \in Nat /\ n \in 1..n /\ n - 1 \in (0..n) \cap (0..(n - 1))
      BY <2>2
    <3>2. G(n) \in UpTo(n) /\ G(n - 1) \in UpTo(n - 1)
      BY <1>3, <3>1
    <3> HIDE DEF G
    <3>3. G(n)[n] = 2 * G(n)[n - 1]
      BY <3>1, <3>2
    <3> HIDE DEF UpTo
    <3>4. G(n)[n - 1] = G(n - 1)[n - 1]
      BY <1>2, <3>1, <3>2
    <3> QED BY <2>2, <3>1, <3>3, <3>4
  <2> QED BY <2>1, <2>2
<1>5. \E g : g = [n \in Nat |-> IF n = 0 THEN 1 ELSE 2 * g[n - 1]]
  <2> HIDE DEF f
  <2>1. f = [n \in Nat |-> f[n]]
    BY DEF f
  <2>2. f = [n \in Nat |-> IF n = 0 THEN 1 ELSE 2 * f[n - 1]]
    BY <1>4, <2>1
  <2> QED BY <2>2
<1> QED BY <1>5, Zenon DEF Pow2

\* Powers of two grow, and are greater than their exponent.
LEMMA Pow2Grows ==
  /\ Pow2[0] = 1
  /\ \A n \in Nat : Pow2[n + 1] = 2 * Pow2[n] /\ Pow2[n] \in Nat /\ Pow2[n] > n
<1>1. \A n \in Nat : Pow2[n] = IF n = 0 THEN 1 ELSE 2 * Pow2[n - 1]
  BY Pow2Is
<1>2. ASSUME NEW n \in Nat PROVE Pow2[n + 1] = 2 * Pow2[n]
  BY <1>1
<1>3. ASSUME NEW k \in Nat PROVE Pow2[k] \in Nat /\ Pow2[k] > k
  <2> DEFINE bad == {n \in Nat : ~(Pow2[n] \in Nat /\ Pow2[n] > n)}
  <2> SUFFICES ASSUME bad # {} PROVE FALSE
    OBVIOUS
  <2>1. PICK n \in bad : \A v \in bad : n <= v
    <3> HIDE DEF bad
    <3>1. bad \in SUBSET Nat
      BY DEF bad
    <3> QED BY <3>1, LeastNatural
  <2>2. n # 0
    BY <1>1, <2>1
  <2>3. n - 1 \in Nat /\ n - 1 \notin bad
    BY <2>1, <2>2
  <2> QED BY <1>1, <2>1, <2>2, <2>3
<1> QED BY <1>1, <1>2, <1>3

\* saturating_pow and saturating_mul only matter above what a u32 and a Duration hold.
LEMMA SaturatingIs ==
  ASSUME NEW d \in Nat, NEW n \in Nat
  PROVE  /\ d * Pow2[n] \in Nat /\ d * U32Max \in Nat
         /\ d <= d * U32Max
         /\ LET product == IF d * Pow2[n] <= d * U32Max THEN d * Pow2[n] ELSE d * U32Max
            IN  SaturatingMul(d, SaturatingPow2(n)) = IF product <= DurationMax THEN product ELSE DurationMax
<1> DEFINE p == Pow2[n]
           u == U32Max
<1>1. p \in Nat /\ p >= 1 /\ u \in Nat /\ u >= 1 /\ DurationMax \in Nat
  BY Pow2Grows, WidthsAssumption
<1>2. SaturatingPow2(n) = IF p <= u THEN p ELSE u
  BY <1>1, MinOfTwo DEF SaturatingPow2
<1> HIDE DEF p, u
<1>3. d * p \in Nat /\ d * u \in Nat /\ d <= d * u
  BY <1>1
<1>4. p <= u => d * p <= d * u
  BY <1>1
<1>5. p > u => d * u <= d * p
  BY <1>1
<1> DEFINE product == IF d * p <= d * u THEN d * p ELSE d * u
<1>6. product \in Nat /\ d * SaturatingPow2(n) = product
  <2>1. CASE p <= u
    BY <1>2, <1>3, <1>4, <2>1
  <2>2. CASE p > u
    <3>1. product = d * u
      BY <1>3, <1>5, <2>2
    <3>2. SaturatingPow2(n) = u
      BY <1>1, <1>2, <2>2
    <3> QED BY <1>3, <3>1, <3>2
  <2> QED BY <1>1, <2>1, <2>2
<1>7. SaturatingMul(d, SaturatingPow2(n)) = IF product <= DurationMax THEN product ELSE DurationMax
  <2> HIDE DEF product
  <2> QED BY <1>1, <1>6, MinOfTwo DEF SaturatingMul
<1> QED BY <1>1, <1>2, <1>3, <1>4, <1>7 DEF p, u

\* The backoff doubles from MIN_REJECTION_BACKOFF to MAX_REJECTION_BACKOFF, whatever
\* saturates.
LEMMA RejectionBackoffIs ==
  ASSUME NEW n \in Nat
  PROVE  /\ MinRejection * Pow2[n] \in Nat
         /\ RejectionBackoff(n) =
              IF MinRejection * Pow2[n] <= MaxRejection THEN MinRejection * Pow2[n] ELSE MaxRejection
<1> DEFINE m == MinRejection * Pow2[n]
           o == MinRejection * U32Max
           product == IF m <= o THEN m ELSE o
           long == IF product <= DurationMax THEN product ELSE DurationMax
<1>1. m \in Nat /\ o \in Nat /\ SaturatingMul(MinRejection, SaturatingPow2(n)) = long
  BY WidthsAssumption, SaturatingIs
<1>2. MaxRejection \in Nat /\ MaxRejection <= o /\ DurationMax \in Nat /\ MaxRejection <= DurationMax
  BY WidthsAssumption
<1> HIDE DEF m, o
<1>3. long \in Int
  BY <1>1, <1>2
<1>4. RejectionBackoff(n) = IF long <= MaxRejection THEN long ELSE MaxRejection
  <2> HIDE DEF long
  <2> QED BY <1>1, <1>2, <1>3, MinOfTwo DEF RejectionBackoff
<1>5. RejectionBackoff(n) = IF m <= MaxRejection THEN m ELSE MaxRejection
  BY <1>1, <1>2, <1>4
<1> QED BY <1>1, <1>5 DEF m

LEMMA RejectionsDouble ==
  /\ \A n \in Nat : /\ RejectionBackoff(n) \in 1..MaxRejection
                    /\ RejectionBackoff(n + 1) = Min({MaxRejection, 2 * RejectionBackoff(n)})
  /\ RejectionBackoff(U32Max) = RejectionBackoff(U32Max - 1)
<1>1. MinRejection \in Nat \ {0} /\ MaxRejection \in Nat /\ MinRejection <= MaxRejection
      /\ MaxRejection <= MinRejection * U32Max /\ U32Max \in Nat \ {0}
  BY WidthsAssumption
<1>2. ASSUME NEW n \in Nat
      PROVE  /\ RejectionBackoff(n) \in 1..MaxRejection
             /\ RejectionBackoff(n + 1) = Min({MaxRejection, 2 * RejectionBackoff(n)})
  <2> DEFINE m == MinRejection * Pow2[n]
  <2>1. Pow2[n] \in Nat /\ Pow2[n] >= 1 /\ Pow2[n + 1] = 2 * Pow2[n] /\ n + 1 \in Nat
    BY Pow2Grows
  <2>2. MinRejection * Pow2[n + 1] = 2 * m
    BY <1>1, <2>1
  <2>3. m \in Nat /\ m >= 1
    BY <1>1, <2>1
  <2> HIDE DEF m
  <2>4. RejectionBackoff(n) = IF m <= MaxRejection THEN m ELSE MaxRejection
    BY RejectionBackoffIs DEF m
  <2>5. RejectionBackoff(n + 1) = IF 2 * m <= MaxRejection THEN 2 * m ELSE MaxRejection
    BY <2>1, <2>2, RejectionBackoffIs
  <2>6. RejectionBackoff(n) \in Nat /\ RejectionBackoff(n) \in 1..MaxRejection
    BY <1>1, <2>3, <2>4
  <2>7. Min({MaxRejection, 2 * RejectionBackoff(n)}) =
          IF MaxRejection <= 2 * RejectionBackoff(n) THEN MaxRejection ELSE 2 * RejectionBackoff(n)
    BY <1>1, <2>6, MinOfTwo
  <2> QED BY <1>1, <2>3, <2>4, <2>5, <2>6, <2>7
<1>3. ASSUME NEW n \in Nat, n >= U32Max - 1 PROVE RejectionBackoff(n) = MaxRejection
  <2>1. Pow2[n] \in Nat /\ Pow2[n] >= U32Max
    BY <1>1, <1>3, Pow2Grows
  <2>2. MinRejection * Pow2[n] >= MinRejection * U32Max
    BY <1>1, <2>1
  <2>3. MinRejection * Pow2[n] \in Nat /\ MinRejection * U32Max \in Nat
    BY <1>1, <2>1
  <2> QED BY <1>1, <2>2, <2>3, RejectionBackoffIs
<1>4. RejectionBackoff(U32Max) = MaxRejection /\ RejectionBackoff(U32Max - 1) = MaxRejection
  BY <1>1, <1>3
<1> QED BY <1>2, <1>4

Policies ==
  [strategy : {"fixed", "exponential"}, duration : Durations, max : Durations \cup {NoMaximum}]

LEMMA PolicyTypes ==
  ASSUME NEW p \in Policies
  PROVE  p.duration \in Nat /\ (p.max = NoMaximum \/ p.max \in Nat)
<1>1. p.duration \in Durations /\ p.max \in Durations \cup {NoMaximum}
  BY DEF Policies
<1> QED BY <1>1, DurationsAssumption

\* The least of two and of what may be given as a maximum.
LEMMA MinWithMaximum ==
  ASSUME NEW p \in Policies, NEW S \in SUBSET Int, NEW T \in SUBSET Int,
         NEW s \in S, NEW t \in T, \A x \in S : s <= x, \A x \in T : t <= x, s = t
  PROVE  LET maximum == IF p.max = NoMaximum THEN {} ELSE {p.max}
         IN  Min(S \cup maximum) = Min(T \cup maximum)
<1> DEFINE maximum == IF p.max = NoMaximum THEN {} ELSE {p.max}
<1>1. maximum \in SUBSET Int /\ (maximum = {} \/ \E m \in Int : maximum = {m})
  BY PolicyTypes
<1>2. CASE maximum = {}
  <2>1. Min(S) = s /\ Min(T) = t
    BY MinIs
  <2>2. S \cup maximum = S /\ T \cup maximum = T
    BY <1>2
  <2> QED BY <2>1, <2>2
<1>3. ASSUME NEW m \in Int, maximum = {m} PROVE Min(S \cup maximum) = Min(T \cup maximum)
  <2> DEFINE least == IF s <= m THEN s ELSE m
  <2> HIDE DEF maximum
  <2>1. s \in Int /\ m \in Int /\ t \in Int
    OBVIOUS
  <2>2. S \cup {m} \in SUBSET Int /\ T \cup {m} \in SUBSET Int
    OBVIOUS
  <2>3. least \in S \cup {m} /\ \A x \in S \cup {m} : least <= x
    BY <2>1
  <2>4. least \in T \cup {m} /\ \A x \in T \cup {m} : least <= x
    BY <2>1
  <2> HIDE DEF least
  <2> QED BY <1>3, <2>2, <2>3, <2>4, MinIs
<1> QED BY <1>1, <1>2, <1>3

\* retry_backoff, as if nothing had a width.
LEMMA RetryBackoffIs ==
  ASSUME NEW p \in Policies, NEW n \in Nat
  PROVE  LET exact == IF p.strategy = "fixed" THEN p.duration
                      ELSE p.duration * (IF n = 0 THEN 1 ELSE Pow2[n - 1])
             largest == {MaxRetryBackoff, p.duration * U32Max}
                          \cup (IF p.max = NoMaximum THEN {} ELSE {p.max})
         IN  RetryBackoff(p, n) = Min({exact} \cup largest)
<1> DEFINE d == p.duration
           m == MaxRetryBackoff
           u == d * U32Max
           maximum == IF p.max = NoMaximum THEN {} ELSE {p.max}
<1>1. d \in Nat /\ m \in Nat /\ DurationMax \in Nat /\ m <= DurationMax
  BY PolicyTypes, WidthsAssumption
<1>2. u \in Nat /\ d <= u
  BY <1>1, SaturatingIs
<1> HIDE DEF u, m, d
<1>3. CASE p.strategy = "fixed"
  <2> DEFINE s == IF d <= m THEN d ELSE m
  <2>1. RetryBackoff(p, n) = Min({d, m} \cup maximum)
    BY <1>3 DEF RetryBackoff, d, m
  <2>2. s \in {d, m} /\ \A x \in {d, m} : s <= x
    BY <1>1
  <2>3. s \in {d, m, u} /\ \A x \in {d, m, u} : s <= x
    BY <1>1, <1>2
  <2>4. {d, m} \in SUBSET Int /\ {d, m, u} \in SUBSET Int
    BY <1>1, <1>2
  <2> HIDE DEF s
  <2>5. Min({d, m} \cup maximum) = Min({d, m, u} \cup maximum)
    BY <2>2, <2>3, <2>4, MinWithMaximum
  <2>6. {d, m, u} \cup maximum = {d} \cup ({m, u} \cup maximum)
    OBVIOUS
  <2> QED BY <1>3, <2>1, <2>5, <2>6 DEF d, m, u
<1>4. CASE p.strategy # "fixed"
  <2> DEFINE e == Exponent(n)
             r == IF n = 0 THEN 1 ELSE Pow2[n - 1]
             x == d * r
             product == IF x <= u THEN x ELSE u
             long == IF product <= DurationMax THEN product ELSE DurationMax
             s == IF product <= m THEN product ELSE m
  <2>1. e = (IF n = 0 THEN 0 ELSE n - 1) /\ e \in Nat
    <3>1. \E y \in {n - 1, 0} : \A z \in {n - 1, 0} : y >= z
      OBVIOUS
    <3>2. Max({n - 1, 0}) \in {n - 1, 0} /\ \A z \in {n - 1, 0} : Max({n - 1, 0}) >= z
      BY <3>1 DEF Max
    <3> QED BY <3>2 DEF Exponent
  <2>2. Pow2[e] = r
    BY <2>1, Pow2Grows
  <2>3. x \in Nat /\ SaturatingMul(d, SaturatingPow2(e)) = long
    BY <1>1, <2>1, <2>2, SaturatingIs DEF u
  <2>4. RetryBackoff(p, n) = Min({long, m} \cup maximum)
    BY <1>4, <2>3 DEF RetryBackoff, d, m
  <2> HIDE DEF e, r, x
  <2>5. s \in {long, m} /\ \A y \in {long, m} : s <= y
    BY <1>1, <1>2, <2>3
  <2>6. s \in {x, m, u} /\ \A y \in {x, m, u} : s <= y
    BY <1>1, <1>2, <2>3
  <2>7. {long, m} \in SUBSET Int /\ {x, m, u} \in SUBSET Int
    BY <1>1, <1>2, <2>3
  <2> HIDE DEF s, long
  <2>8. Min({long, m} \cup maximum) = Min({x, m, u} \cup maximum)
    BY <2>5, <2>6, <2>7, MinWithMaximum
  <2>9. {x, m, u} \cup maximum = {x} \cup ({m, u} \cup maximum)
    OBVIOUS
  <2> QED BY <1>4, <2>4, <2>8, <2>9 DEF d, m, u, x, r
<1> QED BY <1>3, <1>4

\* The delays are those of the last attempt and of the last rejection.  Rejections are
\* not counted beyond a u32, where the backoff is as long as it gets.
BackoffInv ==
  /\ policy \in Policies /\ attempt \in Nat /\ rejections \in 0..U32Max
  /\ delay = RetryBackoff(policy, attempt)
  /\ rejectionDelay = IF rejections = 0 THEN 0 ELSE RejectionBackoff(rejections - 1)

LEMMA BackoffKept == BackoffInv /\ [BackoffNext]_backoffVars => BackoffInv'
<1> SUFFICES ASSUME BackoffInv, [BackoffNext]_backoffVars PROVE BackoffInv'
  OBVIOUS
<1>1. U32Max \in Nat \ {0} /\ rejections \in Nat
  BY WidthsAssumption DEF BackoffInv
<1>2. CASE RetryAgain
  BY <1>2 DEF RetryAgain, BackoffInv
<1>3. CASE RejectOffer
  <2>1. rejections + 1 \in Int /\ rejections' = IF rejections + 1 <= U32Max THEN rejections + 1 ELSE U32Max
    BY <1>1, <1>3, MinOfTwo DEF RejectOffer
  <2>2. rejections' \in 0..U32Max /\ rejections' # 0
    BY <1>1, <2>1 DEF BackoffInv
  <2>3. rejectionDelay' = RejectionBackoff(rejections' - 1)
    <3>1. CASE rejections < U32Max
      BY <1>1, <1>3, <2>1, <3>1 DEF RejectOffer
    <3>2. CASE rejections = U32Max
      BY <1>1, <1>3, <2>1, <3>2, RejectionsDouble DEF RejectOffer
    <3> QED BY <1>1, <3>1, <3>2 DEF BackoffInv
  <2> QED BY <1>3, <2>2, <2>3 DEF RejectOffer, BackoffInv
<1>4. CASE AcceptOffer
  BY <1>1, <1>4 DEF AcceptOffer, BackoffInv
<1>5. CASE CallFailsAgain \/ UNCHANGED backoffVars
  BY <1>5 DEF CallFailsAgain, backoffVars, BackoffInv
<1> QED BY <1>2, <1>3, <1>4, <1>5 DEF BackoffNext

LEMMA DelaysFollow == BackoffInv => DelaysAreRight
<1> SUFFICES ASSUME BackoffInv PROVE DelaysAreRight
  OBVIOUS
<1>1. DelayIsExact
  BY RetryBackoffIs DEF BackoffInv, DelayIsExact
<1>2. RejectionsBackOff
  <2>1. rejections \in Nat /\ MaxRejection \in Nat
    BY WidthsAssumption DEF BackoffInv
  <2>2. CASE rejections = 0
    BY <2>1, <2>2 DEF BackoffInv, RejectionsBackOff
  <2>3. CASE rejections > 0
    <3>1. rejections - 1 \in Nat /\ rejectionDelay = RejectionBackoff(rejections - 1)
      BY <2>1, <2>3 DEF BackoffInv
    <3>2. rejectionDelay \in 1..MaxRejection
      BY <3>1, RejectionsDouble
    <3>3. rejections > 1 => /\ rejections - 2 \in Nat
                            /\ rejectionDelay = RejectionBackoff((rejections - 2) + 1)
      BY <2>1, <3>1
    <3>4. rejections > 1 => rejectionDelay = Min({MaxRejection, 2 * RejectionBackoff(rejections - 2)})
      BY <3>3, RejectionsDouble
    <3> QED BY <2>1, <2>3, <3>2, <3>4 DEF RejectionsBackOff
  <2> QED BY <2>1, <2>2, <2>3
<1> QED BY <1>1, <1>2 DEF DelaysAreRight

\* Retries and rejections are delayed as documented, for any widths and any policies,
\* and however often they happen.
THEOREM DelaysCorrect == BackoffSpec => []DelaysAreRight
<1>1. BackoffInit => BackoffInv
  BY WidthsAssumption DEF BackoffInit, BackoffInv, Policies
<1>2. BackoffSpec => []BackoffInv
  BY <1>1, BackoffKept, PTL DEF BackoffSpec
<1> QED BY <1>2, DelaysFollow, PTL
=============================================================================
