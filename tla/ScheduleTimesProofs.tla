------------------------ MODULE ScheduleTimesProofs ------------------------
(***************************************************************************)
(* What next_execution_time promises for every schedule, every time of the *)
(* last job and every time of day, proved with TLAPS.                      *)
(***************************************************************************)
EXTENDS ScheduleTimes, WellFoundedInduction, TLAPS

\* Division rounds down: the one fact about \div the other proofs use.
LEMMA DivBounds ==
  ASSUME NEW a \in Nat, NEW b \in Nat \ {0}
  PROVE  /\ a \div b \in Nat
         /\ (a \div b) * b <= a
         /\ a < (a \div b) * b + b
  BY Z3

\* DivCeil rounds up: the multiple is not below a, and less than b above it.
LEMMA DivCeilBounds ==
  ASSUME NEW a \in Nat, NEW b \in Nat \ {0}
  PROVE  /\ DivCeil(a, b) \in Nat
         /\ DivCeil(a, b) * b \in Nat
         /\ a <= DivCeil(a, b) * b
         /\ DivCeil(a, b) * b < a + b
<1>1. a + b - 1 \in Nat
  OBVIOUS
<1> DEFINE q == (a + b - 1) \div b
<1>2. q \in Nat /\ q * b <= a + b - 1 /\ a + b - 1 < q * b + b
  BY <1>1, DivBounds
<1>3. q * b \in Nat
  BY <1>2
<1> QED
  BY <1>2, <1>3 DEF DivCeil

\* A multiple of b that is below another one is at least b below it.
LEMMA MultiplesApart ==
  ASSUME NEW b \in Nat, NEW m \in Nat, NEW k \in Nat, m < k
  PROVE  m * b + b <= k * b
<1>1. k - m - 1 \in Nat
  OBVIOUS
<1>2. (k - m - 1) * b \in Nat
  BY <1>1
<1>3. k * b = m * b + b + (k - m - 1) * b
  BY Z3
<1> QED
  BY <1>2, <1>3

\* A nonempty set of natural numbers has a least element.
LEMMA LeastNatural ==
  ASSUME NEW S \in SUBSET Nat, S # {}
  PROVE  \E u \in S : \A v \in S : u <= v
<1> DEFINE R == OpToRel(<, Nat)
<1>1. IsWellFoundedOn(R, Nat)
  BY NatLessThanWellFounded
<1>2. \E u \in S : \A v \in S : <<v, u>> \notin R
  <2> HIDE DEF R
  <2> QED
    BY <1>1, WFMin
<1>3. \A u, v \in S : v < u => <<v, u>> \in R
  BY DEF OpToRel
<1>4. \E u \in S : \A v \in S : ~(v < u)
  BY <1>2, <1>3, Zenon
<1> QED
  BY <1>4

\* The next match of a cron expression is after the given time, and no match
\* is passed over.
LEMMA FindNextCorrect ==
  ASSUME NEW matches \in SUBSET Nat, NEW t \in Nat
  PROVE  \/ FindNext(matches, t) = NoTime /\ \A u \in matches : u <= t
         \/ /\ FindNext(matches, t) \in matches
            /\ FindNext(matches, t) > t
            /\ \A u \in matches : u > t => FindNext(matches, t) <= u
<1> DEFINE after == {u \in matches : u > t}
<1>1. CASE after = {}
  BY <1>1 DEF FindNext
<1>2. CASE after # {}
  <2>1. PICK u \in after : \A v \in after : u <= v
    BY <1>2, LeastNatural
  <2>2. \E w \in matches : w > t /\ \A v \in matches : v > t => w <= v
    BY <2>1
  <2> QED
    BY <1>2, <2>2 DEF FindNext
<1> QED
  BY <1>1, <1>2

\* The regular time next, or the first one after it that is not before clock, in range or not.
Skipped(next, interval, clock) ==
  IF clock < next THEN next ELSE next + DivCeil(clock - next, interval) * interval

\* It is on the grid of the schedule, and the earliest time there that is not before clock.
LEMMA SkippedIs ==
  ASSUME NEW next \in Nat, NEW interval \in Nat \ {0}, NEW clock \in Nat
  PROVE  /\ Skipped(next, interval, clock) \in Nat
         /\ \E k \in Nat : Skipped(next, interval, clock) = next + k * interval
         /\ Skipped(next, interval, clock) >= clock
         /\ \A m \in Nat : next + m * interval >= clock =>
              Skipped(next, interval, clock) <= next + m * interval
<1> DEFINE t == Skipped(next, interval, clock)
<1>1. CASE clock < next
  <2>1. t = next /\ t = next + 0 * interval
    BY <1>1 DEF Skipped
  <2>2. \A m \in Nat : m * interval \in Nat
    OBVIOUS
  <2> QED
    BY <1>1, <2>1, <2>2
<1>2. CASE ~(clock < next)
  <2> DEFINE behind == clock - next
             k == DivCeil(behind, interval)
  <2>1. behind \in Nat
    BY <1>2
  <2>2. k \in Nat /\ k * interval \in Nat /\ behind <= k * interval
        /\ k * interval < behind + interval
    BY <2>1, DivCeilBounds
  <2>3. t = next + k * interval
    BY <1>2 DEF Skipped
  <2>4. ASSUME NEW m \in Nat, next + m * interval >= clock
        PROVE  t <= next + m * interval
    <3>1. m * interval \in Nat
      OBVIOUS
    <3>2. CASE m < k
      <4>1. m * interval + interval <= k * interval
        BY <2>2, <3>2, MultiplesApart
      <4>2. m * interval < behind
        BY <2>1, <2>2, <3>1, <4>1
      <4> QED
        BY <2>4, <3>1, <4>2
    <3>3. CASE m = k
      BY <2>3, <3>3
    <3>4. CASE k < m
      <4>1. k * interval + interval <= m * interval
        BY <2>2, <3>4, MultiplesApart
      <4> QED
        BY <2>2, <2>3, <3>1, <4>1
    <3> QED
      BY <2>2, <3>2, <3>3, <3>4
  <2>5. t \in Nat /\ t >= clock
    BY <1>2, <2>1, <2>2, <2>3
  <2> HIDE DEF k, t
  <2> QED
    BY <2>2, <2>3, <2>4, <2>5 DEF t
<1> QED
  BY <1>1, <1>2

\* Skipping missed times leaves the grid of the schedule nowhere, is not late
\* by an interval, and skips nothing that is not missed: the result is the
\* earliest regular time that is not before now.
THEOREM SkipMissedIsEarliest ==
  ASSUME NEW next \in Nat, NEW interval \in Nat \ {0}, NEW clock \in Nat,
         NEW t \in Nat, SkipMissed(next, interval, clock) = t
  PROVE  /\ \E k \in Nat : t = next + k * interval
         /\ t >= clock
         /\ \A m \in Nat : next + m * interval >= clock => t <= next + m * interval
<1>1. t = Skipped(next, interval, clock)
  BY NoTimeAssumption DEF SkipMissed, Skipped, InRange
<1> DEFINE u == Skipped(next, interval, clock)
<1>2. /\ \E k \in Nat : u = next + k * interval
      /\ u >= clock
      /\ \A m \in Nat : next + m * interval >= clock => u <= next + m * interval
  BY SkippedIs, Zenon
<1> HIDE DEF u
<1>3. t = u
  BY <1>1 DEF u
<1> QED
  BY <1>2, <1>3, Zenon

\* So it is not before the regular time it starts from.
LEMMA SkipMissedIsLater ==
  ASSUME NEW next \in Nat, NEW interval \in Nat \ {0}, NEW clock \in Nat,
         SkipMissed(next, interval, clock) \in Nat
  PROVE  SkipMissed(next, interval, clock) >= next
<1>1. CASE clock < next
  BY <1>1 DEF SkipMissed
<1>2. CASE ~(clock < next)
  <2> DEFINE skipped == DivCeil(clock - next, interval) * interval
  <2>1. clock - next \in Nat
    BY <1>2
  <2>2. skipped \in Nat
    BY <2>1, DivCeilBounds
  <2>3. SkipMissed(next, interval, clock) = InRange(next + skipped)
    BY <1>2 DEF SkipMissed
  <2> HIDE DEF skipped
  <2> QED
    BY <2>2, <2>3, NoTimeAssumption DEF InRange
<1> QED
  BY <1>1, <1>2

\* The schedules there are: definitions with natural intervals and matches.
Schedule(s) ==
  /\ s.policy.kind \in {"interval", "cron"}
  /\ s.policy.kind = "interval" => s.policy.interval \in Nat
  /\ s.policy.kind = "cron" => s.policy.matches \in SUBSET Nat
  /\ s.missed \in {"create", "skip"}
  /\ s.start \in Nat \cup {NoTime}

\* From is a time, not before now.
LEMMA FromIsLater ==
  ASSUME NEW s, Schedule(s), NEW clock \in Nat
  PROVE  From(s, clock) \in Nat /\ From(s, clock) >= clock
  BY DEF From, Later, Schedule

\* A schedule never gets a job for the time of its last one or an earlier
\* one, whatever the clock does: no execution time comes twice.
THEOREM NextIsAfterLast ==
  ASSUME NEW s, Schedule(s), NEW previous \in Nat, NEW clock \in Nat,
         NEW t \in Nat, NextTime(s, previous, clock) = t
  PROVE  t > previous
<1> DEFINE from == From(s, clock)
<1>1. from \in Nat
  BY FromIsLater
<1>2. CASE s.policy.kind = "interval"
  <2> DEFINE interval == s.policy.interval
  <2>1. interval \in Nat /\ NextInterval(interval, s, previous, from) = t
    BY <1>2 DEF Schedule, NextTime
  <2>2. interval # 0 /\ previous # NoTime
    BY <2>1, NoTimeAssumption DEF NextInterval
  <2>3. CASE s.missed = "create"
    BY <2>1, <2>2, <2>3, NoTimeAssumption DEF NextInterval
  <2>4. CASE s.missed # "create"
    <3>1. SkipMissed(previous + interval, interval, from) = t
      BY <2>1, <2>2, <2>4, NoTimeAssumption DEF NextInterval
    <3> HIDE DEF from, interval
    <3>2. t >= previous + interval
      BY <1>1, <2>1, <2>2, <3>1, SkipMissedIsLater
    <3> QED
      BY <2>1, <2>2, <3>2
  <2> QED
    BY <2>3, <2>4
<1>3. CASE s.policy.kind = "cron"
  <2> DEFINE matches == s.policy.matches
             after == IF s.missed = "create" THEN previous ELSE Later(previous, from)
  <2>1. matches \in SUBSET Nat /\ NextCron(matches, s, previous, from) = t
    BY <1>3 DEF Schedule, NextTime
  <2>2. after \in Nat /\ after >= previous
    BY <1>1 DEF Later
  <2>3. FindNext(matches, after) = t
    BY <2>1, NoTimeAssumption DEF NextCron
  <2> QED
    BY <2>1, <2>2, <2>3, FindNextCorrect, NoTimeAssumption
<1> QED
  BY <1>2, <1>3 DEF Schedule
=============================================================================
