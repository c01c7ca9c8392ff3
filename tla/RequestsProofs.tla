-------------------------- MODULE RequestsProofs --------------------------
(***************************************************************************)
(* Theorems about MCScheduleTimes: TimesAreRight for every schedule, every *)
(* time of the last job and every time of day, not only the inputs of a    *)
(* run; about PgTransactions, for any jobs, executions and transactions;   *)
(* and about WireFormat, for any definitions that are written or sent.     *)
(*                                                                         *)
(* Argument for MCScheduleTimes: an input of the specification is a        *)
(* schedule and times (Input, the invariant).  The regular times of an     *)
(* interval schedule are the multiples of its interval after its last job  *)
(* (RegularIs), and the time next_execution_time finds is the least of     *)
(* those that are due (SkippedIsEarliest, FindNextCorrect).                *)
(*                                                                         *)
(* Argument for PgTransactions: what is committed agrees (RowsAgree); what *)
(* a transaction has written nobody else has, and it was active            *)
(* (RowsHeld), so that the commit finds it as it was; what it inserts is   *)
(* new (RowsInserted). The jobs it ends are those of the rows it wrote,    *)
(* and a conditional call of add_jobs sees no active job while it holds    *)
(* the lock.  A cancellation, in addition, finds every active execution of *)
(* the jobs it saw with its first statement, or with its second if a retry *)
(* has committed in between (CancelHolds).                                 *)
(*                                                                         *)
(* Argument for WireFormat: AddAll keeps the first label of each key       *)
(* (AddAllIs, by the least counterexample), a definition that is accepted  *)
(* is read as it was written (WrittenJobIs, WrittenScheduleIs), and one    *)
(* that is stored is listed and read as it is (ListedJobIs,                *)
(* ListedScheduleIs).  The request is the one the caller wrote             *)
(* (RequestAgrees), what it added is behind the rest (AddedAgree), and     *)
(* once something was listed only copies of it are added (ListedAgree), so *)
(* that what is stored is always a number of requests.                     *)
(***************************************************************************)
EXTENDS MCScheduleTimes, ScheduleTimesProofs, PgTransactions, WireFormat, FiniteSetTheorems,
        SequenceTheorems, TLAPS

-----------------------------------------------------------------------------
(* MCScheduleTimes *)

\* The inputs of the specification are schedules and times.
Input ==
  /\ schedule \in Definitions(Nat, SUBSET Times)
  /\ last \in Times \cup {NoTime}
  /\ now \in Times

\* Every schedule of a run is one the general lemmas are about.
LEMMA InputsOnly == Spec => []Input
<1>1. Init => Input
  <2> SUFFICES ASSUME Init PROVE Input
    OBVIOUS
  <2>1. schedule \in Definitions(Intervals, Crons) /\ last \in Times \cup {NoTime} /\ now \in Times
    BY MaxTimeAssumption DEF Init, Times
  <2>2. \A d \in Definitions(Intervals, Crons) : d \in Definitions(Nat, SUBSET Times)
    BY InputsAssumption DEF Definitions
  <2> QED
    BY <2>1, <2>2 DEF Input
<1>2. Input /\ [Tick \/ End]_vars => Input'
  BY MaxTimeAssumption DEF Input, Tick, End, vars, Times
<1> QED
  BY <1>1, <1>2, PTL DEF Spec

\* Times are natural numbers, and neither NoTime nor Error.
LEMMA TimesAre ==
  /\ Times \subseteq Nat /\ NoTime \notin Nat /\ Error \notin Nat /\ NoTime # Error
  /\ \A t \in Nat : t \in Times <=> t <= MaxTime
  /\ \A t \in Nat : InRange(t) = IF t \in Times THEN t ELSE Error
  BY MaxTimeAssumption, NoTimeAssumption DEF Times, InRange

\* The fields of a schedule.
LEMMA InputIs ==
  ASSUME Input
  PROVE  /\ Schedule(schedule)
         /\ schedule.start \in Times \cup {NoTime} /\ schedule.immediate \in BOOLEAN
         /\ schedule.policy.kind = "interval" =>
              schedule.policy = [kind |-> "interval", interval |-> schedule.policy.interval]
         /\ schedule.policy.kind = "cron" => schedule.policy.matches \subseteq Times
<1>1. /\ schedule.policy \in [kind : {"interval"}, interval : Nat]
                            \cup [kind : {"cron"}, matches : SUBSET Times]
      /\ schedule.immediate \in BOOLEAN /\ schedule.missed \in {"skip", "create"}
      /\ schedule.start \in Times \cup {NoTime}
  BY DEF Input, Definitions
<1>2. /\ schedule.policy.kind \in {"interval", "cron"}
      /\ schedule.policy.kind = "interval" =>
           /\ schedule.policy.interval \in Nat
           /\ schedule.policy = [kind |-> "interval", interval |-> schedule.policy.interval]
      /\ schedule.policy.kind = "cron" => schedule.policy.matches \in SUBSET Times
  BY <1>1
<1> QED
  BY <1>1, <1>2, TimesAre DEF Schedule

\* From is a time for the schedules of the inputs.
LEMMA FromIs ==
  ASSUME Input
  PROVE  /\ From(schedule, now) \in Times
         /\ schedule.start # NoTime => From(schedule, now) >= schedule.start
<1>1. now \in Times /\ schedule.start \in Times \cup {NoTime}
  BY InputIs DEF Input
<1>2. CASE schedule.start = NoTime
  BY <1>1, <1>2 DEF From
<1>3. CASE schedule.start # NoTime
  <2>1. From(schedule, now) = Later(now, schedule.start)
    BY <1>3 DEF From
  <2>2. now \in Nat /\ schedule.start \in Nat
    BY <1>1, <1>3, TimesAre
  <2> QED
    BY <1>1, <1>3, <2>1, <2>2 DEF Later
<1> QED
  BY <1>2, <1>3

\* A remainder is zero for multiples, and only for them.
LEMMA RemainderIs ==
  ASSUME NEW a \in Nat, NEW n \in Nat, n > 0
  PROVE  a % n = 0 <=> \E q \in Nat : a = q * n
<1>1. a % n = a - n * (a \div n) /\ a \div n \in Nat
  BY Z3
<1>2. ASSUME a % n = 0 PROVE \E q \in Nat : a = q * n
  <2>1. a = (a \div n) * n
    BY <1>1, <1>2, Z3
  <2> QED
    BY <1>1, <2>1
<1>3. ASSUME NEW q \in Nat, a = q * n PROVE a % n = 0
  BY <1>3, Z3
<1> QED
  BY <1>2, <1>3

\* The times n apart after t, as remainders and as multiples.
LEMMA RegularIs ==
  ASSUME NEW n \in Nat \ {0}, NEW t \in Nat, NEW u \in Nat
  PROVE  (u > t /\ (u - t) % n = 0) <=> \E m \in Nat : u = (t + n) + m * n
<1> DEFINE a == u - t
<1>1. ASSUME u > t, a % n = 0 PROVE \E m \in Nat : u = (t + n) + m * n
  <2>1. a \in Nat \ {0} /\ n > 0
    BY <1>1
  <2>2. PICK q \in Nat : a = q * n
    BY <1>1, <2>1, RemainderIs
  <2>3. q # 0
    BY <2>1, <2>2
  <2>4. q - 1 \in Nat /\ q * n = n + (q - 1) * n
    BY <2>3, Z3
  <2> DEFINE rest == (q - 1) * n
  <2>5. rest \in Nat /\ u - t = n + rest
    BY <2>2, <2>4
  <2>6. u = (t + n) + rest
    <3> HIDE DEF rest
    <3> QED
      BY <2>5
  <2> QED
    BY <2>4, <2>6
<1>2. ASSUME NEW m \in Nat, u = (t + n) + m * n PROVE u > t /\ a % n = 0
  <2>1. m * n \in Nat /\ (m + 1) * n = m * n + n /\ m + 1 \in Nat /\ n > 0
    BY Z3
  <2>2. a \in Nat /\ a = (m + 1) * n /\ u > t
    BY <1>2, <2>1
  <2> HIDE DEF a
  <2>3. a % n = 0
    BY <2>1, <2>2, RemainderIs
  <2> QED
    BY <2>2, <2>3
<1> QED
  BY <1>1, <1>2

\* The regular times that are due.
Due == {u \in RegularTimes : NotMissed(u)}

\* The two ways in which a time is the earliest that is due.
LEMMA EarliestIs ==
  ASSUME Input, last # NoTime,
         \/ Due = {} /\ NextJobTime \in {NoTime, Error}
         \/ NextJobTime \in Due /\ \A u \in Due : u \in Nat /\ NextJobTime <= u
  PROVE  EarliestRegularTime
<1>1. CASE Due = {} /\ NextJobTime \in {NoTime, Error}
  BY <1>1 DEF EarliestRegularTime, Due
<1>2. CASE NextJobTime \in Due /\ \A u \in Due : u \in Nat /\ NextJobTime <= u
  <2>1. \A x \in Due : (\A u \in Due : x <= u) => x = NextJobTime
    BY <1>2
  <2>2. Min(Due) = NextJobTime
    BY <1>2, <2>1 DEF Min
  <2> QED
    BY <1>2, <2>2 DEF EarliestRegularTime, Due
<1> QED
  BY <1>1, <1>2

\* Interval schedules: the grid of the last job, from now on if missed times are skipped.
LEMMA IntervalEarliest ==
  ASSUME Input, last # NoTime, schedule.policy.kind = "interval", schedule.policy.interval # 0
  PROVE  EarliestRegularTime
<1> DEFINE n == schedule.policy.interval
           from == From(schedule, now)
           first == last + n
<1>1. n \in Nat \ {0} /\ last \in Nat /\ from \in Nat /\ first \in Nat
  <2>1. n \in Nat \ {0}
    BY InputIs DEF Schedule
  <2>2. last \in Nat /\ from \in Nat
    BY FromIs, TimesAre DEF Input
  <2> HIDE DEF n
  <2> QED
    BY <2>1, <2>2
<1>2. NextJobTime = NextInterval(n, schedule, last, from)
  BY DEF NextJobTime, NextTime
<1>3. \A u \in Nat : u \in RegularTimes <=> u \in Times /\ \E m \in Nat : u = first + m * n
  <2> SUFFICES ASSUME NEW u \in Nat
               PROVE  u \in RegularTimes <=> u \in Times /\ \E m \in Nat : u = first + m * n
    OBVIOUS
  <2>1. u \in RegularTimes <=> u \in Times /\ u > last /\ (u - last) % n = 0
    BY DEF RegularTimes
  <2> QED
    BY <1>1, <2>1, RegularIs
<1>4. \A u \in Nat : NotMissed(u) <=> schedule.missed = "create" \/ u >= from
  <2> HIDE DEF n
  <2>1. \A u \in Nat : NotMissed(u) <=> schedule.missed = "create" \/ u > from \/ u = from
    BY DEF NotMissed
  <2> QED
    BY <1>1, <2>1
<1>5. \A u \in Due : u \in Nat /\ u >= first
  <2> SUFFICES ASSUME NEW u \in Due PROVE u \in Nat /\ u >= first
    OBVIOUS
  <2>1. u \in RegularTimes /\ u \in Nat
    BY TimesAre DEF Due, RegularTimes
  <2>2. PICK m \in Nat : u = first + m * n
    BY <1>3, <2>1
  <2> DEFINE rest == m * n
  <2>3. rest \in Nat /\ u = first + rest
    BY <1>1, <2>2
  <2> HIDE DEF rest, first
  <2> QED
    BY <1>1, <2>1, <2>3
<1> HIDE DEF n, from
<1>6. CASE first > MaxTime
  <2>1. NextJobTime = Error
    BY <1>1, <1>2, <1>6 DEF NextInterval
  <2>2. Due = {}
    BY <1>1, <1>5, <1>6, TimesAre, MaxTimeAssumption DEF Due, RegularTimes, Times
  <2> QED
    BY <2>1, <2>2, EarliestIs
<1>7. CASE first <= MaxTime /\ schedule.missed = "create"
  <2>1. NextJobTime = first
    BY <1>1, <1>2, <1>7, MaxTimeAssumption DEF NextInterval
  <2>2. first = first + 0 * n /\ first \in Times
    BY <1>1, <1>7, TimesAre
  <2>3. first \in RegularTimes
    BY <1>1, <1>3, <2>2
  <2>4. NotMissed(first)
    BY <1>1, <1>4, <1>7
  <2> QED
    BY <1>5, <2>1, <2>3, <2>4, EarliestIs DEF Due
<1>8. CASE first <= MaxTime /\ schedule.missed # "create"
  <2> DEFINE t == Skipped(first, n, from)
  <2> HIDE DEF first
  <2>1. /\ t \in Nat /\ t >= from
        /\ \E m \in Nat : t = first + m * n
        /\ \A m \in Nat : first + m * n >= from => t <= first + m * n
    BY <1>1, SkippedIs, Zenon
  <2>2. first \in Times
    BY <1>1, <1>8, TimesAre
  <2>3. NextJobTime = InRange(t)
    <3>1. NextJobTime = SkipMissed(first, n, from)
      BY <1>1, <1>2, <1>8, MaxTimeAssumption DEF NextInterval, first
    <3>2. from < first => InRange(first) = first
      BY <1>1, <2>2, TimesAre
    <3> QED
      BY <3>1, <3>2 DEF SkipMissed, Skipped
  <2> HIDE DEF t
  <2>4. \A u \in Due : u \in Times /\ u \in Nat /\ t <= u
    <3> SUFFICES ASSUME NEW u \in Due PROVE u \in Times /\ u \in Nat /\ t <= u
      OBVIOUS
    <3>1. u \in Nat /\ u \in RegularTimes /\ NotMissed(u)
      BY <1>5 DEF Due
    <3>2. u \in Times /\ u >= from
      BY <1>3, <1>4, <1>8, <3>1
    <3>3. PICK m \in Nat : u = first + m * n
      BY <1>3, <3>1
    <3>4. t <= first + m * n
      BY <2>1, <3>2, <3>3
    <3> QED
      BY <3>1, <3>2, <3>3, <3>4
  <2>5. CASE t \in Times
    <3>1. NextJobTime = t
      BY <2>1, <2>3, <2>5, TimesAre
    <3>2. t \in RegularTimes /\ NotMissed(t)
      BY <1>3, <1>4, <2>1, <2>5
    <3> QED
      BY <2>4, <3>1, <3>2, EarliestIs DEF Due
  <2>6. CASE t \notin Times
    <3>1. NextJobTime = Error
      BY <2>1, <2>3, <2>6, TimesAre
    <3>2. \A u \in Due : u \notin Times
      BY <2>1, <2>4, <2>6, MaxTimeAssumption DEF Times
    <3>3. Due = {}
      BY <2>4, <3>2
    <3> QED
      BY <3>1, <3>3, EarliestIs
  <2> QED
    BY <2>5, <2>6
<1> QED
  BY <1>1, <1>6, <1>7, <1>8, MaxTimeAssumption

\* Cron schedules: the first match after the last job, and after now if missed times are
\* skipped.
LEMMA CronEarliest ==
  ASSUME Input, last # NoTime, schedule.policy.kind = "cron"
  PROVE  EarliestRegularTime
<1> DEFINE matches == schedule.policy.matches
           from == From(schedule, now)
           after == IF schedule.missed = "create" THEN last ELSE Later(last, from)
<1>1. /\ matches \in SUBSET Times /\ last \in Nat /\ from \in Times /\ from \in Nat
      /\ matches \in SUBSET Nat
  BY InputIs, FromIs, TimesAre DEF Input
<1>2. NextJobTime = FindNext(matches, after)
  <2>1. NextJobTime = NextCron(matches, schedule, last, from)
    BY DEF NextJobTime, NextTime
  <2>2. InRange(from) # Error
    BY <1>1, TimesAre
  <2> QED
    BY <2>1, <2>2 DEF NextCron
<1>3. after \in Nat /\ \A u \in Nat : u > after <=> u > last /\ (schedule.missed = "create" \/ u > from)
  BY <1>1 DEF Later
<1>4. Due = {u \in matches : u > after}
  <2>1. \A u \in Nat : NotMissed(u) <=> schedule.missed = "create" \/ u > from
    BY DEF NotMissed
  <2>2. RegularTimes = {u \in matches : u > last}
    BY DEF RegularTimes
  <2> HIDE DEF matches, from, after
  <2>3. \A u \in matches : u \in Nat
    BY <1>1
  <2> QED
    BY <1>3, <2>1, <2>2, <2>3, Zenon DEF Due
<1> HIDE DEF matches, from, after
<1>5. \/ NextJobTime = NoTime /\ \A u \in matches : u <= after
      \/ NextJobTime \in matches /\ NextJobTime > after
         /\ \A u \in matches : u > after => NextJobTime <= u
  BY <1>1, <1>2, <1>3, FindNextCorrect
<1>6. \A u \in matches : u \in Nat
  BY <1>1
<1>7. CASE NextJobTime = NoTime /\ \A u \in matches : u <= after
  <2>1. Due = {}
    BY <1>3, <1>4, <1>6, <1>7
  <2> QED
    BY <1>7, <2>1, EarliestIs
<1>8. CASE NextJobTime \in matches /\ NextJobTime > after
           /\ \A u \in matches : u > after => NextJobTime <= u
  <2>1. NextJobTime \in Due /\ \A u \in Due : u \in Nat /\ NextJobTime <= u
    BY <1>4, <1>6, <1>8
  <2> QED
    BY <2>1, EarliestIs
<1> QED
  BY <1>5, <1>7, <1>8

\* A schedule that validate_schedule accepts has a first job: the one it is validated for,
\* or one at once.
LEMMA FirstValid == Input => FirstTimeValid
<1> SUFFICES ASSUME Input, last = NoTime, Valid(schedule, now)
             PROVE  /\ NextJobTime \in Times
                    /\ schedule.start # NoTime => NextJobTime >= schedule.start
  BY DEF FirstTimeValid
<1> DEFINE from == From(schedule, now)
           late == [schedule EXCEPT !.immediate = FALSE]
           t == NextTime(late, NoTime, now)
<1>1. /\ late.policy = schedule.policy /\ late.start = schedule.start
      /\ late.missed = schedule.missed /\ late.immediate = FALSE
  BY DEF Input, Definitions
<1>2. t \in Times
  BY DEF Valid
<1>3. /\ from \in Times /\ from \in Nat
      /\ schedule.start # NoTime => from >= schedule.start /\ schedule.start \in Nat
  BY FromIs, InputIs, TimesAre
<1>4. From(late, now) = from
  BY <1>1 DEF From
<1>5. InRange(from) = from
  BY <1>3, TimesAre
<1>6. ASSUME schedule.policy.kind = "interval"
      PROVE  /\ NextJobTime \in {from, t} /\ t \in Nat /\ t >= from
  <2> DEFINE n == schedule.policy.interval
  <2>1. n \in Nat /\ t = NextInterval(n, late, NoTime, from)
    BY <1>1, <1>4, <1>6, InputIs DEF NextTime, Schedule
  <2>2. n # 0
    BY <1>2, <2>1, TimesAre DEF NextInterval
  <2>3. t = InRange(from + n)
    BY <1>1, <2>1, <2>2 DEF NextInterval
  <2>4. t = from + n
    BY <1>2, <1>3, <2>1, <2>3, TimesAre
  <2>5. NextJobTime = InRange(IF schedule.immediate THEN from ELSE from + n)
    BY <1>6, <2>2 DEF NextJobTime, NextTime, NextInterval
  <2> HIDE DEF t, from, n
  <2> QED
    BY <1>3, <1>5, <2>1, <2>3, <2>4, <2>5
<1>7. ASSUME schedule.policy.kind = "cron"
      PROVE  /\ NextJobTime \in {from, t} /\ t \in Nat /\ t >= from
  <2> DEFINE matches == schedule.policy.matches
  <2>1. matches \in SUBSET Nat /\ t = NextCron(matches, late, NoTime, from)
    BY <1>1, <1>4, <1>7, InputIs, TimesAre DEF NextTime
  <2>2. InRange(from) # Error
    BY <1>3, <1>5, TimesAre
  <2>3. t = FindNext(matches, from)
    BY <1>1, <2>1, <2>2 DEF NextCron
  <2>4. NextJobTime = IF schedule.immediate THEN from ELSE FindNext(matches, from)
    BY <1>7, <2>2 DEF NextJobTime, NextTime, NextCron
  <2> HIDE DEF t, from, matches
  <2>5. t \in Nat /\ t >= from
    BY <1>2, <1>3, <2>1, <2>3, FindNextCorrect, TimesAre
  <2> QED
    BY <2>3, <2>4, <2>5
<1> HIDE DEF t, from
<1>8. NextJobTime \in {from, t} /\ t \in Nat /\ t >= from
  BY <1>6, <1>7, InputIs DEF Schedule
<1> QED
  BY <1>2, <1>3, <1>8

\* The next job of every schedule is for its earliest regular time that is due, after the
\* last one, whatever the clock does (next_execution_time, validate_schedule).
THEOREM TimesRight == Spec => []TimesAreRight
<1>1. Input => AfterLast
  <2> SUFFICES ASSUME Input, last # NoTime, NextJobTime \in Times PROVE NextJobTime > last
    BY DEF AfterLast
  <2>1. last \in Nat /\ now \in Nat /\ NextJobTime \in Nat
    BY TimesAre DEF Input
  <2> QED
    BY <2>1, InputIs, NextIsAfterLast DEF NextJobTime
<1>2. Input => EarliestRegularTime
  <2> SUFFICES ASSUME Input, last # NoTime,
                      schedule.policy # [kind |-> "interval", interval |-> 0]
               PROVE  EarliestRegularTime
    BY DEF EarliestRegularTime
  <2>1. CASE schedule.policy.kind = "interval"
    <3>1. schedule.policy.interval # 0
      BY <2>1, InputIs
    <3> QED
      BY <2>1, <3>1, IntervalEarliest
  <2>2. CASE schedule.policy.kind = "cron"
    BY <2>2, CronEarliest
  <2> QED
    BY <2>1, <2>2, InputIs DEF Schedule
<1>3. Input => TimesAreRight
  BY <1>1, <1>2, FirstValid DEF TimesAreRight
<1> QED
  BY <1>3, InputsOnly, PTL

-----------------------------------------------------------------------------
(* PgTransactions *)

\* The rows a transaction has written and holds.
WrittenBy(t) == {x \in Executions : mine[t][x] # None}

\* What a transaction writes, by its kind.
Writes(t) ==
  IF t \in Cancels THEN "cancelled"
  ELSE IF t \in Retries \cup Failures THEN "failed"
  ELSE IF t \in Successes THEN "succeeded"
  ELSE "running"

PgTyped ==
  /\ exec \in [Executions -> {"none", "failed", "succeeded", "cancelled"} \cup Active]
  /\ jobOf \in [Executions -> Jobs \cup {None}]
  /\ job \in [Jobs -> {"none", "active", "failed", "succeeded", "cancelled"}]
  /\ pc \in [Txs -> {"begin", "first", "second", "update", "locked", "checked", "done", "failed"}]
  /\ todo \in [Txs -> SUBSET Executions]
  /\ mine \in [Txs -> [Executions -> {None, "running", "failed", "succeeded", "cancelled"}]]
  /\ jobs \in [Txs -> SUBSET Jobs]
  /\ inserts \in [Txs -> [x : Executions, job : Jobs] \cup {None}]
  /\ saw \in [Txs -> SUBSET Jobs]
  /\ advisory \in Txs \cup {None}

\* What is committed: an active execution is the one of an active job.
ActiveHasJob == \A x \in Executions : exec[x] \in Active => job[jobOf[x]] = "active"
OneExecution ==
  \A x, y \in Executions :
    exec[x] \in Active /\ exec[y] \in Active /\ jobOf[x] = jobOf[y] => x = y
JobHasActive ==
  \A j \in Jobs : job[j] = "active" => \E x \in Executions : exec[x] \in Active /\ jobOf[x] = j
OneActiveJob == \A i, j \in Jobs : job[i] = "active" /\ job[j] = "active" => i = j
RowHasJob == \A x \in Executions : exec[x] = "none" <=> jobOf[x] = None

RowsAgree == RowHasJob /\ ActiveHasJob /\ OneExecution /\ JobHasActive /\ OneActiveJob

\* What is written and not committed: nobody else can have changed it.
WritesHold == \A t \in Txs, x \in Executions : mine[t][x] # None => exec[x] \in Active /\ mine[t][x] = Writes(t)
OneWriter == \A t, u \in Txs, x \in Executions : mine[t][x] # None /\ mine[u][x] # None => t = u
OverIsReleased ==
  \A t \in Txs : pc[t] \in {"begin", "done", "failed"} =>
    /\ \A x \in Executions : mine[t][x] = None
    /\ inserts[t] = None
    /\ (pc[t] = "begin" => jobs[t] = {})
JobsWritten ==
  \A t \in Txs : pc[t] \notin {"done", "failed"} => jobs[t] = {jobOf[x] : x \in WrittenBy(t)}
OneRow ==
  \A t \in Txs \ Cancels : \E x \in Executions : todo[t] \cup WrittenBy(t) \subseteq {x}

RowsHeld == WritesHold /\ OneWriter /\ OverIsReleased /\ JobsWritten /\ OneRow

\* What is inserted and not committed.
InsertIsFresh ==
  \A t \in Txs : inserts[t] # None =>
    /\ exec[inserts[t].x] = "none"
    /\ t \in Retries \cup Adds
    /\ t \in Retries => inserts[t].job \in jobs[t]
    /\ t \in Adds => /\ job[inserts[t].job] = "none"
                     /\ \A j \in Jobs : job[j] # "active"
InsertsDiffer ==
  \A t, u \in Txs : inserts[t] # None /\ inserts[u] # None /\ inserts[t].x = inserts[u].x => t = u
AddsHoldLock ==
  \A t \in Adds : WrittenBy(t) = {} /\ todo[t] = {} /\ (pc[t] \in {"locked", "checked"} => advisory = t)
     /\ (inserts[t] # None => pc[t] = "checked")

RowsInserted == InsertIsFresh /\ InsertsDiffer /\ AddsHoldLock

PgInv == PgTyped /\ RowsAgree /\ RowsHeld /\ RowsInserted

OneRetry == \A t, u \in Retries : t = u
RetryDone == \E r \in Retries : pc[r] = "done"

\* What a cancellation has seen stays known; it finds every active execution of it with
\* its first statement, or with its second if the retry came between them.
SawKnown(t) == pc[t] \in {"first", "second", "done"} => \A j \in saw[t] : job[j] # "none"
FirstFinds(t) ==
  pc[t] = "first" =>
    \A x \in Executions : exec[x] \in Active /\ jobOf[x] \in saw[t] =>
      x \in todo[t] \cup WrittenBy(t) \/ RetryDone
SecondFinds(t) ==
  pc[t] = "second" =>
    \A x \in Executions : exec[x] \in Active /\ jobOf[x] \in saw[t] =>
      x \in WrittenBy(t) \/ (x \in todo[t] /\ RetryDone)
TakesEffect(t) == pc[t] = "done" => \A j \in saw[t] : job[j] # "active"

CancelHolds(t) == SawKnown(t) /\ FirstFinds(t) /\ SecondFinds(t) /\ TakesEffect(t)

CancelInv == \A t \in Cancels : CancelHolds(t)

-----------------------------------------------------------------------------
(* Statements *)

\* The kinds of transactions are disjoint.
LEMMA Kinds ==
  ASSUME NEW t \in Txs
  PROVE  /\ t # None
         /\ t \in Cancels => t \notin Retries /\ t \notin Failures /\ t \notin Successes /\ t \notin Starts /\ t \notin Adds
         /\ t \in Retries => t \notin Failures /\ t \notin Successes /\ t \notin Starts /\ t \notin Adds
         /\ t \in Failures => t \notin Successes /\ t \notin Starts /\ t \notin Adds
         /\ t \in Successes => t \notin Starts /\ t \notin Adds
         /\ t \in Starts => t \notin Adds
BY KindsAssumption DEF Txs

\* What a transaction writes is a status of an execution.
LEMMA WritesStatus ==
  ASSUME NEW t \in Txs
  PROVE  /\ Writes(t) \in {"running", "failed", "succeeded", "cancelled"}
         /\ Writes(t) # None
         /\ t \notin Starts \cup Adds => Writes(t) \notin Active
BY RowsAssumption, Kinds DEF Writes, Active, Txs

LEMMA PgInitHolds == PgInit => PgInv
<1> SUFFICES ASSUME PgInit PROVE PgInv
  OBVIOUS
<1> PICK x0 \in Executions : x0 = CHOOSE y \in Executions : TRUE
  BY RowsAssumption
<1> PICK j0 \in Jobs : j0 = CHOOSE i \in Jobs : TRUE
  BY RowsAssumption
<1>1. /\ exec = [y \in Executions |-> IF y = x0 THEN "running" ELSE "none"]
      /\ jobOf = [y \in Executions |-> IF y = x0 THEN j0 ELSE None]
      /\ job = [i \in Jobs |-> IF i = j0 THEN "active" ELSE "none"]
  BY DEF PgInit
<1>2. PgTyped
  BY <1>1 DEF PgInit, PgTyped, Active
<1>3. RowsAgree
  BY <1>1, RowsAssumption DEF RowsAgree, RowHasJob, ActiveHasJob, OneExecution, JobHasActive,
     OneActiveJob, Active
<1>4. RowsHeld
  BY RowsAssumption DEF PgInit, RowsHeld, WritesHold, OneWriter, OverIsReleased, JobsWritten, OneRow, WrittenBy
<1>5. RowsInserted
  BY DEF PgInit, RowsInserted, InsertIsFresh, InsertsDiffer, AddsHoldLock, WrittenBy, Txs
<1> QED
  BY <1>2, <1>3, <1>4, <1>5 DEF PgInv

\* A statement that finds its rows changes nothing that is stored or written.
LEMMA FindKeeps ==
  ASSUME PgInv, NEW t \in Txs, NEW from, NEW to, NEW xs \in SUBSET Executions,
         Find(t, from, to, xs), UNCHANGED <<committed, mine, jobs, inserts, advisory>>,
         saw' \in [Txs -> SUBSET Jobs],
         from \notin {"done", "failed"}, to \in {"first", "second", "update"},
         t \notin Adds,
         t \notin Cancels => from = "begin" /\ \E x \in Executions : xs \subseteq {x}
  PROVE  PgInv'
<1> USE DEF PgInv
<1>1. pc' = [pc EXCEPT ![t] = to] /\ todo' = [todo EXCEPT ![t] = xs] /\ pc[t] = from
  BY DEF Find
<1>2. exec' = exec /\ jobOf' = jobOf /\ job' = job /\ mine' = mine /\ jobs' = jobs
      /\ inserts' = inserts /\ advisory' = advisory
  BY DEF committed
<1>3. \A u : WrittenBy(u)' = WrittenBy(u) 
  BY <1>2 DEF WrittenBy
<1>4. PgTyped'
  BY <1>1, <1>2 DEF PgTyped
<1>5. RowsAgree'
  BY <1>2 DEF RowsAgree, RowHasJob, ActiveHasJob, OneExecution, JobHasActive, OneActiveJob
<1>6. RowsHeld'
  <2>1. WritesHold' /\ OneWriter'
    BY <1>2 DEF RowsHeld, WritesHold, OneWriter
  <2>2. OverIsReleased'
    BY <1>1, <1>2 DEF RowsHeld, OverIsReleased, PgTyped
  <2>3. JobsWritten'
    BY <1>1, <1>2, <1>3 DEF RowsHeld, JobsWritten, PgTyped
  <2>4. OneRow'
    <3> SUFFICES ASSUME NEW u \in Txs \ Cancels
                 PROVE  \E x \in Executions : todo'[u] \cup WrittenBy(u) \subseteq {x}
      BY <1>3 DEF OneRow
    <3>1. CASE u # t
      BY <3>1, <1>1 DEF RowsHeld, OneRow, PgTyped
    <3>2. CASE u = t
      <4>1. WrittenBy(t) = {}
        BY <3>2, <1>1 DEF RowsHeld, OverIsReleased, WrittenBy
      <4> QED
        BY <3>2, <4>1, <1>1 DEF PgTyped
    <3> QED
      BY <3>1, <3>2
  <2> QED
    BY <2>1, <2>2, <2>3, <2>4 DEF RowsHeld
<1>7. RowsInserted'
  <2>1. InsertIsFresh' /\ InsertsDiffer'
    BY <1>2 DEF RowsInserted, InsertIsFresh, InsertsDiffer
  <2>2. AddsHoldLock'
    BY <1>1, <1>2, <1>3, Kinds DEF RowsInserted, AddsHoldLock, PgTyped, Txs
  <2> QED
    BY <2>1, <2>2 DEF RowsInserted
<1> QED
  BY <1>4, <1>5, <1>6, <1>7

\* A row that is updated was active, and nobody else has written it.
LEMMA UpdateKeeps ==
  ASSUME PgInv, NEW t \in Txs, NEW at \in {"first", "second", "update"}, NEW statuses \in SUBSET Active,
         UpdateRow(t, at, statuses, Writes(t)), t \notin Adds
  PROVE  PgInv'
<1> USE DEF PgInv
<1> PICK x \in todo[t] :
      /\ ~Locked(t, x)
      /\ todo' = [todo EXCEPT ![t] = @ \ {x}]
      /\ IF StillMatches(t, x, statuses)
         THEN /\ mine' = [mine EXCEPT ![t][x] = Writes(t)]
              /\ jobs' = [jobs EXCEPT ![t] = @ \cup {jobOf[x]}]
         ELSE UNCHANGED <<mine, jobs>>
  BY DEF UpdateRow
<1>1. /\ pc[t] = at /\ pc' = pc /\ exec' = exec /\ jobOf' = jobOf /\ job' = job
      /\ inserts' = inserts /\ saw' = saw /\ advisory' = advisory
  BY DEF UpdateRow, committed
<1>2. x \in Executions
  BY DEF PgTyped
<1>3. RowsAgree'
  BY <1>1 DEF RowsAgree, RowHasJob, ActiveHasJob, OneExecution, JobHasActive, OneActiveJob
<1>4. CASE ~StillMatches(t, x, statuses)
  <2>1. mine' = mine /\ jobs' = jobs
    BY <1>4
  <2>2. \A u : WrittenBy(u)' = WrittenBy(u)
    BY <2>1 DEF WrittenBy
  <2>3. PgTyped'
    BY <1>1, <2>1 DEF PgTyped
  <2>4. WritesHold' /\ OneWriter' /\ OverIsReleased' /\ JobsWritten'
    BY <1>1, <2>1, <2>2 DEF RowsHeld, WritesHold, OneWriter, OverIsReleased, JobsWritten
  <2>5. OneRow'
    <3>1. \A u \in Txs : todo'[u] \subseteq todo[u]
      BY DEF PgTyped
    <3> QED
      BY <2>2, <3>1 DEF RowsHeld, OneRow
  <2>6. InsertIsFresh' /\ InsertsDiffer'
    BY <1>1, <2>1 DEF RowsInserted, InsertIsFresh, InsertsDiffer
  <2>7. AddsHoldLock'
    BY <1>1, <2>1, <2>2, Kinds DEF RowsInserted, AddsHoldLock, PgTyped, Txs
  <2> QED
    BY <1>3, <2>3, <2>4, <2>5, <2>6, <2>7 DEF RowsHeld, RowsInserted
<1>5. CASE StillMatches(t, x, statuses)
  <2>1. /\ mine' = [mine EXCEPT ![t][x] = Writes(t)]
        /\ jobs' = [jobs EXCEPT ![t] = @ \cup {jobOf[x]}]
    BY <1>5
  <2>2. exec[x] \in Active /\ jobOf[x] \in Jobs
    <3>1. exec[x] \in Active
      BY <1>5, <1>2, RowsAssumption DEF StillMatches, Seen, RowsHeld, WritesHold
    <3> QED
      BY <3>1, <1>2, RowsAssumption DEF RowsAgree, RowHasJob, PgTyped, Active
  <2>3. \A u \in Txs, y \in Executions :
          mine'[u][y] = IF u = t /\ y = x THEN Writes(t) ELSE mine[u][y]
    BY <2>1, <1>2 DEF PgTyped
  <2>4. \A u \in Txs \ {t} : WrittenBy(u)' = WrittenBy(u)
    BY <2>3 DEF WrittenBy
  <2>5. WrittenBy(t)' = WrittenBy(t) \cup {x}
    BY <2>3, <1>2, WritesStatus DEF WrittenBy
  <2>6. PgTyped'
    BY <1>1, <2>1, <2>2, <1>2, WritesStatus DEF PgTyped
  <2>7. WritesHold'
    BY <2>3, <1>1, <2>2, WritesStatus DEF RowsHeld, WritesHold
  <2>8. OneWriter'
    BY <2>3 DEF RowsHeld, OneWriter, Locked
  <2>9. OverIsReleased'
    BY <1>1, <2>1, <2>3 DEF RowsHeld, OverIsReleased, PgTyped
  <2>10. JobsWritten'
    <3>1. jobs'[t] = jobs[t] \cup {jobOf[x]} /\ \A u \in Txs \ {t} : jobs'[u] = jobs[u]
      BY <2>1 DEF PgTyped
    <3> QED
      BY <3>1, <1>1, <2>4, <2>5 DEF RowsHeld, JobsWritten
  <2>11. OneRow'
    <3> SUFFICES ASSUME NEW u \in Txs \ Cancels
                 PROVE  \E y \in Executions : todo'[u] \cup WrittenBy(u)' \subseteq {y}
      BY DEF OneRow
    <3>1. PICK y \in Executions : todo[u] \cup WrittenBy(u) \subseteq {y}
      BY DEF RowsHeld, OneRow
    <3>2. todo'[u] \cup WrittenBy(u)' \subseteq todo[u] \cup WrittenBy(u)
      BY <2>4, <2>5 DEF PgTyped
    <3> QED
      BY <3>1, <3>2
  <2>12. InsertIsFresh'
    BY <1>1, <2>1 DEF RowsInserted, InsertIsFresh, PgTyped
  <2>13. InsertsDiffer'
    BY <1>1 DEF RowsInserted, InsertsDiffer
  <2>14. AddsHoldLock'
    BY <1>1, <2>4, Kinds DEF RowsInserted, AddsHoldLock, PgTyped, Txs
  <2> QED
    BY <1>3, <2>6, <2>7, <2>8, <2>9, <2>10, <2>11, <2>12, <2>13, <2>14 DEF RowsHeld, RowsInserted
<1> QED
  BY <1>4, <1>5

\* A retry inserts the next execution of the job whose execution it has ended.
LEMMA RetryInsertKeeps ==
  ASSUME PgInv, NEW t \in Retries, NEW j \in jobs[t], Insert(t, j), pc[t] = "update",
         UNCHANGED <<committed, pc, todo, mine, jobs, saw, advisory>>
  PROVE  PgInv'
<1> USE DEF PgInv
<1> t \in Txs /\ t \notin Adds
  BY KindsAssumption DEF Txs
<1>1. PICK x \in Executions : Fresh(x) /\ inserts' = [inserts EXCEPT ![t] = [x |-> x, job |-> j]]
  BY DEF Insert
<1>2. /\ exec' = exec /\ jobOf' = jobOf /\ job' = job /\ pc' = pc /\ todo' = todo /\ mine' = mine
      /\ jobs' = jobs /\ saw' = saw /\ advisory' = advisory
  BY DEF committed
<1>3. \A u : WrittenBy(u)' = WrittenBy(u)
  BY <1>2 DEF WrittenBy
<1>4. j \in Jobs
  BY DEF PgTyped
<1>5. PgTyped'
  BY <1>1, <1>2, <1>4 DEF PgTyped
<1>6. RowsAgree'
  BY <1>2 DEF RowsAgree, RowHasJob, ActiveHasJob, OneExecution, JobHasActive, OneActiveJob
<1>7. RowsHeld'
  <2>1. WritesHold' /\ OneWriter' /\ JobsWritten' /\ OneRow'
    BY <1>2, <1>3 DEF RowsHeld, WritesHold, OneWriter, JobsWritten, OneRow
  <2>2. OverIsReleased'
    BY <1>1, <1>2 DEF RowsHeld, OverIsReleased, PgTyped
  <2> QED
    BY <2>1, <2>2 DEF RowsHeld
<1>8. RowsInserted'
  <2>1. \A u \in Txs \ {t} : inserts'[u] = inserts[u]
    BY <1>1 DEF PgTyped
  <2>2. inserts'[t] = [x |-> x, job |-> j]
    BY <1>1 DEF PgTyped
  <2>3. InsertIsFresh'
    BY <1>1, <1>2, <2>1, <2>2 DEF RowsInserted, InsertIsFresh, Fresh
  <2>4. InsertsDiffer'
    BY <1>1, <2>1, <2>2 DEF RowsInserted, InsertsDiffer, Fresh
  <2>5. AddsHoldLock'
    BY <1>2, <1>3, <2>1, KindsAssumption DEF RowsInserted, AddsHoldLock, Txs
  <2> QED
    BY <2>3, <2>4, <2>5 DEF RowsInserted
<1> QED
  BY <1>5, <1>6, <1>7, <1>8

\* A conditional call takes the lock first,
LEMMA AddBeginKeeps ==
  ASSUME PgInv, NEW t \in Adds, LockFree(t), Find(t, "begin", "locked", {}), advisory' = t,
         UNCHANGED <<committed, mine, jobs, inserts, saw>>
  PROVE  PgInv'
<1> USE DEF PgInv
<1> t \in Txs /\ t # None
  BY Kinds DEF Txs
<1>1. pc' = [pc EXCEPT ![t] = "locked"] /\ todo' = [todo EXCEPT ![t] = {}] /\ pc[t] = "begin"
      /\ advisory = None
  BY DEF Find, LockFree
<1>2. exec' = exec /\ jobOf' = jobOf /\ job' = job /\ mine' = mine /\ jobs' = jobs
      /\ inserts' = inserts /\ saw' = saw
  BY DEF committed
<1>3. \A u : WrittenBy(u)' = WrittenBy(u)
  BY <1>2 DEF WrittenBy
<1>4. PgTyped'
  BY <1>1, <1>2 DEF PgTyped
<1>5. RowsAgree'
  BY <1>2 DEF RowsAgree, RowHasJob, ActiveHasJob, OneExecution, JobHasActive, OneActiveJob
<1>6. RowsHeld'
  <2>1. WritesHold' /\ OneWriter'
    BY <1>2 DEF RowsHeld, WritesHold, OneWriter
  <2>2. OverIsReleased'
    BY <1>1, <1>2 DEF RowsHeld, OverIsReleased, PgTyped
  <2>3. JobsWritten'
    BY <1>1, <1>2, <1>3 DEF RowsHeld, JobsWritten, PgTyped
  <2>4. OneRow'
    BY <1>1, <1>3 DEF RowsHeld, OneRow, PgTyped
  <2> QED
    BY <2>1, <2>2, <2>3, <2>4 DEF RowsHeld
<1>7. RowsInserted'
  <2>1. InsertIsFresh' /\ InsertsDiffer'
    BY <1>2 DEF RowsInserted, InsertIsFresh, InsertsDiffer
  <2>2. AddsHoldLock'
    <3> SUFFICES ASSUME NEW u \in Adds
                 PROVE  /\ WrittenBy(u) = {} /\ todo'[u] = {}
                        /\ pc'[u] \in {"locked", "checked"} => advisory' = u
                        /\ inserts[u] # None => pc'[u] = "checked"
      BY <1>2, <1>3 DEF AddsHoldLock
    <3>1. CASE u = t
      BY <3>1, <1>1 DEF RowsInserted, AddsHoldLock, PgTyped
    <3>2. CASE u # t
      BY <3>2, <1>1, Kinds DEF RowsInserted, AddsHoldLock, PgTyped, Txs
    <3> QED
      BY <3>1, <3>2
  <2> QED
    BY <2>1, <2>2 DEF RowsInserted
<1> QED
  BY <1>4, <1>5, <1>6, <1>7

\* and inserts what no active job is like.
LEMMA AddCheckKeeps ==
  ASSUME PgInv, NEW t \in Adds, Find(t, "locked", "checked", {}),
         IF \E j \in Jobs : job[j] = "active"
         THEN UNCHANGED inserts
         ELSE \E j \in Jobs : job[j] = "none" /\ Insert(t, j),
         UNCHANGED <<committed, mine, jobs, saw, advisory>>
  PROVE  PgInv'
<1> USE DEF PgInv
<1> t \in Txs /\ t # None
  BY Kinds DEF Txs
<1>1. pc' = [pc EXCEPT ![t] = "checked"] /\ todo' = [todo EXCEPT ![t] = {}] /\ pc[t] = "locked"
  BY DEF Find
<1>2. exec' = exec /\ jobOf' = jobOf /\ job' = job /\ mine' = mine /\ jobs' = jobs
      /\ saw' = saw /\ advisory' = advisory
  BY DEF committed
<1>3. \A u : WrittenBy(u)' = WrittenBy(u)
  BY <1>2 DEF WrittenBy
<1>4. \A u \in Txs \ {t} : inserts'[u] = inserts[u]
  BY DEF Insert, PgTyped
<1>5. \/ inserts' = inserts
      \/ /\ \A j \in Jobs : job[j] # "active"
         /\ \E x \in Executions, j \in Jobs :
              /\ Fresh(x) /\ job[j] = "none" /\ inserts' = [inserts EXCEPT ![t] = [x |-> x, job |-> j]]
  BY DEF Insert
<1>6. PgTyped'
  <2>1. inserts' \in [Txs -> [x : Executions, job : Jobs] \cup {None}]
    BY <1>5 DEF PgTyped
  <2> QED
    BY <2>1, <1>1, <1>2 DEF PgTyped
<1>7. RowsAgree'
  BY <1>2 DEF RowsAgree, RowHasJob, ActiveHasJob, OneExecution, JobHasActive, OneActiveJob
<1>8. RowsHeld'
  <2>1. WritesHold' /\ OneWriter'
    BY <1>2 DEF RowsHeld, WritesHold, OneWriter
  <2>2. OverIsReleased'
    BY <1>1, <1>2, <1>4 DEF RowsHeld, OverIsReleased, PgTyped
  <2>3. JobsWritten'
    BY <1>1, <1>2, <1>3 DEF RowsHeld, JobsWritten, PgTyped
  <2>4. OneRow'
    BY <1>1, <1>3 DEF RowsHeld, OneRow, PgTyped
  <2> QED
    BY <2>1, <2>2, <2>3, <2>4 DEF RowsHeld
<1>9. RowsInserted'
  <2>1. AddsHoldLock'
    BY <1>1, <1>2, <1>3, <1>4 DEF RowsInserted, AddsHoldLock, PgTyped, Txs
  <2>2. CASE inserts' = inserts
    BY <2>1, <2>2, <1>2 DEF RowsInserted, InsertIsFresh, InsertsDiffer
  <2>3. ASSUME NEW x \in Executions, NEW j \in Jobs, \A i \in Jobs : job[i] # "active",
               Fresh(x), job[j] = "none", inserts' = [inserts EXCEPT ![t] = [x |-> x, job |-> j]]
        PROVE  RowsInserted'
    <3>1. inserts'[t] = [x |-> x, job |-> j]
      BY <2>3 DEF PgTyped
    <3>2. InsertIsFresh'
      BY <2>3, <3>1, <1>2, <1>4, KindsAssumption DEF RowsInserted, InsertIsFresh, Fresh
    <3>3. InsertsDiffer'
      BY <2>3, <3>1, <1>4 DEF RowsInserted, InsertsDiffer, Fresh
    <3> QED
      BY <2>1, <3>2, <3>3 DEF RowsInserted
  <2> QED
    BY <1>5, <2>2, <2>3
<1> QED
  BY <1>6, <1>7, <1>8, <1>9

\* A transaction that is rolled back has changed nothing.
LEMMA RollbackKeeps ==
  ASSUME PgInv, NEW t \in Txs, Rollback(t)
  PROVE  PgInv'
<1> USE DEF PgInv
<1>1. /\ pc' = [pc EXCEPT ![t] = "failed"] /\ todo' = [todo EXCEPT ![t] = {}]
      /\ mine' = [mine EXCEPT ![t] = [x \in Executions |-> None]]
      /\ inserts' = [inserts EXCEPT ![t] = None]
      /\ advisory' = IF advisory = t THEN None ELSE advisory
      /\ exec' = exec /\ jobOf' = jobOf /\ job' = job /\ jobs' = jobs /\ saw' = saw
  BY DEF Rollback, committed
<1>2. /\ \A x \in Executions : mine'[t][x] = None
      /\ inserts'[t] = None /\ pc'[t] = "failed" /\ todo'[t] = {}
  BY <1>1 DEF PgTyped
<1>3. \A u \in Txs \ {t} : mine'[u] = mine[u] /\ inserts'[u] = inserts[u] /\ pc'[u] = pc[u] /\ todo'[u] = todo[u]
  BY <1>1 DEF PgTyped
<1>4. WrittenBy(t)' = {} /\ \A u \in Txs \ {t} : WrittenBy(u)' = WrittenBy(u)
  BY <1>2, <1>3 DEF WrittenBy
<1>5. PgTyped'
  BY <1>1 DEF PgTyped
<1>6. RowsAgree'
  BY <1>1 DEF RowsAgree, RowHasJob, ActiveHasJob, OneExecution, JobHasActive, OneActiveJob
<1>7. RowsHeld'
  <2>1. WritesHold' /\ OneWriter'
    BY <1>1, <1>2, <1>3 DEF RowsHeld, WritesHold, OneWriter
  <2>2. OverIsReleased'
    BY <1>1, <1>2, <1>3 DEF RowsHeld, OverIsReleased
  <2>3. JobsWritten'
    BY <1>1, <1>2, <1>3, <1>4 DEF RowsHeld, JobsWritten
  <2>4. OneRow'
    BY <1>2, <1>3, <1>4, RowsAssumption DEF RowsHeld, OneRow
  <2> QED
    BY <2>1, <2>2, <2>3, <2>4 DEF RowsHeld
<1>8. RowsInserted'
  <2>1. InsertIsFresh' /\ InsertsDiffer'
    BY <1>1, <1>2, <1>3 DEF RowsInserted, InsertIsFresh, InsertsDiffer
  <2>2. AddsHoldLock'
    BY <1>1, <1>2, <1>3, <1>4 DEF RowsInserted, AddsHoldLock, Txs
  <2> QED
    BY <2>1, <2>2 DEF RowsInserted
<1> QED
  BY <1>5, <1>6, <1>7, <1>8

-----------------------------------------------------------------------------
(* A transaction that commits *)

\* What a commit makes of the rows: those inserted and those written change.
LEMMA CommitRows ==
  ASSUME PgInv, NEW t \in Txs, NEW at, NEW status, Commit(t, at, status)
  PROVE  /\ \A x \in Executions : inserts[t] # None /\ inserts[t].x = x =>
              exec[x] = "none" /\ exec'[x] = "pending" /\ jobOf'[x] = inserts[t].job
         /\ \A x \in WrittenBy(t) : exec[x] \in Active /\ exec'[x] = Writes(t) /\ jobOf'[x] = jobOf[x]
         /\ \A x \in Executions \ WrittenBy(t) : ~(inserts[t] # None /\ inserts[t].x = x) =>
              exec'[x] = exec[x] /\ jobOf'[x] = jobOf[x]
<1> USE DEF PgInv
<1>1. \A x \in Executions : mine[t][x] # None => exec[x] \in Active /\ mine[t][x] = Writes(t)
  BY DEF RowsHeld, WritesHold
<1>2. inserts[t] # None => exec[inserts[t].x] = "none"
  BY DEF RowsInserted, InsertIsFresh
<1>3. "none" \notin Active
  BY DEF Active
<1> QED
  BY <1>1, <1>2, <1>3 DEF Commit, Seen, WrittenBy

LEMMA CommitTyped ==
  ASSUME PgInv, NEW t \in Txs, NEW at,
         NEW status \in {None, "failed", "succeeded", "cancelled"}, Commit(t, at, status)
  PROVE  PgTyped'
<1> USE DEF PgInv
<1>1. exec' \in [Executions -> {"none", "failed", "succeeded", "cancelled"} \cup Active]
  BY RowsAssumption DEF Commit, PgTyped, Seen, Active
<1>2. inserts[t] # None => inserts[t].job \in Jobs
  BY DEF PgTyped
<1>3. jobOf' \in [Executions -> Jobs \cup {None}]
  BY <1>2 DEF Commit, PgTyped
<1>4. job' \in [Jobs -> {"none", "active", "failed", "succeeded", "cancelled"}]
  BY DEF Commit, PgTyped
<1> QED
  BY <1>1, <1>3, <1>4 DEF Commit, PgTyped

\* What others have written and inserted stays theirs.
LEMMA CommitReleases ==
  ASSUME PgInv, NEW t \in Txs, NEW at \in {"first", "second", "update", "checked"},
         NEW status \in {None, "failed", "succeeded", "cancelled"}, Commit(t, at, status)
  PROVE  RowsHeld' /\ RowsInserted'
<1> USE DEF PgInv
<1>1. /\ pc[t] = at /\ pc' = [pc EXCEPT ![t] = "done"] /\ todo' = todo /\ todo[t] = {}
      /\ mine' = [mine EXCEPT ![t] = [x \in Executions |-> None]]
      /\ inserts' = [inserts EXCEPT ![t] = None]
      /\ advisory' = IF advisory = t THEN None ELSE advisory
      /\ jobs' = jobs /\ saw' = saw
  BY DEF Commit
<1>2. /\ \A x \in Executions : mine'[t][x] = None
      /\ inserts'[t] = None /\ pc'[t] = "done"
  BY <1>1 DEF PgTyped
<1>3. \A u \in Txs \ {t} : mine'[u] = mine[u] /\ inserts'[u] = inserts[u] /\ pc'[u] = pc[u]
  BY <1>1 DEF PgTyped
<1>4. WrittenBy(t)' = {} /\ \A u \in Txs \ {t} : WrittenBy(u)' = WrittenBy(u)
  BY <1>2, <1>3 DEF WrittenBy
\* The rows of others keep their state.
<1>5. ASSUME NEW u \in Txs \ {t}, NEW x \in Executions, mine[u][x] # None
      PROVE  exec[x] \in Active /\ exec'[x] = exec[x] /\ jobOf'[x] = jobOf[x]
  <2>1. exec[x] \in Active /\ exec[x] # "none"
    BY <1>5 DEF RowsHeld, WritesHold, Active
  <2>2. x \notin WrittenBy(t)
    BY <1>5 DEF RowsHeld, OneWriter, WrittenBy
  <2> QED
    BY <2>1, <2>2, CommitRows
\* The jobs of t are those of executions that are active, or its own insert.
<1>6. \A j \in jobs[t] : job[j] = "active"
  <2>1. jobs[t] = {jobOf[x] : x \in WrittenBy(t)}
    BY <1>1 DEF RowsHeld, JobsWritten
  <2> QED
    BY <2>1, CommitRows DEF RowsAgree, ActiveHasJob, WrittenBy
<1>7. \A j \in Jobs : j \notin jobs[t] /\ ~(inserts[t] # None /\ inserts[t].job = j) => job'[j] = job[j]
  BY DEF Commit
<1>8. RowsHeld'
  <2>1. WritesHold'
    BY <1>2, <1>3, <1>5 DEF RowsHeld, WritesHold, Writes
  <2>2. OneWriter'
    BY <1>2, <1>3 DEF RowsHeld, OneWriter
  <2>3. OverIsReleased'
    BY <1>1, <1>2, <1>3 DEF RowsHeld, OverIsReleased
  <2>4. JobsWritten'
    <3> SUFFICES ASSUME NEW u \in Txs \ {t}, pc[u] \notin {"done", "failed"}
                 PROVE  jobs[u] = {jobOf'[x] : x \in WrittenBy(u)}
      BY <1>1, <1>2, <1>3, <1>4 DEF JobsWritten
    <3>1. jobs[u] = {jobOf[x] : x \in WrittenBy(u)}
      BY DEF RowsHeld, JobsWritten
    <3>2. \A x \in WrittenBy(u) : jobOf'[x] = jobOf[x]
      BY <1>5 DEF WrittenBy
    <3> QED
      BY <3>1, <3>2
  <2>5. OneRow'
    BY <1>1, <1>4, RowsAssumption DEF RowsHeld, OneRow
  <2> QED
    BY <2>1, <2>2, <2>3, <2>4, <2>5 DEF RowsHeld
<1>9. RowsInserted'
  <2>1. InsertIsFresh'
    <3> SUFFICES ASSUME NEW u \in Txs, inserts'[u] # None
                 PROVE  /\ exec'[inserts'[u].x] = "none"
                        /\ u \in Retries \cup Adds
                        /\ u \in Retries => inserts'[u].job \in jobs'[u]
                        /\ u \in Adds => /\ job'[inserts'[u].job] = "none"
                                         /\ \A j \in Jobs : job'[j] # "active"
      BY DEF InsertIsFresh
    <3>1. u # t /\ inserts'[u] = inserts[u] /\ inserts[u] # None
      BY <1>2, <1>3
    <3>2. inserts[u] \in [x : Executions, job : Jobs]
      BY <3>1 DEF PgTyped
    <3>3. /\ exec[inserts[u].x] = "none" /\ u \in Retries \cup Adds
          /\ u \in Retries => inserts[u].job \in jobs[u]
          /\ u \in Adds => job[inserts[u].job] = "none" /\ \A j \in Jobs : job[j] # "active"
      BY <3>1 DEF RowsInserted, InsertIsFresh
    <3>4. exec'[inserts[u].x] = "none"
      <4>1. inserts[u].x \notin WrittenBy(t)
        BY <3>3, CommitRows DEF Active
      <4>2. ~(inserts[t] # None /\ inserts[t].x = inserts[u].x)
        BY <3>1 DEF RowsInserted, InsertsDiffer
      <4> QED
        BY <4>1, <4>2, <3>2, <3>3, CommitRows
    <3>5. ASSUME u \in Adds
          PROVE  job'[inserts[u].job] = "none" /\ \A j \in Jobs : job'[j] # "active"
      <4>1. pc[u] = "checked" /\ advisory = u
        BY <3>1, <3>5 DEF RowsInserted, AddsHoldLock
      <4>2. jobs[t] = {}
        BY <1>6, <3>3, <3>5 DEF PgTyped
      <4>3. inserts[t] = None
        <5> SUFFICES ASSUME inserts[t] # None PROVE FALSE
          OBVIOUS
        <5>1. CASE t \in Retries
          BY <5>1, <4>2 DEF RowsInserted, InsertIsFresh
        <5>2. CASE t \in Adds
          BY <5>2, <4>1, <3>1 DEF RowsInserted, AddsHoldLock
        <5> QED
          BY <5>1, <5>2 DEF RowsInserted, InsertIsFresh
      <4> QED
        BY <4>2, <4>3, <1>7, <3>2, <3>3, <3>5
    <3> QED
      BY <3>1, <3>3, <3>4, <3>5, <1>1
  <2>2. InsertsDiffer'
    BY <1>2, <1>3 DEF RowsInserted, InsertsDiffer
  <2>3. AddsHoldLock'
    BY <1>1, <1>2, <1>3, <1>4 DEF RowsInserted, AddsHoldLock, Txs
  <2> QED
    BY <2>1, <2>2, <2>3 DEF RowsInserted
<1> QED
  BY <1>8, <1>9

\* Nothing is inserted, and every job whose execution ends becomes inactive.
LEMMA CommitEnds ==
  ASSUME PgInv, NEW t \in Cancels \cup Failures \cup Successes, NEW at \in {"first", "second", "update"},
         Commit(t, at, Writes(t))
  PROVE  RowsAgree'
<1> USE DEF PgInv
<1> t \in Txs /\ t \notin Retries \cup Adds \cup Starts
  BY Kinds DEF Txs
<1>1. Writes(t) \in {"failed", "succeeded", "cancelled"} /\ Writes(t) # None
  BY WritesStatus DEF Active
<1>2. inserts[t] = None
  BY DEF RowsInserted, InsertIsFresh
<1>3. jobs[t] = {jobOf[x] : x \in WrittenBy(t)}
  BY DEF RowsHeld, JobsWritten, Commit
<1>4. \A x \in WrittenBy(t) : x \in Executions /\ exec[x] \in Active /\ exec'[x] = Writes(t) /\ jobOf'[x] = jobOf[x]
  BY CommitRows DEF WrittenBy
<1>5. \A x \in Executions \ WrittenBy(t) : exec'[x] = exec[x] /\ jobOf'[x] = jobOf[x]
  BY <1>2, CommitRows
<1>6. \A j \in Jobs : job'[j] = IF j \in jobs[t] THEN Writes(t) ELSE job[j]
  BY <1>1, <1>2 DEF Commit
<1>7. \A x \in Executions : exec'[x] \in Active <=> exec[x] \in Active /\ x \notin WrittenBy(t)
  BY <1>1, <1>4, <1>5 DEF Active
<1>8. \A x \in Executions : exec[x] \in Active => jobOf[x] \in Jobs
  BY RowsAssumption DEF RowsAgree, RowHasJob, PgTyped, Active
<1>9. \A x \in Executions : exec'[x] \in Active => jobOf'[x] = jobOf[x] /\ jobOf[x] \notin jobs[t]
  BY <1>3, <1>4, <1>5, <1>7 DEF RowsAgree, OneExecution
<1>10. RowHasJob'
  BY <1>1, <1>4, <1>5 DEF RowsAgree, RowHasJob, Active
<1>11. ActiveHasJob'
  BY <1>6, <1>7, <1>8, <1>9 DEF RowsAgree, ActiveHasJob
<1>12. OneExecution'
  BY <1>7, <1>9 DEF RowsAgree, OneExecution
<1>13. JobHasActive'
  <2> SUFFICES ASSUME NEW j \in Jobs, job'[j] = "active"
               PROVE  \E x \in Executions : exec'[x] \in Active /\ jobOf'[x] = j
    BY DEF JobHasActive
  <2>1. j \notin jobs[t] /\ job[j] = "active"
    BY <1>1, <1>6
  <2>2. PICK x \in Executions : exec[x] \in Active /\ jobOf[x] = j
    BY <2>1 DEF RowsAgree, JobHasActive
  <2>3. x \notin WrittenBy(t)
    BY <2>1, <2>2, <1>3
  <2> QED
    BY <2>2, <2>3, <1>7, <1>9
<1>14. OneActiveJob'
  BY <1>1, <1>6 DEF RowsAgree, OneActiveJob
<1> QED
  BY <1>10, <1>11, <1>12, <1>13, <1>14 DEF RowsAgree

\* An execution that starts stays active.
LEMMA CommitStarts ==
  ASSUME PgInv, NEW t \in Starts, Commit(t, "update", None)
  PROVE  RowsAgree'
<1> USE DEF PgInv
<1> t \in Txs /\ t \notin Cancels \cup Retries \cup Failures \cup Successes \cup Adds
  BY KindsAssumption DEF Txs
<1>1. Writes(t) = "running"
  BY DEF Writes
<1>2. inserts[t] = None
  BY DEF RowsInserted, InsertIsFresh
<1>3. \A x \in WrittenBy(t) : x \in Executions /\ exec[x] \in Active /\ exec'[x] = "running" /\ jobOf'[x] = jobOf[x]
  BY <1>1, CommitRows DEF WrittenBy
<1>4. \A x \in Executions \ WrittenBy(t) : exec'[x] = exec[x] /\ jobOf'[x] = jobOf[x]
  BY <1>2, CommitRows
<1>5. job' = job
  BY <1>2 DEF Commit, PgTyped
<1>6. \A x \in Executions : (exec'[x] \in Active <=> exec[x] \in Active) /\ jobOf'[x] = jobOf[x]
                            /\ (exec'[x] = "none" <=> exec[x] = "none")
  BY <1>3, <1>4 DEF Active
<1> QED
  BY <1>5, <1>6 DEF RowsAgree, RowHasJob, ActiveHasJob, OneExecution, JobHasActive, OneActiveJob

\* A retry replaces the execution it ended, if it ended one.
LEMMA CommitRetries ==
  ASSUME PgInv, NEW t \in Retries, Commit(t, "update", None), jobs[t] # {} => inserts[t] # None
  PROVE  RowsAgree'
<1> USE DEF PgInv
<1> t \in Txs /\ t \notin Cancels \cup Starts \cup Failures \cup Successes \cup Adds
  BY KindsAssumption DEF Txs
<1>1. Writes(t) = "failed"
  BY DEF Writes
<1>2. jobs[t] = {jobOf[x] : x \in WrittenBy(t)}
  BY DEF RowsHeld, JobsWritten, Commit
<1>3. CASE inserts[t] = None
  <2>1. WrittenBy(t) = {}
    BY <1>2, <1>3
  <2>2. \A x \in Executions : exec'[x] = exec[x] /\ jobOf'[x] = jobOf[x]
    BY <1>3, <2>1, CommitRows
  <2>3. job' = job
    BY <1>3 DEF Commit, PgTyped
  <2> QED
    BY <2>2, <2>3 DEF RowsAgree, RowHasJob, ActiveHasJob, OneExecution, JobHasActive, OneActiveJob
<1>4. CASE inserts[t] # None
  <2> PICK y \in Executions, j \in Jobs : inserts[t] = [x |-> y, job |-> j]
    BY <1>4 DEF PgTyped
  <2>1. exec[y] = "none" /\ j \in jobs[t]
    BY <1>4 DEF RowsInserted, InsertIsFresh
  <2>2. PICK x \in Executions : x \in WrittenBy(t) /\ jobOf[x] = j
    BY <2>1, <1>2 DEF WrittenBy
  <2>3. WrittenBy(t) = {x}
    BY <2>2 DEF RowsHeld, OneRow
  <2>4. exec'[y] = "pending" /\ jobOf'[y] = j
    BY <1>4, CommitRows
  <2>5. exec[x] \in Active /\ exec'[x] = "failed" /\ jobOf'[x] = j
    BY <2>2, <1>1, CommitRows
  <2>6. \A z \in Executions \ {x, y} : exec'[z] = exec[z] /\ jobOf'[z] = jobOf[z]
    BY <1>4, <2>3, CommitRows
  <2>7. job[j] = "active"
    BY <2>2, <2>5 DEF RowsAgree, ActiveHasJob
  <2>8. job' = job
    BY <2>7, <1>4 DEF Commit, PgTyped
  <2>9. \A z \in Executions \ {x, y} : exec[z] \in Active => jobOf[z] # j
    BY <2>2, <2>5 DEF RowsAgree, OneExecution
  <2>10. j # None
    BY RowsAssumption
  <2>11. x # y
    BY <2>1, <2>5 DEF Active
  <2>12. RowHasJob'
    BY <2>4, <2>5, <2>6, <2>10 DEF RowsAgree, RowHasJob
  <2>13. ActiveHasJob'
    BY <2>4, <2>5, <2>6, <2>7, <2>8 DEF RowsAgree, ActiveHasJob, Active
  <2>14. OneExecution'
    BY <2>4, <2>5, <2>6, <2>9 DEF RowsAgree, OneExecution, Active
  <2>15. JobHasActive'
    <3> SUFFICES ASSUME NEW i \in Jobs, job[i] = "active"
                 PROVE  \E z \in Executions : exec'[z] \in Active /\ jobOf'[z] = i
      BY <2>8 DEF JobHasActive
    <3>1. CASE i = j
      BY <3>1, <2>4 DEF Active
    <3>2. CASE i # j
      <4>1. PICK z \in Executions : exec[z] \in Active /\ jobOf[z] = i
        BY DEF RowsAgree, JobHasActive
      <4>2. z # x /\ z # y
        BY <4>1, <3>2, <2>2, <2>1 DEF Active
      <4> QED
        BY <4>1, <4>2, <2>6
    <3> QED
      BY <3>1, <3>2
  <2>16. OneActiveJob'
    BY <2>8 DEF RowsAgree, OneActiveJob
  <2> QED
    BY <2>12, <2>13, <2>14, <2>15, <2>16 DEF RowsAgree
<1> QED
  BY <1>3, <1>4

\* A job that is added is the only one that is active.
LEMMA CommitAdds ==
  ASSUME PgInv, NEW t \in Adds, Commit(t, "checked", None)
  PROVE  RowsAgree'
<1> USE DEF PgInv
<1> t \in Txs /\ t \notin Cancels \cup Starts \cup Failures \cup Successes \cup Retries
  BY KindsAssumption DEF Txs
<1>1. WrittenBy(t) = {}
  BY DEF RowsInserted, AddsHoldLock
<1>2. CASE inserts[t] = None
  <2>1. \A x \in Executions : exec'[x] = exec[x] /\ jobOf'[x] = jobOf[x]
    BY <1>1, <1>2, CommitRows
  <2>2. job' = job
    BY <1>2 DEF Commit, PgTyped
  <2> QED
    BY <2>1, <2>2 DEF RowsAgree, RowHasJob, ActiveHasJob, OneExecution, JobHasActive, OneActiveJob
<1>3. CASE inserts[t] # None
  <2> PICK y \in Executions, j \in Jobs : inserts[t] = [x |-> y, job |-> j]
    BY <1>3 DEF PgTyped
  <2>1. exec[y] = "none" /\ job[j] = "none" /\ \A i \in Jobs : job[i] # "active"
    BY <1>3 DEF RowsInserted, InsertIsFresh
  <2>2. exec'[y] = "pending" /\ jobOf'[y] = j
    BY <1>3, CommitRows
  <2>3. \A z \in Executions \ {y} : exec'[z] = exec[z] /\ jobOf'[z] = jobOf[z]
    BY <1>1, <1>3, CommitRows
  <2>4. job'[j] = "active" /\ \A i \in Jobs \ {j} : job'[i] = job[i]
    BY <1>3 DEF Commit, PgTyped
  <2>5. j # None
    BY RowsAssumption
  <2>6. \A z \in Executions : exec[z] \notin Active
    BY <2>1, RowsAssumption DEF RowsAgree, RowHasJob, ActiveHasJob, PgTyped, Active
  <2>7. \A z \in Executions : exec'[z] \in Active <=> z = y
    BY <2>2, <2>3, <2>6 DEF Active
  <2>8. \A i \in Jobs : job'[i] = "active" <=> i = j
    BY <2>1, <2>4
  <2> QED
    BY <2>1, <2>2, <2>3, <2>4, <2>5, <2>7, <2>8
       DEF RowsAgree, RowHasJob, ActiveHasJob, OneExecution, JobHasActive, OneActiveJob
<1> QED
  BY <1>2, <1>3

-----------------------------------------------------------------------------
(* The invariant, for any transactions *)

LEMMA PgInvInductive == PgInv /\ [PgNext]_pgVars => PgInv'
<1> SUFFICES ASSUME PgInv, [PgNext]_pgVars PROVE PgInv'
  OBVIOUS
<1> USE Kinds DEF Txs
<1>sub. {x \in Executions : exec[x] \in Active} \subseteq Executions
        /\ \A t : {x \in Executions : Seen(t, x) \in Active} \subseteq Executions
  OBVIOUS
<1>saw. \A t \in Txs : [saw EXCEPT ![t] = {j \in Jobs : job[j] = "active"}] \in [Txs -> SUBSET Jobs]
  BY DEF PgInv, PgTyped
<1>same. saw' = saw => saw' \in [Txs -> SUBSET Jobs]
  BY DEF PgInv, PgTyped
<1>0. CASE UNCHANGED pgVars
  BY <1>0 DEF pgVars, PgInv, PgTyped, RowsAgree, RowHasJob, ActiveHasJob, OneExecution, JobHasActive,
     OneActiveJob, RowsHeld, WritesHold, OneWriter, OverIsReleased, JobsWritten, OneRow, WrittenBy,
     RowsInserted, InsertIsFresh, InsertsDiffer, AddsHoldLock
<1>1. ASSUME NEW t \in Cancels, CancelJobs(t) PROVE PgInv'
  <2> t \in Txs /\ t \notin Adds /\ Writes(t) = "cancelled"
    BY DEF Writes
  <2>1. CASE /\ Find(t, "begin", "first", {x \in Executions : exec[x] \in Active})
             /\ saw' = [saw EXCEPT ![t] = {j \in Jobs : job[j] = "active"}]
             /\ UNCHANGED <<committed, mine, jobs, inserts, advisory>>
    <3>1. saw' \in [Txs -> SUBSET Jobs]
      BY <2>1, <1>saw
    <3>2. {x \in Executions : exec[x] \in Active} \in SUBSET Executions
      OBVIOUS
    <3> QED
      BY <2>1, <3>1, <3>2, FindKeeps
  <2>2. CASE UpdateRow(t, "first", Active, "cancelled")
    BY <2>2, UpdateKeeps
  <2>3. CASE /\ Find(t, "first", "second", {x \in Executions : Seen(t, x) \in Active})
             /\ UNCHANGED <<committed, mine, jobs, inserts, saw, advisory>>
    BY <2>3, <1>sub, <1>same, FindKeeps
  <2>4. CASE UpdateRow(t, "second", Active, "cancelled")
    BY <2>4, UpdateKeeps
  <2>5. CASE Commit(t, "second", "cancelled")
    BY <2>5, CommitTyped, CommitReleases, CommitEnds DEF PgInv
  <2> QED
    BY <1>1, <2>1, <2>2, <2>3, <2>4, <2>5 DEF CancelJobs, Repeats
<1>find. ASSUME NEW t \in Txs \ (Cancels \cup Adds), FindRunning(t) PROVE PgInv'
  <2> PICK x \in Executions : Find(t, "begin", "update", {x})
    BY <1>find DEF FindRunning
  <2> QED
    BY <1>find, <1>same, FindKeeps DEF FindRunning
<1>2. ASSUME NEW t \in Retries, RetryExecution(t) PROVE PgInv'
  <2> t \in Txs /\ t \notin Cancels \cup Adds /\ Writes(t) = "failed"
    BY DEF Writes
  <2>1. CASE UpdateRow(t, "update", Active, "failed")
    BY <2>1, UpdateKeeps
  <2>2. ASSUME NEW j \in jobs[t], Insert(t, j), pc[t] = "update",
               UNCHANGED <<committed, pc, todo, mine, jobs, saw, advisory>>
        PROVE  PgInv'
    BY <2>2, RetryInsertKeeps
  <2>3. CASE (jobs[t] # {} => inserts[t] # None) /\ Commit(t, "update", None)
    BY <2>3, CommitTyped, CommitReleases, CommitRetries DEF PgInv
  <2> QED
    BY <1>2, <1>find, <2>1, <2>2, <2>3 DEF RetryExecution
<1>3. ASSUME NEW t \in Failures, FailExecution(t) PROVE PgInv'
  <2> t \in Txs /\ t \notin Cancels \cup Adds /\ Writes(t) = "failed"
    BY DEF Writes
  <2>1. CASE UpdateRow(t, "update", Active, "failed")
    BY <2>1, UpdateKeeps
  <2>2. CASE Commit(t, "update", "failed")
    BY <2>2, CommitTyped, CommitReleases, CommitEnds DEF PgInv
  <2> QED
    BY <1>3, <1>find, <2>1, <2>2 DEF FailExecution
<1>4. ASSUME NEW t \in Successes, SucceedExecution(t) PROVE PgInv'
  <2> t \in Txs /\ t \notin Cancels \cup Adds /\ Writes(t) = "succeeded"
    BY DEF Writes
  <2>1. CASE UpdateRow(t, "update", Active, "succeeded")
    BY <2>1, UpdateKeeps
  <2>2. CASE Commit(t, "update", "succeeded")
    BY <2>2, CommitTyped, CommitReleases, CommitEnds DEF PgInv
  <2> QED
    BY <1>4, <1>find, <2>1, <2>2 DEF SucceedExecution
<1>5. ASSUME NEW t \in Starts, StartExecution(t) PROVE PgInv'
  <2> t \in Txs /\ t \notin Cancels \cup Adds /\ Writes(t) = "running"
    BY DEF Writes
  <2>1. ASSUME NEW x \in Executions, Find(t, "begin", "update", {x}),
               UNCHANGED <<committed, mine, jobs, inserts, saw, advisory>>
        PROVE  PgInv'
    BY <2>1, <1>same, FindKeeps
  <2>2. CASE UpdateRow(t, "update", {"pending"}, "running")
    BY <2>2, UpdateKeeps DEF Active
  <2>3. CASE Commit(t, "update", None)
    BY <2>3, CommitTyped, CommitReleases, CommitStarts DEF PgInv
  <2> QED
    BY <1>5, <2>1, <2>2, <2>3 DEF StartExecution
<1>6. ASSUME NEW t \in Adds, AddJob(t) PROVE PgInv'
  <2>1. CASE /\ LockFree(t) /\ Find(t, "begin", "locked", {}) /\ advisory' = t
             /\ UNCHANGED <<committed, mine, jobs, inserts, saw>>
    BY <2>1, AddBeginKeeps
  <2>2. CASE /\ Find(t, "locked", "checked", {})
             /\ IF \E j \in Jobs : job[j] = "active"
                THEN UNCHANGED inserts
                ELSE \E j \in Jobs : job[j] = "none" /\ Insert(t, j)
             /\ UNCHANGED <<committed, mine, jobs, saw, advisory>>
    BY <2>2, AddCheckKeeps
  <2>3. CASE Commit(t, "checked", None)
    BY <2>3, CommitTyped, CommitReleases, CommitAdds DEF PgInv
  <2> QED
    BY <1>6, <2>1, <2>2, <2>3 DEF AddJob
<1>7. ASSUME NEW t \in Txs, Rollback(t) PROVE PgInv'
  BY <1>7, RollbackKeeps
<1> QED
  BY <1>0, <1>1, <1>2, <1>3, <1>4, <1>5, <1>6, <1>7 DEF PgNext

-----------------------------------------------------------------------------
(* Cancellations, when executions are retried once *)

\* A commit makes active what it inserts: a new job, or the next execution of one
\* whose execution the transaction had written.
LEMMA CommitActivates ==
  ASSUME PgInv, NEW t \in Txs, NEW at \in {"first", "second", "update", "checked"},
         NEW status \in {None, "failed", "succeeded", "cancelled"}, Commit(t, at, status)
  PROVE  /\ \A j \in Jobs : job'[j] = "active" =>
              \/ job[j] = "active"
              \/ t \in Adds /\ job[j] = "none"
         /\ \A j \in Jobs : job[j] # "none" => job'[j] # "none"
         /\ \A x \in Executions : exec'[x] \in Active =>
              \/ exec[x] \in Active /\ jobOf'[x] = jobOf[x]
              \/ t \in Adds /\ jobOf'[x] \in Jobs /\ job[jobOf'[x]] = "none"
              \/ /\ t \in Retries
                 /\ \E y \in WrittenBy(t) : exec[y] \in Active /\ jobOf'[x] = jobOf[y]
<1> USE DEF PgInv
<1>1. jobs[t] = {jobOf[x] : x \in WrittenBy(t)}
  BY DEF RowsHeld, JobsWritten, Commit
<1>2. \A j \in jobs[t] : job[j] = "active"
  BY <1>1, CommitRows DEF RowsAgree, ActiveHasJob, WrittenBy
<1>3. ASSUME inserts[t] # None
      PROVE  /\ t \in Retries \cup Adds /\ inserts[t].job \in Jobs /\ inserts[t].x \in Executions
             /\ t \in Adds => job[inserts[t].job] = "none"
             /\ t \in Retries => inserts[t].job \in jobs[t]
  BY <1>3 DEF RowsInserted, InsertIsFresh, PgTyped
<1>4. \A j \in Jobs : job'[j] = IF inserts[t] # None /\ inserts[t].job = j THEN "active"
                                ELSE IF status # None /\ j \in jobs[t] THEN status ELSE job[j]
  BY DEF Commit
<1>5. status # None => status # "none" /\ status # "active"
  OBVIOUS
<1>6. ASSUME NEW x \in Executions, exec'[x] \in Active
      PROVE  \/ exec[x] \in Active /\ jobOf'[x] = jobOf[x]
             \/ t \in Adds /\ jobOf'[x] \in Jobs /\ job[jobOf'[x]] = "none"
             \/ t \in Retries /\ \E y \in WrittenBy(t) : exec[y] \in Active /\ jobOf'[x] = jobOf[y]
  <2>1. CASE inserts[t] # None /\ inserts[t].x = x
    <3>1. jobOf'[x] = inserts[t].job
      BY <2>1, CommitRows
    <3> QED
      BY <3>1, <2>1, <1>1, <1>3, CommitRows
  <2>2. CASE ~(inserts[t] # None /\ inserts[t].x = x)
    BY <1>6, <2>2, CommitRows
  <2> QED
    BY <2>1, <2>2
<1> QED
  BY <1>2, <1>3, <1>4, <1>5, <1>6

\* A step of another transaction that commits nothing, or is a retry that is over.
LEMMA CancelKept ==
  ASSUME NEW c \in Cancels, CancelHolds(c), UNCHANGED <<exec, jobOf, job>>,
         pc'[c] = pc[c], saw'[c] = saw[c], todo'[c] = todo[c], WrittenBy(c)' = WrittenBy(c),
         RetryDone => RetryDone'
  PROVE  CancelHolds(c)'
BY DEF CancelHolds, SawKnown, FirstFinds, SecondFinds, TakesEffect

\* A commit of another transaction.
LEMMA CancelOtherCommits ==
  ASSUME PgInv, CancelInv, OneRetry, NEW t \in Txs, NEW at \in {"first", "second", "update", "checked"},
         NEW status \in {None, "failed", "succeeded", "cancelled"}, Commit(t, at, status),
         NEW c \in Cancels, c # t
  PROVE  CancelHolds(c)'
<1> c \in Txs /\ CancelHolds(c)
  BY DEF Txs, CancelInv
<1>1. /\ pc'[c] = pc[c] /\ saw'[c] = saw[c] /\ todo'[c] = todo[c] /\ WrittenBy(c)' = WrittenBy(c)
      /\ saw[c] \subseteq Jobs
  BY DEF Commit, PgInv, PgTyped, WrittenBy
<1>2. (t \in Retries => RetryDone' /\ ~RetryDone) /\ (RetryDone => RetryDone')
  <2>1. pc' = [pc EXCEPT ![t] = "done"] /\ pc[t] = at
    BY DEF Commit
  <2>2. \A r \in Retries : r \in Txs
    BY DEF Txs
  <2> QED
    BY <2>1, <2>2 DEF PgInv, PgTyped, RetryDone, OneRetry
<1>3. pc[c] \in {"first", "second", "done"} => \A j \in saw[c] : job[j] # "none"
  BY DEF CancelHolds, SawKnown
<1>4. /\ \A j \in Jobs : job'[j] = "active" => job[j] = "active" \/ (t \in Adds /\ job[j] = "none")
      /\ \A j \in Jobs : job[j] # "none" => job'[j] # "none"
      /\ \A x \in Executions : exec'[x] \in Active =>
           \/ exec[x] \in Active /\ jobOf'[x] = jobOf[x]
           \/ t \in Adds /\ jobOf'[x] \in Jobs /\ job[jobOf'[x]] = "none"
           \/ t \in Retries /\ \E y \in WrittenBy(t) : exec[y] \in Active /\ jobOf'[x] = jobOf[y]
  BY CommitActivates
<1>5. SawKnown(c)'
  BY <1>1, <1>3, <1>4 DEF SawKnown
<1>6. FirstFinds(c)'
  <2> SUFFICES ASSUME pc[c] = "first", NEW x \in Executions, exec'[x] \in Active, jobOf'[x] \in saw[c]
               PROVE  x \in todo[c] \cup WrittenBy(c) \/ RetryDone'
    BY <1>1 DEF FirstFinds
  <2>1. CASE exec[x] \in Active /\ jobOf'[x] = jobOf[x]
    BY <2>1, <1>2 DEF CancelHolds, FirstFinds
  <2>2. CASE t \in Adds /\ jobOf'[x] \in Jobs /\ job[jobOf'[x]] = "none"
    BY <2>2, <1>3
  <2>3. CASE t \in Retries
    BY <2>3, <1>2
  <2> QED
    BY <2>1, <2>2, <2>3, <1>4
<1>7. SecondFinds(c)'
  <2> SUFFICES ASSUME pc[c] = "second", NEW x \in Executions, exec'[x] \in Active, jobOf'[x] \in saw[c]
               PROVE  x \in WrittenBy(c) \/ (x \in todo[c] /\ RetryDone')
    BY <1>1 DEF SecondFinds
  <2>1. CASE exec[x] \in Active /\ jobOf'[x] = jobOf[x]
    BY <2>1, <1>2 DEF CancelHolds, SecondFinds
  <2>2. CASE t \in Adds /\ jobOf'[x] \in Jobs /\ job[jobOf'[x]] = "none"
    BY <2>2, <1>3
  \* What t retried would have been written by c.
  <2>3. ASSUME t \in Retries, NEW y \in WrittenBy(t), exec[y] \in Active, jobOf'[x] = jobOf[y]
        PROVE  FALSE
    <3>1. y \in WrittenBy(c)
      BY <2>3, <1>2 DEF CancelHolds, SecondFinds, WrittenBy
    <3> QED
      BY <2>3, <3>1 DEF PgInv, RowsHeld, OneWriter, WrittenBy
  <2> QED
    BY <2>1, <2>2, <2>3, <1>4
<1>8. TakesEffect(c)'
  BY <1>1, <1>3, <1>4 DEF CancelHolds, TakesEffect
<1> QED
  BY <1>5, <1>6, <1>7, <1>8 DEF CancelHolds

\* Its own commit: the jobs of all that it wrote are cancelled.
LEMMA CancelOwnCommit ==
  ASSUME PgInv, NEW t \in Cancels, CancelHolds(t), Commit(t, "second", "cancelled")
  PROVE  CancelHolds(t)'
<1> t \in Txs
  BY DEF Txs
<1>1. pc'[t] = "done" /\ pc[t] = "second" /\ todo[t] = {} /\ saw' = saw /\ saw[t] \subseteq Jobs
  BY DEF Commit, PgInv, PgTyped
<1>2. jobs[t] = {jobOf[x] : x \in WrittenBy(t)}
  BY <1>1 DEF PgInv, RowsHeld, JobsWritten
<1>3. inserts[t] = None
  BY Kinds DEF PgInv, RowsInserted, InsertIsFresh
<1>4. \A j \in Jobs : job'[j] = IF j \in jobs[t] THEN "cancelled" ELSE job[j]
  BY <1>3, RowsAssumption DEF Commit
<1>5. \A j \in saw[t] : job[j] # "none"
  BY <1>1 DEF CancelHolds, SawKnown
<1>6. ASSUME NEW j \in saw[t], job[j] = "active" PROVE j \in jobs[t]
  <2>1. PICK x \in Executions : exec[x] \in Active /\ jobOf[x] = j
    BY <1>1, <1>6 DEF PgInv, RowsAgree, JobHasActive
  <2>2. x \in WrittenBy(t)
    BY <1>1, <2>1 DEF CancelHolds, SecondFinds
  <2> QED
    BY <1>2, <2>1, <2>2
<1>7. \A j \in saw[t] : job'[j] # "none" /\ job'[j] # "active"
  BY <1>1, <1>4, <1>5, <1>6
<1> QED
  BY <1>1, <1>7 DEF CancelHolds, SawKnown, FirstFinds, SecondFinds, TakesEffect

LEMMA CancelCommits ==
  ASSUME PgInv, CancelInv, OneRetry, NEW t \in Txs, NEW at \in {"first", "second", "update", "checked"},
         NEW status \in {None, "failed", "succeeded", "cancelled"}, Commit(t, at, status),
         t \in Cancels => at = "second" /\ status = "cancelled"
  PROVE  CancelInv'
<1> SUFFICES ASSUME NEW c \in Cancels PROVE CancelHolds(c)'
  BY DEF CancelInv
<1>1. CASE c = t
  BY <1>1, CancelOwnCommit DEF CancelInv
<1>2. CASE c # t
  BY <1>2, CancelOtherCommits
<1> QED
  BY <1>1, <1>2

\* A row it updates is written, or is not active any more.
LEMMA CancelUpdates ==
  ASSUME PgInv, NEW t \in Cancels, CancelHolds(t), NEW at \in {"first", "second"},
         UpdateRow(t, at, Active, "cancelled")
  PROVE  CancelHolds(t)'
<1> t \in Txs
  BY DEF Txs
<1>1. PICK x \in todo[t] :
        /\ todo' = [todo EXCEPT ![t] = @ \ {x}]
        /\ IF StillMatches(t, x, Active)
           THEN mine' = [mine EXCEPT ![t][x] = "cancelled"]
           ELSE mine' = mine
  BY DEF UpdateRow
<1>2. pc' = pc /\ exec' = exec /\ jobOf' = jobOf /\ job' = job /\ saw' = saw
  BY DEF UpdateRow, committed
<1>3. todo'[t] = todo[t] \ {x} /\ x \in Executions
  BY <1>1 DEF PgInv, PgTyped
<1>4. WrittenBy(t) \subseteq WrittenBy(t)'
  BY <1>1, <1>3, RowsAssumption DEF PgInv, PgTyped, WrittenBy
<1>5. exec[x] \in Active => x \in WrittenBy(t)'
  BY <1>1, <1>3, RowsAssumption DEF PgInv, PgTyped, WrittenBy, StillMatches, Seen
<1>6. RetryDone' = RetryDone
  BY <1>2 DEF RetryDone
<1> QED
  BY <1>2, <1>3, <1>4, <1>5, <1>6 DEF CancelHolds, SawKnown, FirstFinds, SecondFinds, TakesEffect

\* The first statement finds everything that is active; the second one what a retry
\* has left since.
LEMMA CancelFinds ==
  ASSUME PgInv, NEW t \in Cancels, CancelHolds(t),
         \/ /\ Find(t, "begin", "first", {x \in Executions : exec[x] \in Active})
            /\ saw' = [saw EXCEPT ![t] = {j \in Jobs : job[j] = "active"}]
            /\ UNCHANGED <<committed, mine, jobs, inserts, advisory>>
         \/ /\ todo[t] = {}
            /\ Find(t, "first", "second", {x \in Executions : Seen(t, x) \in Active})
            /\ UNCHANGED <<committed, mine, jobs, inserts, saw, advisory>>
  PROVE  CancelHolds(t)'
<1> t \in Txs
  BY DEF Txs
<1>1. exec' = exec /\ jobOf' = jobOf /\ job' = job /\ WrittenBy(t)' = WrittenBy(t)
  BY DEF committed, WrittenBy
<1>2. CASE /\ Find(t, "begin", "first", {x \in Executions : exec[x] \in Active})
           /\ saw' = [saw EXCEPT ![t] = {j \in Jobs : job[j] = "active"}]
  <2>1. pc'[t] = "first" /\ todo'[t] = {x \in Executions : exec[x] \in Active}
        /\ saw'[t] = {j \in Jobs : job[j] = "active"}
    BY <1>2 DEF Find, PgInv, PgTyped
  <2> QED
    BY <2>1, <1>1 DEF CancelHolds, SawKnown, FirstFinds, SecondFinds, TakesEffect
<1>3. CASE /\ todo[t] = {} /\ saw' = saw
           /\ Find(t, "first", "second", {x \in Executions : Seen(t, x) \in Active})
  <2>1. pc'[t] = "second" /\ pc[t] = "first" /\ todo'[t] = {x \in Executions : Seen(t, x) \in Active}
    BY <1>3 DEF Find, PgInv, PgTyped
  <2>2. \A x \in Executions : exec[x] \in Active => x \in WrittenBy(t) \/ x \in todo'[t]
    BY <2>1 DEF Seen, WrittenBy
  <2>3. RetryDone => RetryDone'
    BY <1>3, KindsAssumption DEF RetryDone, Find, PgInv, PgTyped, Txs
  <2> QED
    BY <2>1, <2>2, <2>3, <1>1, <1>3 DEF CancelHolds, SawKnown, FirstFinds, SecondFinds, TakesEffect
<1> QED
  BY <1>2, <1>3

LEMMA CancelInductive == OneRetry /\ PgInv /\ CancelInv /\ [PgNext]_pgVars => CancelInv'
<1> SUFFICES ASSUME OneRetry, PgInv, CancelInv, [PgNext]_pgVars PROVE CancelInv'
  OBVIOUS
<1> USE Kinds DEF Txs
\* A step of one transaction that commits nothing.
<1>a. ASSUME NEW t \in Txs, UNCHANGED <<exec, jobOf, job>>,
             \A u \in Txs \ {t} : pc'[u] = pc[u] /\ saw'[u] = saw[u] /\ todo'[u] = todo[u] /\ mine'[u] = mine[u],
             pc[t] # "done" \/ pc'[t] = "done",
             t \in Cancels => CancelHolds(t)'
      PROVE  CancelInv'
  <2> SUFFICES ASSUME NEW c \in Cancels, c # t PROVE CancelHolds(c)'
    BY <1>a DEF CancelInv
  <2>1. pc'[c] = pc[c] /\ saw'[c] = saw[c] /\ todo'[c] = todo[c] /\ WrittenBy(c)' = WrittenBy(c)
    BY <1>a DEF WrittenBy
  <2>2. RetryDone => RetryDone'
    BY <1>a DEF RetryDone
  <2> QED
    BY <2>1, <2>2, <1>a, CancelKept DEF CancelInv
<1>find. ASSUME NEW t \in Txs \ Cancels, NEW from, NEW to, NEW xs, Find(t, from, to, xs), from # "done",
                UNCHANGED <<committed, mine, saw>>
         PROVE  CancelInv'
  BY <1>a, <1>find DEF Find, committed, PgInv, PgTyped
<1>upd. ASSUME NEW t \in Txs, NEW at, NEW statuses, NEW status, UpdateRow(t, at, statuses, status),
               t \in Cancels => CancelHolds(t)'
        PROVE  CancelInv'
  BY <1>a, <1>upd DEF UpdateRow, committed, PgInv, PgTyped
<1>0. CASE UNCHANGED pgVars
  BY <1>0 DEF pgVars, CancelInv, CancelHolds, SawKnown, FirstFinds, SecondFinds, TakesEffect, RetryDone, WrittenBy
<1>1. ASSUME NEW t \in Cancels, CancelJobs(t) PROVE CancelInv'
  <2> CancelHolds(t)
    BY DEF CancelInv
  <2>1. CASE \/ /\ Find(t, "begin", "first", {x \in Executions : exec[x] \in Active})
                /\ saw' = [saw EXCEPT ![t] = {j \in Jobs : job[j] = "active"}]
                /\ UNCHANGED <<committed, mine, jobs, inserts, advisory>>
             \/ /\ todo[t] = {}
                /\ Find(t, "first", "second", {x \in Executions : Seen(t, x) \in Active})
                /\ UNCHANGED <<committed, mine, jobs, inserts, saw, advisory>>
    <3>1. CancelHolds(t)'
      BY <2>1, CancelFinds
    <3>2. /\ UNCHANGED <<exec, jobOf, job>> /\ pc[t] # "done"
          /\ \A u \in Txs \ {t} : pc'[u] = pc[u] /\ saw'[u] = saw[u] /\ todo'[u] = todo[u] /\ mine'[u] = mine[u]
      BY <2>1 DEF Find, committed, PgInv, PgTyped
    <3> QED
      BY <3>1, <3>2, <1>a
  <2>2. CASE UpdateRow(t, "first", Active, "cancelled") \/ UpdateRow(t, "second", Active, "cancelled")
    BY <2>2, <1>upd, CancelUpdates
  <2>3. CASE Commit(t, "second", "cancelled")
    BY <2>3, CancelCommits
  <2> QED
    BY <1>1, <2>1, <2>2, <2>3 DEF CancelJobs, Repeats
<1>run. ASSUME NEW t \in Txs \ Cancels, FindRunning(t) PROVE CancelInv'
  BY <1>run, <1>find DEF FindRunning
<1>2. ASSUME NEW t \in Retries, RetryExecution(t) PROVE CancelInv'
  <2>1. CASE UpdateRow(t, "update", Active, "failed")
    BY <2>1, <1>upd
  <2>2. CASE UNCHANGED <<committed, pc, todo, mine, jobs, saw, advisory>>
    BY <2>2, <1>a DEF committed
  <2>3. CASE Commit(t, "update", None)
    BY <2>3, CancelCommits
  <2> QED
    BY <1>2, <1>run, <2>1, <2>2, <2>3 DEF RetryExecution
<1>3. ASSUME NEW t \in Failures, FailExecution(t) PROVE CancelInv'
  BY <1>3, <1>run, <1>upd, CancelCommits DEF FailExecution
<1>4. ASSUME NEW t \in Successes, SucceedExecution(t) PROVE CancelInv'
  BY <1>4, <1>run, <1>upd, CancelCommits DEF SucceedExecution
<1>5. ASSUME NEW t \in Starts, StartExecution(t) PROVE CancelInv'
  BY <1>5, <1>find, <1>upd, CancelCommits DEF StartExecution
<1>6. ASSUME NEW t \in Adds, AddJob(t) PROVE CancelInv'
  BY <1>6, <1>find, CancelCommits DEF AddJob
<1>7. ASSUME NEW t \in Txs, Rollback(t) PROVE CancelInv'
  <2>1. pc[t] # "done" /\ pc'[t] = "failed" /\ UNCHANGED <<exec, jobOf, job>>
        /\ \A u \in Txs \ {t} : pc'[u] = pc[u] /\ saw'[u] = saw[u] /\ todo'[u] = todo[u] /\ mine'[u] = mine[u]
    BY <1>7 DEF Rollback, committed, PgInv, PgTyped
  <2>2. CancelHolds(t)'
    BY <2>1 DEF CancelHolds, SawKnown, FirstFinds, SecondFinds, TakesEffect
  <2> QED
    BY <2>1, <2>2, <1>a
<1> QED
  BY <1>0, <1>1, <1>2, <1>3, <1>4, <1>5, <1>6, <1>7 DEF PgNext

-----------------------------------------------------------------------------
(* The properties *)

\* A set of things that are equal has at most one.
LEMMA AtMostOne ==
  ASSUME NEW S, \A a, b \in S : a = b
  PROVE  Cardinality(S) <= 1 /\ Cardinality(S) \in Nat /\ (S # {} => Cardinality(S) = 1)
<1>1. CASE S = {}
  BY <1>1, FS_EmptySet
<1>2. CASE S # {}
  <2> PICK a \in S : TRUE
    BY <1>2
  <2>1. S = {a}
    OBVIOUS
  <2>2. Cardinality({a}) = 1
    BY FS_Singleton
  <2> QED
    BY <2>1, <2>2
<1> QED
  BY <1>1, <1>2

LEMMA PgInvAgrees == PgInv => PgTypeOK /\ JobsMatchExecutions /\ NoDuplicateJobs
<1> SUFFICES ASSUME PgInv PROVE PgTypeOK /\ JobsMatchExecutions /\ NoDuplicateJobs
  OBVIOUS
<1>1. PgTypeOK
  <2>1. ASSUME NEW x \in Executions PROVE Cardinality({t \in Txs : mine[t][x] # None}) <= 1
    <3> DEFINE S == {t \in Txs : mine[t][x] # None}
    <3>1. \A a, b \in S : a = b
      BY DEF PgInv, RowsHeld, OneWriter
    <3> HIDE DEF S
    <3>2. Cardinality(S) <= 1
      BY <3>1, AtMostOne
    <3> QED
      BY <3>2 DEF S
  <2> QED
    BY <2>1 DEF PgInv, PgTyped, PgTypeOK, RowsHeld, OverIsReleased
<1>2. JobsMatchExecutions
  <2> SUFFICES ASSUME NEW j \in Jobs
               PROVE  Cardinality({x \in Executions : jobOf[x] = j /\ exec[x] \in Active})
                        = IF job[j] = "active" THEN 1 ELSE 0
    BY DEF JobsMatchExecutions
  <2> DEFINE S == {x \in Executions : jobOf[x] = j /\ exec[x] \in Active}
  <2>1. \A a, b \in S : a = b
    BY DEF PgInv, RowsAgree, OneExecution
  <2>2. S # {} <=> job[j] = "active"
    BY DEF PgInv, RowsAgree, ActiveHasJob, JobHasActive
  <2> HIDE DEF S
  <2>3. Cardinality(S) = IF job[j] = "active" THEN 1 ELSE 0
    BY <2>1, <2>2, AtMostOne, FS_EmptySet
  <2> QED
    BY <2>3 DEF S
<1>3. NoDuplicateJobs
  <2> DEFINE S == {j \in Jobs : job[j] = "active"}
  <2>1. \A a, b \in S : a = b
    BY DEF PgInv, RowsAgree, OneActiveJob
  <2> HIDE DEF S
  <2>2. Cardinality(S) <= 1
    BY <2>1, AtMostOne
  <2> QED
    BY <2>2 DEF S, NoDuplicateJobs
<1> QED
  BY <1>1, <1>2, <1>3

\* Whatever transactions interleave, and however many: a job that is active has one
\* execution that is active, no other job has one, and calls with if_not_exists add no
\* two jobs that match each other's filters (PgTransactions).
THEOREM RowsMatch == PgSpec => [](PgTypeOK /\ JobsMatchExecutions /\ NoDuplicateJobs)
<1>1. PgSpec => []PgInv
  BY PgInitHolds, PgInvInductive, PTL DEF PgSpec
<1> QED
  BY <1>1, PgInvAgrees, PTL

\* If executions are retried once, as the comment on the repeated update of cancel_jobs
\* supposes, a cancellation that is committed leaves none of the jobs active that
\* were when it began.
THEOREM TransactionsCorrect ==
  ASSUME OneRetry
  PROVE  PgSpec => []TransactionsAgree
<1>1. PgInit => CancelInv
  BY DEF PgInit, CancelInv, CancelHolds, SawKnown, FirstFinds, SecondFinds, TakesEffect, Txs
<1>2. PgInv /\ CancelInv /\ [PgNext]_pgVars => (PgInv /\ CancelInv)'
  BY PgInvInductive, CancelInductive
<1>3. PgInv /\ CancelInv => TransactionsAgree
  BY PgInvAgrees DEF TransactionsAgree, CancelInv, CancelHolds, TakesEffect, CancelTakesEffect
<1> QED
  BY <1>1, <1>2, <1>3, PgInitHolds, PTL DEF PgSpec

-----------------------------------------------------------------------------
(* WireFormat: labels *)

\* The labels AddAll builds up are a function, so that it has the values it is defined by.
LEMMA AddedIs ==
  ASSUME NEW labels \in Labels, NEW more \in Labels
  PROVE  \E added : /\ added = [i \in 0..Len(more) |->
                                  IF i = 0 THEN labels ELSE AddNew(added[i - 1], more[i])]
                    /\ AddAll(labels, more) = added[Len(more)]
<1> DEFINE To(k, g) == g = [i \in 0..k |-> IF i = 0 THEN labels ELSE AddNew(g[i - 1], more[i])]
<1>1. ASSUME NEW k \in Nat PROVE \E g : To(k, g)
  <2> DEFINE bad == {n \in Nat : ~\E g : To(n, g)}
  <2> SUFFICES ASSUME bad # {} PROVE FALSE
    OBVIOUS
  <2>1. PICK n \in bad : \A v \in bad : n <= v
    <3> HIDE DEF bad
    <3>1. bad \in SUBSET Nat
      BY DEF bad
    <3> QED BY <3>1, LeastNatural
  <2>2. n \in Nat /\ ~\E g : To(n, g)
    BY <2>1
  <2>3. n # 0
    <3>1. To(0, [i \in 0..0 |-> labels])
      OBVIOUS
    <3> QED BY <2>2, <3>1
  <2>4. n - 1 \in Nat /\ n - 1 \notin bad
    <3>1. n - 1 \in Nat /\ n - 1 < n
      BY <2>2, <2>3
    <3> HIDE DEF bad
    <3> QED BY <2>1, <2>2, <3>1
  <2>5. PICK g : To(n - 1, g)
    BY <2>4
  <2> DEFINE h == [i \in 0..n |-> IF i = n THEN AddNew(g[n - 1], more[n]) ELSE g[i]]
  <2>6. ASSUME NEW i \in 0..n
        PROVE  h[i] = IF i = 0 THEN labels ELSE AddNew(h[i - 1], more[i])
    <3>1. CASE i = n
      <4>1. n - 1 \in 0..n /\ n - 1 # n
        BY <2>2, <2>4
      <4> QED BY <2>3, <3>1, <4>1
    <3>2. CASE i # n
      <4>1. i \in 0..(n - 1) /\ (i # 0 => i - 1 \in 0..n /\ i - 1 # n)
        BY <2>2, <3>2
      <4>2. g[i] = IF i = 0 THEN labels ELSE AddNew(g[i - 1], more[i])
        <5> HIDE DEF h
        <5> QED BY <2>5, <4>1
      <4> QED BY <3>2, <4>1, <4>2
    <3> QED BY <3>1, <3>2
  <2>7. To(n, h)
    <3> DEFINE H == [i \in 0..n |-> IF i = 0 THEN labels ELSE AddNew(h[i - 1], more[i])]
    <3>1. h = [i \in 0..n |-> h[i]]
      OBVIOUS
    <3> HIDE DEF h
    <3>2. h = H
      BY <2>6, <3>1
    <3> QED BY <3>2
  <2> QED BY <2>2, <2>7
<1>2. Len(more) \in Nat
  BY DEF Labels
<1>3. \E g : To(Len(more), g)
  BY <1>1, <1>2
<1> DEFINE added == CHOOSE g : To(Len(more), g)
<1>4. To(Len(more), added)
  <2> HIDE DEF To
  <2> QED BY <1>3
<1>5. AddAll(labels, more) = added[Len(more)]
  BY DEF AddAll
<1> HIDE DEF added
<1> QED BY <1>4, <1>5

\* The value of a key is that of its first label.
LEMMA ValueIsFirst ==
  ASSUME NEW labels \in Labels, NEW i \in DOMAIN labels,
         \A k \in DOMAIN labels : k < i => labels[k].key # labels[i].key
  PROVE  Value(labels, labels[i].key) = labels[i].value
<1> DEFINE found == {k \in DOMAIN labels : labels[k].key = labels[i].key}
           c == CHOOSE k \in found : \A l \in found : k <= l
<1>1. DOMAIN labels \subseteq Nat
  BY LenProperties DEF Labels
<1>2. i \in found /\ \A l \in found : i <= l
  BY <1>1
<1>3. c \in found /\ \A l \in found : c <= l
  BY <1>2
<1>4. c = i
  <2> HIDE DEF c
  <2>1. c <= i /\ i <= c /\ c \in Nat /\ i \in Nat
    BY <1>1, <1>2, <1>3
  <2> QED BY <2>1
<1> QED BY <1>2, <1>4 DEF Value

\* A key without a label has no value.
LEMMA ValueIsAbsent ==
  ASSUME NEW labels, NEW key, key \notin KeysOf(labels)
  PROVE  Value(labels, key) = Absent
<1>1. {k \in DOMAIN labels : labels[k].key = key} = {}
  BY DEF KeysOf
<1> QED BY <1>1 DEF Value

\* If no key is repeated, the value of a key is that of its label.
LEMMA ValueIsUnique ==
  ASSUME NEW labels \in Labels, UniqueKeys(labels), NEW i \in DOMAIN labels
  PROVE  Value(labels, labels[i].key) = labels[i].value
<1>1. DOMAIN labels \subseteq Nat
  BY LenProperties DEF Labels
<1>2. \A k \in DOMAIN labels : k < i => labels[k].key # labels[i].key
  BY <1>1 DEF UniqueKeys
<1> QED BY <1>2, ValueIsFirst

\* A new label goes to the end, unless its key is there.
LEMMA AddNewIs ==
  ASSUME NEW labels \in Labels, NEW label \in [key : STRING, value : STRING], UniqueKeys(labels)
  PROVE  LET all == AddNew(labels, label)
         IN  /\ all \in Labels /\ UniqueKeys(all)
             /\ KeysOf(all) = KeysOf(labels) \cup {label.key}
             /\ \A i \in DOMAIN all :
                  \/ \E k \in DOMAIN labels : all[i] = labels[k]
                  \/ all[i] = label /\ label.key \notin KeysOf(labels)
<1>1. CASE \E i \in DOMAIN labels : labels[i].key = label.key
  BY <1>1 DEF AddNew, KeysOf
<1>2. CASE ~\E i \in DOMAIN labels : labels[i].key = label.key
  <2> DEFINE all == Append(labels, label)
             n == Len(labels)
  <2>1. AddNew(labels, label) = all
    BY <1>2 DEF AddNew
  <2>2. n \in Nat /\ DOMAIN labels = 1..n
    BY LenProperties DEF Labels
  <2>3. /\ all \in Labels /\ DOMAIN all = 1..(n + 1)
        /\ all[n + 1] = label /\ \A i \in 1..n : all[i] = labels[i]
    BY <2>2 DEF Labels
  <2> HIDE DEF all, n
  <2>4. 1..(n + 1) = (1..n) \cup {n + 1} /\ n + 1 \notin 1..n
    BY <2>2
  <2>5. KeysOf(all) = KeysOf(labels) \cup {label.key}
    BY <2>2, <2>3, <2>4 DEF KeysOf
  <2>6. label.key \notin KeysOf(labels)
    BY <1>2 DEF KeysOf
  <2>7. UniqueKeys(all)
    BY <1>2, <2>2, <2>3, <2>4 DEF UniqueKeys
  <2> QED BY <2>1, <2>2, <2>3, <2>4, <2>5, <2>6, <2>7
<1> QED BY <1>1, <1>2

\* AddAll keeps the labels, and adds the first of each other key.
LEMMA AddAllIs ==
  ASSUME NEW labels \in Labels, NEW more \in Labels, UniqueKeys(labels)
  PROVE  LET all == AddAll(labels, more)
         IN  /\ all \in Labels /\ UniqueKeys(all) /\ KeysOf(all) = KeysOf(labels) \cup KeysOf(more)
             /\ \A key : Value(all, key) = IF key \in KeysOf(labels) THEN Value(labels, key)
                                           ELSE Value(more, key)
             /\ \A i \in DOMAIN all : \/ \E k \in DOMAIN labels : all[i] = labels[k]
                                      \/ \E k \in DOMAIN more : all[i] = more[k]
<1> DEFINE n == Len(more)
           First(i, k) == /\ more[k].key \notin KeysOf(labels)
                          /\ \A m \in 1..n : m < k => more[m].key # more[k].key
           Source(i, l) == \/ \E k \in DOMAIN labels : l = labels[k]
                         \/ \E k \in 1..i : l = more[k] /\ First(i, k)
           Good(i, all) == /\ all \in Labels /\ UniqueKeys(all)
                           /\ KeysOf(all) = KeysOf(labels) \cup {more[k].key : k \in 1..i}
                           /\ \A p \in DOMAIN all : Source(i, all[p])
<1>1. PICK added : /\ added = [i \in 0..n |-> IF i = 0 THEN labels ELSE AddNew(added[i - 1], more[i])]
                   /\ AddAll(labels, more) = added[n]
  BY AddedIs
<1>2. n \in Nat /\ DOMAIN more = 1..n /\ \A i \in 1..n : more[i] \in [key : STRING, value : STRING]
  BY LenProperties, ElementOfSeq DEF Labels
<1>3. Good(0, added[0])
  <2>1. added[0] = labels
    BY <1>1, <1>2
  <2> QED BY <2>1
<1>4. ASSUME NEW i \in 1..n, Good(i - 1, added[i - 1]) PROVE Good(i, added[i])
  <2> DEFINE old == added[i - 1]
             all == added[i]
  <2>1. all = AddNew(old, more[i])
    BY <1>1, <1>2
  <2>2. /\ all \in Labels /\ UniqueKeys(all)
        /\ KeysOf(all) = KeysOf(old) \cup {more[i].key}
        /\ \A p \in DOMAIN all : \/ \E q \in DOMAIN old : all[p] = old[q]
                                 \/ all[p] = more[i] /\ more[i].key \notin KeysOf(old)
    BY <1>2, <1>4, <2>1, AddNewIs
  <2> HIDE DEF old, all
  <2>3. i \in Nat /\ i - 1 \in Nat /\ 1..i = (1..(i - 1)) \cup {i}
    BY <1>2
  <2>4. KeysOf(all) = KeysOf(labels) \cup {more[k].key : k \in 1..i}
    BY <1>4, <2>2, <2>3 DEF old
  <2>5. ASSUME NEW p \in DOMAIN all PROVE Source(i, all[p])
    <3>1. CASE \E q \in DOMAIN old : all[p] = old[q]
      BY <1>4, <2>3, <3>1 DEF old
    <3>2. CASE all[p] = more[i] /\ more[i].key \notin KeysOf(old)
      <4>1. First(i, i)
        <5>1. more[i].key \notin KeysOf(labels)
          BY <1>4, <3>2 DEF old
        <5>2. ASSUME NEW m \in 1..n, m < i PROVE more[m].key # more[i].key
          <6>1. m \in 1..(i - 1)
            BY <1>2, <2>3, <5>2
          <6> QED BY <1>4, <3>2, <6>1 DEF old
        <5> QED BY <5>1, <5>2
      <4> QED BY <2>3, <3>2, <4>1
    <3> QED BY <2>2, <3>1, <3>2
  <2> HIDE DEF Source
  <2> QED BY <2>2, <2>4, <2>5 DEF all
<1>5. Good(n, added[n])
  <2> DEFINE bad == {i \in 0..n : ~Good(i, added[i])}
  <2> HIDE DEF Good
  <2> SUFFICES ASSUME bad # {} PROVE FALSE
    BY <1>2
  <2>1. PICK i \in bad : \A v \in bad : i <= v
    <3> HIDE DEF bad
    <3>1. bad \in SUBSET Nat
      BY DEF bad
    <3> QED BY <3>1, LeastNatural
  <2>2. i # 0
    BY <1>3, <2>1
  <2>3. i \in 1..n /\ i - 1 \in 0..n
    BY <1>2, <2>1, <2>2
  <2>4. Good(i - 1, added[i - 1])
    BY <2>1, <2>3
  <2> QED BY <1>4, <2>1, <2>3, <2>4
<1> DEFINE all == AddAll(labels, more)
<1>6. Good(n, all)
  <2> HIDE DEF Good
  <2> QED BY <1>1, <1>5
<1> HIDE DEF all
<1>7. ASSUME NEW key
      PROVE  Value(all, key) = IF key \in KeysOf(labels) THEN Value(labels, key) ELSE Value(more, key)
  <2>1. CASE key \in KeysOf(all)
    <3>1. PICK p \in DOMAIN all : key = all[p].key
      BY <2>1 DEF KeysOf
    <3>2. Value(all, key) = all[p].value
      BY <1>6, <3>1, ValueIsUnique
    <3>3. CASE \E k \in DOMAIN labels : all[p] = labels[k]
      <4>1. PICK k \in DOMAIN labels : all[p] = labels[k]
        BY <3>3
      <4>2. key \in KeysOf(labels) /\ Value(labels, key) = labels[k].value
        BY <3>1, <4>1, ValueIsUnique DEF KeysOf
      <4> QED BY <3>2, <4>1, <4>2
    <3>4. CASE \E k \in 1..n : all[p] = more[k] /\ First(n, k)
      <4>1. PICK k \in 1..n : all[p] = more[k] /\ First(n, k)
        BY <3>4
      <4>2. key \notin KeysOf(labels) /\ Value(more, key) = more[k].value
        BY <1>2, <3>1, <4>1, ValueIsFirst
      <4> QED BY <3>2, <4>1, <4>2
    <3> QED BY <1>6, <3>3, <3>4
  <2>2. CASE key \notin KeysOf(all)
    <3>1. key \notin KeysOf(labels) /\ key \notin KeysOf(more)
      BY <1>2, <1>6, <2>2 DEF KeysOf
    <3> QED BY <2>2, <3>1, ValueIsAbsent
  <2> QED BY <2>1, <2>2
<1>8. KeysOf(all) = KeysOf(labels) \cup KeysOf(more)
  BY <1>2, <1>6 DEF KeysOf
<1> QED BY <1>2, <1>6, <1>7, <1>8 DEF all

\* Deduplicate keeps the value of each key.
LEMMA DeduplicateIs ==
  ASSUME NEW labels \in Labels
  PROVE  LET all == Deduplicate(labels)
         IN  /\ all \in Labels /\ UniqueKeys(all) /\ KeysOf(all) = KeysOf(labels)
             /\ \A key : Value(all, key) = Value(labels, key)
             /\ \A i \in DOMAIN all : \E k \in DOMAIN labels : all[i] = labels[k]
<1>1. <<>> \in Labels /\ UniqueKeys(<<>>) /\ KeysOf(<<>>) = {}
  BY EmptySeq DEF Labels, UniqueKeys, KeysOf
<1> DEFINE all == AddAll(<<>>, labels)
<1>2. /\ all \in Labels /\ UniqueKeys(all) /\ KeysOf(all) = KeysOf(<<>>) \cup KeysOf(labels)
      /\ \A key : Value(all, key) = IF key \in KeysOf(<<>>) THEN Value(<<>>, key) ELSE Value(labels, key)
      /\ \A i \in DOMAIN all : \/ \E k \in DOMAIN <<>> : all[i] = <<>>[k]
                               \/ \E k \in DOMAIN labels : all[i] = labels[k]
  BY <1>1, AddAllIs
<1> HIDE DEF all
<1>3. Deduplicate(labels) = all
  BY DEF Deduplicate, all
<1>4. \A i \in DOMAIN all : \E k \in DOMAIN labels : all[i] = labels[k]
  BY <1>2
<1> QED BY <1>1, <1>2, <1>3, <1>4

\* Inherit keeps the values of the child, and adds those of the parent for other keys.
LEMMA InheritIs ==
  ASSUME NEW parent \in Labels, NEW child \in Labels, UniqueKeys(child)
  PROVE  LET all == Inherit(parent, child)
         IN  /\ all \in Labels /\ UniqueKeys(all)
             /\ \A key : Value(all, key) = IF key \in KeysOf(child) THEN Value(child, key)
                                           ELSE Value(parent, key)
             /\ \A i \in DOMAIN all : \/ \E k \in DOMAIN child : all[i] = child[k]
                                      \/ \E k \in DOMAIN parent : all[i] = parent[k]
BY AddAllIs DEF Inherit

\* Labels that are accepted are sound once they are stored.
LEMMA ValidAreSound ==
  ASSUME NEW labels \in Labels, ValidLabels(labels)
  PROVE  SoundLabels(Deduplicate(labels))
BY DeduplicateIs DEF ValidLabels, SoundLabels

\* Sound labels inherit sound labels.
LEMMA InheritIsSound ==
  ASSUME NEW parent \in Labels, NEW child \in Labels, SoundLabels(parent), SoundLabels(child)
  PROVE  SoundLabels(Inherit(parent, child))
BY InheritIs DEF SoundLabels

-----------------------------------------------------------------------------
(* WireFormat: conversions *)

\* What is stored: no more than the wire can carry.
StoredJobs ==
  [target : STRING, labels : Labels, timeout : 0..LongestWire, base : {"start", "target"},
   backoff : 0..LongestWire, max : Optional(0..LongestWire), strategy : {"fixed", "exponential"}]
StoredSchedules ==
  [policy : Policies(1..LongestInterval, {"skip", "create"}), template : StoredJobs,
   labels : Labels, start : Optional(STRING), end : Optional(STRING)]

StoredItems(kind) == IF kind = "job" THEN StoredJobs ELSE StoredSchedules

\* Durations that were sent or left out are read as natural numbers.
LEMMA DurationIs ==
  ASSUME NEW d \in WireDurations
  PROVE  /\ FromWire(d) \in 0..LongestWire
         /\ FromWire(d) = 0 \/ FromWire(d) = d
BY LongestAssumption DEF WireDurations, Optional, FromWire

\* The fields of a duration of the library that were sent.
LEMMA ToWireIs ==
  ASSUME NEW d \in Optional(Nat)
  PROVE  /\ ToWire(d) \in WireDurations
         /\ ToWire(d) = Absent \/ ToWire(d) \in Nat
         /\ FromWire(ToWire(d)) = Or(Limit(d), 0)
         /\ ToWire(d) = Limit(d)
         /\ d # Absent /\ d <= LongestWire => FromWire(ToWire(d)) = d
<1>1. CASE d = Absent
  BY <1>1 DEF ToWire, WireDurations, Optional, FromWire, Or, Limit
<1>2. CASE d \in Nat /\ d > LongestWire
  BY <1>2, AbsentAssumption DEF ToWire, WireDurations, Optional, FromWire, Or, Limit
<1>3. CASE d \in Nat /\ ~(d > LongestWire)
  <2>1. d # Absent /\ d <= LongestWire /\ d >= 0 /\ d \in Int
    BY <1>3, AbsentAssumption, LongestAssumption
  <2> QED BY <1>3, <2>1 DEF ToWire, WireDurations, Optional, FromWire, Or, Limit
<1> QED BY <1>1, <1>2, <1>3 DEF Optional

\* What the server reads of a job, which is what it stores.
LEMMA ReadJobIs ==
  ASSUME NEW w \in WireJobs, w.target \in STRING
  PROVE  ReadJob(w) \in StoredJobs
<1> DEFINE timeout == Or(w.timeout, NoTimeout)
           retry == Or(w.retry, NoRetry)
<1>1. /\ w.labels \in Labels
      /\ w.timeout \in Optional(WireTimeouts) /\ w.retry \in Optional(WireRetries)
  BY DEF WireJobs
<1>2. timeout.duration \in WireDurations
  BY <1>1 DEF Or, NoTimeout, Optional, WireTimeouts, WireDurations
<1>3. retry.backoff \in WireDurations /\ retry.max \in WireDurations
  BY <1>1 DEF Or, NoRetry, Optional, WireRetries, WireDurations
<1> HIDE DEF timeout, retry
<1>4. Deduplicate(w.labels) \in Labels
  BY <1>1, DeduplicateIs
<1>5. /\ FromWire(timeout.duration) \in 0..LongestWire
      /\ FromWire(retry.backoff) \in 0..LongestWire
      /\ FromWire(retry.max) \in 0..LongestWire
  BY <1>2, <1>3, DurationIs
<1>6. ServerBase(timeout.base) \in {"start", "target"} /\ Strategy(retry.strategy) \in {"fixed", "exponential"}
  BY DEF ServerBase, Strategy
<1>7. ReadJob(w) =
        [target |-> w.target, labels |-> Deduplicate(w.labels),
         timeout |-> FromWire(timeout.duration), base |-> ServerBase(timeout.base),
         backoff |-> FromWire(retry.backoff),
         max |-> IF retry.max = Absent THEN Absent ELSE FromWire(retry.max),
         strategy |-> Strategy(retry.strategy)]
  BY DEF ReadJob, timeout, retry
<1> QED BY <1>4, <1>5, <1>6, <1>7 DEF StoredJobs, Optional

\* What a job written with the library means to the server.
LEMMA WrittenJobIs ==
  ASSUME NEW j \in JobDefinitions
  PROVE  /\ WriteJob(j) \in WireJobs /\ WriteJob(j).labels = j.labels
         /\ SameJob(j, ReadJob(WriteJob(j)))
<1> DEFINE w == WriteJob(j)
           timeout == [duration |-> ToWire(j.timeout), base |-> j.base]
           retry == [backoff |-> ToWire(j.backoff), max |-> ToWire(j.max), strategy |-> j.strategy]
<1>1. /\ j.target \in STRING /\ j.labels \in Labels /\ j.timeout \in Nat
      /\ j.base \in {"start", "target"} /\ j.backoff \in Nat /\ j.max \in Optional(Nat)
      /\ j.strategy \in {"fixed", "exponential"}
  BY DEF JobDefinitions
<1>2. j.timeout \in Optional(Nat) /\ j.backoff \in Optional(Nat) /\ Absent \notin Nat
  BY <1>1, AbsentAssumption DEF Optional
<1>3. ToWire(j.timeout) \in WireDurations /\ ToWire(j.backoff) \in WireDurations /\ ToWire(j.max) \in WireDurations
  BY <1>1, <1>2, ToWireIs
<1>4. timeout \in WireTimeouts /\ retry \in WireRetries
  BY <1>1, <1>3 DEF WireTimeouts, WireRetries, Choice
<1>5. timeout # Absent /\ retry # Absent
  BY <1>4, AbsentAssumption
<1>6. w = [typed |-> TRUE, json |-> TRUE, target |-> j.target, labels |-> j.labels,
           timeout |-> timeout, retry |-> retry]
  BY DEF WriteJob
<1>7. w \in WireJobs
  BY <1>1, <1>4, <1>6 DEF WireJobs, Optional
<1> DEFINE d == ReadJob(w)
<1>8. /\ d.target = j.target /\ d.base = ServerBase(j.base) /\ d.strategy = Strategy(j.strategy)
      /\ d.timeout = FromWire(ToWire(j.timeout)) /\ d.backoff = FromWire(ToWire(j.backoff))
      /\ d.max = IF ToWire(j.max) = Absent THEN Absent ELSE FromWire(ToWire(j.max))
  BY <1>5, <1>6 DEF ReadJob, Or
<1> HIDE DEF w, d, timeout, retry
<1>9. d.base = j.base /\ d.strategy = j.strategy
  BY <1>1, <1>8 DEF ServerBase, Strategy
<1>10. d.timeout = Or(Limit(j.timeout), 0) /\ (j.backoff <= LongestWire => d.backoff = j.backoff)
  BY <1>1, <1>2, <1>8, ToWireIs
<1>11. d.max = Limit(j.max)
  <2>1. ToWire(j.max) = Limit(j.max) /\ (ToWire(j.max) = Absent \/ ToWire(j.max) \in Nat)
    BY <1>1, ToWireIs
  <2>2. \A n \in Nat : FromWire(n) = n
    BY AbsentAssumption DEF FromWire
  <2> QED BY <1>8, <2>1, <2>2
<1>12. SameJob(j, d)
  BY <1>8, <1>9, <1>10, <1>11 DEF SameJob
<1> QED BY <1>6, <1>7, <1>12 DEF w, d

\* A stored job is read as it was stored.
LEMMA ListedJobIs ==
  ASSUME NEW j \in StoredJobs
  PROVE  LibraryJob(ListJob(j)) = j
<1>1. /\ j = [target |-> j.target, labels |-> j.labels, timeout |-> j.timeout, base |-> j.base,
              backoff |-> j.backoff, max |-> j.max, strategy |-> j.strategy]
      /\ j.timeout \in 0..LongestWire /\ j.base \in {"start", "target"}
      /\ j.backoff \in 0..LongestWire /\ j.max \in Optional(0..LongestWire)
      /\ j.strategy \in {"fixed", "exponential"}
  BY DEF StoredJobs
<1>2. \A d \in 0..LongestWire : List(d) = d /\ FromWire(d) = d /\ d # Absent /\ ~(d < 0)
  BY LongestAssumption, AbsentAssumption DEF List, FromWire
<1>3. List(j.timeout) = j.timeout /\ List(j.backoff) = j.backoff /\ List(j.max) = j.max
  BY <1>1, <1>2 DEF List, Optional
<1>4. /\ FromWire(j.timeout) = j.timeout /\ FromWire(j.backoff) = j.backoff
      /\ (IF j.max = Absent \/ j.max < 0 THEN Absent ELSE j.max) = j.max
  BY <1>1, <1>2 DEF Optional
<1>5. (IF j.base = "start" THEN "start" ELSE "target") = j.base /\ Strategy(j.strategy) = j.strategy
  BY <1>1 DEF Strategy
<1>6. LibraryJob(ListJob(j)) =
        [target |-> j.target, labels |-> j.labels, timeout |-> FromWire(List(j.timeout)),
         base |-> IF j.base = "start" THEN "start" ELSE "target",
         backoff |-> FromWire(List(j.backoff)),
         max |-> IF List(j.max) = Absent \/ List(j.max) < 0 THEN Absent ELSE List(j.max),
         strategy |-> Strategy(j.strategy)]
  BY DEF LibraryJob, ListJob
<1> QED BY <1>1, <1>3, <1>4, <1>5, <1>6

\* A stored job may be written again.
LEMMA StoredJobsAre == StoredJobs \subseteq JobDefinitions
<1>1. 0..LongestWire \subseteq Nat
  BY LongestAssumption
<1> QED BY <1>1 DEF StoredJobs, JobDefinitions, Optional

\* A stored policy is read as it was stored.
LEMMA ListedScheduleIs ==
  ASSUME NEW s \in StoredSchedules
  PROVE  LET w == LibrarySchedule(ListSchedule(s))
         IN  w.policy = s.policy /\ w.start = s.start /\ w.end = s.end
<1> DEFINE p == s.policy
<1>1. /\ p = [kind |-> p.kind, interval |-> p.interval, cron |-> p.cron, missed |-> p.missed]
      /\ p.interval \in Optional(1..LongestInterval)
  BY DEF StoredSchedules, Policies, Optional
<1>2. List(p.interval) = p.interval
  BY <1>1, LongestAssumption DEF List, Optional
<1>3. [p EXCEPT !.interval = List(@)] = p
  BY <1>1, <1>2
<1> QED BY <1>3 DEF LibrarySchedule, ListSchedule

\* What makes a stored definition usable, besides its shape.
SoundItem(kind, d) ==
  IF kind = "job" THEN SoundLabels(d.labels) /\ d.target \in SupportedTimes
  ELSE SoundLabels(d.template.labels) /\ SoundLabels(d.labels)

\* What the server reads of a schedule it accepts.
LEMMA ReadScheduleIs ==
  ASSUME NEW w \in WireSchedules, ValidSchedule(w), NEW inherit \in BOOLEAN
  PROVE  LET d == ReadSchedule(w, inherit)
         IN  /\ d \in StoredSchedules /\ SoundItem("schedule", d)
             /\ \A key : Value(d.template.labels, key) =
                          IF key \in KeysOf(w.template.labels) THEN Value(w.template.labels, key)
                          ELSE IF inherit THEN Value(w.labels, key) ELSE Absent
<1> DEFINE own == ReadJob(w.template)
           labels == Deduplicate(w.labels)
           all == IF inherit THEN Inherit(labels, own.labels) ELSE own.labels
           d == ReadSchedule(w, inherit)
<1>1. /\ w.policy \in Policies(WireDurations, Choice({"skip", "create"})) /\ w.template \in WireJobs
      /\ w.labels \in Labels /\ w.start \in Optional(STRING) /\ w.end \in Optional(STRING)
  BY DEF WireSchedules, ValidSchedule, Optional
<1>2. /\ w.template.target \in STRING /\ w.template.labels \in Labels
      /\ ValidLabels(w.template.labels) /\ ValidLabels(w.labels)
  BY <1>1 DEF ValidSchedule, ValidTemplate, WireJobs, Optional
<1>3. own \in StoredJobs /\ own.labels = Deduplicate(w.template.labels)
  <2>1. own \in StoredJobs
    BY <1>1, <1>2, ReadJobIs
  <2> QED BY <2>1 DEF ReadJob
<1>4. /\ own.labels \in Labels /\ SoundLabels(own.labels)
      /\ labels \in Labels /\ SoundLabels(labels)
  BY <1>1, <1>2, <1>3, DeduplicateIs, ValidAreSound
<1>5. all \in Labels /\ SoundLabels(all)
  BY <1>4, InheritIs, InheritIsSound DEF SoundLabels
<1>6. d = [policy |-> ReadPolicy(w.policy), labels |-> labels, start |-> w.start, end |-> w.end,
           template |-> [own EXCEPT !.labels = all]]
  BY DEF ReadSchedule
<1>7. ReadPolicy(w.policy) \in Policies(1..LongestInterval, {"skip", "create"})
  <2> DEFINE p == w.policy
             q == ReadPolicy(p)
  <2>0. p = [kind |-> p.kind, interval |-> p.interval, cron |-> p.cron, missed |-> p.missed]
    BY <1>1 DEF Policies
  <2>1. /\ q = [kind |-> p.kind, interval |-> IF p.kind = "interval" THEN FromWire(p.interval) ELSE Absent,
                cron |-> p.cron, missed |-> Missed(p.missed)]
        /\ p.kind = "interval" \/ p.kind = "cron"
        /\ p.kind = "interval" => p.cron = "valid"
        /\ p.cron \in {"valid", "invalid"}
    <3>1. /\ p.kind = "interval" \/ p.kind = "cron"
          /\ p.kind = "interval" => p.cron = "valid"
          /\ p.cron \in {"valid", "invalid"}
      BY <1>1 DEF Policies
    <3>2. q = [kind |-> p.kind, interval |-> IF p.kind = "interval" THEN FromWire(p.interval) ELSE Absent,
               cron |-> p.cron, missed |-> Missed(p.missed)]
      <4>1. q = [p EXCEPT !.interval = IF p.kind = "interval" THEN FromWire(p.interval) ELSE Absent,
                          !.missed = Missed(p.missed)]
        BY DEF ReadPolicy
      <4> HIDE DEF p, q
      <4> QED BY <2>0, <4>1
    <3> QED BY <3>1, <3>2
  <2>2. Missed(p.missed) \in {"skip", "create"}
    BY DEF Missed
  <2>3. p.kind = "interval" => FromWire(p.interval) \in 1..LongestInterval
    BY DEF ValidSchedule, ValidPolicy
  <2> HIDE DEF p, q
  <2>4. q \in Policies(1..LongestInterval, {"skip", "create"})
    <3>1. CASE p.kind = "interval"
      BY <2>1, <2>2, <2>3, <3>1 DEF Policies
    <3>2. CASE p.kind = "cron"
      BY <2>1, <2>2, <3>2 DEF Policies
    <3> QED BY <2>1, <3>1, <3>2
  <2> QED BY <2>4 DEF p, q
<1>8. [own EXCEPT !.labels = all] \in StoredJobs
  BY <1>3, <1>5 DEF StoredJobs
<1> HIDE DEF own, labels, all
<1>9. d.template.labels = all
  <2>1. [own EXCEPT !.labels = all].labels = all
    BY <1>3 DEF StoredJobs
  <2> HIDE DEF d
  <2> QED BY <1>6, <2>1
<1>10. d \in StoredSchedules
  BY <1>1, <1>4, <1>6, <1>7, <1>8 DEF StoredSchedules
<1>11. SoundItem("schedule", d)
  BY <1>4, <1>5, <1>6, <1>9 DEF SoundItem
<1>12. ASSUME NEW key
       PROVE  Value(all, key) = IF key \in KeysOf(w.template.labels) THEN Value(w.template.labels, key)
                                ELSE IF inherit THEN Value(w.labels, key) ELSE Absent
  <2>1. /\ KeysOf(own.labels) = KeysOf(w.template.labels)
        /\ Value(own.labels, key) = Value(w.template.labels, key)
    BY <1>2, <1>3, DeduplicateIs
  <2>2. Value(labels, key) = Value(w.labels, key)
    BY <1>1, DeduplicateIs DEF labels
  <2>3. CASE inherit
    BY <1>4, <2>1, <2>2, <2>3, InheritIs DEF all, SoundLabels
  <2>4. CASE ~inherit
    <3>1. key \notin KeysOf(w.template.labels) => Value(w.template.labels, key) = Absent
      BY ValueIsAbsent
    <3> QED BY <2>1, <2>4, <3>1 DEF all
  <2> QED BY <2>3, <2>4
<1> HIDE DEF d
<1>13. ReadSchedule(w, inherit) = d
  BY DEF d
<1> QED BY <1>9, <1>10, <1>11, <1>12, <1>13

\* What a schedule written with the library means to the server, if it accepts it.
LEMMA WrittenScheduleIs ==
  ASSUME NEW s \in ScheduleDefinitions
  PROVE  LET w == WriteSchedule(s)
             d == ReadSchedule(w, TRUE)
         IN  /\ w \in WireSchedules
             /\ ValidSchedule(w) => /\ SameJob(s.template, d.template) /\ d.policy = s.policy
                                    /\ d.start = s.start /\ d.end = s.end
<1> DEFINE w == WriteSchedule(s)
           p == s.policy
           q == WritePolicy(p)
<1>1. /\ p \in Policies(Nat, {"skip", "create"}) /\ s.template \in JobDefinitions /\ s.labels \in Labels
      /\ s.start \in Optional(STRING) /\ s.end \in Optional(STRING)
  BY DEF ScheduleDefinitions
<1>2. w = [policy |-> q, template |-> WriteJob(s.template), labels |-> s.labels,
           start |-> s.start, end |-> s.end]
  BY DEF WriteSchedule
<1>3. /\ p = [kind |-> p.kind, interval |-> p.interval, cron |-> p.cron, missed |-> p.missed]
      /\ p.missed \in {"skip", "create"} /\ p.cron \in {"valid", "invalid"}
      /\ \/ p.kind = "interval" /\ p.interval \in Nat /\ p.cron = "valid"
         \/ p.kind = "cron" /\ p.interval = Absent
  BY <1>1 DEF Policies
<1> DEFINE sent == IF p.interval # Absent /\ p.interval > LongestWire THEN LongestWire ELSE p.interval
<1>4. q = [kind |-> p.kind, interval |-> sent, cron |-> p.cron, missed |-> p.missed]
  BY <1>3 DEF WritePolicy
<1> HIDE DEF p, q
<1>5. /\ p.kind = "interval" => sent \in WireDurations /\ sent \in Nat
      /\ p.kind = "interval" /\ sent # p.interval => sent = LongestWire
      /\ p.kind = "cron" => sent = Absent
  BY <1>3, LongestAssumption, AbsentAssumption DEF WireDurations, Optional
<1>6. q \in Policies(WireDurations, Choice({"skip", "create"}))
  <2>1. p.missed \in Choice({"skip", "create"})
    BY <1>3 DEF Choice
  <2>2. CASE p.kind = "interval"
    BY <1>3, <1>4, <1>5, <2>1, <2>2 DEF Policies
  <2>3. CASE p.kind = "cron"
    BY <1>3, <1>4, <1>5, <2>1, <2>3 DEF Policies
  <2> QED BY <1>3, <2>2, <2>3
<1>7. WriteJob(s.template) \in WireJobs /\ SameJob(s.template, ReadJob(WriteJob(s.template)))
  BY <1>1, WrittenJobIs
<1>8. w \in WireSchedules
  BY <1>1, <1>2, <1>6, <1>7 DEF WireSchedules, Optional
<1> DEFINE d == ReadSchedule(w, TRUE)
<1>9. ASSUME ValidSchedule(w)
      PROVE  SameJob(s.template, d.template) /\ d.policy = p /\ d.start = s.start /\ d.end = s.end
  <2>1. /\ d.policy = ReadPolicy(q) /\ d.start = s.start /\ d.end = s.end
        /\ d.template = [ReadJob(WriteJob(s.template)) EXCEPT
                            !.labels = Inherit(Deduplicate(s.labels), @)]
    BY <1>2 DEF ReadSchedule
  <2>2. SameJob(s.template, d.template)
    <3> DEFINE own == ReadJob(WriteJob(s.template))
               child == [own EXCEPT !.labels = Inherit(Deduplicate(s.labels), @)]
    <3>1. /\ child.target = own.target /\ child.base = own.base /\ child.strategy = own.strategy
          /\ child.timeout = own.timeout /\ child.max = own.max /\ child.backoff = own.backoff
      BY DEF ReadJob
    <3> HIDE DEF own, child, d
    <3>2. SameJob(s.template, child)
      BY <1>7, <3>1 DEF SameJob, own
    <3> QED BY <2>1, <3>2 DEF child, own
  <2>3. ValidPolicy(q)
    BY <1>2, <1>9 DEF ValidSchedule
  <2>4. ReadPolicy(q) =
          [kind |-> p.kind, interval |-> IF p.kind = "interval" THEN FromWire(sent) ELSE Absent,
           cron |-> p.cron, missed |-> Missed(p.missed)]
    <3>1. ReadPolicy(q) = [q EXCEPT !.interval = IF q.kind = "interval" THEN FromWire(q.interval) ELSE Absent,
                                    !.missed = Missed(q.missed)]
      BY DEF ReadPolicy
    <3> HIDE DEF sent
    <3> QED BY <1>4, <3>1
  <2>5. Missed(p.missed) = p.missed
    BY <1>3 DEF Missed
  <2>6. ASSUME p.kind = "interval" PROVE FromWire(sent) = p.interval
    <3>1. FromWire(sent) = sent
      BY <1>5, <2>6, AbsentAssumption DEF FromWire
    <3>2. sent \in 1..LongestInterval
      BY <1>4, <2>3, <2>6, <3>1 DEF ValidPolicy
    <3>3. sent # LongestWire
      BY <3>2, LongestAssumption
    <3> QED BY <1>5, <2>6, <3>1, <3>3
  <2>7. ReadPolicy(q) = p
    <3> HIDE DEF sent
    <3>1. CASE p.kind = "interval"
      BY <1>3, <2>4, <2>5, <2>6, <3>1
    <3>2. CASE p.kind = "cron"
      BY <1>3, <2>4, <2>5, <3>2
    <3> QED BY <1>3, <3>1, <3>2
  <2> QED BY <2>1, <2>2, <2>7
<1> QED BY <1>8, <1>9 DEF p

-----------------------------------------------------------------------------
(* WireFormat: the invariant *)

WrittenItems(kind) == IF kind = "job" THEN JobDefinitions ELSE ScheduleDefinitions
SentItems(kind) == IF kind = "job" THEN WireJobs ELSE WireSchedules

SourceShape(w) ==
  w.kind \in {"job", "schedule"} /\ w.unless \in BOOLEAN /\ w.items \in Seq(WrittenItems(w.kind))
RequestShape(r) ==
  /\ r.kind \in {"job", "schedule"} /\ r.unless \in BOOLEAN /\ r.inherit \in Optional(BOOLEAN)
  /\ r.items \in Seq(SentItems(r.kind))

\* The shapes of what is written, sent and stored.
WireShape ==
  /\ additions \in 0..MaxAdditions /\ answer \in Optional(Answers)
  /\ store.kind \in {"none", "job", "schedule"} /\ store.items \in Seq(StoredItems(store.kind))
  /\ \A i \in DOMAIN store.items : SoundItem(store.kind, store.items[i])
  /\ source # Absent => SourceShape(source)
  /\ request # Absent => RequestShape(request)

\* How often the server has been asked, and that what is stored is a number of requests.
Asked == IF request # Absent /\ answer = Absent THEN additions - 1 ELSE additions
Requests(n) == \E m \in 0..Asked : Len(store.items) = m * n

RequestAgrees ==
  request # Absent =>
    /\ source # Absent => request = LibraryRequest(source)
    /\ store.items # <<>> => request.kind = store.kind
    /\ request.unless => Len(store.items) <= Len(request.items)
    /\ Requests(Len(request.items)) /\ additions > 0

\* The definitions the last request added are the last ones that are stored.
AddedAgree ==
  JustAdded =>
    /\ store.kind = request.kind /\ Len(request.items) <= Len(store.items)
    /\ \A i \in DOMAIN request.items :
         /\ ValidItem(request.kind, request.items[i])
         /\ store.items[Len(store.items) - Len(request.items) + i] = ReadItem(request, request.items[i])

Listed(kind, d) == IF kind = "job" THEN ListJob(d) ELSE ListSchedule(d)
ReadBack(kind, w) == IF kind = "job" THEN LibraryJob(w) ELSE LibrarySchedule(w)

\* What was listed is the first that was stored, and nothing is added but copies of it.
ListedAgree ==
  /\ listed # Absent =>
       \E n \in 1..Len(store.items) :
         /\ listed = [i \in 1..n |-> Listed(store.kind, store.items[i])]
         /\ Requests(n) /\ (request # Absent => Len(request.items) = n)
  /\ read # Absent =>
       listed # Absent /\ read = [i \in DOMAIN listed |-> ReadBack(store.kind, listed[i])]

WireInv ==
  /\ WireShape /\ RequestAgrees /\ AddedAgree /\ ListedAgree
  /\ store.items # <<>> => Asked > 0

\* A function on the first natural numbers is a sequence.
LEMMA FunctionIsSeq ==
  ASSUME NEW S, NEW n \in Nat, NEW f \in [1..n -> S]
  PROVE  f \in Seq(S) /\ Len(f) = n /\ DOMAIN f = 1..n
<1>1. f \in Seq(S)
  BY SeqDef
<1>2. DOMAIN f = 1..n
  OBVIOUS
<1>3. 1..Len(f) = 1..n /\ Len(f) \in Nat
  BY <1>1, <1>2, LenProperties
<1>4. Len(f) = n
  BY <1>3
<1> QED BY <1>1, <1>2, <1>4

\* What the server makes of an item it accepts can be stored.
LEMMA ReadItemIs ==
  ASSUME NEW r, RequestShape(r), NEW w \in SentItems(r.kind), ValidItem(r.kind, w)
  PROVE  ReadItem(r, w) \in StoredItems(r.kind) /\ SoundItem(r.kind, ReadItem(r, w))
<1>1. CASE r.kind = "job"
  <2>1. w \in WireJobs /\ w.target \in STRING /\ w.labels \in Labels /\ ValidLabels(w.labels)
        /\ w.target \in SupportedTimes
    BY <1>1 DEF SentItems, ValidItem, ValidJob, ValidTemplate, WireJobs, Optional
  <2>2. ReadJob(w) \in StoredJobs
    BY <2>1, ReadJobIs
  <2>3. SoundLabels(Deduplicate(w.labels))
    BY <2>1, ValidAreSound
  <2>4. ReadJob(w).labels = Deduplicate(w.labels) /\ ReadJob(w).target = w.target
    BY DEF ReadJob
  <2> QED BY <1>1, <2>1, <2>2, <2>3, <2>4 DEF ReadItem, StoredItems, SoundItem
<1>2. CASE r.kind # "job"
  <2>1. w \in WireSchedules /\ ValidSchedule(w) /\ Or(r.inherit, TRUE) \in BOOLEAN
    BY <1>2 DEF SentItems, ValidItem, RequestShape, Or, Optional
  <2>2. ReadSchedule(w, Or(r.inherit, TRUE)) \in StoredSchedules
        /\ SoundItem("schedule", ReadSchedule(w, Or(r.inherit, TRUE)))
    BY <2>1, ReadScheduleIs
  <2> QED BY <1>2, <2>2 DEF ReadItem, StoredItems, SoundItem
<1> QED BY <1>1, <1>2

\* A request of the library has the items that were written.
LEMMA LibraryRequestIs ==
  ASSUME NEW w, SourceShape(w)
  PROVE  LET r == LibraryRequest(w)
         IN  /\ RequestShape(r) /\ r.kind = w.kind /\ r.unless = w.unless /\ r.inherit = TRUE
             /\ Len(r.items) = Len(w.items) /\ DOMAIN r.items = 1..Len(w.items)
             /\ \A i \in DOMAIN r.items : r.items[i] = Write(w.kind, w.items[i])
<1> DEFINE r == LibraryRequest(w)
           n == Len(w.items)
           f == [i \in 1..n |-> Write(w.kind, w.items[i])]
<1>1. n \in Nat /\ DOMAIN w.items = 1..n /\ \A i \in 1..n : w.items[i] \in WrittenItems(w.kind)
  BY LenProperties, ElementOfSeq DEF SourceShape
<1>2. r = [kind |-> w.kind, inherit |-> TRUE, unless |-> w.unless, items |-> f]
  BY <1>1 DEF LibraryRequest
<1>3. ASSUME NEW i \in 1..n PROVE Write(w.kind, w.items[i]) \in SentItems(w.kind)
  BY <1>1, WrittenJobIs, WrittenScheduleIs DEF Write, WrittenItems, SentItems
<1> HIDE DEF n
<1>4. f \in [1..n -> SentItems(w.kind)]
  BY <1>3
<1>5. f \in Seq(SentItems(w.kind)) /\ Len(f) = n /\ DOMAIN f = 1..n
  BY <1>1, <1>4, FunctionIsSeq
<1>6. \A i \in 1..n : f[i] = Write(w.kind, w.items[i])
  OBVIOUS
<1> HIDE DEF f, r
<1>7. RequestShape(r)
  BY <1>2, <1>5 DEF RequestShape, SourceShape, Optional
<1> QED BY <1>2, <1>5, <1>6, <1>7 DEF r, n

\* What a request asks for is added behind what is stored.
LEMMA AddingIs ==
  ASSUME WireShape, request # Absent, store.items # <<>> => request.kind = store.kind,
         \A i \in DOMAIN request.items : ValidItem(request.kind, request.items[i])
  PROVE  LET added == [i \in DOMAIN request.items |-> ReadItem(request, request.items[i])]
             all == store.items \o added
             n == Len(store.items)
         IN  /\ n \in Nat /\ Len(request.items) \in Nat /\ DOMAIN request.items = 1..Len(request.items)
             /\ all \in Seq(StoredItems(request.kind))
             /\ Len(all) = n + Len(request.items)
             /\ \A i \in DOMAIN all : SoundItem(request.kind, all[i])
             /\ \A i \in 1..n : all[i] = store.items[i]
             /\ \A i \in DOMAIN request.items : all[n + i] = ReadItem(request, request.items[i])
<1> DEFINE k == Len(request.items)
           n == Len(store.items)
           added == [i \in 1..k |-> ReadItem(request, request.items[i])]
           all == store.items \o added
           S == StoredItems(request.kind)
<1>1. k \in Nat /\ DOMAIN request.items = 1..k /\ \A i \in 1..k : request.items[i] \in SentItems(request.kind)
  BY LenProperties, ElementOfSeq DEF WireShape, RequestShape
<1>2. n \in Nat /\ DOMAIN store.items = 1..n
  BY LenProperties DEF WireShape
<1>3. ASSUME NEW i \in 1..k
      PROVE  ReadItem(request, request.items[i]) \in S /\ SoundItem(request.kind, ReadItem(request, request.items[i]))
  BY <1>1, ReadItemIs DEF WireShape
<1>4. store.items \in Seq(S) /\ \A i \in 1..n : SoundItem(request.kind, store.items[i])
  <2>1. CASE store.items = <<>>
    <3>1. n = 0
      BY <2>1, EmptySeq
    <3> QED BY <2>1, <3>1, EmptySeq
  <2>2. CASE store.items # <<>>
    BY <1>2, <2>2 DEF WireShape
  <2> QED BY <2>1, <2>2
<1> HIDE DEF k, n, S
<1>5. added \in [1..k -> S] /\ \A i \in 1..k : added[i] = ReadItem(request, request.items[i])
  BY <1>3
<1> HIDE DEF added
<1>6. added \in Seq(S) /\ Len(added) = k
  BY <1>1, <1>5, FunctionIsSeq
<1>7. /\ all \in Seq(S) /\ Len(all) = n + k
      /\ \A i \in 1..(n + k) : all[i] = IF i <= n THEN store.items[i] ELSE added[i - n]
  BY <1>4, <1>6, ConcatProperties DEF n
<1>8. DOMAIN all = 1..(n + k)
  BY <1>7, LenProperties
<1> HIDE DEF all
<1>9. ASSUME NEW i \in 1..(n + k) PROVE SoundItem(request.kind, all[i])
  <2>1. CASE i <= n
    <3>1. i \in 1..n
      BY <1>1, <1>2, <2>1
    <3> QED BY <1>4, <1>7, <2>1, <3>1
  <2>2. CASE ~(i <= n)
    <3>1. i - n \in 1..k
      BY <1>1, <1>2, <2>2
    <3> QED BY <1>3, <1>5, <1>7, <2>2, <3>1
  <2> QED BY <2>1, <2>2
<1>10. ASSUME NEW i \in 1..n PROVE all[i] = store.items[i]
  <2>1. i \in 1..(n + k) /\ i <= n
    BY <1>1, <1>2
  <2> QED BY <1>7, <2>1
<1>11. ASSUME NEW i \in 1..k PROVE all[n + i] = ReadItem(request, request.items[i])
  <2>1. n + i \in 1..(n + k) /\ ~(n + i <= n) /\ (n + i) - n = i
    BY <1>1, <1>2
  <2> QED BY <1>5, <1>7, <2>1
<1> QED BY <1>1, <1>2, <1>7, <1>8, <1>9, <1>10, <1>11 DEF k, n, S, added, all

LEMMA WireInitHolds == WireInit => WireInv
<1> SUFFICES ASSUME WireInit PROVE WireInv
  OBVIOUS
<1>1. store.items = <<>> /\ DOMAIN store.items = {} /\ Len(store.items) = 0 /\ store.kind = "none"
  BY EmptySeq DEF WireInit, Nothing
<1>2. WireShape
  BY <1>1, EmptySeq, RequestsAssumption DEF WireInit, WireShape, Optional
<1> QED
  BY <1>1, <1>2 DEF WireInit, WireInv, RequestAgrees, AddedAgree, JustAdded, ListedAgree

\* A new request: what is stored is a number of them, and of one kind.
LEMMA SendKeeps ==
  ASSUME WireInv, NEW r, Send(r), UNCHANGED <<store, listed, read>>,
         source' # Absent => SourceShape(source') /\ r = LibraryRequest(source'),
         RequestShape(r),
         store.items # <<>> => r.kind = store.kind,
         r.unless => Len(store.items) <= Len(r.items),
         Requests(Len(r.items)),
         listed # Absent =>
           \A n \in 1..Len(store.items) :
             listed = [i \in 1..n |-> Listed(store.kind, store.items[i])] => Len(r.items) = n,
         request # Absent => answer # Absent
  PROVE  WireInv'
<1>1. request' = r /\ answer' = Absent /\ additions' = additions + 1 /\ additions \in 0..(MaxAdditions - 1)
      /\ MaxAdditions \in Nat
  BY RequestsAssumption DEF Send, WireInv, WireShape
<1>2. store' = store /\ listed' = listed /\ read' = read
  OBVIOUS
<1>3. Asked = additions /\ Asked \in Nat /\ (Asked' = Asked \/ Asked' = Asked + 1)
  BY <1>1 DEF Asked
<1>4. \A n : Requests(n) => Requests(n)'
  <2>1. 0..Asked \subseteq 0..Asked'
    BY <1>3
  <2> QED BY <1>2, <2>1 DEF Requests
<1>5. WireShape'
  BY <1>1, <1>2 DEF WireInv, WireShape, Optional
<1>6. RequestAgrees'
  BY <1>1, <1>2, <1>4 DEF RequestAgrees
<1>7. AddedAgree'
  BY <1>1 DEF AddedAgree, JustAdded
<1>8. ListedAgree'
  <2>1. ASSUME listed # Absent
        PROVE  \E n \in 1..Len(store.items) :
                 /\ listed = [i \in 1..n |-> Listed(store.kind, store.items[i])]
                 /\ Requests(n) /\ Len(r.items) = n
    BY <2>1 DEF WireInv, ListedAgree
  <2>2. listed # Absent =>
          \E n \in 1..Len(store.items) :
                 /\ listed = [i \in 1..n |-> Listed(store.kind, store.items[i])]
                 /\ Requests(n)' /\ Len(r.items) = n
    BY <1>4, <2>1
  <2> QED BY <1>1, <1>2, <2>2 DEF WireInv, ListedAgree
<1>9. store'.items # <<>> => Asked' > 0
  BY <1>2, <1>3 DEF WireInv
<1> QED BY <1>5, <1>6, <1>7, <1>8, <1>9 DEF WireInv

\* The first request finds nothing stored or listed.
LEMMA FirstRequestKeeps ==
  ASSUME WireInv, NEW r, Send(r), UNCHANGED <<store, listed, read>>,
         request = Absent, store.items = <<>>,
         source' # Absent => SourceShape(source') /\ r = LibraryRequest(source'),
         RequestShape(r)
  PROVE  WireInv'
<1>1. Len(store.items) = 0 /\ Len(r.items) \in Nat
  BY EmptySeq, LenProperties DEF RequestShape
<1>2. Requests(Len(r.items))
  <2>1. 0 \in 0..Asked
    BY DEF WireInv, WireShape, Asked
  <2>2. 0 = 0 * Len(r.items)
    BY <1>1
  <2> QED BY <1>1, <2>1, <2>2 DEF Requests
<1> QED BY <1>1, <1>2, SendKeeps

LEMMA LibraryAddsKeeps == WireInv /\ LibraryAdds => WireInv'
<1> SUFFICES ASSUME WireInv, LibraryAdds PROVE WireInv'
  OBVIOUS
<1>1. PICK w \in Written : source' = w /\ Send(LibraryRequest(w))
  BY DEF LibraryAdds
<1>2. SourceShape(w)
  BY RequestsAssumption DEF SourceShape, WrittenItems
<1>3. RequestShape(LibraryRequest(w))
  BY <1>2, LibraryRequestIs
<1> QED BY <1>1, <1>2, <1>3, FirstRequestKeeps DEF LibraryAdds

LEMMA ClientAddsKeeps == WireInv /\ ClientAdds => WireInv'
<1> SUFFICES ASSUME WireInv, ClientAdds PROVE WireInv'
  OBVIOUS
<1>1. PICK r \in Sent : Send(r)
  BY DEF ClientAdds
<1>2. RequestShape(r)
  BY RequestsAssumption DEF RequestShape, SentItems
<1> QED BY <1>1, <1>2, FirstRequestKeeps DEF ClientAdds

\* A job that was read is the one that is stored.
LEMMA JobsRead ==
  ASSUME WireInv, read # Absent, store.kind = "job"
  PROVE  \E n \in 1..Len(store.items) :
           /\ n \in Nat /\ read \in [1..n -> StoredJobs] /\ Requests(n)
           /\ listed = [i \in 1..n |-> Listed(store.kind, store.items[i])]
           /\ \A i \in 1..n : read[i] = store.items[i]
<1>1. PICK n \in 1..Len(store.items) :
         /\ listed = [i \in 1..n |-> Listed(store.kind, store.items[i])] /\ Requests(n)
  BY DEF WireInv, ListedAgree
<1>2. /\ n \in Nat /\ Len(store.items) \in Nat
      /\ \A i \in 1..n : store.items[i] \in StoredJobs
  <2>1. store.items \in Seq(StoredJobs)
    BY DEF WireInv, WireShape, StoredItems
  <2>2. Len(store.items) \in Nat
    BY <2>1, LenProperties
  <2>3. \A i \in 1..n : i \in 1..Len(store.items)
    BY <2>2
  <2> QED BY <2>1, <2>2, <2>3, ElementOfSeq
<1>3. read = [i \in 1..n |-> LibraryJob(ListJob(store.items[i]))]
  <2>1. listed = [i \in 1..n |-> ListJob(store.items[i])]
    BY <1>1 DEF Listed
  <2>2. read = [i \in DOMAIN listed |-> LibraryJob(listed[i])]
    BY DEF WireInv, ListedAgree, ReadBack
  <2> QED BY <2>1, <2>2
<1>4. \A i \in 1..n : read[i] = store.items[i]
  BY <1>2, <1>3, ListedJobIs
<1>5. read \in [1..n -> StoredJobs]
  BY <1>2, <1>3, <1>4
<1> QED BY <1>1, <1>2, <1>4, <1>5

LEMMA LibraryCopiesKeeps == WireInv /\ LibraryCopies => WireInv'
<1> SUFFICES ASSUME WireInv, LibraryCopies PROVE WireInv'
  OBVIOUS
<1> DEFINE w == [kind |-> "job", unless |-> FALSE, items |-> read]
           r == LibraryRequest(w)
<1>1. /\ request = Absent /\ read # Absent /\ store.kind = "job" /\ source' = w /\ Send(r)
      /\ UNCHANGED <<store, listed, read>>
  BY DEF LibraryCopies
<1>2. PICK n \in 1..Len(store.items) :
           /\ n \in Nat /\ read \in [1..n -> StoredJobs] /\ Requests(n)
           /\ listed = [i \in 1..n |-> Listed(store.kind, store.items[i])]
  BY <1>1, JobsRead
<1>3. read \in Seq(JobDefinitions) /\ Len(read) = n
  <2>1. read \in [1..n -> JobDefinitions]
    BY <1>2, StoredJobsAre
  <2> QED BY <1>2, <2>1, FunctionIsSeq
<1>4. SourceShape(w)
  BY <1>3 DEF SourceShape, WrittenItems
<1>5. w.items = read /\ w.kind = "job" /\ w.unless = FALSE
  OBVIOUS
<1> HIDE DEF w
<1>6. /\ RequestShape(r) /\ r.kind = "job" /\ r.unless = FALSE /\ Len(r.items) = n
  BY <1>3, <1>4, <1>5, LibraryRequestIs
<1> HIDE DEF r
<1>7. \A m \in 1..Len(store.items) :
        listed = [i \in 1..m |-> Listed(store.kind, store.items[i])] => Len(r.items) = m
  <2> SUFFICES ASSUME NEW m \in 1..Len(store.items),
                      listed = [i \in 1..m |-> Listed(store.kind, store.items[i])]
               PROVE  m = n
    BY <1>6
  <2>1. DOMAIN listed = 1..m /\ DOMAIN listed = 1..n
    BY <1>2
  <2>2. m \in Nat /\ n \in Nat
    <3>1. Len(store.items) \in Nat
      BY LenProperties DEF WireInv, WireShape
    <3> QED BY <1>2, <3>1
  <2> QED BY <2>1, <2>2
<1> QED BY <1>1, <1>2, <1>4, <1>6, <1>7, SendKeeps DEF r

LEMMA AnswerLostKeeps == WireInv /\ AnswerLost => WireInv'
<1> SUFFICES ASSUME WireInv, AnswerLost PROVE WireInv'
  OBVIOUS
<1>1. /\ request # Absent /\ answer # Absent /\ Send(request) /\ source' = source
      /\ UNCHANGED <<store, listed, read>>
  BY DEF AnswerLost
<1>2. /\ RequestShape(request) /\ (source # Absent => SourceShape(source) /\ request = LibraryRequest(source))
      /\ (store.items # <<>> => request.kind = store.kind)
      /\ (request.unless => Len(store.items) <= Len(request.items)) /\ Requests(Len(request.items))
  BY <1>1 DEF WireInv, WireShape, RequestAgrees
<1>3. ASSUME listed # Absent
      PROVE  \A m \in 1..Len(store.items) :
        listed = [i \in 1..m |-> Listed(store.kind, store.items[i])] => Len(request.items) = m
  <2> SUFFICES ASSUME NEW m \in 1..Len(store.items),
                      listed = [i \in 1..m |-> Listed(store.kind, store.items[i])]
               PROVE  Len(request.items) = m
    OBVIOUS
  <2>1. Len(store.items) \in Nat
    BY LenProperties DEF WireInv, WireShape
  <2>2. PICK n \in 1..Len(store.items) :
          listed = [i \in 1..n |-> Listed(store.kind, store.items[i])] /\ Len(request.items) = n
    BY <1>1, <1>3 DEF WireInv, ListedAgree
  <2>3. DOMAIN listed = 1..m /\ DOMAIN listed = 1..n
    BY <2>2
  <2>4. m \in Nat /\ n \in Nat
    BY <2>1
  <2> QED BY <2>2, <2>3, <2>4
<1> QED BY <1>1, <1>2, <1>3, SendKeeps

LEMMA NextMultiple == \A a, b \in Nat : (a + 1) * b = a * b + b
  BY Z3

LEMMA ServerAddsKeeps == WireInv /\ ServerAdds => WireInv'
<1> SUFFICES ASSUME WireInv, ServerAdds PROVE WireInv'
  OBVIOUS
<1> DEFINE k == Len(request.items)
           n == Len(store.items)
<1>1. /\ request # Absent /\ answer = Absent
      /\ source' = source /\ request' = request /\ listed' = listed /\ read' = read
      /\ additions' = additions
  BY DEF ServerAdds
<1>2. /\ WireShape /\ RequestAgrees /\ ListedAgree /\ RequestShape(request)
      /\ (store.items # <<>> => request.kind = store.kind)
  BY <1>1 DEF WireInv, WireShape, RequestAgrees
<1>3. k \in Nat /\ n \in Nat /\ DOMAIN store.items = 1..n /\ DOMAIN request.items = 1..k
  BY <1>2, LenProperties DEF WireShape, RequestShape
<1>4. Asked = additions - 1 /\ Asked \in Nat /\ additions \in 0..MaxAdditions /\ MaxAdditions \in Nat
  BY <1>1, <1>2, RequestsAssumption DEF Asked, WireShape, RequestAgrees
\* Whatever the answer is, it is one.
<1>5. ASSUME answer' \in Answers PROVE answer' # Absent /\ Asked' = Asked + 1 /\ JustAdded' = (answer'.kind = "added")
  <2>1. answer' # Absent
    BY <1>5, RequestsAssumption
  <2>2. Asked' = additions
    BY <1>1, <2>1 DEF Asked
  <2>3. JustAdded' = (answer'.kind = "added")
    BY <1>1, <2>1 DEF JustAdded
  <2> QED BY <1>4, <2>1, <2>2, <2>3
<1>6. \A m : Asked' = Asked + 1 /\ store' = store /\ Requests(m) => Requests(m)'
  <2>1. ASSUME Asked' = Asked + 1 PROVE 0..Asked \subseteq 0..Asked'
    BY <1>4, <2>1
  <2> QED BY <2>1 DEF Requests
<1>7. ASSUME store' = store, answer' \in Answers, answer'.kind # "added" PROVE WireInv'
  <2>1. Asked' = Asked + 1 /\ ~JustAdded'
    BY <1>5, <1>7
  <2>2. WireShape'
    BY <1>1, <1>2, <1>7 DEF WireShape, Optional
  <2>3. RequestAgrees'
    BY <1>1, <1>2, <1>6, <1>7, <2>1 DEF RequestAgrees
  <2>4. ListedAgree'
    <3>1. ASSUME listed # Absent
          PROVE  \E m \in 1..Len(store.items) :
                   /\ listed = [i \in 1..m |-> Listed(store.kind, store.items[i])]
                   /\ Requests(m) /\ Len(request.items) = m
      BY <1>1, <1>2, <3>1 DEF ListedAgree
    <3>2. listed # Absent =>
            \E m \in 1..Len(store.items) :
                   /\ listed = [i \in 1..m |-> Listed(store.kind, store.items[i])]
                   /\ Requests(m)' /\ Len(request.items) = m
      BY <1>6, <1>7, <2>1, <3>1
    <3> QED BY <1>1, <1>2, <1>7, <3>2 DEF ListedAgree
  <2>5. Asked' > 0
    BY <1>4, <2>1
  <2> QED BY <2>1, <2>2, <2>3, <2>4, <2>5 DEF WireInv, AddedAgree
<1>8. CASE \E i \in DOMAIN request.items : ~ValidItem(request.kind, request.items[i])
  <2>1. answer' = [kind |-> "refused", ids |-> {}] /\ store' = store
    BY <1>8 DEF ServerAdds
  <2> QED BY <1>7, <2>1 DEF Answers
<1>9. CASE /\ ~\E i \in DOMAIN request.items : ~ValidItem(request.kind, request.items[i])
           /\ request.unless /\ store.items # <<>>
  <2>1. answer' = [kind |-> "existing", ids |-> DOMAIN store.items] /\ store' = store
    BY <1>9 DEF ServerAdds
  <2>2. DOMAIN store.items \in SUBSET Nat
    BY <1>3
  <2> QED BY <1>7, <2>1, <2>2 DEF Answers
<1>10. CASE /\ ~\E i \in DOMAIN request.items : ~ValidItem(request.kind, request.items[i])
            /\ ~(request.unless /\ store.items # <<>>)
  <2> DEFINE added == [i \in DOMAIN request.items |-> ReadItem(request, request.items[i])]
             all == store.items \o added
             ids == {n + i : i \in DOMAIN request.items}
  <2>1. store' = [kind |-> request.kind, items |-> all] /\ answer' = [kind |-> "added", ids |-> ids]
    BY <1>10 DEF ServerAdds
  <2>2. \A i \in DOMAIN request.items : ValidItem(request.kind, request.items[i])
    BY <1>10
  <2>3. /\ all \in Seq(StoredItems(request.kind)) /\ Len(all) = n + k
        /\ \A i \in DOMAIN all : SoundItem(request.kind, all[i])
        /\ \A i \in 1..n : all[i] = store.items[i]
        /\ \A i \in DOMAIN request.items : all[n + i] = ReadItem(request, request.items[i])
    BY <1>1, <1>2, <2>2, AddingIs
  <2> HIDE DEF all
  <2>0. k = Len(request.items) /\ n = Len(store.items)
    OBVIOUS
  <2>4. store'.kind = request.kind /\ store'.items = all
    BY <2>1
  <2>5. answer' \in Answers /\ answer'.kind = "added"
    <3>1. ids \in SUBSET Nat
      BY <1>3
    <3> QED BY <2>1, <3>1 DEF Answers
  <2>6. Asked' = Asked + 1 /\ Asked' \in Nat
    BY <1>4, <1>5, <2>5
  <2>7. WireShape'
    BY <1>1, <1>2, <2>3, <2>4, <2>5 DEF WireShape, RequestShape, Optional
  <2> HIDE DEF k, n
  <2>8. ASSUME NEW p, p = k, Requests(p) PROVE Requests(p)'
    <3>1. PICK m \in 0..Asked : n = m * p
      BY <2>8, <2>0 DEF Requests
    <3>2. m + 1 \in 0..Asked' /\ m \in Nat
      BY <1>4, <2>6
    <3>3. n + k = (m + 1) * p
      BY <1>3, <2>8, <3>1, <3>2, NextMultiple
    <3>4. Len(store'.items) = (m + 1) * p
      BY <2>3, <2>4, <3>3
    <3> QED BY <3>2, <3>4 DEF Requests
  <2>9. RequestAgrees'
    <3>1. request.unless => Len(all) <= Len(request.items)
      <4> SUFFICES ASSUME request.unless PROVE Len(all) <= k
        BY <2>0
      <4>1. store.items = <<>>
        BY <1>10, Zenon
      <4>2. n = 0
        BY <2>0, <4>1, EmptySeq
      <4> QED BY <1>3, <2>3, <4>2
    <3>2. ASSUME NEW p, p = k PROVE Requests(p)'
      BY <1>1, <1>2, <2>8, <2>0, <3>2 DEF RequestAgrees
    <3>3. Requests(Len(request.items))'
      BY <1>1, <2>0, <3>2 DEF Requests
    <3>4. additions > 0
      BY <1>1, <1>2 DEF RequestAgrees
    <3> QED BY <1>1, <1>2, <2>4, <3>1, <3>3, <3>4 DEF RequestAgrees
  <2>10. AddedAgree'
    <3>1. ASSUME NEW i \in DOMAIN request.items
          PROVE  all[Len(all) - k + i] = ReadItem(request, request.items[i])
      <4>1. Len(all) - k + i = n + i
        BY <1>3, <2>3
      <4> QED BY <2>3, <4>1
    <3>2. k <= Len(all)
      BY <1>3, <2>3
    <3> QED BY <1>1, <2>2, <2>4, <2>0, <3>1, <3>2 DEF AddedAgree
  <2>11. ListedAgree'
    <3>1. ASSUME listed # Absent
          PROVE  /\ store'.kind = store.kind
                 /\ \E m \in 1..Len(all) :
                      /\ listed = [i \in 1..m |-> Listed(store'.kind, all[i])]
                      /\ Requests(m)' /\ Len(request.items) = m
      <4>1. PICK m \in 1..n :
               /\ listed = [i \in 1..m |-> Listed(store.kind, store.items[i])]
               /\ Requests(m) /\ m = k
        BY <1>1, <1>2, <2>0, <3>1 DEF ListedAgree
      <4>2. store.items # <<>>
        BY <1>3, <2>0, <4>1, EmptySeq
      <4>3. store'.kind = store.kind
        BY <1>2, <2>4, <4>2
      <4>4. m \in 1..Len(all) /\ \A i \in 1..m : i \in 1..n
        BY <1>3, <2>3
      <4>5. \A i \in 1..m : Listed(store'.kind, all[i]) = Listed(store.kind, store.items[i])
        BY <2>3, <4>3, <4>4
      <4>6. listed = [i \in 1..m |-> Listed(store'.kind, all[i])]
        BY <4>1, <4>5
      <4>7. Requests(m)'
        BY <2>8, <4>1
      <4> QED BY <2>0, <4>1, <4>3, <4>4, <4>6, <4>7
    <3> QED BY <1>1, <1>2, <2>4, <3>1 DEF ListedAgree
  <2>12. Asked' > 0
    BY <1>4, <2>6
  <2> QED BY <2>7, <2>9, <2>10, <2>11, <2>12 DEF WireInv
<1> QED BY <1>8, <1>9, <1>10

LEMMA AnswerArrivesKeeps == WireInv /\ AnswerArrives => WireInv'
<1> SUFFICES ASSUME WireInv, AnswerArrives PROVE WireInv'
  OBVIOUS
<1>1. /\ request # Absent /\ answer # Absent /\ request' = Absent
      /\ UNCHANGED <<source, answer, store, listed, read, additions>>
  BY DEF AnswerArrives
<1>2. Asked' = Asked
  BY <1>1 DEF Asked
<1>3. \A n : Requests(n) => Requests(n)'
  BY <1>1, <1>2 DEF Requests
<1>4. WireShape'
  BY <1>1 DEF WireInv, WireShape
<1>5. ListedAgree'
  <2>1. ASSUME listed # Absent
        PROVE  \E m \in 1..Len(store.items) :
                 listed = [i \in 1..m |-> Listed(store.kind, store.items[i])] /\ Requests(m)'
    BY <1>3, <2>1 DEF WireInv, ListedAgree
  <2> QED BY <1>1, <2>1 DEF WireInv, ListedAgree
<1> QED BY <1>1, <1>2, <1>4, <1>5 DEF WireInv, RequestAgrees, AddedAgree, JustAdded

LEMMA ServerListsKeeps == WireInv /\ ServerLists => WireInv'
<1> SUFFICES ASSUME WireInv, ServerLists PROVE WireInv'
  OBVIOUS
<1> DEFINE n == Len(store.items)
<1>1. /\ request = Absent /\ store.items # <<>> /\ listed = Absent
      /\ listed' = [i \in DOMAIN store.items |-> Listed(store.kind, store.items[i])]
      /\ UNCHANGED <<source, request, answer, store, read, additions>>
  BY DEF ServerLists, Listed
<1>2. n \in Nat \ {0} /\ DOMAIN store.items = 1..n
  BY <1>1, EmptySeq, LenProperties DEF WireInv, WireShape
<1>3. Asked' = Asked /\ Asked \in Nat /\ Asked > 0
  BY <1>1 DEF Asked, WireInv, WireShape
<1>4. Requests(n)'
  <2>1. 1 \in 0..Asked' /\ n = 1 * n
    BY <1>2, <1>3
  <2> QED BY <1>1, <2>1 DEF Requests
<1>5. n \in 1..n /\ read = Absent
  BY <1>1, <1>2 DEF WireInv, ListedAgree
<1>6. ListedAgree'
  BY <1>1, <1>2, <1>4, <1>5 DEF ListedAgree
<1>7. WireShape'
  BY <1>1 DEF WireInv, WireShape
<1> QED BY <1>1, <1>3, <1>6, <1>7 DEF WireInv, RequestAgrees, AddedAgree, JustAdded

LEMMA LibraryReadsKeeps == WireInv /\ LibraryReads => WireInv'
<1> SUFFICES ASSUME WireInv, LibraryReads PROVE WireInv'
  OBVIOUS
<1>1. /\ listed # Absent /\ read' = [i \in DOMAIN listed |-> ReadBack(store.kind, listed[i])]
      /\ UNCHANGED <<source, request, answer, store, listed, additions>>
  BY DEF LibraryReads, ReadBack
<1>2. Asked' = Asked
  BY <1>1 DEF Asked
<1>3. \A n : Requests(n)' = Requests(n)
  BY <1>1, <1>2 DEF Requests
<1>4. WireShape' /\ RequestAgrees'
  BY <1>1, <1>3 DEF WireInv, WireShape, RequestAgrees
<1>5. AddedAgree'
  BY <1>1 DEF WireInv, AddedAgree, JustAdded
<1>6. ListedAgree'
  BY <1>1, <1>3 DEF WireInv, ListedAgree
<1> QED BY <1>1, <1>2, <1>4, <1>5, <1>6 DEF WireInv

LEMMA WireInvInductive == WireInv /\ [WireNext]_wireVars => WireInv'
<1>1. ASSUME WireInv, UNCHANGED wireVars PROVE WireInv'
  <2>1. UNCHANGED <<source, request, answer, store, listed, read, additions>>
    BY <1>1 DEF wireVars
  <2>2. Asked' = Asked
    BY <2>1 DEF Asked
  <2>3. \A n : Requests(n)' = Requests(n)
    BY <2>1, <2>2 DEF Requests
  <2>4. WireShape' /\ RequestAgrees' /\ AddedAgree'
    BY <1>1, <2>1, <2>3 DEF WireInv, WireShape, RequestAgrees, AddedAgree, JustAdded
  <2>5. ListedAgree'
    BY <1>1, <2>1, <2>3 DEF WireInv, ListedAgree
  <2> QED BY <1>1, <2>1, <2>2, <2>4, <2>5 DEF WireInv
<1> QED
  BY <1>1, LibraryAddsKeeps, ClientAddsKeeps, LibraryCopiesKeeps, ServerAddsKeeps, AnswerLostKeeps,
     AnswerArrivesKeeps, ServerListsKeeps, LibraryReadsKeeps DEF WireNext

\* The definitions added last are what the server reads of the request.
LEMMA AddedItemsAre ==
  ASSUME WireInv, JustAdded
  PROVE  /\ RequestShape(request) /\ store.kind = request.kind
         /\ \A i \in DOMAIN request.items :
              /\ AddedItems[i] = ReadItem(request, request.items[i])
              /\ ValidItem(request.kind, request.items[i])
              /\ request.items[i] \in SentItems(request.kind)
<1> DEFINE k == Len(request.items)
           n == Len(store.items)
<1>1. /\ RequestShape(request) /\ store.kind = request.kind /\ k <= n
      /\ \A i \in DOMAIN request.items :
           /\ ValidItem(request.kind, request.items[i])
           /\ store.items[n - k + i] = ReadItem(request, request.items[i])
  BY DEF WireInv, WireShape, AddedAgree, JustAdded
<1>2. /\ k \in Nat /\ n \in Nat /\ DOMAIN request.items = 1..k
      /\ \A i \in 1..n : store.items[i] \in StoredItems(store.kind)
      /\ \A i \in 1..k : request.items[i] \in SentItems(request.kind)
  BY <1>1, LenProperties, ElementOfSeq DEF WireInv, WireShape, RequestShape
<1> DEFINE from == (n - k) + 1
           tail == SubSeq(store.items, from, n)
<1>3. AddedItems = tail
  BY DEF AddedItems
<1> HIDE DEF k, n
<1>4. from \in Int /\ n \in Int /\ \A i \in from..n : store.items[i] \in StoredItems(store.kind)
  <2>1. \A i \in from..n : i \in 1..n
    BY <1>1, <1>2
  <2> QED BY <1>2, <2>1
<1>5. \A i \in 1..k : /\ i \in 1..((n - from) + 1) /\ (from + i) - 1 = n - k + i
  BY <1>1, <1>2
<1>6. \A i \in 1..((n - from) + 1) : tail[i] = store.items[(from + i) - 1]
  <2> HIDE DEF from
  <2> QED BY <1>4, SubSeqProperties
<1>7. \A i \in 1..k : AddedItems[i] = store.items[n - k + i]
  <2> HIDE DEF tail
  <2> QED BY <1>3, <1>5, <1>6
<1> QED BY <1>1, <1>2, <1>7

\* The library is understood: the server reads what was written.
LEMMA WrittenIsMeant == WireInv => LibraryIsUnderstood
<1> SUFFICES ASSUME WireInv, source # Absent, JustAdded, NEW i \in DOMAIN source.items
             PROVE  LET w == source.items[i]
                        d == AddedItems[i]
                    IN  IF store.kind = "job"
                        THEN SameJob(w, d) /\ \A k \in KeysOf(w.labels \o d.labels) :
                                                 Value(w.labels, k) = Value(d.labels, k)
                        ELSE SameJob(w.template, d.template) /\ d.policy = w.policy
                             /\ d.start = w.start /\ d.end = w.end
  BY DEF LibraryIsUnderstood
<1> DEFINE w == source.items[i]
           d == AddedItems[i]
<1>1. SourceShape(source) /\ request = LibraryRequest(source)
  BY DEF WireInv, WireShape, RequestAgrees, JustAdded
<1>2. /\ request.kind = source.kind /\ request.inherit = TRUE
      /\ DOMAIN source.items = DOMAIN request.items /\ request.items[i] = Write(source.kind, w)
      /\ w \in WrittenItems(source.kind)
  <2> DEFINE r == LibraryRequest(source)
  <2>1. source.items \in Seq(WrittenItems(source.kind))
    BY <1>1 DEF SourceShape
  <2>2. DOMAIN source.items = 1..Len(source.items) /\ w \in WrittenItems(source.kind)
    BY <2>1, LenProperties, ElementOfSeq
  <2>3. /\ r.kind = source.kind /\ r.inherit = TRUE /\ DOMAIN r.items = 1..Len(source.items)
        /\ \A k \in DOMAIN r.items : r.items[k] = Write(source.kind, source.items[k])
    BY <1>1, LibraryRequestIs
  <2> HIDE DEF r
  <2> QED BY <1>1, <2>2, <2>3 DEF r
<1>3. /\ store.kind = source.kind /\ d = ReadItem(request, Write(source.kind, w))
      /\ ValidItem(source.kind, Write(source.kind, w))
  BY <1>2, AddedItemsAre
<1> HIDE DEF w, d
<1>4. CASE source.kind = "job"
  <2>1. w \in JobDefinitions /\ d = ReadJob(WriteJob(w))
    BY <1>2, <1>3, <1>4 DEF WrittenItems, ReadItem, Write
  <2>2. SameJob(w, d) /\ WriteJob(w).labels = w.labels /\ w.labels \in Labels
    BY <2>1, WrittenJobIs DEF JobDefinitions
  <2>3. d.labels = Deduplicate(w.labels)
    BY <2>1, <2>2 DEF ReadJob
  <2>4. \A k : Value(w.labels, k) = Value(d.labels, k)
    BY <2>2, <2>3, DeduplicateIs
  <2> QED BY <1>3, <1>4, <2>2, <2>4 DEF w, d
<1>5. CASE source.kind # "job"
  <2>1. w \in ScheduleDefinitions /\ d = ReadSchedule(WriteSchedule(w), TRUE) /\ ValidSchedule(WriteSchedule(w))
    BY <1>2, <1>3, <1>5 DEF WrittenItems, ReadItem, Write, ValidItem, Or
  <2>2. SameJob(w.template, d.template) /\ d.policy = w.policy /\ d.start = w.start /\ d.end = w.end
    BY <2>1, WrittenScheduleIs
  <2> QED BY <1>3, <1>5, <2>2 DEF w, d
<1> QED BY <1>4, <1>5

\* What the library reads is what is stored.
LEMMA ReadIsStored == WireInv => ReadAsStored
<1> SUFFICES ASSUME WireInv, read # Absent PROVE ReadAsStored
  BY DEF ReadAsStored
<1>1. CASE store.kind = "job"
  <2>1. PICK n \in 1..Len(store.items) : read \in [1..n -> StoredJobs] /\ \A i \in 1..n : read[i] = store.items[i]
    BY <1>1, JobsRead
  <2>2. DOMAIN read = 1..n
    BY <2>1
  <2> QED BY <1>1, <2>1, <2>2 DEF ReadAsStored
<1>2. CASE store.kind # "job"
  <2>1. PICK n \in 1..Len(store.items) : listed = [i \in 1..n |-> ListSchedule(store.items[i])]
    BY <1>2 DEF WireInv, ListedAgree, Listed
  <2>2. read = [i \in DOMAIN listed |-> LibrarySchedule(listed[i])]
    BY <1>2 DEF WireInv, ListedAgree, ReadBack
  <2>3. DOMAIN read = 1..n /\ \A i \in 1..n : read[i] = LibrarySchedule(ListSchedule(store.items[i]))
    BY <2>1, <2>2
  <2>4. \A i \in 1..n : store.items[i] \in StoredSchedules
    <3>1. store.items \in Seq(StoredSchedules) /\ Len(store.items) \in Nat
      BY <1>2, LenProperties DEF WireInv, WireShape, StoredItems
    <3>2. \A i \in 1..n : i \in 1..Len(store.items)
      BY <3>1
    <3> QED BY <3>1, <3>2, ElementOfSeq
  <2> QED BY <1>2, <2>3, <2>4, ListedScheduleIs DEF ReadAsStored
<1> QED BY <1>1, <1>2

\* Templates have the labels they were given, and those of their schedule.
LEMMA LabelsAreInherited == WireInv => LabelsInherited
<1> SUFFICES ASSUME WireInv, JustAdded, store.kind = "schedule", NEW i \in DOMAIN request.items
             PROVE  LET w == request.items[i]
                        labels == AddedItems[i].template.labels
                    IN  /\ UniqueKeys(labels) /\ UniqueKeys(AddedItems[i].labels)
                        /\ \A k \in KeysOf(labels \o w.labels \o w.template.labels) :
                             Value(labels, k) =
                               IF k \in KeysOf(w.template.labels) THEN Value(w.template.labels, k)
                               ELSE IF request.inherit = FALSE THEN Absent
                               ELSE Value(w.labels, k)
  BY DEF LabelsInherited
<1> DEFINE w == request.items[i]
           inherit == Or(request.inherit, TRUE)
           d == AddedItems[i]
<1>1. /\ RequestShape(request) /\ request.kind = "schedule" /\ d = ReadItem(request, w)
      /\ ValidItem(request.kind, w) /\ w \in SentItems(request.kind)
  BY AddedItemsAre
<1>2. w \in WireSchedules /\ ValidSchedule(w) /\ d = ReadSchedule(w, inherit)
  BY <1>1 DEF ReadItem, ValidItem, SentItems
<1>3. inherit \in BOOLEAN /\ (request.inherit = FALSE <=> ~inherit)
  BY <1>1, AbsentAssumption DEF RequestShape, Or, Optional
<1> HIDE DEF w, inherit, d
<1>4. /\ SoundItem("schedule", d)
      /\ \A key : Value(d.template.labels, key) =
                   IF key \in KeysOf(w.template.labels) THEN Value(w.template.labels, key)
                   ELSE IF inherit THEN Value(w.labels, key) ELSE Absent
  BY <1>2, <1>3, ReadScheduleIs
<1>5. UniqueKeys(d.template.labels) /\ UniqueKeys(d.labels)
  BY <1>4 DEF SoundItem, SoundLabels
<1> QED BY <1>3, <1>4, <1>5 DEF w, d

\* What is stored can be run and listed.
LEMMA StoredIsSound == WireInv => StoreIsSound
<1> SUFFICES ASSUME WireInv, NEW i \in DOMAIN store.items
             PROVE  LET d == store.items[i]
                    IN  IF store.kind = "job" THEN SoundJob(d) /\ d.target \in SupportedTimes
                        ELSE /\ SoundJob(d.template) /\ SoundLabels(d.labels)
                             /\ d.policy.kind = "interval" => d.policy.interval \in 1..LongestInterval
  BY DEF StoreIsSound
<1> DEFINE d == store.items[i]
<1>1. d \in StoredItems(store.kind) /\ SoundItem(store.kind, d)
  BY LenProperties, ElementOfSeq DEF WireInv, WireShape
<1> HIDE DEF d
<1>2. ASSUME NEW j \in StoredJobs, SoundLabels(j.labels) PROVE SoundJob(j)
  BY <1>2 DEF StoredJobs, SoundJob, Optional
<1>3. CASE store.kind = "job"
  BY <1>1, <1>2, <1>3 DEF StoredItems, SoundItem, d
<1>4. CASE store.kind # "job"
  <2>1. /\ d \in StoredSchedules /\ d.template \in StoredJobs
        /\ SoundLabels(d.template.labels) /\ SoundLabels(d.labels)
    BY <1>1, <1>4 DEF StoredItems, SoundItem, StoredSchedules
  <2>2. d.policy.kind = "interval" => d.policy.interval \in 1..LongestInterval
    BY <2>1 DEF StoredSchedules, Policies
  <2> QED BY <1>2, <1>4, <2>1, <2>2 DEF d
<1> QED BY <1>3, <1>4

\* The shape of the state, and requests that are added as a whole.
LEMMA RequestsAreWhole == WireInv => WireTypeOK /\ WholeRequests
<1> SUFFICES ASSUME WireInv PROVE WireTypeOK /\ WholeRequests
  OBVIOUS
<1>1. ASSUME store.kind = "schedule", NEW i \in DOMAIN store.items
      PROVE  store.items[i].policy \in Policies(Nat, {"skip", "create"})
  <2>1. store.items[i] \in StoredSchedules
    BY <1>1, LenProperties, ElementOfSeq DEF WireInv, WireShape, StoredItems
  <2>2. store.items[i].policy \in Policies(1..LongestInterval, {"skip", "create"})
    BY <2>1 DEF StoredSchedules
  <2>3. 1..LongestInterval \subseteq Nat
    BY LongestAssumption
  <2> QED BY <2>2, <2>3 DEF Policies
<1>2. WireTypeOK
  BY <1>1 DEF WireInv, WireShape, WireTypeOK
<1>3. ASSUME request # Absent
      PROVE  /\ \E n \in 0..MaxAdditions : Len(store.items) = n * Len(request.items)
             /\ request.unless => Len(store.items) <= Len(request.items)
  <2>1. Requests(Len(request.items)) /\ (request.unless => Len(store.items) <= Len(request.items))
    BY <1>3 DEF WireInv, RequestAgrees
  <2>2. 0..Asked \subseteq 0..MaxAdditions
    BY RequestsAssumption DEF WireInv, WireShape, Asked
  <2> QED BY <2>1, <2>2 DEF Requests
<1> QED BY <1>2, <1>3 DEF WholeRequests

\* For any definitions that are written, whatever other clients send, however often a
\* request is repeated and whatever the widths of durations: what is stored means what
\* its client wrote, and what the library reads is what is stored (proto/convert.rs,
\* grpc/conv.rs, util.rs, grpc/admin.rs).
THEOREM MeaningCorrect == WireSpec => []MeaningIsKept
<1>1. WireInv => MeaningIsKept
  BY RequestsAreWhole, StoredIsSound, WrittenIsMeant, ReadIsStored, LabelsAreInherited DEF MeaningIsKept
<1> QED BY <1>1, WireInitHolds, WireInvInductive, PTL DEF WireSpec
=============================================================================
