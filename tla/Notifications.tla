---------------------------- MODULE Notifications ----------------------------
(***************************************************************************)
(* What wakes up ready_executions_loop: new executions in the backend, free *)
(* capacity in the executor pool, the poll interval, the periodic check and *)
(* the end of an executor's backoff.  Server lets the loop look again at    *)
(* any moment; here time passes, and the question is how long an execution  *)
(* waits that could be offered.  Times are kept as the time that is left.   *)
(*                                                                         *)
(* A Notify of tokio wakes the futures that exist when it is notified: a    *)
(* flag below is such a future, reset where the code creates a new one.     *)
(***************************************************************************)
EXTENDS OraIds, Integers, FiniteSets, FiniteSetsExt

CONSTANTS
  Types, TypeOf,  \* the job types, and that of an execution
  Limit,        \* max_concurrent_executions of the one executor, for each type
  Poll,         \* poll_interval of the backend
  CheckDelay,   \* of the loop
  Backoffs,     \* after a rejection
  Delays,       \* from the addition of an execution to its target time
  SlowPasses    \* whether time passes while the loop is not waiting

ASSUME NotifyAssumption ==
  /\ IsFiniteSet(Executions) /\ TypeOf \in [Executions -> Types] /\ IsFiniteSet(Types)
  /\ Limit \in Nat \ {0} /\ Poll \in Nat \ {0} /\ CheckDelay \in Nat \ {0}
  /\ Backoffs \subseteq Nat \ {0} /\ Delays \subseteq Nat

VARIABLES
  status,     \* of an execution: none, pending, held (by the executor) or done
  dueIn,      \* until its target_execution_time
  owed,       \* the executions that are committed and not yet notified
  blind,      \* until the loop has polled an execution nobody notifies it of
  readyAt,    \* where the loop is
  inFlight, fetched, batch, ignored, saturated,  \* of a pass of the loop
  checkIn,    \* until check_delay has elapsed
  pollIn,     \* the delay of wait_for_ready_executions
  newNote, availNote,  \* new_executions and executor_available were notified
  backoff,    \* of a type: until its backoff ends
  rejected,   \* history: the same, but an acceptance does not lift it, and during a
              \* pass extends it to the next periodic check
  event       \* history: whether anything has happened since the pass began

executionVars == <<status, dueIn, owed, blind>>
passVars == <<inFlight, fetched, batch, ignored, saturated>>
timers == <<checkIn, pollIn>>
notes == <<newNote, availNote>>
backoffs == <<backoff, rejected>>
notifyVars == <<executionVars, readyAt, passVars, timers, notes, backoffs, event>>

Held(k) == {x \in Executions : status[x] = "held" /\ TypeOf[x] = k}

HasCapacity(k) == Cardinality(Held(k)) < Limit /\ backoff[k] = 0

Waiting == readyAt \in {"saturated", "wait", "query", "polling"}

\* The types, and: no queue is over its limit, and the loop ignores only what it
\* could not offer or the executor held.
NotifyTypeOK ==
  /\ status \in [Executions -> {"none", "pending", "held", "done"}]
  /\ readyAt \in {"fetch", "offer", "ignore", "saturated", "wait", "query", "polling"}
  /\ pollIn \in 0..Poll /\ checkIn \in 0..CheckDelay
  /\ \A x \in Executions : status[x] = "held" => dueIn[x] = 0
  /\ \A k \in Types : Cardinality(Held(k)) <= Limit
  /\ \A x \in inFlight \cup fetched \cup batch \cup ignored : dueIn[x] = 0 /\ status[x] # "none"

\* A pass begins: executor_available() is created, then the executions that are
\* still pending and held are read.
PassBegins ==
  /\ readyAt' = "fetch"
  /\ availNote' = FALSE
  /\ inFlight' = {x \in Executions : status[x] = "held"}
  /\ fetched' = {} /\ ignored' = {} /\ saturated' = FALSE
  /\ checkIn' = 0 /\ pollIn' = 0
  /\ event' = FALSE

NotifyInit ==
  /\ status = [x \in Executions |-> "none"]
  /\ dueIn = [x \in Executions |-> 0]
  /\ owed = {} /\ blind = [x \in Executions |-> 0]
  /\ readyAt = "fetch"
  /\ inFlight = {} /\ fetched = {} /\ batch = {} /\ ignored = {} /\ saturated = FALSE
  /\ checkIn = 0 /\ pollIn = 0
  /\ newNote = FALSE /\ availNote = FALSE
  /\ backoff = [k \in Types |-> 0] /\ rejected = [k \in Types |-> 0]
  /\ event = FALSE

-----------------------------------------------------------------------------
(* The backend and its callers *)

\* add_jobs or executions_retried commits an execution.  Another server, or a
\* call that is dropped after the commit, notifies nobody.
Commit(x) ==
  /\ status[x] = "none" /\ owed = {}
  /\ status' = [status EXCEPT ![x] = "pending"]
  /\ \E d \in Delays : dueIn' = [dueIn EXCEPT ![x] = d]
  /\ \/ owed' = {x} /\ UNCHANGED blind
     \/ blind' = [blind EXCEPT ![x] = Poll] /\ UNCHANGED owed
  /\ event' = TRUE
  /\ UNCHANGED <<readyAt, passVars, timers, notes, backoffs>>

\* Mutant: executions that are not due yet do not wake anyone.
DueBeforePoll_now(x) == dueIn[x] <= 0

DueBeforePoll(x) == dueIn[x] < Poll

Announce(x) ==
  /\ x \in owed
  /\ owed' = owed \ {x}
  /\ newNote' = (newNote \/ (readyAt \in {"query", "polling"} /\ DueBeforePoll(x)))
  /\ event' = TRUE
  /\ UNCHANGED <<status, dueIn, blind, readyAt, passVars, timers, availNote, backoffs>>

-----------------------------------------------------------------------------
(* The executor; its queues change under the lock of the pool *)

\* Mutant: nobody is told that an execution has gone.
Available_silent == UNCHANGED availNote

Available == availNote' = TRUE

\* It has finished, was cancelled, or its executor has gone and come back.
Ends(x) ==
  /\ status[x] = "held"
  /\ status' = [status EXCEPT ![x] = "done"]
  /\ Available
  /\ event' = TRUE
  /\ UNCHANGED <<dueIn, owed, blind, readyAt, passVars, timers, newNote, backoffs>>

\* It is rejected, or the offer expires.
Rejects(x) ==
  /\ status[x] = "held"
  /\ status' = [status EXCEPT ![x] = "pending"]
  /\ \E b \in Backoffs :
       /\ backoff' = [backoff EXCEPT ![TypeOf[x]] = b]
       /\ rejected' = [rejected EXCEPT ![TypeOf[x]] = b]
  /\ Available
  /\ event' = TRUE
  /\ UNCHANGED <<dueIn, owed, blind, readyAt, passVars, timers, newNote>>

\* An acceptance lifts the backoff and notifies nobody; the loop looks again when the
\* backoff would have ended if it waits already, and at its next check if it does not.
Accepts(x) ==
  /\ status[x] = "held" /\ backoff[TypeOf[x]] # 0
  /\ backoff' = [backoff EXCEPT ![TypeOf[x]] = 0]
  /\ rejected' = IF Waiting THEN rejected ELSE [rejected EXCEPT ![TypeOf[x]] = CheckDelay]
  /\ event' = TRUE
  /\ UNCHANGED <<executionVars, readyAt, passVars, timers, notes>>

-----------------------------------------------------------------------------
(* ready_executions_loop *)

Unstarted == {x \in Executions : status[x] \in {"pending", "held"}}

\* The next page.  Of what was added since the last page only the executions
\* that are ordered after it are seen.
Fetch ==
  /\ readyAt = "fetch"
  /\ LET ready == {x \in Unstarted : dueIn[x] = 0} \ (inFlight \cup fetched)
     IN  \E page \in SUBSET ready :
           /\ fetched = {} => page = ready
           /\ batch' = page
           /\ readyAt' = IF page = {} THEN "ignore" ELSE "offer"
  /\ UNCHANGED <<executionVars, inFlight, fetched, ignored, saturated, timers, notes, backoffs, event>>

\* What has_capacity leaves of a queue.
Free(k) == IF backoff[k] = 0 THEN Limit - Cardinality(Held(k)) ELSE 0

\* try_offer fills the queues with what is not held already.
TryOffer ==
  /\ readyAt = "offer"
  /\ \E given \in SUBSET {x \in batch : status[x] = "pending"} :
       /\ \A k \in Types :
            LET wanted == {x \in batch : status[x] = "pending" /\ TypeOf[x] = k}
            IN  Cardinality({x \in given : TypeOf[x] = k}) = Min({Cardinality(wanted), Free(k)})
       /\ status' = [x \in Executions |-> IF x \in given THEN "held" ELSE status[x]]
       /\ ignored' = ignored \cup (batch \ given)
  /\ UNCHANGED <<dueIn, owed, blind, inFlight, timers, notes, backoffs, event>>
  /\ fetched' = fetched \cup batch /\ batch' = {}
  /\ saturated' = ~(\E k \in Types : HasCapacity(k))'
  /\ readyAt' = IF saturated' THEN "ignore" ELSE "fetch"

\* Mutant: the end of a backoff is not waited for.
NextCheck_periodic == CheckDelay

\* The periodic check, or the end of a backoff that has not ended.
NextCheck == Min({CheckDelay} \cup ({backoff[k] : k \in Types} \ {0}))

\* Executions offered during the pass are still pending as well.
Ignored == ignored \cup {x \in Executions : status[x] = "held"}

\* The pass is over and the loop waits.
Wait ==
  /\ readyAt = "ignore"
  /\ ignored' = Ignored
  /\ checkIn' = NextCheck
  /\ readyAt' = IF saturated THEN "saturated" ELSE "wait"
  /\ inFlight' = {} /\ fetched' = {}
  /\ UNCHANGED <<executionVars, batch, saturated, pollIn, notes, backoffs, event>>

\* wait_for_ready_executions creates its future, then asks for the next execution.
Register ==
  /\ readyAt = "wait"
  /\ newNote' = FALSE /\ readyAt' = "query"
  /\ UNCHANGED <<executionVars, passVars, timers, availNote, backoffs, event>>

Query ==
  /\ readyAt = "query"
  /\ LET delay == Min({Poll} \cup {dueIn[x] : x \in Unstarted \ ignored})
     IN  IF delay = 0
         THEN PassBegins
         ELSE /\ pollIn' = delay /\ readyAt' = "polling"
              /\ UNCHANGED <<inFlight, fetched, ignored, saturated, checkIn, availNote, event>>
  /\ UNCHANGED <<executionVars, batch, newNote, backoffs>>

Woken ==
  \/ Waiting /\ checkIn = 0
  \/ readyAt = "polling" /\ newNote
  \/ readyAt = "saturated" /\ availNote
  \/ readyAt \in {"wait", "query", "polling"} /\ availNote /\ ignored # {}

WakeUp == Woken /\ PassBegins /\ UNCHANGED <<executionVars, batch, newNote, backoffs>>

\* The delay is over, the next query follows.
PollAgain ==
  /\ readyAt = "polling" /\ pollIn = 0 /\ readyAt' = "wait"
  /\ UNCHANGED <<executionVars, passVars, timers, notes, backoffs, event>>

-----------------------------------------------------------------------------

\* The loop sleeps, and nothing that is to wake it has happened.
Asleep ==
  /\ readyAt \in {"polling", "saturated"} /\ ~Woken
  /\ readyAt = "polling" => pollIn > 0

Less(t) == Max({0, t - 1})

\* Time passes while the loop sleeps and every call has notified; the queries and
\* the offers take none unless passes are slow.
Tick ==
  /\ owed = {}
  /\ Asleep \/ (SlowPasses /\ ~Waiting)
  /\ dueIn' = [x \in Executions |-> Less(dueIn[x])]
  /\ blind' = [x \in Executions |-> Less(blind[x])]
  /\ backoff' = [k \in Types |-> Less(backoff[k])]
  /\ rejected' = [k \in Types |-> Less(rejected[k])]
  /\ pollIn' = Less(pollIn) /\ checkIn' = Less(checkIn)
  /\ event' = TRUE
  /\ UNCHANGED <<status, owed, readyAt, passVars, notes>>

NotifyNext ==
  \/ \E x \in Executions :
       Commit(x) \/ Announce(x) \/ Ends(x) \/ Rejects(x) \/ Accepts(x)
  \/ Fetch \/ TryOffer \/ Wait \/ Register \/ Query \/ WakeUp \/ PollAgain
  \/ Tick

NotifySpec == NotifyInit /\ [][NotifyNext]_notifyVars

-----------------------------------------------------------------------------
(* Properties *)

\* The executor could be offered x, and has not become able to by an acceptance.
Offerable(x) ==
  /\ status[x] = "pending" /\ dueIn[x] = 0 /\ blind[x] = 0
  /\ HasCapacity(TypeOf[x]) /\ rejected[TypeOf[x]] = 0

\* The loop does not sleep while an execution could be offered: it is woken by what
\* is added, by its target time, by capacity that becomes free and by the end of a
\* backoff, whatever it was doing when they happened.
ReadyIsOffered == owed = {} /\ Asleep => \A x \in Executions : ~Offerable(x)

\* The loop does not spin: it makes another pass only if time has passed or
\* something has happened since the last began.
NoSpin == [][Waiting /\ ~Waiting' => event]_notifyVars

\* The loop of ready executions sleeps when there is nothing to offer, and only
\* then (ready_executions_loop).
SleepsWhileIdle == [](NotifyTypeOK /\ ReadyIsOffered) /\ NoSpin
=============================================================================
