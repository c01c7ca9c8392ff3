---------------------------- MODULE ServerShutdown ----------------------------
(***************************************************************************)
(* The shutdown of the server: the loops that wait for the executors, the  *)
(* executors that have a grace period, and backend calls that fail while   *)
(* everything is coming to an end.                                         *)
(*                                                                         *)
(* Abstracted: offers (ExecutorPool), retries, which are other executions, *)
(* the loops that only sleep between calls (schedules, history, metrics),  *)
(* and executors that connect at the very moment of the shutdown.  The     *)
(* deadlines of the loops are SHUTDOWN_EVENTS_MARGIN after the grace period *)
(* of the executors, which are gone by then.                               *)
(***************************************************************************)
EXTENDS Naturals, FiniteSets, Sequences, SequencesExt

CONSTANTS
  Executors, Executions, None,
  MaxAttempts,  \* MAX_SHUTDOWN_ATTEMPTS
  BackendDown   \* does every call of the backend fail?

ASSUME AttemptsAssumption == MaxAttempts \in Nat \ {0}
ASSUME BackendAssumption == BackendDown \in BOOLEAN
ASSUME ExecutorsAssumption == None \notin Executors

VARIABLES
  asked,     \* is the wait group waiting?
  conn,      \* of an executor: connected, draining, gone
  held,      \* the executions it accepted
  starts,    \* the channel of accepted executions
  recorded,  \* AcceptedExecutions: none, unstarted, started
  events,    \* the channel of events: the executions each ends
  stored,    \* in the backend: pending, running, ended
  owner,     \* the executor an execution was started on
  pc,        \* where a loop is
  noticed,   \* has a loop set its shutdown deadline?
  batch,     \* what a loop is working on
  attempts,  \* of the call a loop makes, up to MaxAttempts
  resulted,  \* history: the executions whose result was received
  gaveUp     \* history: did a loop drop work it had?

vars == <<asked, conn, held, starts, recorded, events, stored, owner, pc, noticed,
          batch, attempts, resulted, gaveUp>>

\* The loops that wait for the executors, and all the loops.
Waiters == {"starts", "events"}
Loops   == Waiters \cup {"ready", "timeouts"}

\* The types, and: what an executor holds is being started or was.
ShutdownTypeOK ==
  /\ asked \in BOOLEAN /\ gaveUp \in BOOLEAN
  /\ conn \in [Executors -> {"connected", "draining", "gone"}]
  /\ \A e \in Executors :
       /\ conn[e] = "gone" => held[e] = {}
       /\ \A x \in held[e] : recorded[x] # "none"
  /\ starts \subseteq {x \in Executions : recorded[x] = "unstarted"}
  /\ events \in Seq(SUBSET Executions)
  /\ stored \in [Executions -> {"pending", "running", "ended"}]
  /\ pc \in [Loops -> {"idle", "check", "checked", "waiting", "awaiting", "calling", "ended"}]
  /\ batch \in [Loops -> SUBSET Executions]
  /\ attempts \in [Loops -> 1..MaxAttempts]

Init ==
  /\ asked = FALSE
  /\ conn = [e \in Executors |-> "connected"]
  /\ held = [e \in Executors |-> {}]
  /\ starts = {} /\ events = <<>>
  /\ recorded = [x \in Executions |-> "none"]
  /\ stored = [x \in Executions |-> "pending"]
  /\ owner = [x \in Executions |-> None]
  /\ pc = [l \in Loops |-> "idle"]
  /\ noticed = [l \in Loops |-> FALSE]
  /\ batch = [l \in Loops |-> {}]
  /\ attempts = [l \in Loops |-> 1]
  /\ resulted = {} /\ gaveUp = FALSE

Stop ==
  /\ ~asked
  /\ asked' = TRUE
  /\ UNCHANGED <<conn, held, starts, recorded, events, stored, owner, pc, noticed,
                 batch, attempts, resulted, gaveUp>>

loopVars == <<stored, owner, pc, noticed, batch, attempts, gaveUp>>

-----------------------------------------------------------------------------
(* Executors *)

PoolEmpty == \A e \in Executors : conn[e] = "gone"

\* An execution is accepted: explicitly before the executor's loop notices the
\* shutdown, or as soon as it is offered, while the ready loop runs.  (Bound: once.)
Accept(e, x) ==
  /\ \/ conn[e] = "connected"
     \/ conn[e] = "draining" /\ pc["ready"] # "ended"
  /\ stored[x] = "pending" /\ owner[x] = None
  /\ held' = [held EXCEPT ![e] = @ \cup {x}]
  /\ owner' = [owner EXCEPT ![x] = e]
  /\ recorded' = [recorded EXCEPT ![x] = "unstarted"]
  /\ starts' = starts \cup {x}
  /\ UNCHANGED <<asked, conn, events, stored, pc, noticed, batch, attempts, resulted, gaveUp>>

\* An executor leaves the pool with what it holds (drop_executor).
Gone(e) ==
  /\ conn' = [conn EXCEPT ![e] = "gone"]
  /\ held' = [held EXCEPT ![e] = {}]
  /\ events' = Append(events, held[e])

Finish(e, x) ==
  /\ x \in held[e]
  /\ resulted' = resulted \cup {x}
  /\ IF conn[e] = "draining" /\ held[e] = {x}
     THEN /\ conn' = [conn EXCEPT ![e] = "gone"]
          /\ events' = events \o <<{x}, {}>>
     ELSE events' = Append(events, {x}) /\ UNCHANGED conn
  /\ held' = [held EXCEPT ![e] = @ \ {x}]
  /\ UNCHANGED <<asked, starts, recorded, loopVars>>

Disconnect(e) ==
  /\ conn[e] # "gone"
  /\ Gone(e)
  /\ UNCHANGED <<asked, starts, recorded, resulted, loopVars>>

\* The loop of an executor notices the shutdown: nothing to wait for, or a grace
\* period begins.
Notice(e) ==
  /\ asked /\ conn[e] = "connected"
  /\ IF held[e] = {} THEN Gone(e)
     ELSE conn' = [conn EXCEPT ![e] = "draining"] /\ UNCHANGED <<held, events>>
  /\ UNCHANGED <<asked, starts, recorded, resulted, loopVars>>

\* Mutant: an executor that still runs something is waited for.
GraceElapses_waits(e) ==
  /\ conn[e] = "draining" /\ held[e] = {}
  /\ Gone(e)
  /\ UNCHANGED <<asked, starts, recorded, resulted, loopVars>>

\* The executor is told to cancel what it still runs.
GraceElapses(e) ==
  /\ conn[e] = "draining"
  /\ Gone(e)
  /\ UNCHANGED <<asked, starts, recorded, resulted, loopVars>>

-----------------------------------------------------------------------------
(* execution_starts_loop and executor_events_loop: waiting *)

Queued(l) == IF l = "starts" THEN starts # {} ELSE events # <<>>

\* The two conditions under which a loop ends, in the order they are evaluated.
FirstCheck(l) == PoolEmpty

\* Mutant: what is still in the channel is not looked for.
SecondCheck_none(l) == TRUE

\* Nothing is sent once the pool is empty.
SecondCheck(l) == ~Queued(l)

Go(l, to) == pc' = [pc EXCEPT ![l] = to]

waitVars == <<asked, conn, held, recorded, stored, owner, attempts, resulted>>

NoticeShutdown(l) ==
  /\ pc[l] = "idle" /\ asked
  /\ noticed' = [noticed EXCEPT ![l] = TRUE]
  /\ Go(l, "check")
  /\ UNCHANGED <<waitVars, starts, events, batch, gaveUp>>

Check(l) ==
  /\ \/ pc[l] = "check" /\ Go(l, IF FirstCheck(l) THEN "checked" ELSE "waiting")
     \/ pc[l] = "checked" /\ Go(l, IF SecondCheck(l) THEN "ended" ELSE "waiting")
  /\ UNCHANGED <<waitVars, starts, events, noticed, batch, gaveUp>>

\* Nothing arrived for 100 ms.
CheckAgain(l) ==
  /\ pc[l] = "waiting" /\ ~Queued(l)
  /\ Go(l, "check")
  /\ UNCHANGED <<waitVars, starts, events, noticed, batch, gaveUp>>

DeadlineElapses(l) ==
  /\ pc[l] = "waiting" /\ PoolEmpty
  /\ Go(l, "ended")
  /\ gaveUp' = (gaveUp \/ Queued(l))
  /\ UNCHANGED <<waitVars, starts, events, noticed, batch>>

\* All that is in the channel is taken.
Take(l) ==
  /\ pc[l] \in {"idle", "waiting"} /\ Queued(l)
  /\ IF l = "starts"
     THEN batch' = [batch EXCEPT ![l] = starts] /\ starts' = {} /\ UNCHANGED events
     ELSE batch' = [batch EXCEPT ![l] = UNION ToSet(events)] /\ events' = <<>> /\ UNCHANGED starts
  /\ Go(l, IF l = "starts" THEN "calling" ELSE "awaiting")
  /\ UNCHANGED <<waitVars, noticed, gaveUp>>

\* wait_for_starts returns: started, or one minute later.
StartsAwaited ==
  /\ pc["events"] = "awaiting"
  /\ Go("events", "calling")
  /\ UNCHANGED <<waitVars, starts, events, noticed, batch, gaveUp>>

-----------------------------------------------------------------------------
(* Backend calls, with retry_backend *)

Outcomes == IF BackendDown THEN {"error"} ELSE {"ok", "error", "lost"}

\* An attempt that fails is the last one during shutdown.
GivesUp(l) == asked /\ attempts[l] >= MaxAttempts

Effect(l) == stored' = [x \in Executions |->
  IF x \notin batch[l] \/ stored[x] = "ended" THEN stored[x]
  ELSE IF l = "starts" THEN "running" ELSE "ended"]

\* What is not running in the backend afterwards is cancelled.
StartsRecorded ==
  /\ recorded' = [x \in Executions |->
       IF x \in batch["starts"] /\ recorded[x] = "unstarted" THEN "started" ELSE recorded[x]]
  /\ held' = [e \in Executors |->
       {x \in held[e] : x \in batch["starts"] => stored[x] # "ended"}]

\* Cancelled and forgotten: most likely still pending.
StartsGivenUp ==
  /\ recorded' = [x \in Executions |->
       IF x \in batch["starts"] THEN "none" ELSE recorded[x]]
  /\ held' = [e \in Executors |-> held[e] \ batch["starts"]]

Call(l) ==
  /\ pc[l] = "calling"
  /\ \E outcome \in Outcomes :
       /\ IF outcome = "error" THEN UNCHANGED stored ELSE Effect(l)
       /\ IF outcome = "ok" \/ GivesUp(l)
          THEN /\ Go(l, IF noticed[l] THEN "check" ELSE "idle")
               /\ attempts' = [attempts EXCEPT ![l] = 1]
               /\ batch' = [batch EXCEPT ![l] = {}]
               /\ gaveUp' = (gaveUp \/ outcome # "ok")
               /\ IF l # "starts" THEN UNCHANGED <<recorded, held>>
                  ELSE IF outcome = "ok" THEN StartsRecorded ELSE StartsGivenUp
          ELSE /\ attempts' = [attempts EXCEPT ![l] = IF @ < MaxAttempts THEN @ + 1 ELSE @]
               /\ UNCHANGED <<pc, batch, gaveUp, recorded, held>>
  /\ UNCHANGED <<asked, conn, starts, events, owner, noticed, resulted>>

-----------------------------------------------------------------------------
(* The other loops *)

otherVars == <<asked, conn, held, starts, recorded, events, owner, noticed, batch,
               attempts, resulted, gaveUp>>

\* ready_executions_loop ends after a fetch, also one that failed, or its wait.
ReadyEnds ==
  /\ pc["ready"] # "ended" /\ asked
  /\ Go("ready", "ended")
  /\ UNCHANGED <<otherVars, stored>>

\* execution_timeouts_loop: a fetch that failed is repeated after 5 seconds.
FetchFails ==
  /\ pc["timeouts"] = "idle"
  /\ Go("timeouts", "checked")
  /\ UNCHANGED <<otherVars, stored>>

FetchRepeated ==
  /\ pc["timeouts"] = "checked"
  /\ Go("timeouts", "idle")
  /\ UNCHANGED <<otherVars, stored>>

\* What runs on an executor that is gone fails.
Fetch ==
  /\ pc["timeouts"] = "idle" /\ ~BackendDown
  /\ stored' = [x \in Executions |->
       IF stored[x] = "running" /\ conn[owner[x]] = "gone" THEN "ended" ELSE stored[x]]
  /\ Go("timeouts", "waiting")
  /\ UNCHANGED otherVars

FetchAgain ==
  /\ pc["timeouts"] = "waiting" /\ ~asked
  /\ Go("timeouts", "idle")
  /\ UNCHANGED <<otherVars, stored>>

TimeoutsEnd ==
  /\ pc["timeouts"] = "waiting" /\ asked
  /\ Go("timeouts", "ended")
  /\ UNCHANGED <<otherVars, stored>>

-----------------------------------------------------------------------------

WaiterStep(l) ==
  NoticeShutdown(l) \/ Check(l) \/ CheckAgain(l) \/ DeadlineElapses(l) \/ Take(l) \/ Call(l)

Next ==
  \/ Stop
  \/ \E e \in Executors :
       \/ Disconnect(e) \/ Notice(e) \/ GraceElapses(e)
       \/ \E x \in Executions : Accept(e, x) \/ Finish(e, x)
  \/ \E l \in Waiters : WaiterStep(l)
  \/ StartsAwaited
  \/ ReadyEnds \/ FetchFails \/ FetchRepeated \/ Fetch \/ FetchAgain \/ TimeoutsEnd

Spec == Init /\ [][Next]_vars

\* The tasks run, and time goes on.  A fetch is repeated, and succeeds if the
\* backend is not down for ever.  Nothing is assumed of the executors.
Fairness ==
  /\ \A e \in Executors : WF_vars(Notice(e)) /\ WF_vars(GraceElapses(e))
  /\ \A l \in Waiters : WF_vars(WaiterStep(l))
  /\ WF_vars(StartsAwaited) /\ WF_vars(ReadyEnds)
  /\ WF_vars(Fetch \/ FetchFails) /\ WF_vars(FetchRepeated) /\ SF_vars(Fetch)
  /\ WF_vars(TimeoutsEnd)

FairSpec == Spec /\ Fairness

-----------------------------------------------------------------------------
(* Properties *)

AllEnded == PoolEmpty /\ \A l \in Loops : pc[l] = "ended"

\* An executor is never left with an execution that nobody will start: the starts
\* loop outlives the executors.
StartsOutliveExecutors ==
  pc["starts"] = "ended" => \A e \in Executors : held[e] = {}

\* A shutdown in which no call was given up and no deadline passed over queued work
\* leaves nothing in progress in the backend, and records every result.
CleanShutdown ==
  (AllEnded /\ ~gaveUp) =>
    \A x \in Executions :
      stored[x] # "running" /\ (x \in resulted => stored[x] = "ended")

\* The types, and: executors are not left alone, nor what they have reported.
ShutdownInv == ShutdownTypeOK /\ StartsOutliveExecutors /\ CleanShutdown

\* The server stops: neither executors that never answer, nor calls that fail
\* ("the maximum attempts of backend operations during shutdown"), hold it.
ServerStops == asked ~> AllEnded
=============================================================================
