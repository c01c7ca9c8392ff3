---------------------------- MODULE ExecutorPool ----------------------------
(***************************************************************************)
(* The executor pool of the server: the connected executors, the           *)
(* executions offered to or accepted by each, and what the pool hands to   *)
(* the server's loops (accepted executions to start, results).  Each       *)
(* operation is atomic, as it holds the pool's lock.                       *)
(*                                                                         *)
(* Abstracted: one job queue per executor (a job type is its own pool),    *)
(* the order of ready executions and of the start queue, heartbeats and    *)
(* malformed messages (the loop of an executor may end at any moment), and *)
(* time: an offer may expire and a backoff may end at any moment.          *)
(***************************************************************************)
EXTENDS OraIds, Naturals, FiniteSets, Sequences

CONSTANTS
  Limits,      \* values of max_concurrent_executions
  Handshakes   \* which kinds of executors connect: with execution_handshake or not

ASSUME LimitsAssumption == Limits \subseteq Nat
ASSUME HandshakesAssumption == Handshakes \subseteq BOOLEAN

\* An execution is a UUID.
ASSUME FiniteAssumption == IsFiniteSet(Executions)

VARIABLES
  conn,       \* where the loop of an executor is
  open,       \* is the channel to the executor open?
  limit,      \* max_executions of the executor's queue
  handshake,  \* does the executor accept offers explicitly?
  held,       \* the executions in the executor's queue and their state
  backoff,    \* is backoff_until in the future?
  believed,   \* what the executor holds once it read all messages sent to it
  accepted,   \* AcceptedExecutions: unstarted, or started after/before the last fetch
  startQueue, \* the channel of accepted executions: <<execution, executor>>
  events,     \* the channel of results
  shutdown    \* has the server been asked to stop?

executorVars == <<conn, open, limit, handshake, held, backoff, believed>>
poolVars     == <<executorVars, accepted, startQueue, events, shutdown>>

ConnStates == {"absent", "connected", "ready", "draining", "ending", "gone"}
HeldStates == {"none", "offered", "accepted"}
Results    == {"succeeded", "failed"}
Event      == [xs : SUBSET Executions, result : Results]

\* The type of the pool's state.  Only an executor that is in the pool and sent
\* its capabilities has a queue.
PoolTypeOK ==
  /\ conn       \in [Executors -> ConnStates]
  /\ open       \in [Executors -> BOOLEAN]
  /\ limit      \in [Executors -> Nat]
  /\ handshake  \in [Executors -> BOOLEAN]
  /\ held       \in [Executors -> [Executions -> HeldStates]]
  /\ backoff    \in [Executors -> BOOLEAN]
  /\ believed   \in [Executors -> SUBSET Executions]
  /\ accepted   \in [Executions -> {"none", "unstarted", "after", "before"}]
  /\ startQueue \in SUBSET (Executions \X Executors)
  /\ events     \in Seq(Event)
  /\ shutdown   \in BOOLEAN
  /\ \A e \in Executors :
       /\ open[e] => conn[e] \notin {"absent", "gone"}
       /\ conn[e] \in {"absent", "connected", "gone"} =>
            \A x \in Executions : held[e][x] = "none"

PoolInit ==
  /\ conn       = [e \in Executors |-> "absent"]
  /\ open       = [e \in Executors |-> FALSE]
  /\ limit      = [e \in Executors |-> 0]
  /\ handshake  = [e \in Executors |-> FALSE]
  /\ held       = [e \in Executors |-> [x \in Executions |-> "none"]]
  /\ backoff    = [e \in Executors |-> FALSE]
  /\ believed   = [e \in Executors |-> {}]
  /\ accepted   = [x \in Executions |-> "none"]
  /\ startQueue = {}
  /\ events     = <<>>
  /\ shutdown   = FALSE

-----------------------------------------------------------------------------
(* What an executor holds *)

InPool(e)  == conn[e] \in {"connected", "ready", "draining", "ending"}
HeldBy(e)  == {x \in Executions : held[e][x] # "none"}
OfferedTo(e)  == {x \in Executions : held[e][x] = "offered"}
AssignedTo(e) == {x \in Executions : held[e][x] = "accepted"}

\* has_capacity of the executor's queue (only initialized executors have one).
HasCapacity(e) ==
  /\ conn[e] \in {"ready", "draining", "ending"}
  /\ ~backoff[e]
  /\ Cardinality(HeldBy(e)) < limit[e]

AnyCapacity == \E e \in Executors : HasCapacity(e)

\* in_flight_execution_ids: pending in the backend, but not to be offered.
InFlight ==
  (UNION {OfferedTo(e) : e \in Executors}) \cup {x \in Executions : accepted[x] = "unstarted"}

\* Executions leave the queue of e: the server tells the executor to cancel
\* them, or the executor reported that it is done with them.
Withdraw(e, xs) ==
  /\ held' = [held EXCEPT ![e] = [x \in Executions |-> IF x \in xs THEN "none" ELSE @[x]]]
  /\ believed' = [believed EXCEPT ![e] = @ \ xs]

-----------------------------------------------------------------------------
(* Offering *)

\* Mutant: an execution that was started and left the executor's queue since the
\* fetch is offered again.
Taken_heldOnly == UNION {HeldBy(e) : e \in Executors}

\* Mutant: only accepted executions are looked for.
Taken_acceptedOnly == {x \in Executions : accepted[x] \in {"unstarted", "after"}}

\* The executions try_offer does not offer: those some executor holds, and
\* those accepted ones that were not started before the fetch.
Taken ==
  (UNION {HeldBy(e) : e \in Executors})
  \cup {x \in Executions : accepted[x] \in {"unstarted", "after"}}

\* Mutant: the room is computed without the executions already offered.
Room_assignedOnly(e) ==
  IF conn[e] \in {"ready", "draining", "ending"} /\ open[e] /\ ~backoff[e]
  THEN limit[e] - Cardinality(AssignedTo(e)) ELSE 0

\* How many executions can be sent to e: none if the channel is closed.
Room(e) ==
  IF HasCapacity(e) /\ open[e] THEN limit[e] - Cardinality(HeldBy(e)) ELSE 0

\* The assignments try_offer can make for the executions xs: as many as there
\* is room for, each to some executor with room (they are shuffled).
Assignments(xs) ==
  {to \in UNION {[ys -> {e \in Executors : Room(e) > 0}] : ys \in SUBSET xs} :
     /\ \A e \in Executors : Cardinality({x \in DOMAIN to : to[x] = e}) <= Room(e)
     /\ DOMAIN to = xs \/ \A e \in Executors :
          Room(e) > 0 => Cardinality({x \in DOMAIN to : to[x] = e}) = Room(e)}

\* The effects of sending each x in DOMAIN to to executor to[x].
Offer(to) ==
  LET immediate == {x \in DOMAIN to : ~handshake[to[x]]} IN
  /\ held' = [e \in Executors |-> [x \in Executions |->
        IF x \in DOMAIN to /\ to[x] = e
        THEN IF handshake[e] THEN "offered" ELSE "accepted"
        ELSE held[e][x]]]
  /\ believed' = [e \in Executors |-> believed[e] \cup {x \in DOMAIN to : to[x] = e}]
  /\ accepted' = [x \in Executions |->
        IF x \in immediate THEN "unstarted"
        ELSE IF accepted[x] = "before" THEN "none" ELSE accepted[x]]
  /\ startQueue' = startQueue \cup {<<x, to[x]>> : x \in immediate}
  /\ UNCHANGED <<conn, open, limit, handshake, backoff, events, shutdown>>

\* try_offer for the ready executions xs.
TryOffer(xs) == xs # {} /\ \E to \in Assignments(xs \ Taken) : Offer(to)

\* A new fetch of ready executions: fetched_at is now.
StampFetch ==
  /\ accepted' = [x \in Executions |-> IF accepted[x] = "after" THEN "before" ELSE accepted[x]]
  /\ UNCHANGED <<executorVars, startQueue, events, shutdown>>

-----------------------------------------------------------------------------
(* Calls of the server's loops *)

\* accepted_executions_started
MarkStarted(xs) ==
  /\ accepted' = [x \in Executions |->
        IF x \in xs /\ accepted[x] # "none" THEN "after" ELSE accepted[x]]
  /\ UNCHANGED <<executorVars, startQueue, events, shutdown>>

\* accepted_executions_not_started
ForgetAccepted(xs) ==
  /\ accepted' = [x \in Executions |-> IF x \in xs THEN "none" ELSE accepted[x]]
  /\ UNCHANGED <<executorVars, startQueue, events, shutdown>>

\* Mutant: the executors are not told to cancel.
CancelIds_silent(xs) ==
  /\ held' = [e \in Executors |-> [x \in Executions |->
        IF x \in xs THEN "none" ELSE held[e][x]]]
  /\ UNCHANGED <<conn, open, limit, handshake, backoff, believed, accepted, startQueue,
                 events, shutdown>>

\* cancel_execution_ids: at most one executor holds an execution (HeldOnce).
CancelIds(xs) ==
  /\ held' = [e \in Executors |-> [x \in Executions |->
        IF x \in xs THEN "none" ELSE held[e][x]]]
  /\ believed' = [e \in Executors |-> believed[e] \ xs]
  /\ UNCHANGED <<conn, open, limit, handshake, backoff, accepted, startQueue, events, shutdown>>

\* The starts loop receives a batch of accepted executions.
TakeStarts(batch) ==
  /\ startQueue' = startQueue \ batch
  /\ UNCHANGED <<executorVars, accepted, events, shutdown>>

\* The events loop receives the n oldest events.
TakeEvents(n) ==
  /\ events' = SubSeq(events, n + 1, Len(events))
  /\ UNCHANGED <<executorVars, accepted, startQueue, shutdown>>

-----------------------------------------------------------------------------
(* The loop of one executor *)

\* add_executor
Connect(e) ==
  /\ conn[e] = "absent"
  /\ conn' = [conn EXCEPT ![e] = "connected"]
  /\ open' = [open EXCEPT ![e] = TRUE]
  /\ UNCHANGED <<limit, handshake, held, backoff, believed, accepted, startQueue, events, shutdown>>

\* The executor's connection is lost; its loop notices later.
LoseConnection(e) ==
  /\ InPool(e) /\ open[e]
  /\ open' = [open EXCEPT ![e] = FALSE]
  /\ UNCHANGED <<conn, limit, handshake, held, backoff, believed, accepted, startQueue,
                 events, shutdown>>

\* drop_executor, for whatever reason the loop ends: the accepted executions
\* are reported by one event (an event without executions has no effect, and
\* is left out).  Nothing about the executor is kept.
Drop(e) ==
  /\ InPool(e)
  /\ conn' = [conn EXCEPT ![e] = "gone"]
  /\ open' = [open EXCEPT ![e] = FALSE]
  /\ limit' = [limit EXCEPT ![e] = 0]
  /\ handshake' = [handshake EXCEPT ![e] = FALSE]
  /\ held' = [held EXCEPT ![e] = [x \in Executions |-> "none"]]
  /\ believed' = [believed EXCEPT ![e] = {}]
  /\ backoff' = [backoff EXCEPT ![e] = FALSE]
  /\ events' = IF AssignedTo(e) = {} THEN events
               ELSE Append(events, [xs |-> AssignedTo(e), result |-> "failed"])
  /\ UNCHANGED <<accepted, startQueue, shutdown>>

\* A message of e is handled while its loop runs and both directions are open.
Hears(e) == conn[e] \in {"connected", "ready", "draining"} /\ open[e]

\* Capabilities, sent once (a second message is a reason to Drop).
Capabilities(e, n, h) ==
  /\ Hears(e) /\ conn[e] = "connected"
  /\ conn' = [conn EXCEPT ![e] = "ready"]
  /\ limit' = [limit EXCEPT ![e] = n]
  /\ handshake' = [handshake EXCEPT ![e] = h]
  /\ UNCHANGED <<open, held, backoff, believed, accepted, startQueue, events, shutdown>>

\* ExecutionAccepted for an execution that is still offered to e.  (Otherwise
\* the message is ignored, or answered by another cancellation.)
AcceptOffer(e, x) ==
  /\ Hears(e) /\ held[e][x] = "offered" /\ conn[e] # "draining"
  /\ held' = [held EXCEPT ![e][x] = "accepted"]
  /\ backoff' = [backoff EXCEPT ![e] = FALSE]
  /\ accepted' = [accepted EXCEPT ![x] = "unstarted"]
  /\ startQueue' = startQueue \cup {<<x, e>>}
  /\ UNCHANGED <<conn, open, limit, handshake, believed, events, shutdown>>

\* ExecutionAccepted after the shutdown was noticed: the executor must not run it.
AcceptWhileDraining(e, x) ==
  /\ Hears(e) /\ held[e][x] = "offered" /\ conn[e] = "draining"
  /\ Withdraw(e, {x})
  /\ UNCHANGED <<conn, open, limit, handshake, backoff, accepted, startQueue, events, shutdown>>

\* A draining executor that holds no accepted execution but those in done is
\* not waited for: its loop ends after the message.
DoneDraining(e, done) ==
  conn' = IF conn[e] = "draining" /\ AssignedTo(e) \subseteq done
          THEN [conn EXCEPT ![e] = "ending"] ELSE conn

\* ExecutionRejected of an offer (of an accepted execution it is ignored).
RejectOffer(e, x) ==
  /\ Hears(e) /\ held[e][x] = "offered"
  /\ Withdraw(e, {x})
  /\ backoff' = [backoff EXCEPT ![e] = TRUE]
  /\ DoneDraining(e, {})
  /\ UNCHANGED <<open, limit, handshake, accepted, startQueue, events, shutdown>>

\* ExecutionSucceeded or ExecutionFailed for an accepted execution.
Finish(e, x, result) ==
  /\ Hears(e) /\ held[e][x] = "accepted"
  /\ events' = Append(events, [xs |-> {x}, result |-> result])
  /\ Withdraw(e, {x})
  /\ DoneDraining(e, {x})
  /\ UNCHANGED <<open, limit, handshake, backoff, accepted, startQueue, shutdown>>

\* The same for an execution that was not accepted: the result is ignored.
FinishOffered(e, x) ==
  /\ Hears(e) /\ held[e][x] = "offered"
  /\ Withdraw(e, {x})
  /\ UNCHANGED <<conn, open, limit, handshake, backoff, accepted, startQueue, events, shutdown>>

\* The same for an accepted one, with an invalid timestamp: the result is lost, the loop ends (Drop).
FinishInvalid(e, x) ==
  /\ Hears(e) /\ held[e][x] = "accepted"
  /\ Withdraw(e, {x})
  /\ conn' = [conn EXCEPT ![e] = "ending"]
  /\ UNCHANGED <<open, limit, handshake, backoff, accepted, startQueue, events, shutdown>>

\* The offer check: expired offers count as rejections.
ExpireOffers(e, xs) ==
  /\ conn[e] = "ready" /\ xs # {} /\ xs \subseteq OfferedTo(e)
  /\ Withdraw(e, xs)
  /\ backoff' = [backoff EXCEPT ![e] = TRUE]
  /\ UNCHANGED <<conn, open, limit, handshake, accepted, startQueue, events, shutdown>>

BackoffEnds(e) ==
  /\ backoff[e]
  /\ backoff' = [backoff EXCEPT ![e] = FALSE]
  /\ UNCHANGED <<conn, open, limit, handshake, held, believed, accepted, startQueue,
                 events, shutdown>>

BeginShutdown ==
  /\ ~shutdown
  /\ shutdown' = TRUE
  /\ UNCHANGED <<executorVars, accepted, startQueue, events>>

\* wg.waiting: offers are withdrawn, and the loop goes on only to wait for
\* accepted executions.  (Without a grace period it ends at once: Drop.)
NoticeShutdown(e) ==
  /\ shutdown /\ conn[e] \in {"connected", "ready"}
  /\ conn' = [conn EXCEPT ![e] = IF AssignedTo(e) = {} THEN "ending" ELSE "draining"]
  /\ Withdraw(e, OfferedTo(e))
  /\ UNCHANGED <<open, limit, handshake, backoff, accepted, startQueue, events, shutdown>>

\* The grace period is over: the executor is told to cancel what it runs, and
\* the executions stay in its queue until the loop ends (Drop).
GraceElapses(e) ==
  /\ conn[e] = "draining"
  /\ conn' = [conn EXCEPT ![e] = "ending"]
  /\ believed' = [believed EXCEPT ![e] = @ \ AssignedTo(e)]
  /\ UNCHANGED <<open, limit, handshake, held, backoff, accepted, startQueue, events, shutdown>>

\* Everything the loop of e does, for any messages of the executor.
ExecutorStep(e) ==
  \/ Connect(e)
  \/ LoseConnection(e)
  \/ Drop(e)
  \/ \E n \in Limits, h \in Handshakes : Capabilities(e, n, h)
  \/ \E x \in Executions :
       \/ AcceptOffer(e, x)
       \/ AcceptWhileDraining(e, x)
       \/ RejectOffer(e, x)
       \/ \E result \in Results : Finish(e, x, result)
       \/ FinishOffered(e, x)
       \/ FinishInvalid(e, x)
  \/ \E xs \in SUBSET Executions : ExpireOffers(e, xs)
  \/ BackoffEnds(e)
  \/ NoticeShutdown(e)
  \/ GraceElapses(e)

-----------------------------------------------------------------------------
(* The pool under arbitrary callers *)

CONSTANT MaxEvents   \* bound for model checking: length of the events channel

PoolNext ==
  /\ \/ \E e \in Executors : ExecutorStep(e)
     \/ \E xs \in SUBSET Executions :
          TryOffer(xs) \/ MarkStarted(xs) \/ ForgetAccepted(xs) \/ CancelIds(xs)
     \/ StampFetch
     \/ \E batch \in SUBSET startQueue : TakeStarts(batch)
     \/ \E n \in 1..Len(events) : TakeEvents(n)
     \/ BeginShutdown
  /\ Len(events') <= MaxEvents

PoolSpec == PoolInit /\ [][PoolNext]_poolVars

-----------------------------------------------------------------------------
(* Properties *)

\* No execution is offered to or accepted by two executors at once, whatever
\* stale batches of ready executions are offered.
HeldOnce ==
  \A x \in Executions, d, e \in Executors : x \in HeldBy(d) \cap HeldBy(e) => d = e

\* An executor is never given more executions than it announced.
WithinLimit == \A e \in Executors : Cardinality(HeldBy(e)) <= limit[e]

\* No execution is silently dropped: an executor never keeps running something
\* that the server has withdrawn without telling it, and the server holds
\* nothing the executor does not know of or was told to cancel (unless the
\* executor's loop is about to end and to report it).
BeliefsAgree ==
  \A e \in Executors :
    /\ believed[e] \subseteq HeldBy(e)
    /\ HeldBy(e) \subseteq believed[e] \/ conn[e] = "ending"
=============================================================================
