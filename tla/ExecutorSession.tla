--------------------------- MODULE ExecutorSession ---------------------------
(***************************************************************************)
(* An executor of the client library and the server it is connected to:    *)
(* offers, answers, results and cancellations cross each other on the two  *)
(* directions of a stream that may break at any moment.  The server is its *)
(* executor pool as far as this executor is concerned.                     *)
(*                                                                         *)
(* The executions in Late may be offered to the executor again before      *)
(* their answer to an earlier, expired offer has arrived.  For the others  *)
(* the backoff after the expiry outlasts what was on its way.              *)
(***************************************************************************)
EXTENDS ExecutorClient

CONSTANTS
  Late,
  MaxMessages  \* bounds what is on its way in each direction

ASSUME SessionAssumption == Late \subseteq Executions /\ MaxMessages \in Nat

VARIABLES
  pool,     \* of a connection: none, connected, ready, gone
  held,     \* the executions in the executor's queue: none, offered, accepted
  pending   \* the executions that are pending in the backend

sessionVars == <<clientVars, pool, held, pending>>

\* Types, and: only a connection that is ready holds executions, and only one.
SessionTypeOK ==
  /\ main \in {"connecting", "connected", "backoff", "stopping", "stopped"}
  /\ cur \in Conns
  /\ asked \in BOOLEAN
  /\ link \in [Conns -> {"none", "up", "down"}]
  /\ loop \in [Conns -> {"none", "running", "ended"}]
  /\ run \in [Conns -> [Executions -> RunStates]]
  /\ \A c \in Conns : cancelled[c] \subseteq ActiveExecutions(c)
  /\ pool \in [Conns -> {"none", "connected", "ready", "gone"}]
  /\ held \in [Conns -> [Executions -> {"none", "offered", "accepted"}]]
  /\ pending \subseteq Executions
  /\ \A c \in Conns, x \in Executions : held[c][x] # "none" =>
       /\ pool[c] = "ready"
       /\ held[c][x] = "offered" => x \in pending
       /\ \A d \in Conns \ {c} : held[d][x] = "none"

SessionInit ==
  /\ ClientInit
  /\ pool = [c \in Conns |-> "none"]
  /\ held = [c \in Conns |-> [x \in Executions |-> "none"]]
  /\ pending = Executions

-----------------------------------------------------------------------------
(* The server *)

HeldBy(c) == {x \in Executions : held[c][x] # "none"}

\* Nobody reads what is sent once the loop of the connection has ended.
Tell(c, msgs) == toClient' = [toClient EXCEPT ![c] = IF loop[c] = "ended" THEN <<>> ELSE @ \o msgs]

\* add_executor
Connect ==
  /\ main = "connecting" /\ pool[cur] = "none"
  /\ pool' = [pool EXCEPT ![cur] = "connected"]
  /\ main' = "connected"
  /\ link' = [link EXCEPT ![cur] = "up"]
  /\ Tell(cur, <<[type |-> "properties"]>>)
  /\ UNCHANGED <<cur, asked, loop, run, cancelled, toServer, held, pending>>

\* Has the executor answered all it was offered of x over c?
Settled(c, x) ==
  /\ ~InTransit(toClient[c], Ready(x)) /\ ~InTransit(toServer[c], Accepted(x))
  /\ run[c][x] \notin {"spawned", "admitting"}

\* try_offer.
Offer(c, x) ==
  /\ pool[c] = "ready" /\ link[c] = "up"
  /\ x \in pending /\ \A d \in Conns : held[d][x] = "none"
  /\ Cardinality(HeldBy(c)) < MaxSlots
  /\ x \in Late \/ Settled(c, x)
  /\ Len(toClient[c]) < MaxMessages
  /\ held' = [held EXCEPT ![c][x] = "offered"]
  /\ Tell(c, <<Ready(x)>>)
  /\ UNCHANGED <<main, cur, asked, link, loop, run, cancelled, toServer, pool, pending>>

\* Offers expire: OFFER_TIMEOUT elapsed since they were sent.
Expire(c, xs) ==
  /\ xs # {} /\ \A x \in xs : held[c][x] = "offered"
  /\ Len(toClient[c]) < MaxMessages
  /\ held' = [held EXCEPT ![c] = [x \in Executions |-> IF x \in xs THEN "none" ELSE @[x]]]
  /\ \E order \in [1..Cardinality(xs) -> xs] :
       /\ \A x \in xs : \E i \in DOMAIN order : order[i] = x
       /\ Tell(c, [i \in DOMAIN order |-> Cancelled(order[i])])
  /\ UNCHANGED <<main, cur, asked, link, loop, run, cancelled, toServer, pool, pending>>

\* The job of x is cancelled, or x timed out.
CancelExecution(x) ==
  /\ x \in pending \/ \E c \in Conns : held[c][x] = "accepted"
  /\ \A c \in Conns : Len(toClient[c]) < MaxMessages
  /\ pending' = pending \ {x}
  /\ held' = [c \in Conns |-> [held[c] EXCEPT ![x] = "none"]]
  /\ toClient' = [c \in Conns |->
       IF held[c][x] # "none" /\ loop[c] = "running"
       THEN Append(toClient[c], Cancelled(x)) ELSE toClient[c]]
  /\ UNCHANGED <<main, cur, asked, link, loop, run, cancelled, toServer, pool>>

\* Mutant: an executor that accepts what it was not offered is not told.
HearAccepted_silent(c, x) ==
  /\ held' = [held EXCEPT ![c][x] = IF @ = "offered" THEN "accepted" ELSE @]
  /\ pending' = IF held[c][x] = "offered" THEN pending \ {x} ELSE pending
  /\ UNCHANGED toClient

\* An acceptance of an offer that was withdrawn is answered with a cancellation.
HearAccepted(c, x) ==
  IF held[c][x] = "none"
  THEN Tell(c, <<Cancelled(x)>>) /\ UNCHANGED <<held, pending>>
  ELSE /\ held' = [held EXCEPT ![c][x] = "accepted"]
       /\ pending' = pending \ {x}
       /\ UNCHANGED toClient

\* A rejection of an execution that was accepted is ignored.
HearRejected(c, x) ==
  /\ held' = [held EXCEPT ![c][x] = IF @ = "offered" THEN "none" ELSE @]
  /\ UNCHANGED <<toClient, pending>>

\* A result of an execution that was only offered takes back the offer.
HearResult(c, x) ==
  /\ held' = [held EXCEPT ![c][x] = "none"]
  /\ UNCHANGED <<toClient, pending>>

\* executor_loop handles a message.
Hear(c) ==
  /\ pool[c] \in {"connected", "ready"} /\ toServer[c] # <<>>
  /\ Len(toClient[c]) < MaxMessages
  /\ toServer' = [toServer EXCEPT ![c] = Tail(@)]
  /\ LET msg == Head(toServer[c]) IN
       \/ /\ msg.type = "capabilities"
          /\ pool' = [pool EXCEPT ![c] = "ready"]
          /\ UNCHANGED <<held, pending, toClient>>
       \/ msg.type = "accepted" /\ HearAccepted(c, msg.x) /\ UNCHANGED pool
       \/ msg.type = "rejected" /\ HearRejected(c, msg.x) /\ UNCHANGED pool
       \/ msg.type = "result" /\ HearResult(c, msg.x) /\ UNCHANGED pool
  /\ UNCHANGED <<main, cur, asked, link, loop, run, cancelled>>

\* drop_executor: the stream ended, no heartbeat came in time, or the server
\* stops.  What was offered stays pending.
Drop(c) ==
  /\ pool[c] \in {"connected", "ready"}
  /\ pool' = [pool EXCEPT ![c] = "gone"]
  /\ held' = [held EXCEPT ![c] = [x \in Executions |-> "none"]]
  /\ link' = [link EXCEPT ![c] = "down"]
  /\ toServer' = [toServer EXCEPT ![c] = <<>>]
  /\ UNCHANGED <<main, cur, asked, loop, run, cancelled, toClient, pending>>

\* The network loses the connection.
Break(c) ==
  /\ link[c] = "up"
  /\ link' = [link EXCEPT ![c] = "down"]
  /\ UNCHANGED <<main, cur, asked, loop, run, cancelled, toClient, toServer, pool, held, pending>>

-----------------------------------------------------------------------------

Main == ConnectionEnds \/ Reconnect \/ ShutDown \/ Stopped

Client(c) ==
  \/ Len(toServer[c]) < MaxMessages /\ Receive(c)
  \/ LoopEnds(c)
  \/ \E x \in Executions : RunExecution(c, x)

Server(c) ==
  \/ Hear(c) \/ Drop(c)
  \/ \E x \in Executions : Offer(c, x)
  \/ \E xs \in SUBSET Executions : Expire(c, xs)

SessionNext ==
  \/ Connect
  \/ (Main \/ AskToStop) /\ UNCHANGED <<pool, held, pending>>
  \/ \E c \in Conns :
       \/ Client(c) /\ UNCHANGED <<pool, held, pending>>
       \/ Server(c) \/ Break(c)
  \/ \E x \in Executions : CancelExecution(x)

SessionSpec == SessionInit /\ [][SessionNext]_sessionVars

\* Both programs run, a stream that is down is noticed, and the guards, which
\* have a timeout, end.  Handlers need not return, but a cancelled one is dropped.
SessionFairness ==
  /\ WF_sessionVars(Main /\ UNCHANGED <<pool, held, pending>>)
  /\ \A c \in Conns :
       /\ WF_sessionVars(Hear(c)) /\ WF_sessionVars(link[c] = "down" /\ Drop(c))
       /\ WF_sessionVars((Receive(c) \/ LoopEnds(c)) /\ UNCHANGED <<pool, held, pending>>)
       /\ \A x \in Executions :
            /\ WF_sessionVars((Reserve(c, x) \/ RejectAtOnce(c, x)) /\ UNCHANGED <<pool, held, pending>>)
            /\ WF_sessionVars((Accept(c, x) \/ Reject(c, x) \/ GiveUp(c, x))
                         /\ UNCHANGED <<pool, held, pending>>)
            /\ WF_sessionVars(DropHandler(c, x) /\ UNCHANGED <<pool, held, pending>>)
            /\ WF_sessionVars(Leave(c, x) /\ UNCHANGED <<pool, held, pending>>)

SessionFairSpec == SessionSpec /\ SessionFairness

-----------------------------------------------------------------------------
(* Properties *)

\* The executor never runs more executions than it has slots, also while those of
\* an earlier connection are still ending (which the server knows nothing of).
SlotsWithinLimit ==
  Cardinality({r \in Conns \X Executions : run[r[1]][r[2]] \in {"admitting", "handling"}})
    <= MaxSlots

\* An execution that runs although the server does not count on it is cancelled,
\* or will be: the cancellation is on its way, or the acceptance that asks for it.
StrayRunIsCancelled ==
  \A c \in Conns, x \in Executions :
    (run[c][x] = "handling" /\ link[c] = "up" /\ main # "stopping") =>
      \/ held[c][x] # "none"
      \/ x \in cancelled[c]
      \/ InTransit(toClient[c], Cancelled(x))
      \/ InTransit(toServer[c], Accepted(x))

\* An execution the server takes for running on an executor is run by it, or about
\* to be, or its result is on its way: the server waits for it without limit and
\* ignores a rejection.  (The executor drops its executions when it stops, and then
\* ends the stream.)
AcceptedIsRun ==
  \A c \in Conns, x \in Executions \ Late :
    (held[c][x] = "accepted" /\ link[c] = "up" /\ main # "stopping") =>
      \/ run[c][x] \in {"spawned", "admitting", "handling"}
      \/ InTransit(toClient[c], Ready(x)) \/ InTransit(toServer[c], Result(x))

\* What runs and what the server takes for running agree up to the messages on
\* their way, within the executor's slots, and executions are held once.
SidesAgree == SessionTypeOK /\ SlotsWithinLimit /\ StrayRunIsCancelled /\ AcceptedIsRun

\* Every offer is answered or withdrawn, also one that crosses a cancellation.
OfferIsAnswered ==
  \A c \in Conns, x \in Executions : (held[c][x] = "offered") ~> (held[c][x] # "offered")

\* An executor that is asked to stop does so, whatever its handlers do.
ExecutorStops == asked ~> (main = "stopped" \/ (main = "backoff" /\ cur = Connections))
=============================================================================
