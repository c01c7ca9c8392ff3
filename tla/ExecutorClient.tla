---------------------------- MODULE ExecutorClient ----------------------------
(***************************************************************************)
(* An executor of the client library: the task that connects and           *)
(* reconnects, the loop of each connection, and the executions that run.   *)
(* The executions of a lost connection go on running, cancelled, next to   *)
(* those of the next one.                                                  *)
(*                                                                         *)
(* Abstracted: one job type, heartbeats, the failure callback, malformed   *)
(* messages (offers that may be rejected for any reason), and time.        *)
(***************************************************************************)
EXTENDS OraIds, Naturals, FiniteSets, Sequences

CONSTANTS
  Connections,   \* the connections the executor makes, in order
  MaxConcurrent  \* max_concurrent_jobs of the queue, at least one slot

ASSUME ClientAssumption ==
  /\ IsFiniteSet(Executions)
  /\ Connections \in Nat \ {0} /\ MaxConcurrent \in Nat

VARIABLES
  main,      \* the main loop: connecting, connected, backoff, stopping, stopped
  cur,       \* its connection
  asked,         \* was the executor asked to stop?
  link,      \* of a connection: none, up, down
  loop,      \* executor_loop of a connection: none, running, ended
  run,       \* run_execution of an execution offered over a connection
  cancelled, \* the executions of a connection whose cancellation token is set
  toClient,  \* messages on their way to the executor
  toServer   \* messages on their way to the server

clientVars == <<main, cur, asked, link, loop, run, cancelled, toClient, toServer>>

Conns == 1..Connections

RunStates == {"none", "spawned", "admitting", "handling", "leaving"}

Ready(x)     == [type |-> "ready", x |-> x]
Cancelled(x) == [type |-> "cancelled", x |-> x]
Accepted(x)  == [type |-> "accepted", x |-> x]
Rejected(x)  == [type |-> "rejected", x |-> x]
Result(x)    == [type |-> "result", x |-> x]

InTransit(channel, msg) == \E i \in DOMAIN channel : channel[i] = msg

ClientInit ==
  /\ main = "connecting" /\ cur = 1 /\ asked = FALSE
  /\ link = [c \in Conns |-> "none"]
  /\ loop = [c \in Conns |-> IF c = 1 THEN "running" ELSE "none"]
  /\ run = [c \in Conns |-> [x \in Executions |-> "none"]]
  /\ cancelled = [c \in Conns |-> {}]
  /\ toClient = [c \in Conns |-> <<>>]
  /\ toServer = [c \in Conns |-> <<>>]

-----------------------------------------------------------------------------
(* Connections *)

\* Messages for the server are lost once the stream has ended.
Send(c, msg) ==
  toServer' = [toServer EXCEPT ![c] = IF link[c] = "up" THEN Append(@, msg) ELSE @]

ActiveExecutions(c) == {x \in Executions : run[c][x] # "none"}

CancelAll(c) == cancelled' = [cancelled EXCEPT ![c] = @ \cup ActiveExecutions(c)]

\* connection_loop ends: refused, the stream ended or failed.  What was received
\* of the stream is still read by the loop of the connection.
ConnectionEnds ==
  /\ main = "connecting" \/ (main = "connected" /\ link[cur] = "down")
  /\ main' = "backoff"
  /\ link' = [link EXCEPT ![cur] = "down"]
  /\ \E n \in 0..Len(toClient[cur]) :
       toClient' = [toClient EXCEPT ![cur] = SubSeq(@, 1, n)]
  /\ UNCHANGED <<cur, asked, loop, run, cancelled, toServer>>

\* After 5 seconds, also when the executor was asked to stop.
Reconnect ==
  /\ main = "backoff" /\ cur < Connections
  /\ cur' = cur + 1
  /\ main' = "connecting"
  /\ loop' = [loop EXCEPT ![cur + 1] = "running"]
  /\ UNCHANGED <<asked, link, run, cancelled, toClient, toServer>>

AskToStop ==
  /\ ~asked
  /\ asked' = TRUE
  /\ UNCHANGED <<main, cur, link, loop, run, cancelled, toClient, toServer>>

\* The main loop waits for the group of the executions from here on, and
\* does not read the stream any more.
ShutDown ==
  /\ asked /\ main \in {"connecting", "connected"}
  /\ main' = "stopping"
  /\ UNCHANGED <<cur, asked, link, loop, run, cancelled, toClient, toServer>>

\* The group of the executions is done: the stream is dropped.
Stopped ==
  /\ main = "stopping"
  /\ \A c \in Conns : loop[c] # "running" /\ ActiveExecutions(c) = {}
  /\ main' = "stopped"
  /\ link' = [link EXCEPT ![cur] = "down"]
  /\ UNCHANGED <<cur, asked, loop, run, cancelled, toClient, toServer>>

-----------------------------------------------------------------------------
(* executor_loop *)

\* Mutant: an offer of an execution that is still running is dropped.
Offered_unanswered(c, x) ==
  /\ run' = [run EXCEPT ![c][x] = IF @ = "none" THEN "spawned" ELSE @]
  /\ UNCHANGED <<cancelled, toServer>>

\* An offer starts a task, unless an earlier run of the execution is active.
Offered(c, x) ==
  IF run[c][x] = "none"
  THEN /\ run' = [run EXCEPT ![c][x] = "spawned"]
       /\ UNCHANGED <<cancelled, toServer>>
  ELSE Send(c, Rejected(x)) /\ UNCHANGED <<run, cancelled>>

Cancel(c, x) ==
  /\ cancelled' = [cancelled EXCEPT ![c] = @ \cup ({x} \cap ActiveExecutions(c))]
  /\ UNCHANGED <<run, toServer>>

\* The loop reads a message, unless the executor is stopping (biased).
Receive(c) ==
  /\ loop[c] = "running" /\ main # "stopping" /\ toClient[c] # <<>>
  /\ toClient' = [toClient EXCEPT ![c] = Tail(@)]
  /\ LET msg == Head(toClient[c]) IN
       \/ msg.type = "ready" /\ Offered(c, msg.x)
       \/ msg.type = "cancelled" /\ Cancel(c, msg.x)
       \/ /\ msg.type = "properties"
          /\ Send(c, [type |-> "capabilities"])
          /\ UNCHANGED <<run, cancelled>>
  /\ UNCHANGED <<main, cur, asked, link, loop>>

\* Mutant: the executions are left to end by themselves.
LoopEnds_keepsRunning(c) ==
  /\ loop[c] = "running"
  /\ \/ main = "stopping"
     \/ toClient[c] = <<>> /\ (c < cur \/ main = "backoff")
  /\ loop' = [loop EXCEPT ![c] = "ended"]
  /\ toClient' = [toClient EXCEPT ![c] = <<>>]
  /\ UNCHANGED <<main, cur, asked, link, run, cancelled, toServer>>

\* The executor is stopping, or the channel from connection_loop is closed.
LoopEnds(c) ==
  /\ loop[c] = "running"
  /\ \/ main = "stopping"
     \/ toClient[c] = <<>> /\ (c < cur \/ main = "backoff")
  /\ loop' = [loop EXCEPT ![c] = "ended"]
  /\ toClient' = [toClient EXCEPT ![c] = <<>>]
  /\ CancelAll(c)
  /\ UNCHANGED <<main, cur, asked, link, run, toServer>>

-----------------------------------------------------------------------------
(* run_execution *)

\* QueueSlot: the slots of a queue, shared by all connections.
Slots ==
  {r \in Conns \X Executions : run[r[1]][r[2]] \in {"admitting", "handling", "leaving"}}

MaxSlots == IF MaxConcurrent = 0 THEN 1 ELSE MaxConcurrent

Step(c, x, from, to) ==
  /\ run[c][x] = from
  /\ run' = [run EXCEPT ![c][x] = to]
  /\ UNCHANGED <<main, cur, asked, link, loop, cancelled, toClient>>

\* A slot is reserved and the guards are asked.
Reserve(c, x) ==
  /\ Cardinality(Slots) < MaxSlots
  /\ Step(c, x, "spawned", "admitting") /\ UNCHANGED toServer

\* Rejected without a slot: the offer is not valid here, or there is no slot.
RejectAtOnce(c, x) ==
  /\ run[c][x] = "spawned"
  /\ run' = [run EXCEPT ![c][x] = "none"]
  /\ cancelled' = [cancelled EXCEPT ![c] = @ \ {x}]
  /\ Send(c, Rejected(x))
  /\ UNCHANGED <<main, cur, asked, link, loop, toClient>>

\* The guards accept, reject (or panic, or time out) ...
Accept(c, x) == Step(c, x, "admitting", "handling") /\ Send(c, Accepted(x))

Reject(c, x) == Step(c, x, "admitting", "leaving") /\ Send(c, Rejected(x))

\* ... or the offer is withdrawn first, or nobody listens any more.
GiveUp(c, x) ==
  /\ x \in cancelled[c] \/ link[c] = "down"
  /\ Step(c, x, "admitting", "leaving") /\ UNCHANGED toServer

\* The handler returned or panicked, cancelled or not.
HandlerReturns(c, x) == Step(c, x, "handling", "leaving") /\ Send(c, Result(x))

\* The grace period of a cancelled handler elapsed.
DropHandler(c, x) ==
  /\ x \in cancelled[c]
  /\ Step(c, x, "handling", "leaving") /\ UNCHANGED toServer

\* The slot and the entry in ActiveExecutions are dropped.
Leave(c, x) ==
  /\ run[c][x] = "leaving"
  /\ run' = [run EXCEPT ![c][x] = "none"]
  /\ cancelled' = [cancelled EXCEPT ![c] = @ \ {x}]
  /\ UNCHANGED <<main, cur, asked, link, loop, toClient, toServer>>

RunExecution(c, x) ==
  \/ Reserve(c, x) \/ RejectAtOnce(c, x)
  \/ Accept(c, x) \/ Reject(c, x) \/ GiveUp(c, x)
  \/ HandlerReturns(c, x) \/ DropHandler(c, x)
  \/ Leave(c, x)

=============================================================================
