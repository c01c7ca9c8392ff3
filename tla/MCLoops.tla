------------------------------ MODULE MCLoops ------------------------------
(***************************************************************************)
(* The loops that hand out work: the schedule loop with its backend, what  *)
(* wakes up the loop of ready executions, the backoffs, and an executor    *)
(* with the server over a stream.                                          *)
(*                                                                         *)
(* These parts share no state.  A behaviour is one of a single part: the   *)
(* others stay in their first state.                                       *)
(***************************************************************************)
EXTENDS Scheduler, ExecutorSession, Notifications, Backoff

VARIABLE part  \* which part moves

\* An interval that ends, and one that begins late.
Every(n, immediate, missed, start, end) ==
  [policy |-> [kind |-> "interval", interval |-> n], immediate |-> immediate,
   missed |-> missed, start |-> start, end |-> end]
LoopDefs ==
  [s \in Schedules |-> IF s = 1 THEN {Every(2, FALSE, "create", NoTime, 3)}
                       ELSE {Every(2, TRUE, "skip", 1, NoTime)}]

OfType == <<"a", "a", "b">>

\* Execution 1, whose answers may be late, over two connections with one message on
\* its way in each direction;
Crossing ==
  /\ SessionNext
  /\ pending \ pending' \subseteq {1}
  /\ \A c \in Conns : /\ Len(toClient'[c]) <= 1 /\ Len(toServer'[c]) <= 1
                       /\ \A x \in {2, 3} : held'[c][x] = "none"

\* executions 2 and 3 for one slot of one connection, with two messages in each direction
\* and answers that arrive before the backoff after an expired offer is over.
Sharing ==
  /\ SessionNext
  /\ cur' = 1
  /\ pending \ pending' \subseteq {2, 3}
  /\ held'[1][1] = "none"

\* While another part moves the delays are those of one policy.
BackoffRests ==
  BackoffInit /\ policy = [strategy |-> "fixed", duration |-> 0, max |-> NoMaximum]

LoopsInit ==
  /\ SchedulerInit /\ SessionInit /\ NotifyInit
  /\ \/ part \in {"failures", "history", "crossing", "sharing", "notes"} /\ BackoffRests
     \/ part = "backoffs" /\ BackoffInit

LoopsNext ==
  /\ UNCHANGED part
  /\ \/ /\ \/ part = "failures" /\ (Loop \/ Environment) /\ ~HistoryDeleted
           \/ part = "history" /\ (Loop \/ Environment) /\ errors' = 0 /\ setbacks' = 0
        /\ UNCHANGED <<notifyVars, backoffVars, sessionVars>>
     \/ part = "notes" /\ NotifyNext /\ UNCHANGED <<vars, backoffVars, sessionVars>>
     \/ part = "backoffs" /\ BackoffNext /\ UNCHANGED <<vars, notifyVars, sessionVars>>
     \/ part = "crossing" /\ Crossing /\ UNCHANGED <<vars, notifyVars, backoffVars>>
     \/ part = "sharing" /\ Sharing /\ UNCHANGED <<vars, notifyVars, backoffVars>>

LoopsSpec == LoopsInit /\ [][LoopsNext]_<<part, vars, notifyVars, backoffVars, sessionVars>>
=============================================================================
