------------------------------ MODULE MCStops ------------------------------
(***************************************************************************)
(* What is asked to stop does: a server with its executors, and an         *)
(* executor with its server over a stream.                                 *)
(*                                                                         *)
(* These parts share no state.  A behaviour is one of a single part, while *)
(* the other rests in an initial state.                                    *)
(***************************************************************************)
EXTENDS ServerShutdown

CONSTANTS Connections, MaxConcurrent, MaxMessages, Late

VARIABLES
  part,  \* which part is not at rest
  \* ExecutorSession
  main, cur, stopping, link, loop, run, cancelled, toClient, toServer, pool, taken, pending

sessionVars ==
  <<main, cur, stopping, link, loop, run, cancelled, toClient, toServer, pool, taken, pending>>

\* An executor of the client library, over Connections connections.
Session == INSTANCE ExecutorSession WITH
  Jobs <- {}, Schedules <- {}, asked <- stopping, held <- taken

StopsInit ==
  /\ part \in {"session", "shutdown"}
  /\ Init /\ Session!SessionInit

InSession  == part = "session"
InShutdown == part = "shutdown"

StopsNext ==
  /\ UNCHANGED part
  /\ \/ InShutdown /\ Next /\ UNCHANGED sessionVars
     \/ InSession /\ Session!SessionNext /\ UNCHANGED vars

-----------------------------------------------------------------------------
(* The fairness of each part (its module states it) while it moves. *)

ServerRests == UNCHANGED <<pool, taken, pending>>

SessionFairness ==
  /\ WF_sessionVars(InSession /\ Session!Main /\ ServerRests)
  /\ \A c \in Session!Conns :
       /\ WF_sessionVars(InSession /\ Session!Hear(c))
       /\ WF_sessionVars(InSession /\ link[c] = "down" /\ Session!Drop(c))
       /\ WF_sessionVars(InSession /\ (Session!Receive(c) \/ Session!LoopEnds(c)) /\ ServerRests)
       /\ \A x \in Executions :
            /\ WF_sessionVars(InSession /\ (Session!Reserve(c, x) \/ Session!RejectAtOnce(c, x))
                                /\ ServerRests)
            /\ WF_sessionVars(InSession /\ (Session!Accept(c, x) \/ Session!Reject(c, x)
                                             \/ Session!GiveUp(c, x)) /\ ServerRests)
            /\ WF_sessionVars(InSession /\ Session!DropHandler(c, x) /\ ServerRests)
            /\ WF_sessionVars(InSession /\ Session!Leave(c, x) /\ ServerRests)

ShutdownFairness ==
  /\ \A e \in Executors : WF_vars(InShutdown /\ Notice(e)) /\ WF_vars(InShutdown /\ GraceElapses(e))
  /\ \A l \in Waiters : WF_vars(InShutdown /\ WaiterStep(l))
  /\ WF_vars(InShutdown /\ StartsAwaited)
  /\ WF_vars(InShutdown /\ ReadyEnds)
  /\ WF_vars(InShutdown /\ (Fetch \/ FetchFails))
  /\ WF_vars(InShutdown /\ FetchRepeated)
  /\ SF_vars(InShutdown /\ Fetch)
  /\ WF_vars(InShutdown /\ TimeoutsEnd)

StopsSpec ==
  /\ StopsInit /\ [][StopsNext]_<<part, vars, sessionVars>>
  /\ SessionFairness /\ ShutdownFairness

-----------------------------------------------------------------------------
(* The properties of ExecutorSession, besides those of ServerShutdown *)

\* ExecutorSession: every offer is answered or withdrawn.
OfferIsAnswered == Session!OfferIsAnswered

\* ExecutorSession: an executor that is asked to stop does.
ExecutorStops == Session!ExecutorStops
=============================================================================
