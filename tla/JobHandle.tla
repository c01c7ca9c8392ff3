------------------------------ MODULE JobHandle ------------------------------
(***************************************************************************)
(* A client's handle of a job (Job of the client library) and those who     *)
(* wait with it, beside the job itself, which is executed, retried,         *)
(* cancelled and at last deleted.  What the client does is a sequence of    *)
(* fetches, after each of which it decides:                                 *)
(*   result   wait_result: until the job has ended, then the last execution *)
(*   changed  executions_changed: until the last execution is another       *)
(*   wait     the CLI's "jobs wait": changed, until the job has ended       *)
(* An execution is its place and its status here: what else is compared of  *)
(* it changes with these.                                                   *)
(* Errors of the connection are not here, the client returns them.          *)
(***************************************************************************)
EXTENDS Naturals, Sequences, SequencesExt

CONSTANTS
  Operations,   \* a subset of {"result", "changed", "wait"}
  Strategies,   \* CachingStrategy: a subset of {"Cache", "NoCache"}
  MaxAttempts,  \* bound: the executions of the job
  Nothing       \* no job, no result

ASSUME HandleAssumption ==
  /\ MaxAttempts \in Nat
  /\ Nothing \notin Seq({"Scheduled", "Ready", "InProgress", "Succeeded", "Failed", "Cancelled"})
  /\ Nothing \notin {"Scheduled", "Ready", "InProgress", "Succeeded", "Failed", "Cancelled"}

VARIABLES
  job,     \* the executions of the job, Nothing when it was deleted
  ended,   \* the executions at its end, Nothing before
  client   \* the handle, and where its user is

handleVars == <<job, ended, client>>

Terminal == {"Succeeded", "Failed", "Cancelled"}
Statuses == Terminal \cup {"Scheduled", "Ready", "InProgress"}
LastOf(e) == IF e = <<>> THEN Nothing ELSE <<Len(e), Last(e)>>

-----------------------------------------------------------------------------
(* The job, as the backend stores it *)

Become(status) == job' = [job EXCEPT ![Len(job)] = status]

Due == job # Nothing /\ Last(job) = "Scheduled" /\ Become("Ready") /\ UNCHANGED <<ended, client>>

Started ==
  job # Nothing /\ Last(job) = "Ready" /\ Become("InProgress") /\ UNCHANGED <<ended, client>>

\* A failure that is retried is stored together with the next execution.
Retried(status) ==
  /\ job # Nothing /\ Last(job) = "InProgress" /\ Len(job) < MaxAttempts
  /\ job' = Append([job EXCEPT ![Len(job)] = "Failed"], status)
  /\ UNCHANGED <<ended, client>>

Ended(status) ==
  /\ job # Nothing /\ Last(job) \notin Terminal
  /\ status = "Cancelled" \/ Last(job) = "InProgress"
  /\ Become(status) /\ ended' = job' /\ UNCHANGED client

Deleted == job # Nothing /\ ended # Nothing /\ job' = Nothing /\ UNCHANGED <<ended, client>>

-----------------------------------------------------------------------------
(* fetch_raw *)

\* Whether the cached job needs not be fetched again.
Final(raw) == raw # Nothing /\ raw # <<>> /\ Last(raw) \in Terminal

\* The server reads the job's row and then its executions, between which the job
\* may be deleted.
ReadRow ==
  /\ client.at \notin {"idle", "returned", "error"} /\ ~client.reading /\ ~Final(client.raw)
  /\ client' = IF job = Nothing THEN [client EXCEPT !.at = "error"]
               ELSE [client EXCEPT !.reading = TRUE]
  /\ UNCHANGED <<job, ended>>

Cached(c, executions) ==
  IF c.strategy = "Cache" THEN [c EXCEPT !.raw = executions] ELSE c

\* What the user does with the executions.
Base(c, e) == [c EXCEPT !.base = LastOf(e), !.at = "poll"]

Poll(c, e) ==
  IF LastOf(e) # c.base
  THEN [c EXCEPT !.at = IF c.op = "changed" THEN "returned" ELSE "check"]
  ELSE [c EXCEPT !.base = LastOf(e)]

CheckLast(c, e) == [c EXCEPT !.at = IF Final(e) THEN "final" ELSE "base"]

\* Mutant: the first execution decides.
Until_first(c, e) ==
  [c EXCEPT !.at = IF e = <<>> THEN "error" ELSE IF e[1] \in Terminal THEN "final" ELSE "until"]

Until(c, e) ==
  [c EXCEPT !.at = IF e = <<>> THEN "error"
                   ELSE IF Last(e) \in Terminal THEN "final" ELSE "until"]

WaitResult(c, e) ==
  IF e = <<>> THEN [c EXCEPT !.at = "error"]
  ELSE [c EXCEPT !.at = "returned", !.result = Last(e)]

Use(c, e) ==
  CASE c.at = "base" -> Base(c, e)
    [] c.at = "poll" -> Poll(c, e)
    [] c.at = "check" -> CheckLast(c, e)
    [] c.at = "until" -> Until(c, e)
    [] c.at = "final" -> WaitResult(c, e)

ReadExecutions ==
  LET e == IF job = Nothing THEN <<>> ELSE job
  IN  /\ client.reading
      /\ client' = Use(Cached([client EXCEPT !.reading = FALSE], e), e)
      /\ UNCHANGED <<job, ended>>

\* A job that has ended is not fetched.
UseCached ==
  /\ client.at \notin {"idle", "returned", "error"} /\ ~client.reading /\ Final(client.raw)
  /\ client' = Use(client, client.raw)
  /\ UNCHANGED <<job, ended>>

\* The user has the handle from adding the job, or listed it, which fills the cache
\* whatever the strategy ("wait" always does).
Call(op, strategy, listed) ==
  /\ client.at = "idle" /\ job # Nothing /\ (op = "wait" => listed)
  /\ client' = [op |-> op, strategy |-> strategy, reading |-> FALSE,
                at |-> IF op = "result" THEN "until" ELSE "base",
                raw |-> IF listed THEN job ELSE Nothing, base |-> Nothing, result |-> Nothing]
  /\ UNCHANGED <<job, ended>>

ClientStep == ReadRow \/ ReadExecutions \/ UseCached

JobStep ==
  \/ Due \/ Started \/ Deleted
  \/ \E s \in {"Scheduled", "Ready"} : Retried(s)
  \/ \E s \in Terminal : Ended(s)

HandleInit ==
  /\ job \in {<<"Scheduled">>, <<"Ready">>} /\ ended = Nothing
  /\ client = [op |-> Nothing, strategy |-> Nothing, reading |-> FALSE, at |-> "idle",
               raw |-> Nothing, base |-> Nothing, result |-> Nothing]

HandleNext ==
  \/ JobStep
  \/ \E op \in Operations, s \in Strategies, listed \in BOOLEAN : Call(op, s, listed)
  \/ ClientStep

HandleSpec == HandleInit /\ [][HandleNext]_handleVars

\* The client polls, and the server answers.
HandleFairness == WF_handleVars(ClientStep)

HandleFairSpec == HandleSpec /\ HandleFairness

-----------------------------------------------------------------------------
(* Properties *)

Done == client.at \in {"returned", "error"}

\* Whoever waits for the result gets that of the last execution once the job has
\* ended, never that of an attempt that was retried (admin/jobs.rs:901).
ResultIsFinal == client.result # Nothing => ended # Nothing /\ client.result = Last(ended)

\* The client stops to fetch a job only when nothing of it can change any more
\* (admin/jobs.rs:742).
FrozenIsFinal == Final(client.raw) => client.raw = ended

\* With the cache, a job that was seen at its end gives its result although it may be
\* deleted right after (admin/jobs.rs:902).
ResultSurvivesDeletion ==
  [][client.at = "final" /\ client.strategy = "Cache" => client'.at # "error"]_handleVars

\* A result is returned that does not change any more, and it is not lost again.
ResultIsRight == [](ResultIsFinal /\ FrozenIsFinal) /\ ResultSurvivesDeletion

\* Waiting for the result ends after the job has (admin/jobs.rs:642).
ResultIsReturned == ended # Nothing /\ client.op = "result" ~> Done

\* "This will also return if no more execution changes are expected, i.e. if the last
\* execution has reached a terminal state." (admin/jobs.rs:659)
ChangedReturns == ended # Nothing /\ client.op \in {"changed", "wait"} ~> Done
=============================================================================
