------------------------ MODULE ServerShutdownProofs ------------------------
(***************************************************************************)
(* Theorems about ServerShutdown, for any executors, executions, number of *)
(* attempts, and a backend that may be down.                               *)
(*                                                                         *)
(* Argument: a loop that waits for the executors looks at them before it   *)
(* looks at its channel, and an executor that is gone sends nothing, so    *)
(* that what a loop leaves behind when it ends is nothing (EndsInOrder).   *)
(* Whatever was accepted and has not ended is held, reported or in the     *)
(* hands of the events loop, unless a loop gave up (NothingLost).          *)
(***************************************************************************)
EXTENDS ServerShutdown, SequenceTheorems, TLAPS

(***************************************************************************)
(* The invariant                                                           *)
(***************************************************************************)

\* The executions whose end is in the channel of events.
Reports == UNION ToSet(events)

Typed ==
  /\ ShutdownTypeOK
  /\ held \in [Executors -> SUBSET Executions]
  /\ recorded \in [Executions -> {"none", "unstarted", "started"}]
  /\ owner \in [Executions -> Executors \cup {None}]
  /\ noticed \in [Loops -> BOOLEAN]
  /\ resulted \subseteq Executions

\* What is named anywhere was accepted, and is held by the executor that accepted it.
OwnersKnown ==
  /\ \A e \in Executors : \A x \in held[e] : owner[x] = e
  /\ \A x \in starts \cup Reports \cup batch["starts"] \cup batch["events"] \cup resulted :
       owner[x] # None
  /\ \A x \in Executions : stored[x] # "pending" => owner[x] # None

\* A loop has a batch only while it works on it, and no start is in two places.
BatchesInHand ==
  /\ \A l \in Waiters : pc[l] \notin {"awaiting", "calling"} => batch[l] = {}
  /\ starts \cap batch["starts"] = {}

\* A loop that waits for the executors ends after them, and with an empty channel.
EndsInOrder ==
  /\ \A l \in Waiters : pc[l] \in {"checked", "ended"} => PoolEmpty
  /\ pc["events"] = "ended" => gaveUp \/ events = <<>>

\* What was accepted ends, is with its executor, or its end is on the way.
NothingLost ==
  ~gaveUp => \A x \in Executions :
    owner[x] # None /\ stored[x] # "ended" =>
      x \in held[owner[x]] \cup Reports \cup batch["events"]

StoppingInv == Typed /\ OwnersKnown /\ BatchesInHand /\ EndsInOrder /\ NothingLost

-----------------------------------------------------------------------------
(* The channel of events *)

\* What is in a channel after one more message.
LEMMA ReportsAfterAppend ==
  ASSUME NEW q \in Seq(SUBSET Executions), NEW m \in SUBSET Executions
  PROVE  /\ Append(q, m) \in Seq(SUBSET Executions)
         /\ Append(q, m) # <<>>
         /\ UNION ToSet(Append(q, m)) = (UNION ToSet(q)) \cup m
<1>1. /\ Append(q, m) \in Seq(SUBSET Executions)
      /\ Len(Append(q, m)) = Len(q) + 1
      /\ Append(q, m)[Len(q) + 1] = m
      /\ \A i \in 1..Len(q) : Append(q, m)[i] = q[i]
  BY AppendProperties
<1>2. Len(q) \in Nat /\ DOMAIN q = 1..Len(q) /\ DOMAIN Append(q, m) = 1..(Len(q) + 1)
  BY <1>1, LenProperties
<1>3. ToSet(Append(q, m)) = ToSet(q) \cup {m}
  <2>1. \A i \in DOMAIN Append(q, m) : Append(q, m)[i] \in ToSet(q) \cup {m}
    BY <1>1, <1>2 DEF ToSet
  <2>2. \A i \in DOMAIN q : q[i] \in ToSet(Append(q, m))
    BY <1>1, <1>2 DEF ToSet
  <2>3. m \in ToSet(Append(q, m))
    BY <1>1, <1>2 DEF ToSet
  <2> QED BY <2>1, <2>2, <2>3 DEF ToSet
<1>4. Append(q, m) # <<>>
  BY <1>1, EmptySeq, LenProperties
<1> QED BY <1>1, <1>3, <1>4

\* The empty channel holds nothing.
LEMMA ReportsOfEmpty == UNION ToSet(<<>>) = {}
  BY DEF ToSet

\* Two more messages, as an executor that leaves after its last result sends them.
LEMMA ReportsAfterTwo ==
  ASSUME NEW q \in Seq(SUBSET Executions), NEW m \in SUBSET Executions
  PROVE  /\ q \o <<m, {}>> \in Seq(SUBSET Executions)
         /\ q \o <<m, {}>> # <<>>
         /\ UNION ToSet(q \o <<m, {}>>) = (UNION ToSet(q)) \cup m
<1>1. q \o <<m, {}>> = Append(Append(q, m), {})
  OBVIOUS
<1>2. /\ Append(q, m) \in Seq(SUBSET Executions)
      /\ UNION ToSet(Append(q, m)) = (UNION ToSet(q)) \cup m
  BY ReportsAfterAppend
<1> {} \in SUBSET Executions
  OBVIOUS
<1>3. /\ Append(Append(q, m), {}) \in Seq(SUBSET Executions)
      /\ Append(Append(q, m), {}) # <<>>
      /\ UNION ToSet(Append(Append(q, m), {})) = (UNION ToSet(Append(q, m))) \cup {}
  BY <1>2, ReportsAfterAppend
<1> QED BY <1>1, <1>2, <1>3, Zenon

-----------------------------------------------------------------------------
(* The invariant holds initially *)

LEMMA StoppingInit == Init => StoppingInv
<1> SUFFICES ASSUME Init PROVE StoppingInv
  OBVIOUS
<1>1. Typed
  <2>1. events \in Seq(SUBSET Executions)
    BY EmptySeq DEF Init
  <2>2. attempts \in [Loops -> 1..MaxAttempts]
    BY AttemptsAssumption DEF Init
  <2> QED BY <2>1, <2>2 DEF Init, Typed, ShutdownTypeOK
<1>2. Reports = {}
  BY ReportsOfEmpty DEF Init, Reports
<1>3. OwnersKnown /\ NothingLost
  BY <1>2 DEF Init, OwnersKnown, NothingLost, Loops, Waiters
<1>4. BatchesInHand /\ EndsInOrder
  BY DEF Init, BatchesInHand, EndsInOrder, Loops, Waiters
<1> QED BY <1>1, <1>3, <1>4 DEF StoppingInv

-----------------------------------------------------------------------------
(* Steps that move a loop, and neither an execution nor an executor *)

\* What such steps leave alone.
restVars == <<conn, held, starts, recorded, events, owner, batch, attempts, resulted, gaveUp>>

LEMMA LoopMoves ==
  ASSUME StoppingInv, UNCHANGED restVars, UNCHANGED stored,
         asked' \in BOOLEAN, noticed' \in [Loops -> BOOLEAN],
         NEW l \in Loops, l \in Waiters => pc[l] \notin {"awaiting", "calling"},
         NEW to \in {"idle", "check", "checked", "waiting", "ended"},
         pc' = [pc EXCEPT ![l] = to],
         l \in Waiters /\ to \in {"checked", "ended"} => PoolEmpty,
         l = "events" /\ to = "ended" => gaveUp \/ events = <<>>
  PROVE  StoppingInv'
<1>1. Typed'
  BY DEF StoppingInv, Typed, ShutdownTypeOK, restVars
<1>2. OwnersKnown' /\ NothingLost'
  BY DEF StoppingInv, OwnersKnown, NothingLost, Reports, restVars
<1>3. BatchesInHand'
  BY DEF StoppingInv, Typed, ShutdownTypeOK, BatchesInHand, restVars
<1>4. EndsInOrder'
  BY DEF StoppingInv, Typed, ShutdownTypeOK, EndsInOrder, PoolEmpty, restVars, Loops, Waiters
<1> QED BY <1>1, <1>2, <1>3, <1>4 DEF StoppingInv

LEMMA StopKeeps == StoppingInv /\ Stop => StoppingInv'
<1> SUFFICES ASSUME StoppingInv, Stop PROVE StoppingInv'
  OBVIOUS
<1>1. Typed'
  BY DEF StoppingInv, Typed, ShutdownTypeOK, Stop
<1>2. OwnersKnown' /\ NothingLost' /\ BatchesInHand' /\ EndsInOrder'
  BY DEF StoppingInv, OwnersKnown, NothingLost, BatchesInHand, EndsInOrder, Reports, PoolEmpty,
         Stop
<1> QED BY <1>1, <1>2 DEF StoppingInv

\* The steps of a loop that waits for the executors, without work.
LEMMA WaitingKeeps ==
  ASSUME StoppingInv, NEW l \in Waiters,
         NoticeShutdown(l) \/ Check(l) \/ CheckAgain(l)
  PROVE  StoppingInv'
<1> l \in Loops
  BY DEF Loops
<1>1. UNCHANGED restVars /\ UNCHANGED stored /\ asked' \in BOOLEAN
  BY DEF StoppingInv, Typed, ShutdownTypeOK, NoticeShutdown, Check, CheckAgain, Go, waitVars,
         restVars
<1>2. noticed' \in [Loops -> BOOLEAN]
  BY DEF StoppingInv, Typed, NoticeShutdown, Check, CheckAgain
<1>3. CASE NoticeShutdown(l) \/ CheckAgain(l)
  <2>1. pc[l] \notin {"awaiting", "calling"} /\ pc' = [pc EXCEPT ![l] = "check"]
    BY <1>3 DEF NoticeShutdown, CheckAgain, Go
  <2> QED BY <1>1, <1>2, <2>1, LoopMoves
<1>4. CASE pc[l] = "check" /\ Check(l)
  <2>1. PICK to \in {"checked", "waiting"} :
          pc' = [pc EXCEPT ![l] = to] /\ (to = "checked" => PoolEmpty)
    BY <1>4 DEF Check, Go, FirstCheck
  <2> QED BY <1>1, <1>2, <1>4, <2>1, LoopMoves
<1>5. CASE pc[l] = "checked" /\ Check(l)
  <2>1. PICK to \in {"ended", "waiting"} :
          pc' = [pc EXCEPT ![l] = to] /\ (to = "ended" => ~Queued(l))
    BY <1>5 DEF Check, Go, SecondCheck
  <2>2. PoolEmpty
    BY <1>5 DEF StoppingInv, EndsInOrder
  <2>3. l = "events" /\ to = "ended" => events = <<>>
    BY <2>1 DEF Queued
  <2> QED BY <1>1, <1>2, <1>5, <2>1, <2>2, <2>3, LoopMoves
<1> QED BY <1>3, <1>4, <1>5 DEF Check

\* A deadline may pass over work: then the loop gives up.
LEMMA DeadlineKeeps ==
  ASSUME StoppingInv, NEW l \in Waiters, DeadlineElapses(l)
  PROVE  StoppingInv'
<1> l \in Loops
  BY DEF Loops
<1> USE DEF DeadlineElapses, Go, waitVars
<1>1. Typed'
  BY DEF StoppingInv, Typed, ShutdownTypeOK
<1>2. OwnersKnown' /\ NothingLost'
  BY DEF StoppingInv, OwnersKnown, NothingLost, Reports
<1>3. BatchesInHand'
  BY DEF StoppingInv, Typed, ShutdownTypeOK, BatchesInHand
<1>4. EndsInOrder'
  BY DEF StoppingInv, Typed, ShutdownTypeOK, EndsInOrder, PoolEmpty, Queued, Loops, Waiters
<1> QED BY <1>1, <1>2, <1>3, <1>4 DEF StoppingInv

\* The loops of ready executions and of timeouts.
LEMMA OthersKeep ==
  ASSUME StoppingInv, ReadyEnds \/ FetchFails \/ FetchRepeated \/ FetchAgain \/ TimeoutsEnd
  PROVE  StoppingInv'
<1>1. /\ UNCHANGED restVars /\ UNCHANGED stored
      /\ asked' \in BOOLEAN /\ noticed' \in [Loops -> BOOLEAN]
  BY DEF StoppingInv, Typed, ShutdownTypeOK, ReadyEnds, FetchFails, FetchRepeated, FetchAgain,
         TimeoutsEnd, Go, otherVars, restVars
<1>2. PICK l \in {"ready", "timeouts"}, to \in {"checked", "idle", "ended"} :
        pc' = [pc EXCEPT ![l] = to]
  BY DEF ReadyEnds, FetchFails, FetchRepeated, FetchAgain, TimeoutsEnd, Go
<1>3. l \in Loops /\ l \notin Waiters /\ l # "events"
  BY DEF Loops, Waiters
<1> QED BY <1>1, <1>2, <1>3, LoopMoves

LEMMA AwaitedKeeps ==
  ASSUME StoppingInv, StartsAwaited
  PROVE  StoppingInv'
<1> USE DEF StartsAwaited, Go, waitVars, Waiters, Loops
<1>1. Typed'
  BY DEF StoppingInv, Typed, ShutdownTypeOK
<1>2. OwnersKnown' /\ NothingLost'
  BY DEF StoppingInv, OwnersKnown, NothingLost, Reports
<1>3. BatchesInHand' /\ EndsInOrder'
  BY DEF StoppingInv, Typed, ShutdownTypeOK, BatchesInHand, EndsInOrder, PoolEmpty
<1> QED BY <1>1, <1>2, <1>3 DEF StoppingInv

\* What fails without its executor was started on one.
LEMMA FetchKeeps ==
  ASSUME StoppingInv, Fetch
  PROVE  StoppingInv'
<1> USE DEF Fetch, Go, otherVars, Waiters, Loops
<1>1. Typed'
  BY DEF StoppingInv, Typed, ShutdownTypeOK
<1>2. OwnersKnown' /\ NothingLost'
  BY DEF StoppingInv, Typed, ShutdownTypeOK, OwnersKnown, NothingLost, Reports
<1>3. BatchesInHand' /\ EndsInOrder'
  BY DEF StoppingInv, Typed, ShutdownTypeOK, BatchesInHand, EndsInOrder, PoolEmpty
<1> QED BY <1>1, <1>2, <1>3 DEF StoppingInv

-----------------------------------------------------------------------------
(* Steps of the executors *)

\* Only an executor that is still there accepts.
LEMMA AcceptKeeps ==
  ASSUME StoppingInv, NEW e \in Executors, NEW x \in Executions, Accept(e, x)
  PROVE  StoppingInv'
<1> USE DEF Accept
<1>1. x \notin batch["starts"] /\ x \notin starts /\ conn[e] # "gone" /\ e # None
  BY ExecutorsAssumption DEF StoppingInv, OwnersKnown
<1>2. Typed'
  BY <1>1 DEF StoppingInv, Typed, ShutdownTypeOK
<1>3. OwnersKnown'
  <2>1. owner' = [owner EXCEPT ![x] = e] /\ Reports' = Reports /\ owner[x] = None
    BY DEF Reports
  <2>2. \A f \in Executors : \A y \in held'[f] : owner'[y] = f
    BY <1>1, <2>1, ExecutorsAssumption DEF StoppingInv, Typed, OwnersKnown
  <2>3. \A y \in starts' \cup Reports' \cup batch'["starts"] \cup batch'["events"] \cup resulted' :
          owner'[y] # None
    BY <1>1, <2>1 DEF StoppingInv, Typed, OwnersKnown
  <2>4. \A y \in Executions : stored'[y] # "pending" => owner'[y] # None
    BY <1>1, <2>1 DEF StoppingInv, Typed, OwnersKnown
  <2> QED BY <2>2, <2>3, <2>4 DEF OwnersKnown
<1>4. BatchesInHand'
  BY <1>1 DEF StoppingInv, BatchesInHand
<1>5. EndsInOrder'
  BY DEF StoppingInv, EndsInOrder, PoolEmpty
<1>6. NothingLost'
  BY DEF StoppingInv, Typed, NothingLost, Reports
<1> QED BY <1>2, <1>3, <1>4, <1>5, <1>6 DEF StoppingInv

\* What an executor that leaves held is reported, and so is what one executes to
\* its end.
LEMMA ReportsKeep ==
  ASSUME StoppingInv, NEW e \in Executors, NEW ends \in SUBSET Executions,
         ends \subseteq held[e], conn[e] # "gone",
         UNCHANGED <<asked, starts, recorded, loopVars>>,
         held' = [held EXCEPT ![e] = @ \ ends],
         events' \in Seq(SUBSET Executions), events' # <<>>,
         Reports' = Reports \cup ends,
         \/ UNCHANGED conn
         \/ conn' = [conn EXCEPT ![e] = "gone"] /\ held[e] \subseteq ends,
         resulted' \subseteq resulted \cup ends
  PROVE  StoppingInv'
<1> USE DEF loopVars
<1>1. Typed'
  BY DEF StoppingInv, Typed, ShutdownTypeOK
<1>2. OwnersKnown'
  BY ExecutorsAssumption DEF StoppingInv, Typed, OwnersKnown
<1>3. BatchesInHand'
  BY DEF StoppingInv, BatchesInHand
<1>4. EndsInOrder'
  BY DEF StoppingInv, Typed, ShutdownTypeOK, EndsInOrder, PoolEmpty, Waiters
<1>5. NothingLost'
  BY DEF StoppingInv, Typed, OwnersKnown, NothingLost
<1> QED BY <1>1, <1>2, <1>3, <1>4, <1>5 DEF StoppingInv

\* An executor leaves the pool with what it holds.
LEMMA GoneKeeps ==
  ASSUME StoppingInv, NEW e \in Executors, conn[e] # "gone", Gone(e),
         UNCHANGED <<asked, starts, recorded, resulted, loopVars>>
  PROVE  StoppingInv'
<1>1. held[e] \in SUBSET Executions /\ events \in Seq(SUBSET Executions)
  BY DEF StoppingInv, Typed, ShutdownTypeOK
<1>2. events' \in Seq(SUBSET Executions) /\ events' # <<>> /\ Reports' = Reports \cup held[e]
  BY <1>1, ReportsAfterAppend DEF Gone, Reports
<1>3. held' = [held EXCEPT ![e] = @ \ held[e]]
  BY DEF Gone, StoppingInv, Typed
<1> QED BY <1>1, <1>2, <1>3, ReportsKeep DEF Gone

LEMMA FinishKeeps ==
  ASSUME StoppingInv, NEW e \in Executors, NEW x \in Executions, Finish(e, x)
  PROVE  StoppingInv'
<1>1. {x} \in SUBSET Executions /\ events \in Seq(SUBSET Executions)
      /\ {x} \subseteq held[e] /\ conn[e] # "gone"
  BY DEF StoppingInv, Typed, ShutdownTypeOK, Finish
<1>2. events' \in Seq(SUBSET Executions) /\ events' # <<>> /\ Reports' = Reports \cup {x}
  <2>1. CASE events' = Append(events, {x})
    BY <1>1, <2>1, ReportsAfterAppend DEF Reports
  <2>2. CASE events' = events \o <<{x}, {}>>
    BY <1>1, <2>2, ReportsAfterTwo DEF Reports
  <2> QED BY <2>1, <2>2 DEF Finish
<1>3. held' = [held EXCEPT ![e] = @ \ {x}] /\ resulted' \subseteq resulted \cup {x}
      /\ UNCHANGED <<asked, starts, recorded, loopVars>>
  BY DEF Finish
<1>4. UNCHANGED conn \/ (conn' = [conn EXCEPT ![e] = "gone"] /\ held[e] \subseteq {x})
  BY DEF Finish
<1> QED BY <1>1, <1>2, <1>3, <1>4, ReportsKeep

\* The loop of an executor notices the shutdown.
LEMMA NoticeKeeps ==
  ASSUME StoppingInv, NEW e \in Executors, Notice(e)
  PROVE  StoppingInv'
<1>1. CASE held[e] = {}
  BY <1>1, GoneKeeps DEF Notice
<1>2. CASE held[e] # {}
  <2> USE <1>2 DEF Notice, loopVars
  <2>1. Typed'
    BY DEF StoppingInv, Typed, ShutdownTypeOK
  <2>2. OwnersKnown' /\ NothingLost' /\ BatchesInHand'
    BY DEF StoppingInv, OwnersKnown, NothingLost, BatchesInHand, Reports
  <2>3. EndsInOrder'
    BY DEF StoppingInv, Typed, ShutdownTypeOK, EndsInOrder, PoolEmpty
  <2> QED BY <2>1, <2>2, <2>3 DEF StoppingInv
<1> QED BY <1>1, <1>2

-----------------------------------------------------------------------------
(* Steps of the loops that wait for the executors *)

\* What was in a channel is in the hands of its loop.
LEMMA TakeKeeps ==
  ASSUME StoppingInv, NEW l \in Waiters, Take(l)
  PROVE  StoppingInv'
<1> USE DEF Take, Go, waitVars, Waiters, Loops
<1>1. CASE l = "starts"
  <2> USE <1>1
  <2>0. starts \subseteq Executions /\ UNCHANGED events
    BY DEF StoppingInv, Typed, ShutdownTypeOK
  <2>1. Typed'
    BY <2>0 DEF StoppingInv, Typed, ShutdownTypeOK
  <2>2. OwnersKnown' /\ NothingLost'
    BY <2>0 DEF StoppingInv, Typed, ShutdownTypeOK, OwnersKnown, NothingLost, Reports
  <2>3. BatchesInHand' /\ EndsInOrder'
    BY <2>0 DEF StoppingInv, Typed, ShutdownTypeOK, BatchesInHand, EndsInOrder, PoolEmpty
  <2> QED BY <2>1, <2>2, <2>3 DEF StoppingInv
<1>2. CASE l = "events"
  <2> USE <1>2
  <2>0. events' = <<>> /\ Reports' = {} /\ UNCHANGED starts
        /\ batch' = [batch EXCEPT !["events"] = Reports]
    BY ReportsOfEmpty DEF Reports
  <2>1. Reports \subseteq Executions
    BY DEF StoppingInv, Typed, ShutdownTypeOK, Reports, ToSet
  <2>2. events' \in Seq(SUBSET Executions)
    BY <2>0, EmptySeq
  <2>3. Typed'
    BY <2>0, <2>1, <2>2 DEF StoppingInv, Typed, ShutdownTypeOK
  <2>4. batch["events"] = {} /\ batch'["events"] = Reports /\ UNCHANGED batch["starts"]
    BY <2>0 DEF StoppingInv, Typed, ShutdownTypeOK, BatchesInHand
  <2>5. OwnersKnown' /\ NothingLost'
    BY <2>0, <2>4 DEF StoppingInv, OwnersKnown, NothingLost
  <2>6. BatchesInHand' /\ EndsInOrder'
    BY <2>0, <2>4 DEF StoppingInv, Typed, ShutdownTypeOK, BatchesInHand, EndsInOrder, PoolEmpty
  <2> QED BY <2>3, <2>5, <2>6 DEF StoppingInv
<1> QED BY <1>1, <1>2

\* A call changes in the backend what its loop works on, and undoes no end.
LEMMA CallStores ==
  ASSUME StoppingInv, NEW l \in Waiters, UNCHANGED stored \/ Effect(l)
  PROVE  /\ stored' \in [Executions -> {"pending", "running", "ended"}]
         /\ \A x \in Executions :
              /\ stored[x] = "ended" => stored'[x] = "ended"
              /\ stored'[x] # "pending" => stored[x] # "pending" \/ x \in batch[l]
         /\ Effect("events") => \A x \in Executions \cap batch["events"] : stored'[x] = "ended"
  BY DEF StoppingInv, Typed, ShutdownTypeOK, Effect

\* A call that fails is made again with the same batch.
LEMMA RetryKeeps ==
  ASSUME StoppingInv, NEW l \in Waiters, UNCHANGED stored \/ Effect(l),
         attempts' = [attempts EXCEPT ![l] = IF @ < MaxAttempts THEN @ + 1 ELSE @],
         UNCHANGED <<asked, conn, held, starts, recorded, events, owner, pc, noticed, batch,
                     resulted, gaveUp>>
  PROVE  StoppingInv'
<1>0. l \in Loops /\ batch[l] \in SUBSET Executions /\ (l = "starts" \/ l = "events")
  BY DEF StoppingInv, Typed, ShutdownTypeOK, Loops, Waiters
<1>1. Typed'
  <2>1. attempts' \in [Loops -> 1..MaxAttempts]
    BY <1>0, AttemptsAssumption DEF StoppingInv, Typed, ShutdownTypeOK
  <2> QED BY <2>1, CallStores DEF StoppingInv, Typed, ShutdownTypeOK
<1>2. OwnersKnown' /\ NothingLost'
  BY <1>0, CallStores DEF StoppingInv, OwnersKnown, NothingLost, Reports
<1>3. BatchesInHand' /\ EndsInOrder'
  BY DEF StoppingInv, BatchesInHand, EndsInOrder, PoolEmpty
<1> QED BY <1>1, <1>2, <1>3 DEF StoppingInv

\* The batch of a loop is done with, or given up.
LEMMA DoneKeeps ==
  ASSUME StoppingInv, NEW l \in Waiters, pc[l] = "calling",
         NEW outcome \in Outcomes,
         IF outcome = "error" THEN UNCHANGED stored ELSE Effect(l),
         Go(l, IF noticed[l] THEN "check" ELSE "idle"),
         attempts' = [attempts EXCEPT ![l] = 1],
         batch' = [batch EXCEPT ![l] = {}],
         gaveUp' = (gaveUp \/ outcome # "ok"),
         IF l # "starts" THEN UNCHANGED <<recorded, held>>
         ELSE IF outcome = "ok" THEN StartsRecorded ELSE StartsGivenUp,
         UNCHANGED <<asked, conn, starts, events, owner, noticed, resulted>>
  PROVE  StoppingInv'
<1> USE DEF Go
<1>0. l \in Loops /\ batch[l] \in SUBSET Executions /\ (l = "starts" \/ l = "events")
  BY DEF StoppingInv, Typed, ShutdownTypeOK, Loops, Waiters
<1>1. /\ held' \in [Executors -> SUBSET Executions]
      /\ \A e \in Executors : held'[e] \subseteq held[e]
      /\ recorded' \in [Executions -> {"none", "unstarted", "started"}]
  BY DEF StoppingInv, Typed, StartsRecorded, StartsGivenUp
<1>2. /\ \A x \in starts : recorded'[x] = "unstarted"
      /\ \A e \in Executors : \A x \in held'[e] : recorded'[x] # "none"
  BY DEF StoppingInv, Typed, ShutdownTypeOK, BatchesInHand, StartsRecorded, StartsGivenUp
<1>3. UNCHANGED stored \/ Effect(l)
  OBVIOUS
<1>4. Typed'
  <2>1. attempts' \in [Loops -> 1..MaxAttempts]
    BY <1>0, AttemptsAssumption DEF StoppingInv, Typed, ShutdownTypeOK
  <2>2. pc' \in [Loops -> {"idle", "check", "checked", "waiting", "awaiting", "calling", "ended"}]
        /\ batch' \in [Loops -> SUBSET Executions] /\ gaveUp' \in BOOLEAN
    BY <1>0 DEF StoppingInv, Typed, ShutdownTypeOK
  <2>3. stored' \in [Executions -> {"pending", "running", "ended"}]
    BY <1>3, CallStores
  <2>4. \A e \in Executors : conn'[e] = "gone" => held'[e] = {}
    BY <1>1 DEF StoppingInv, Typed, ShutdownTypeOK
  <2>5. starts' \subseteq {x \in Executions : recorded'[x] = "unstarted"}
    BY <1>2 DEF StoppingInv, Typed, ShutdownTypeOK
  <2> QED BY <1>1, <1>2, <2>1, <2>2, <2>3, <2>4, <2>5
          DEF StoppingInv, Typed, ShutdownTypeOK
<1>5. OwnersKnown'
  <2>1. \A x \in Executions : stored'[x] # "pending" => owner[x] # None
    BY <1>0, <1>3, CallStores DEF StoppingInv, OwnersKnown
  <2>2. batch'["starts"] \subseteq batch["starts"] /\ batch'["events"] \subseteq batch["events"]
    BY <1>0 DEF StoppingInv, Typed, ShutdownTypeOK, Loops, Waiters
  <2> QED BY <1>1, <2>1, <2>2 DEF StoppingInv, OwnersKnown, Reports
<1>6. BatchesInHand' /\ EndsInOrder'
  BY <1>0 DEF StoppingInv, Typed, ShutdownTypeOK, BatchesInHand, EndsInOrder, PoolEmpty, Loops,
           Waiters
<1>7. NothingLost'
  <2> SUFFICES ASSUME ~gaveUp, outcome = "ok", NEW x \in Executions, owner[x] # None,
                      stored'[x] # "ended"
               PROVE  x \in held'[owner[x]] \cup Reports \cup batch'["events"]
    BY DEF NothingLost, Reports
  <2>1. stored[x] # "ended" /\ x \in held[owner[x]] \cup Reports \cup batch["events"]
    BY <1>3, CallStores DEF StoppingInv, NothingLost
  <2>2. CASE l = "starts"
    <3>1. held' = [e \in Executors |->
            {y \in held[e] : y \in batch["starts"] => stored[y] # "ended"}]
      BY <2>2 DEF StartsRecorded
    <3>2. owner[x] \in Executors /\ batch'["events"] = batch["events"]
      BY <2>2 DEF StoppingInv, Typed, ShutdownTypeOK
    <3> QED BY <2>1, <3>1, <3>2
  <2>3. CASE l = "events"
    <3>1. x \notin batch["events"] /\ UNCHANGED held
      BY <2>3, CallStores
    <3> QED BY <2>1, <3>1
  <2> QED BY <1>0, <2>2, <2>3
<1> QED BY <1>4, <1>5, <1>6, <1>7 DEF StoppingInv

LEMMA CallKeeps ==
  ASSUME StoppingInv, NEW l \in Waiters, Call(l)
  PROVE  StoppingInv'
<1>1. PICK outcome \in Outcomes :
        /\ IF outcome = "error" THEN UNCHANGED stored ELSE Effect(l)
        /\ IF outcome = "ok" \/ GivesUp(l)
           THEN /\ Go(l, IF noticed[l] THEN "check" ELSE "idle")
                /\ attempts' = [attempts EXCEPT ![l] = 1]
                /\ batch' = [batch EXCEPT ![l] = {}]
                /\ gaveUp' = (gaveUp \/ outcome # "ok")
                /\ IF l # "starts" THEN UNCHANGED <<recorded, held>>
                   ELSE IF outcome = "ok" THEN StartsRecorded ELSE StartsGivenUp
           ELSE /\ attempts' = [attempts EXCEPT ![l] = IF @ < MaxAttempts THEN @ + 1 ELSE @]
                /\ UNCHANGED <<pc, batch, gaveUp, recorded, held>>
  BY DEF Call
<1>2. /\ pc[l] = "calling" /\ (UNCHANGED stored \/ Effect(l))
      /\ UNCHANGED <<asked, conn, starts, events, owner, noticed, resulted>>
  BY <1>1 DEF Call
<1>3. CASE outcome = "ok" \/ GivesUp(l)
  BY <1>1, <1>2, <1>3, DoneKeeps
<1>4. CASE ~(outcome = "ok" \/ GivesUp(l))
  BY <1>1, <1>2, <1>4, RetryKeeps
<1> QED BY <1>3, <1>4

-----------------------------------------------------------------------------
(* The theorems *)

THEOREM StoppingStep == StoppingInv /\ [Next]_vars => StoppingInv'
<1> SUFFICES ASSUME StoppingInv, [Next]_vars PROVE StoppingInv'
  OBVIOUS
<1>1. ASSUME NEW e \in Executors, Disconnect(e) \/ GraceElapses(e) PROVE StoppingInv'
  <2>1. conn[e] # "gone" /\ Gone(e) /\ UNCHANGED <<asked, starts, recorded, resulted, loopVars>>
    BY <1>1 DEF Disconnect, GraceElapses
  <2> QED BY <2>1, GoneKeeps
<1>2. ASSUME NEW e \in Executors, NEW x \in Executions, Accept(e, x) \/ Finish(e, x)
      PROVE  StoppingInv'
  BY <1>2, AcceptKeeps, FinishKeeps
<1>3. ASSUME NEW l \in Waiters, WaiterStep(l) PROVE StoppingInv'
  BY <1>3, WaitingKeeps, DeadlineKeeps, TakeKeeps, CallKeeps DEF WaiterStep
<1>4. CASE UNCHANGED vars
  BY <1>4 DEF vars, StoppingInv, Typed, ShutdownTypeOK, OwnersKnown, BatchesInHand, EndsInOrder,
              NothingLost, Reports, PoolEmpty
<1> QED BY <1>1, <1>2, <1>3, <1>4, StopKeeps, NoticeKeeps, AwaitedKeeps, FetchKeeps, OthersKeep
        DEF Next

LEMMA StoppingImplies == StoppingInv => ShutdownInv
<1> SUFFICES ASSUME StoppingInv PROVE ShutdownInv
  OBVIOUS
<1>1. ShutdownTypeOK /\ StartsOutliveExecutors
  BY DEF StoppingInv, Typed, ShutdownTypeOK, EndsInOrder, PoolEmpty, StartsOutliveExecutors,
         Waiters
<1>2. CleanShutdown
  <2> SUFFICES ASSUME AllEnded, ~gaveUp, NEW x \in Executions, stored[x] # "ended"
               PROVE  stored[x] # "running" /\ x \notin resulted
    BY DEF CleanShutdown
  <2>1. pc["events"] = "ended" /\ PoolEmpty
    BY DEF AllEnded, Loops, Waiters
  <2>2. events = <<>> /\ batch["events"] = {}
    BY <2>1 DEF StoppingInv, EndsInOrder, BatchesInHand, Waiters
  <2>3. Reports = {}
    BY <2>2, ReportsOfEmpty DEF Reports
  <2>4. owner[x] \in Executors => held[owner[x]] = {}
    BY <2>1 DEF PoolEmpty, StoppingInv, Typed, ShutdownTypeOK
  <2>5. owner[x] = None
    BY <2>2, <2>3, <2>4 DEF StoppingInv, Typed, NothingLost
  <2>6. stored[x] = "pending" /\ x \notin resulted
    BY <2>5 DEF StoppingInv, OwnersKnown
  <2> QED BY <2>6
<1> QED BY <1>1, <1>2 DEF ShutdownInv

\* Whatever fails, stops or is disconnected, and in whatever order, a shutdown
\* never leaves an executor with an execution that nobody starts, and one that
\* gives nothing up leaves nothing running and loses no result.
THEOREM ShutdownCorrect == Spec => []ShutdownInv
<1>1. Init => StoppingInv
  BY StoppingInit
<1>2. StoppingInv /\ [Next]_vars => StoppingInv'
  BY StoppingStep
<1>3. StoppingInv => ShutdownInv
  BY StoppingImplies
<1> QED BY <1>1, <1>2, <1>3, PTL DEF Spec
=============================================================================
