--------------------------- MODULE ServerProofs ---------------------------
(***************************************************************************)
(* Theorems about ExecutorPool, for any finite set of executions, any      *)
(* executors, limits and handshakes, and any calls of the pool; and about  *)
(* Server, for any jobs, executions and executors, any batches, limits,    *)
(* timeouts and retries, and any number of crashes.                        *)
(*                                                                         *)
(* Argument for the pool: the invariant is the conjunction of what the     *)
(* runs check; no part is inductive alone.  That an executor without       *)
(* capabilities holds nothing (the type) makes the limit it announces      *)
(* right from the start, and lets an offer only go to executors whose      *)
(* queue is there.  Only try_offer gives executions to executors, each to  *)
(* one that has room and none that somebody holds; every other step takes  *)
(* some away (Shrinks).                                                    *)
(*                                                                         *)
(* Argument for the server: an execution is followed on its way, page -    *)
(* queue of an executor - queue of starts - batch of starts - result.  The *)
(* part of the pool that try_offer looks at (accepted) agrees with the     *)
(* queue and the batch (StartsTracked), and with what was started since    *)
(* the page was fetched (PageFresh); so an execution is never offered      *)
(* while it is on its way or runs.  Results come behind starts             *)
(* (ResultsFollow), and what an executor is told to cancel has ended       *)
(* (CancelsEnded).                                                         *)
(*                                                                         *)
(* From this invariant follow, with what the two theorems name in addition *)
(* (ResultsBegan, EndedWithdrawn), that starts precede results, and that   *)
(* what has ended is withdrawn.  Its steps are calls the backend allows,   *)
(* so that what BackendProofs proves holds of the server; the numbers of   *)
(* attempts come last (AttemptsInv).                                       *)
(*                                                                         *)
(* Steps are taken together by what they do: calls of the backend that     *)
(* start nothing (StatusMoves), and steps of executors that take           *)
(* executions from them (Takes).                                           *)
(***************************************************************************)
EXTENDS Server, BackendProofs, FiniteSetTheorems

-----------------------------------------------------------------------------
(* ExecutorPool *)

PoolInv == PoolTypeOK /\ HeldOnce /\ WithinLimit /\ BeliefsAgree

(***************************************************************************)
(* Steps that give no executor anything                                    *)
(***************************************************************************)

\* No executor gets anything, and one that keeps something keeps its limit.
Shrinks ==
  \A e \in Executors :
    /\ HeldBy(e)' \subseteq HeldBy(e)
    /\ limit'[e] = limit[e] \/ HeldBy(e)' = {}

\* What an executor holds can be counted.
LEMMA HeldIsFinite ==
  ASSUME NEW e
  PROVE  IsFiniteSet(HeldBy(e)) /\ Cardinality(HeldBy(e)) \in Nat
  <1>1. HeldBy(e) \subseteq Executions
    BY DEF HeldBy
  <1>2. QED
    BY <1>1, FiniteAssumption, FS_Subset, FS_CardinalityType

\* Holding less breaks no limit, and nothing is held twice.
LEMMA ShrinksKeeps ==
  ASSUME PoolInv, Shrinks, PoolTypeOK'
  PROVE  HeldOnce' /\ WithinLimit'
  <1>1. HeldOnce'
    BY DEF PoolInv, HeldOnce, Shrinks
  <1>2. ASSUME NEW e \in Executors PROVE (Cardinality(HeldBy(e)) <= limit[e])'
    <2>1. CASE HeldBy(e)' = {}
      <3>1. Cardinality(HeldBy(e)') = 0
        BY <2>1, FS_EmptySet
      <3>2. limit'[e] \in Nat
        BY DEF PoolTypeOK
      <3>3. QED
        BY <3>1, <3>2
    <2>2. CASE limit'[e] = limit[e]
      <3>1. IsFiniteSet(HeldBy(e)) /\ Cardinality(HeldBy(e)) \in Nat
        BY HeldIsFinite
      <3>2. HeldBy(e)' \subseteq HeldBy(e)
        BY DEF Shrinks
      <3>3. /\ Cardinality(HeldBy(e)') \in Nat
            /\ Cardinality(HeldBy(e)') <= Cardinality(HeldBy(e))
        BY <3>1, <3>2, FS_Subset, FS_CardinalityType
      <3>4. Cardinality(HeldBy(e)) <= limit[e] /\ limit[e] \in Nat
        BY DEF PoolInv, WithinLimit, PoolTypeOK
      <3>5. QED
        BY <2>2, <3>1, <3>3, <3>4
    <2>3. QED
      BY <2>1, <2>2 DEF Shrinks
  <1>3. QED
    BY <1>1, <1>2 DEF WithinLimit

(***************************************************************************)
(* Offers                                                                  *)
(***************************************************************************)

\* An assignment of try_offer gives executions nobody holds to executors with
\* room for them.
LEMMA AssignmentsFit ==
  ASSUME PoolTypeOK, NEW xs \in SUBSET Executions, NEW to \in Assignments(xs \ Taken)
  PROVE  /\ DOMAIN to \subseteq Executions
         /\ \A x \in DOMAIN to :
              /\ to[x] \in Executors
              /\ HasCapacity(to[x]) /\ open[to[x]]
              /\ \A e \in Executors : held[e][x] = "none"
         /\ \A e \in Executors : HasCapacity(e) =>
              Cardinality({x \in DOMAIN to : to[x] = e}) <= limit[e] - Cardinality(HeldBy(e))
  <1>1. PICK ys \in SUBSET (xs \ Taken) : to \in [ys -> {e \in Executors : Room(e) > 0}]
    BY DEF Assignments
  <1>2. \A x \in DOMAIN to : to[x] \in Executors /\ HasCapacity(to[x]) /\ open[to[x]]
    BY <1>1 DEF Room
  <1>3. ASSUME NEW x \in DOMAIN to, NEW e \in Executors PROVE held[e][x] = "none"
    <2>1. x \in Executions /\ x \notin Taken
      BY <1>1
    <2>2. HeldBy(e) \subseteq Taken
      BY DEF Taken
    <2>3. QED
      BY <2>1, <2>2 DEF HeldBy
  <1>4. ASSUME NEW e \in Executors, HasCapacity(e)
        PROVE  Cardinality({x \in DOMAIN to : to[x] = e}) <= limit[e] - Cardinality(HeldBy(e))
    <2>1. CASE open[e]
      BY <1>4, <2>1 DEF Assignments, Room
    <2>2. CASE ~open[e]
      <3>1. {x \in DOMAIN to : to[x] = e} = {}
        BY <1>2, <2>2
      <3>2. Cardinality({x \in DOMAIN to : to[x] = e}) = 0
        BY <3>1, FS_EmptySet
      <3>3. Cardinality(HeldBy(e)) \in Nat /\ limit[e] \in Nat
        BY HeldIsFinite DEF PoolTypeOK
      <3>4. QED
        BY <1>4, <3>2, <3>3 DEF HasCapacity
    <2>3. QED
      BY <2>1, <2>2
  <1>5. QED
    BY <1>1, <1>2, <1>3, <1>4

\* What fits into the room that is left does not exceed the limit.
LEMMA UnionFits ==
  ASSUME NEW H, IsFiniteSet(H), NEW G, IsFiniteSet(G), H \cap G = {},
         NEW n \in Nat, Cardinality(G) <= n - Cardinality(H)
  PROVE  Cardinality(H \cup G) <= n
  <1>1. Cardinality(H) \in Nat /\ Cardinality(G) \in Nat
    BY FS_CardinalityType
  <1>2. Cardinality(H \cap G) = 0
    BY FS_EmptySet
  <1>3. Cardinality(H \cup G) = Cardinality(H) + Cardinality(G) - Cardinality(H \cap G)
    BY FS_Union
  <1>4. QED
    BY <1>1, <1>2, <1>3

\* What executors hold after an offer.
LEMMA OfferAdds ==
  ASSUME PoolTypeOK, NEW to, DOMAIN to \subseteq Executions,
         \A x \in DOMAIN to : to[x] \in Executors, Offer(to)
  PROVE  \A e \in Executors : HeldBy(e)' = HeldBy(e) \cup {x \in DOMAIN to : to[x] = e}
  BY DEF Offer, HeldBy, PoolTypeOK

\* Offering keeps the invariant.
LEMMA TryOfferInv ==
  ASSUME PoolInv, NEW xs \in SUBSET Executions, TryOffer(xs)
  PROVE  PoolInv'
  <1>1. PICK to \in Assignments(xs \ Taken) : Offer(to)
    BY DEF TryOffer
  <1> DEFINE given(e) == {x \in DOMAIN to : to[x] = e}
  <1>2. /\ DOMAIN to \subseteq Executions
        /\ \A x \in DOMAIN to :
             /\ to[x] \in Executors
             /\ HasCapacity(to[x]) /\ open[to[x]]
             /\ \A e \in Executors : held[e][x] = "none"
        /\ \A e \in Executors : HasCapacity(e) =>
             Cardinality(given(e)) <= limit[e] - Cardinality(HeldBy(e))
    BY <1>1, AssignmentsFit DEF PoolInv
  <1>3. \A e \in Executors : HeldBy(e)' = HeldBy(e) \cup given(e)
    BY <1>1, <1>2, OfferAdds DEF PoolInv
  <1>4. PoolTypeOK'
    <2>1. PoolTypeOK /\ Offer(to)
      BY <1>1 DEF PoolInv
    <2>2. held' \in [Executors -> [Executions -> HeldStates]]
      BY <2>1 DEF Offer, PoolTypeOK, HeldStates
    <2>3. believed' \in [Executors -> SUBSET Executions]
      BY <1>2, <2>1 DEF Offer, PoolTypeOK
    <2>4. accepted' \in [Executions -> {"none", "unstarted", "after", "before"}]
      BY <2>1 DEF Offer, PoolTypeOK
    <2>5. startQueue' \in SUBSET (Executions \X Executors)
      BY <1>2, <2>1 DEF Offer, PoolTypeOK
    <2>6. ASSUME NEW e \in Executors, conn[e] \in {"absent", "connected", "gone"},
                 NEW x \in Executions
          PROVE  held'[e][x] = "none"
      <3>1. ~HasCapacity(e) /\ held[e][x] = "none"
        BY <2>1, <2>6 DEF HasCapacity, PoolTypeOK
      <3>2. ~(x \in DOMAIN to /\ to[x] = e)
        BY <1>2, <3>1
      <3>3. QED
        BY <2>1, <3>1, <3>2 DEF Offer
    <2>7. QED
      BY <2>1, <2>2, <2>3, <2>4, <2>5, <2>6 DEF Offer, PoolTypeOK
  <1>5. HeldOnce'
    BY <1>2, <1>3 DEF PoolInv, HeldOnce, HeldBy
  <1>6. ASSUME NEW e \in Executors PROVE (Cardinality(HeldBy(e)) <= limit[e])'
    <2>1. limit' = limit /\ limit[e] \in Nat /\ Cardinality(HeldBy(e)) <= limit[e]
      BY <1>1 DEF Offer, PoolInv, PoolTypeOK, WithinLimit
    <2>2. CASE given(e) = {}
      BY <1>3, <2>1, <2>2
    <2>3. CASE given(e) # {}
      <3>1. Cardinality(given(e)) <= limit[e] - Cardinality(HeldBy(e))
        BY <1>2, <2>3
      <3>2. IsFiniteSet(given(e)) /\ Cardinality(given(e)) \in Nat
        <4>1. given(e) \subseteq Executions
          BY <1>2
        <4>2. QED
          BY <4>1, FiniteAssumption, FS_Subset, FS_CardinalityType
      <3>3. IsFiniteSet(HeldBy(e)) /\ Cardinality(HeldBy(e)) \in Nat
        BY HeldIsFinite
      <3>4. HeldBy(e) \cap given(e) = {}
        BY <1>2 DEF HeldBy
      <3>5. Cardinality(HeldBy(e) \cup given(e)) <= limit[e]
        BY <2>1, <3>1, <3>2, <3>3, <3>4, UnionFits
      <3>6. HeldBy(e)' = HeldBy(e) \cup given(e) /\ limit'[e] = limit[e]
        BY <1>3, <2>1
      <3>7. QED
        BY <3>5, <3>6
    <2>4. QED
      BY <2>2, <2>3
  <1>7. BeliefsAgree'
    <2>1. \A e \in Executors : believed'[e] = believed[e] \cup given(e)
      BY <1>1 DEF Offer
    <2>2. conn' = conn
      BY <1>1 DEF Offer
    <2>3. QED
      BY <1>3, <2>1, <2>2 DEF PoolInv, BeliefsAgree
  <1>8. QED
    BY <1>4, <1>5, <1>6, <1>7 DEF PoolInv, WithinLimit

(***************************************************************************)
(* The loop of an executor                                                 *)
(***************************************************************************)

\* What every step of an executor's loop is shown to do.
Narrows == PoolTypeOK' /\ Shrinks /\ BeliefsAgree'

\* Whatever the executor sends, it does not get more, and both sides agree.
LEMMA ExecutorStepNarrows ==
  ASSUME PoolInv, NEW e \in Executors, ExecutorStep(e)
  PROVE  Narrows
  <1> USE DEF Narrows, PoolInv, PoolTypeOK, Shrinks, BeliefsAgree, HeldBy, HeldStates, ConnStates
  <1>1. CASE Connect(e)
    BY <1>1 DEF Connect
  <1>2. CASE LoseConnection(e)
    BY <1>2 DEF LoseConnection, InPool
  <1>3. CASE Drop(e)
    <2>1. events' \in Seq(Event)
      <3>1. [xs |-> AssignedTo(e), result |-> "failed"] \in Event
        BY DEF Event, Results, AssignedTo
      <3>2. events \in Seq(Event)
        OBVIOUS
      <3>3. QED
        BY <1>3, <3>1, <3>2 DEF Drop
    <2>2. QED
      BY <1>3, <2>1 DEF Drop, InPool
  <1>4. ASSUME NEW n \in Limits, NEW h \in Handshakes, Capabilities(e, n, h) PROVE Narrows
    BY <1>4, LimitsAssumption, HandshakesAssumption DEF Capabilities, Hears
  <1>5. ASSUME NEW x \in Executions, AcceptOffer(e, x) PROVE Narrows
    BY <1>5 DEF AcceptOffer, Hears
  <1>6. ASSUME NEW x \in Executions, AcceptWhileDraining(e, x) PROVE Narrows
    BY <1>6 DEF AcceptWhileDraining, Hears, Withdraw
  <1>7. ASSUME NEW x \in Executions, RejectOffer(e, x) PROVE Narrows
    BY <1>7 DEF RejectOffer, Hears, Withdraw, DoneDraining
  <1>8. ASSUME NEW x \in Executions, NEW result \in Results, Finish(e, x, result) PROVE Narrows
    BY <1>8 DEF Finish, Hears, Withdraw, DoneDraining, Event
  <1>9. ASSUME NEW x \in Executions, FinishOffered(e, x) PROVE Narrows
    BY <1>9 DEF FinishOffered, Hears, Withdraw
  <1>10. ASSUME NEW x \in Executions, FinishInvalid(e, x) PROVE Narrows
    BY <1>10 DEF FinishInvalid, Hears, Withdraw
  <1>11. ASSUME NEW xs \in SUBSET Executions, ExpireOffers(e, xs) PROVE Narrows
    BY <1>11 DEF ExpireOffers, OfferedTo, Withdraw
  <1>12. CASE BackoffEnds(e)
    BY <1>12 DEF BackoffEnds
  <1>13. CASE NoticeShutdown(e)
    BY <1>13 DEF NoticeShutdown, OfferedTo, AssignedTo, Withdraw
  <1>14. CASE GraceElapses(e)
    BY <1>14 DEF GraceElapses, AssignedTo
  <1> QED
    BY <1>1, <1>2, <1>3, <1>4, <1>5, <1>6, <1>7, <1>8, <1>9, <1>10, <1>11, <1>12, <1>13, <1>14 DEF ExecutorStep


(***************************************************************************)
(* The invariant                                                           *)
(***************************************************************************)

\* The calls of the server's loops give nothing to executors.
LEMMA CallsNarrow ==
  ASSUME PoolInv,
         \/ StampFetch
         \/ BeginShutdown
         \/ \E xs \in SUBSET Executions : MarkStarted(xs) \/ ForgetAccepted(xs) \/ CancelIds(xs)
         \/ \E batch \in SUBSET startQueue : TakeStarts(batch)
         \/ \E n \in 1..Len(events) : TakeEvents(n)
  PROVE  Narrows
  <1> USE DEF Narrows, PoolInv, PoolTypeOK, Shrinks, BeliefsAgree, HeldBy, HeldStates, executorVars
  <1>1. CASE StampFetch
    BY <1>1 DEF StampFetch
  <1>2. CASE BeginShutdown
    BY <1>2 DEF BeginShutdown
  <1>3. ASSUME NEW xs \in SUBSET Executions, MarkStarted(xs) PROVE Narrows
    BY <1>3 DEF MarkStarted
  <1>4. ASSUME NEW xs \in SUBSET Executions, ForgetAccepted(xs) PROVE Narrows
    BY <1>4 DEF ForgetAccepted
  <1>5. ASSUME NEW xs \in SUBSET Executions, CancelIds(xs) PROVE Narrows
    BY <1>5 DEF CancelIds
  <1>6. ASSUME NEW batch \in SUBSET startQueue, TakeStarts(batch) PROVE Narrows
    BY <1>6 DEF TakeStarts
  <1>7. ASSUME NEW n \in 1..Len(events), TakeEvents(n) PROVE Narrows
    <2>1. events \in Seq(Event) /\ n \in Nat
      OBVIOUS
    <2>2. SubSeq(events, n + 1, Len(events)) \in Seq(Event)
      BY <2>1
    <2>3. QED
      BY <1>7, <2>2 DEF TakeEvents
  <1>8. QED
    BY <1>1, <1>2, <1>3, <1>4, <1>5, <1>6, <1>7

\* The pool is empty at first.
LEMMA InitInv ==
  ASSUME PoolInit
  PROVE  PoolInv
  <1>1. PoolTypeOK
    <2>1. events \in Seq(Event)
      BY DEF PoolInit
    <2>2. held \in [Executors -> [Executions -> HeldStates]]
      BY DEF PoolInit, HeldStates
    <2>3. QED
      BY <2>1, <2>2 DEF PoolInit, PoolTypeOK, ConnStates
  <1>2. \A e \in Executors : HeldBy(e) = {} /\ limit[e] = 0 /\ believed[e] = {}
    BY DEF PoolInit, HeldBy
  <1>3. Cardinality({}) = 0
    BY FS_EmptySet
  <1>4. QED
    BY <1>1, <1>2, <1>3 DEF PoolInv, HeldOnce, WithinLimit, BeliefsAgree

\* Every step keeps the invariant.
LEMMA NextInv ==
  ASSUME PoolInv, [PoolNext]_poolVars
  PROVE  PoolInv'
  <1>1. ASSUME NEW xs \in SUBSET Executions, TryOffer(xs) PROVE PoolInv'
    BY <1>1, TryOfferInv
  <1>2. CASE Narrows
    BY <1>2, ShrinksKeeps DEF Narrows, PoolInv
  <1>3. ASSUME NEW e \in Executors, ExecutorStep(e) PROVE PoolInv'
    BY <1>2, <1>3, ExecutorStepNarrows
  <1>4. CASE UNCHANGED poolVars
    BY <1>4 DEF poolVars, executorVars, PoolInv, PoolTypeOK, HeldOnce, WithinLimit, BeliefsAgree,
                HeldBy
  <1>5. QED
    BY <1>1, <1>2, <1>3, <1>4, CallsNarrow DEF PoolNext

\* Whatever is called in whatever order, the invariant holds.
THEOREM PoolCorrect == PoolSpec => []PoolInv
  BY InitInv, NextInv, PTL DEF PoolSpec

\* The pool's state is well-typed, and executors that sent no capabilities or are
\* gone hold nothing (the queues of ExecutorPool, its channels, its accepted
\* executions).
THEOREM PoolTypeCorrect == PoolSpec => []PoolTypeOK
  <1>1. PoolInv => PoolTypeOK
    BY DEF PoolInv
  <1>2. QED
    BY <1>1, PoolCorrect, PTL

\* try_offer never gives an execution to a second executor, whatever stale batch of
\* ready executions it is called with.
THEOREM NothingHeldTwice == PoolSpec => []HeldOnce
  <1>1. PoolInv => HeldOnce
    BY DEF PoolInv
  <1>2. QED
    BY <1>1, PoolCorrect, PTL

\* An executor never holds more executions than the max_concurrent_executions it
\* announced, offers included.
THEOREM LimitsHold == PoolSpec => []WithinLimit
  <1>1. PoolInv => WithinLimit
    BY DEF PoolInv
  <1>2. QED
    BY <1>1, PoolCorrect, PTL

\* The pool and an executor agree on what the executor is to run once it has read
\* its messages: cancellations are sent for whatever is removed from its queue.
THEOREM ExecutorsAgree == PoolSpec => []BeliefsAgree
  <1>1. PoolInv => BeliefsAgree
    BY DEF PoolInv
  <1>2. QED
    BY <1>1, PoolCorrect, PTL

-----------------------------------------------------------------------------
(* Server *)

Known(x) == execStatus[x] # "absent"
Began(x) == execStatus[x] \notin {"absent", "pending"}
Ended(x) == execStatus[x] \in Outcome \cup {"deleted"}
Held(x)  == \E e \in Executors : held[e][x] # "none"

Reporting(x) == Reported(x) \/ x \in EventsHeld

\* The start of x by executor e is in the batch, and the pool is not told yet.
InBatch(x, e) ==
  startPc \in {"commit", "mark"} /\ x \in DOMAIN startBatch /\ startBatch[x] = e

\* The start of x by executor e is about to be recorded.
StartingOn(x, e) == <<x, e>> \in startQueue \/ InBatch(x, e)

(***************************************************************************)
(* The parts of the invariant                                              *)
(***************************************************************************)

\* What the loops carry is typed.
LoopsTyped ==
  /\ ServerTypeOK
  /\ \A x \in DOMAIN readyPage : readyPage[x] \in Nat
  /\ startBatch \in [DOMAIN startBatch -> Executors]

\* Whatever names an execution names one that exists.
NamesKnown ==
  /\ \A x \in DOMAIN readyPage \cup DOMAIN startBatch \cup EventsHeld : Known(x)
  /\ \A x \in Executions : Held(x) \/ Reported(x) => Known(x)
  /\ \A p \in startQueue : Known(p[1])

\* An execution is unstarted in the pool exactly while its start is about to be
\* recorded, by one entry of the queue or the batch, of one executor.
StartsTracked ==
  /\ \A x \in Executions : accepted[x] = "unstarted" <=> \E e \in Executors : StartingOn(x, e)
  /\ \A x \in Executions, d, e \in Executors : StartingOn(x, d) /\ StartingOn(x, e) => d = e
  /\ \A x \in Executions, d, e \in Executors : InBatch(x, d) => <<x, e>> \notin startQueue
  /\ startPc \in {"idle", "commit"} => notStarted = {}

\* Nobody else holds an execution whose start is about to be recorded.
StartsHeld ==
  \A x \in Executions, d, e \in Executors :
    StartingOn(x, e) /\ held[d][x] # "none" => d = e /\ held[d][x] = "accepted"

\* try_offer recognizes what was started since the page was fetched.
PageFresh ==
  /\ readyPc = "offer" <=> DOMAIN readyPage # {}
  /\ \A x \in DOMAIN readyPage :
       execStatus[x] = "running" => accepted[x] \in {"unstarted", "after"}

\* What is accepted or has a result was started, or is about to be.
ResultsFollow ==
  /\ \A x \in Executions :
       Reporting(x) \/ (\E e \in Executors : held[e][x] = "accepted") =>
         Began(x) \/ accepted[x] = "unstarted"
  /\ startPc \in {"mark", "cancel"} => \A x \in DOMAIN startBatch : Began(x)

\* Results that are applied are those of started executions.
ResultsBegan == ~eventWaits /\ ~StartWaitElapses => \A x \in EventsHeld : Began(x)

\* An executor that runs something, or is about to, sent its capabilities; and what
\* is about to be started does not run for another executor.
RunnersReady ==
  /\ \A x \in Executions : execStatus[x] = "running" =>
       execExecutor[x] \in Executors /\ conn[execExecutor[x]] \notin {"absent", "connected"}
  /\ \A x \in Executions, e \in Executors :
       StartingOn(x, e) => conn[e] \notin {"absent", "connected"}
  /\ \A x \in Executions, e \in Executors :
       <<x, e>> \in startQueue => execStatus[x] # "running"
  /\ startPc = "commit" => \A x \in DOMAIN startBatch :
       execStatus[x] = "running" => execExecutor[x] = startBatch[x]

\* What the starts loop or an administrator cancels in the pool has ended.
CancelsEnded == \A x \in notStarted \cup adminCancel : Ended(x)

\* What is about to be started is held by its executor, or has a result.
StartsKept ==
  \A x \in Executions, e \in Executors :
    /\ <<x, e>> \in startQueue \/ (startPc = "commit" /\ InBatch(x, e))
    /\ execStatus[x] \in Active /\ conn[e] \in {"ready", "draining"}
    => held[e][x] = "accepted" \/ Reporting(x)

\* An execution with a result is held by nobody until it ends.
ReportedGone ==
  \A x \in Executions : Reporting(x) /\ execStatus[x] \in Active => ~Held(x)

\* The timeouts loop names executions that were started; those it cancels in the
\* pool it ends before; and orphans are those of executors that are gone for ever.
TimeoutsKnow ==
  /\ \A x \in DOMAIN progress \cup lateCancel \cup orphanFail \cup orphanRetry : Began(x)
  /\ progress # EmptyMap => TimeoutsIdle
  /\ lateFail \cup lateRetry \subseteq lateCancel
  /\ \A x \in lateCancel \ (lateFail \cup lateRetry) : Ended(x)
  /\ \A x \in DOMAIN progress :
       execExecutor[x] \in Executors /\ conn[execExecutor[x]] \notin {"absent", "connected"}
  /\ \A x \in orphanFail \cup orphanRetry :
       execExecutor[x] \in Executors /\ conn[execExecutor[x]] = "gone"

\* A loop, the starts loop at the latest, is about to cancel x in the pool if it has ended.
Withdrawing(x) ==
  \/ x \in adminCancel \cup lateCancel \cup notStarted
  \/ \E d \in Executors : <<x, d>> \in startQueue
  \/ startPc = "commit" /\ x \in DOMAIN startBatch

\* What an executor goes on with after its end is about to be cancelled.
EndedWithdrawn ==
  \A x \in Executions, e \in Executors :
    held[e][x] = "accepted" /\ Ended(x) => Withdrawing(x)

\* The way of an execution through the pool and the loops.
OnItsWay ==
  /\ NamesKnown /\ StartsTracked /\ StartsHeld /\ PageFresh /\ ResultsFollow /\ RunnersReady
  /\ StartsKept /\ ReportedGone /\ OneExecutorRuns /\ RunningIsTracked

LoopsInv == LoopsTyped /\ PoolInv /\ OnItsWay /\ CancelsEnded /\ TimeoutsKnow

(***************************************************************************)
(* What calls of the backend do to executions                              *)
(***************************************************************************)

\* Executions are inserted or end; none is started.
StatusMoves ==
  \A x \in Executions :
    /\ execExecutor'[x] = execExecutor[x]
    /\ \/ execStatus'[x] = execStatus[x]
       \/ execStatus[x] = "absent" /\ execStatus'[x] = "pending"
       \/ execStatus[x] \in Active /\ execStatus'[x] \in Outcome

\* Results, failures and cancellations end executions.
LEMMA FinishMoves ==
  ASSUME BackendTypeOK, NEW done \in SUBSET ActiveExecs, NEW outcome \in Outcome,
         FinishJobs(done, outcome)
  PROVE  BackendTypeOK' /\ StatusMoves
  <1>1. BackendTypeOK'
    BY FinishJobsType
  <1>2. /\ execStatus' = [x \in Executions |-> IF x \in done THEN outcome ELSE execStatus[x]]
        /\ execExecutor' = execExecutor
    BY DEF FinishJobs, FinishAndInsert, NoNewExecs
  <1>3. QED
    BY <1>1, <1>2 DEF StatusMoves, ActiveExecs

\* Results, failures and retries leave none of the executions they name active.
LEMMA ResultMoves ==
  ASSUME BackendTypeOK, NEW xs \in SUBSET KnownExecs,
         ExecutionsSucceeded(xs) \/ ExecutionsFailed(xs) \/ ExecutionsRetried(xs)
  PROVE  BackendTypeOK' /\ StatusMoves /\ \A x \in xs : execStatus'[x] \notin Active
  <1>1. xs \subseteq Executions /\ \A x \in xs : execStatus[x] # "absent"
    BY DEF KnownExecs
  <1>2. ASSUME NEW outcome \in Outcome, FinishJobs(Unfinished(xs), outcome)
        PROVE  BackendTypeOK' /\ StatusMoves /\ \A x \in xs : execStatus'[x] \notin Active
    <2>1. BackendTypeOK' /\ StatusMoves
      BY <1>2, FinishMoves DEF Unfinished
    <2>2. execStatus' = [x \in Executions |->
             IF x \in Unfinished(xs) THEN outcome ELSE execStatus[x]]
      BY <1>2 DEF FinishJobs, FinishAndInsert, NoNewExecs
    <2>3. QED
      BY <1>1, <2>1, <2>2 DEF Unfinished, ActiveExecs, Outcome, Active
  <1>3. CASE ExecutionsSucceeded(xs)
    BY <1>2, <1>3 DEF ExecutionsSucceeded, FinishJobs, Outcome
  <1>4. CASE ExecutionsFailed(xs)
    BY <1>2, <1>4 DEF ExecutionsFailed, FinishJobs, Outcome
  <1>5. CASE ExecutionsRetried(xs)
    <2>1. BackendTypeOK'
      BY <1>5, RetriedType
    <2>2. PICK from \in FreshFor(Retryable(xs)) :
            execStatus' = [x \in Executions |->
              IF x \in DOMAIN from THEN "pending"
              ELSE IF x \in Unfinished(xs) THEN "failed" ELSE execStatus[x]]
      BY <1>5, RetriedShape
    <2>3. \A x \in DOMAIN from : execStatus[x] = "absent"
      BY FreshForIs DEF FreshExecs
    <2>4. execExecutor' = execExecutor
      BY <1>5 DEF ExecutionsRetried, FinishAndInsert
    <2>5. QED
      BY <1>1, <2>1, <2>2, <2>3, <2>4 DEF StatusMoves, Unfinished, ActiveExecs, Outcome, Active
  <1>6. QED
    BY <1>3, <1>4, <1>5

\* A job that is added gets pending executions under fresh ids, and nothing else changes.
LEMMA AddJobInserts ==
  ASSUME BackendTypeOK, NEW j \in FreshJobs, AddJobs([i \in {j} |-> None])
  PROVE  BackendTypeOK' /\ \E new : /\ \A x \in DOMAIN new : x \in FreshExecs
                                   /\ FinishAndInsert({}, "absent", new)
  <1> DEFINE sched == [i \in {j} |-> None]
  <1>1. {j} \in SUBSET FreshJobs /\ sched \in [{j} -> Schedules \cup {None}] /\ AddJobs(sched)
    OBVIOUS
  <1> HIDE DEF sched
  <1>2. PICK claim \in [Claimable(sched) -> {j}] :
          \E new \in FreshFor(Added(sched, claim)) : FinishAndInsert({}, "absent", new)
    BY <1>1, AddJobsShape
  <1>3. PICK new \in FreshFor(Added(sched, claim)) : FinishAndInsert({}, "absent", new)
    BY <1>2
  <1>4. \A x \in DOMAIN new : x \in FreshExecs
    BY FreshForIs
  <1>5. BackendTypeOK'
    BY <1>1, AddJobsType
  <1>6. QED
    BY <1>3, <1>4, <1>5

\* Jobs that are added or cancelled.
LEMMA AdminMoves ==
  ASSUME BackendTypeOK,
         (\E j \in FreshJobs : AddJobs([i \in {j} |-> None])) \/ \E js \in SUBSET Jobs : CancelJobs(js)
  PROVE  BackendTypeOK' /\ StatusMoves
  <1>1. ASSUME NEW j \in FreshJobs, AddJobs([i \in {j} |-> None])
        PROVE  BackendTypeOK' /\ StatusMoves
    <2>1. PICK new : /\ \A x \in DOMAIN new : x \in FreshExecs
                     /\ FinishAndInsert({}, "absent", new)
      BY <1>1, AddJobInserts
    <2>2. StatusMoves
      BY <2>1 DEF StatusMoves, FinishAndInsert, FreshExecs
    <2>3. QED
      BY <1>1, <2>2, AddJobInserts
  <1>2. ASSUME NEW js \in SUBSET Jobs, CancelJobs(js)
        PROVE  BackendTypeOK' /\ StatusMoves
    BY <1>2, CancelFinishesJobs, FinishMoves DEF Outcome
  <1>3. QED
    BY <1>1, <1>2

\* What the status of an execution is allowed to become.
LEMMA MovesKeep ==
  ASSUME BackendTypeOK, StatusMoves, NEW x \in Executions
  PROVE  /\ Known(x) => Known(x)'
         /\ Began(x) => Began(x)'
         /\ Ended(x) => Ended(x)'
         /\ execStatus'[x] = "running" => execStatus[x] = "running"
         /\ Known(x) /\ execStatus'[x] \in Active => execStatus'[x] = execStatus[x]
         /\ Ended(x)' => Ended(x) \/ execStatus[x] \in Active
         /\ execExecutor'[x] = execExecutor[x]
  BY DEF StatusMoves, Known, Began, Ended, Outcome, Active, BackendTypeOK, ExecStates

(***************************************************************************)
(* What the loops of executors do                                          *)
(***************************************************************************)

\* Executors hold less; what was accepted is reported, or the executor is about
\* to be gone.
Takes ==
  /\ accepted' = accepted /\ startQueue' = startQueue
  /\ \A d \in Executors, x \in Executions :
       /\ held'[d][x] \in {held[d][x], "none"}
       /\ held[d][x] = "accepted" /\ held'[d][x] = "none" =>
            Reported(x)' \/ conn'[d] \notin {"ready", "draining"}
  /\ \A x \in Executions :
       /\ Reported(x) => Reported(x)'
       /\ Reported(x)' => \/ Reported(x)
                          \/ ~Held(x)' /\ \E d \in Executors : held[d][x] = "accepted"
  /\ \A d \in Executors :
       /\ conn'[d] \in {"ready", "draining"} => conn[d] \in {"connected", "ready", "draining"}
       /\ conn[d] \notin {"absent", "connected"} => conn'[d] \notin {"absent", "connected"}
       /\ conn[d] = "gone" => conn'[d] = "gone"

\* What is reported once an event is appended.
LEMMA ReportedAppended ==
  ASSUME NEW xs \in SUBSET Executions, NEW result \in Results, events \in Seq(Event),
         events' = Append(events, [xs |-> xs, result |-> result]), NEW x
  PROVE  Reported(x)' <=> Reported(x) \/ x \in xs
  <1>1. /\ DOMAIN events = 1..Len(events) /\ Len(events) \in Nat
        /\ DOMAIN events' = 1..(Len(events) + 1)
        /\ \A i \in 1..Len(events) : events'[i] = events[i]
        /\ events'[Len(events) + 1] = [xs |-> xs, result |-> result]
    OBVIOUS
  <1>2. QED
    BY <1>1 DEF Reported

\* Nothing an executor sends gives it or another executor an execution; only an
\* acceptance starts one.
LEMMA ExecutorTakes ==
  ASSUME PoolInv, NEW e \in Executors, ExecutorStep(e)
  PROVE  Takes \/ \E x \in Executions : AcceptOffer(e, x)
  <1> USE DEF PoolInv, PoolTypeOK, ConnStates, HeldStates
  <1>1. CASE Connect(e)
    BY <1>1 DEF Connect, Takes, Reported, Held
  <1>2. CASE LoseConnection(e)
    BY <1>2 DEF LoseConnection, Takes, Reported, Held
  <1>3. CASE Drop(e)
    <2>1. \A x \in Executions : Reported(x)' <=> Reported(x) \/ x \in AssignedTo(e)
      <3>1. CASE AssignedTo(e) = {}
        BY <1>3, <3>1 DEF Drop, Reported
      <3>2. CASE AssignedTo(e) # {}
        BY <1>3, <3>2, ReportedAppended DEF Drop, AssignedTo, Results
      <3>3. QED
        BY <3>1, <3>2
    <2>2. \A x \in AssignedTo(e) : ~Held(x)'
      BY <1>3 DEF Drop, HeldOnce, HeldBy, AssignedTo, Held
    <2>3. QED
      BY <1>3, <2>1, <2>2 DEF Drop, InPool, Takes, AssignedTo
  <1>4. ASSUME NEW n \in Limits, NEW h \in Handshakes, Capabilities(e, n, h) PROVE Takes
    BY <1>4 DEF Capabilities, Takes, Reported, Held
  <1>5. ASSUME NEW x \in Executions, AcceptWhileDraining(e, x) PROVE Takes
    BY <1>5 DEF AcceptWhileDraining, Withdraw, Takes, Reported, Held
  <1>6. ASSUME NEW x \in Executions, RejectOffer(e, x) PROVE Takes
    BY <1>6 DEF RejectOffer, Withdraw, DoneDraining, Takes, Reported, Held
  <1>7. ASSUME NEW x \in Executions, NEW result \in Results, Finish(e, x, result) PROVE Takes
    <2>1. \A y \in Executions : Reported(y)' <=> Reported(y) \/ y = x
      BY <1>7, ReportedAppended DEF Finish
    <2>2. ~Held(x)' /\ held[e][x] = "accepted"
      BY <1>7 DEF Finish, Withdraw, HeldOnce, HeldBy, Held
    <2>3. /\ accepted' = accepted /\ startQueue' = startQueue
          /\ \A d \in Executors, y \in Executions :
               held'[d][y] = IF d = e /\ y = x THEN "none" ELSE held[d][y]
      BY <1>7 DEF Finish, Withdraw
    <2>4. \A d \in Executors :
            conn'[d] = conn[d] \/ (d = e /\ conn[d] = "draining" /\ conn'[d] = "ending")
      BY <1>7 DEF Finish, DoneDraining
    <2>5. QED
      BY <2>1, <2>2, <2>3, <2>4 DEF Takes
  <1>8. ASSUME NEW x \in Executions, FinishOffered(e, x) PROVE Takes
    BY <1>8 DEF FinishOffered, Withdraw, Takes, Reported, Held
  <1>9. ASSUME NEW x \in Executions, FinishInvalid(e, x) PROVE Takes
    BY <1>9 DEF FinishInvalid, Hears, Withdraw, Takes, Reported, Held
  <1>10. ASSUME NEW xs \in SUBSET Executions, ExpireOffers(e, xs) PROVE Takes
    BY <1>10 DEF ExpireOffers, OfferedTo, Withdraw, Takes, Reported, Held
  <1>11. CASE BackoffEnds(e)
    BY <1>11 DEF BackoffEnds, Takes, Reported, Held
  <1>12. CASE NoticeShutdown(e)
    BY <1>12 DEF NoticeShutdown, OfferedTo, Withdraw, Takes, Reported, Held
  <1>13. CASE GraceElapses(e)
    BY <1>13 DEF GraceElapses, Takes, Reported, Held
  <1>14. QED
    BY <1>1, <1>2, <1>3, <1>4, <1>5, <1>6, <1>7, <1>8, <1>9, <1>10, <1>11, <1>12, <1>13
       DEF ExecutorStep


(***************************************************************************)
(* What keeps an execution on its way                                      *)
(***************************************************************************)

\* A call of the backend that starts nothing, of a loop that drops results only
\* after it applied them.
Quiet ==
  /\ BackendTypeOK' /\ StatusMoves
  /\ UNCHANGED <<poolVars, readyPc, readyPage, startVars>>
  /\ EventsHeld' \subseteq EventsHeld
  /\ \A x \in EventsHeld \ EventsHeld' : execStatus'[x] \notin Active

\* Nothing on the way changes.
LEMMA QuietKeeps ==
  ASSUME LoopsTyped, OnItsWay, Quiet
  PROVE  OnItsWay'
  <1> USE DEF OnItsWay, LoopsTyped, ServerTypeOK
  <1>1. \A x \in Executions :
          /\ execStatus[x] # "absent" => execStatus'[x] # "absent"
          /\ Began(x) => execStatus'[x] \notin {"absent", "pending"}
          /\ execStatus'[x] = "running" => execStatus[x] = "running"
          /\ execStatus[x] # "absent" /\ execStatus'[x] \in Active => execStatus'[x] = execStatus[x]
          /\ execExecutor'[x] = execExecutor[x]
    BY MovesKeep DEF Quiet, Known, Began
  <1>2. /\ UNCHANGED <<conn, held, accepted, startQueue, events, readyPc, readyPage, startPc,
                       startBatch, notStarted>>
        /\ EventsHeld' \subseteq EventsHeld
        /\ \A x \in EventsHeld \ EventsHeld' : execStatus'[x] \notin Active
    BY DEF Quiet, poolVars, executorVars, startVars
  <1>3. \A x : /\ Reported(x)' <=> Reported(x)
               /\ Held(x)' <=> Held(x)
               /\ \A e : StartingOn(x, e)' <=> StartingOn(x, e)
               /\ \A e : InBatch(x, e)' <=> InBatch(x, e)
    BY <1>2 DEF Reported, Held, StartingOn, InBatch
  <1>4. NamesKnown'
    BY <1>1, <1>2, <1>3 DEF NamesKnown, Known, PoolTypeOK, EventsHeld
  <1>5. StartsTracked'
    BY <1>2, <1>3 DEF StartsTracked
  <1>6. StartsHeld'
    BY <1>2, <1>3 DEF StartsHeld
  <1>7. PageFresh'
    BY <1>1, <1>2 DEF PageFresh
  <1>8. ResultsFollow'
    BY <1>1, <1>2, <1>3 DEF ResultsFollow, Reporting, Began
  <1>9. RunnersReady'
    BY <1>1, <1>2, <1>3 DEF RunnersReady
  <1>10. StartsKept'
    BY <1>1, <1>2, <1>3 DEF StartsKept, Reporting, NamesKnown, Known, InBatch
  <1>11. ReportedGone'
    BY <1>1, <1>2, <1>3 DEF ReportedGone, Reporting, NamesKnown, Known
  <1>12. OneExecutorRuns'
    BY <1>1, <1>2 DEF OneExecutorRuns, HeldBy
  <1>13. RunningIsTracked'
    BY <1>1, <1>2, <1>3 DEF RunningIsTracked, Active
  <1>14. QED
    BY <1>4, <1>5, <1>6, <1>7, <1>8, <1>9, <1>10, <1>11, <1>12, <1>13

\* Starts are recorded: only what the executor of the batch holds gets to run.
LEMMA CommitKeeps ==
  ASSUME LoopsTyped, OnItsWay, StartsCommit
  PROVE  OnItsWay'
  <1> DEFINE S == Startable(startBatch)
  <1> USE DEF OnItsWay
  <1>1. /\ UNCHANGED <<conn, held, accepted, startQueue, events, readyPc, readyPage, startBatch,
                       eventOk, eventFail, eventRetry>>
        /\ startPc = "commit" /\ startPc' \in {"commit", "mark"}
        /\ startPc' = "commit" => notStarted' = notStarted
    BY DEF StartsCommit, poolVars, executorVars, readyVars, eventVars
  <1>2. /\ S \subseteq DOMAIN startBatch /\ DOMAIN startBatch \subseteq Executions
        /\ \A x \in DOMAIN startBatch : startBatch[x] \in Executors /\ InBatch(x, startBatch[x])
        /\ \A x \in S : execStatus[x] \in Active
        /\ \A x \in DOMAIN startBatch : x \notin S => execStatus[x] \notin {"pending", "running"}
    BY <1>1 DEF Startable, LoopsTyped, ServerTypeOK, InBatch, RunnersReady, Active
  <1>3. \A x \in Executions :
          /\ execStatus'[x] = IF x \in S THEN "running" ELSE execStatus[x]
          /\ execExecutor'[x] = IF x \in S THEN startBatch[x] ELSE execExecutor[x]
    BY DEF StartsCommit, ExecutionsStarted
  <1>4. /\ EventsHeld' = EventsHeld
        /\ \A x : /\ Reported(x)' <=> Reported(x)
                  /\ Held(x)' <=> Held(x)
                  /\ \A e : StartingOn(x, e)' <=> StartingOn(x, e)
                  /\ \A e : InBatch(x, e)' <=> InBatch(x, e)
    BY <1>1 DEF Reported, Held, StartingOn, InBatch, EventsHeld
  <1> HIDE DEF S
  <1>5. \A x \in S : /\ execStatus[x] \in {"pending", "running"}
                     /\ accepted[x] = "unstarted"
                     /\ \A e : <<x, e>> \notin startQueue
    <2>1. \A x \in S : StartingOn(x, startBatch[x]) /\ startBatch[x] \in Executors /\ x \in Executions
      BY <1>2 DEF StartingOn
    <2>2. startQueue \subseteq Executions \X Executors
      BY DEF LoopsTyped, ServerTypeOK, PoolTypeOK
    <2>3. QED
      BY <1>2, <2>1, <2>2 DEF StartsTracked, Active
  <1>6. NamesKnown'
    <2>1. \A x \in Executions : execStatus[x] # "absent" => execStatus'[x] # "absent"
      BY <1>3
    <2>2. /\ DOMAIN readyPage \cup DOMAIN startBatch \cup EventsHeld \subseteq Executions
          /\ startQueue \subseteq Executions \X Executors
      BY DEF LoopsTyped, ServerTypeOK, PoolTypeOK, EventsHeld
    <2>3. QED
      BY <1>1, <1>4, <2>1, <2>2 DEF NamesKnown, Known
  <1>7. StartsTracked'
    BY <1>1, <1>4 DEF StartsTracked
  <1>8. StartsHeld'
    BY <1>1, <1>4 DEF StartsHeld
  <1>9. PageFresh'
    BY <1>1, <1>3, <1>5 DEF PageFresh, LoopsTyped, ServerTypeOK
  <1>10. ResultsFollow'
    <2>1. \A x \in Executions : Began(x) => Began(x)'
      BY <1>3 DEF Began
    <2>2. \A x \in DOMAIN startBatch : Began(x)'
      BY <1>2, <1>3 DEF Began, NamesKnown, Known
    <2>3. QED
      BY <1>1, <1>4, <2>1, <2>2 DEF ResultsFollow, Reporting
  <1>11. RunnersReady'
    <2>1. \A x \in S : StartingOn(x, startBatch[x]) /\ startBatch[x] \in Executors
      BY <1>2 DEF StartingOn
    <2>2. QED
      BY <1>1, <1>2, <1>3, <1>4, <1>5, <2>1 DEF RunnersReady
  <1>12. StartsKept'
    BY <1>1, <1>2, <1>3, <1>4 DEF StartsKept, Reporting, Active
  <1>13. ReportedGone'
    BY <1>1, <1>2, <1>3, <1>4 DEF ReportedGone, Reporting
  <1>14. OneExecutorRuns'
    <2>1. ASSUME NEW x \in S, NEW e \in Executors, held[e][x] # "none"
          PROVE  startBatch[x] = e /\ held[e][x] = "accepted"
      <3>1. x \in Executions /\ startBatch[x] \in Executors /\ StartingOn(x, startBatch[x])
        BY <1>2 DEF StartingOn
      <3>2. QED
        BY <2>1, <3>1 DEF StartsHeld
    <2>2. QED
      BY <1>1, <1>3, <2>1 DEF OneExecutorRuns, HeldBy
  <1>15. RunningIsTracked'
    BY <1>1, <1>2, <1>3, <1>4 DEF RunningIsTracked, StartsKept, Reporting
  <1>16. QED
    BY <1>6, <1>7, <1>8, <1>9, <1>10, <1>11, <1>12, <1>13, <1>14, <1>15

\* Executors give back what they hold.
LEMMA TakesKeeps ==
  ASSUME LoopsTyped, OnItsWay, Takes, UNCHANGED <<backendVars, loopVars>>
  PROVE  OnItsWay'
  <1> USE DEF OnItsWay
  <1>1. /\ UNCHANGED <<execStatus, execExecutor, accepted, startQueue, readyPc, readyPage, startPc,
                       startBatch, notStarted, eventOk, eventFail, eventRetry>>
        /\ EventsHeld' = EventsHeld
    BY DEF backendVars, execVars, loopVars, readyVars, startVars, eventVars, Takes, EventsHeld
  <1>2. \A x, e : (StartingOn(x, e)' <=> StartingOn(x, e)) /\ (InBatch(x, e)' <=> InBatch(x, e))
    BY <1>1 DEF StartingOn, InBatch
  <1>3. NamesKnown'
    BY <1>1 DEF NamesKnown, Known, Takes, Held, LoopsTyped, ServerTypeOK, PoolTypeOK, EventsHeld
  <1>4. StartsTracked'
    BY <1>1, <1>2 DEF StartsTracked
  <1>5. StartsHeld'
    BY <1>2 DEF StartsHeld, Takes
  <1>6. PageFresh'
    BY <1>1 DEF PageFresh
  <1>7. ResultsFollow'
    BY <1>1 DEF ResultsFollow, Takes, Reporting, Began
  <1>8. RunnersReady'
    BY <1>1, <1>2 DEF RunnersReady, Takes
  <1>9. StartsKept'
    BY <1>1, <1>2 DEF StartsKept, RunnersReady, StartingOn, Takes, Reporting
  <1>10. ReportedGone'
    BY <1>1 DEF ReportedGone, Takes, Reporting, Held
  <1>11. OneExecutorRuns'
    BY <1>1 DEF OneExecutorRuns, Takes, HeldBy
  <1>12. RunningIsTracked'
    BY <1>1 DEF RunningIsTracked, RunnersReady, Takes
  <1>13. QED
    BY <1>3, <1>4, <1>5, <1>6, <1>7, <1>8, <1>9, <1>10, <1>11, <1>12

\* An executor accepts what is offered to it alone, and not started by anyone.
LEMMA AcceptKeeps ==
  ASSUME LoopsTyped, PoolInv, OnItsWay, NEW e \in Executors, NEW x \in Executions,
         AcceptOffer(e, x), UNCHANGED <<backendVars, loopVars>>
  PROVE  OnItsWay'
  <1> USE DEF OnItsWay
  <1>1. /\ UNCHANGED <<execStatus, execExecutor, conn, events, readyPc, readyPage, startPc,
                       startBatch, notStarted, eventOk, eventFail, eventRetry>>
        /\ EventsHeld' = EventsHeld
    BY DEF AcceptOffer, backendVars, execVars, loopVars, readyVars, startVars, eventVars, EventsHeld
  <1>2. /\ held[e][x] = "offered" /\ conn[e] \notin {"absent", "connected"}
        /\ accepted' = [accepted EXCEPT ![x] = "unstarted"]
        /\ startQueue' = startQueue \cup {<<x, e>>}
        /\ \A d \in Executors, y \in Executions :
             held'[d][y] = IF d = e /\ y = x THEN "accepted" ELSE held[d][y]
    BY DEF AcceptOffer, PoolInv, PoolTypeOK
  <1>3. /\ execStatus[x] # "running" /\ Known(x)
        /\ \A d \in Executors : ~StartingOn(x, d)
        /\ \A d \in Executors : d # e => held[d][x] = "none"
    BY <1>2 DEF OneExecutorRuns, HeldBy, NamesKnown, Held, StartsHeld, PoolInv, HeldOnce
  <1>4. /\ \A y : Reported(y)' <=> Reported(y)
        /\ \A y, d : InBatch(y, d)' <=> InBatch(y, d)
        /\ \A y, d : StartingOn(y, d)' <=> StartingOn(y, d) \/ (y = x /\ d = e)
    BY <1>1, <1>2 DEF Reported, InBatch, StartingOn
  <1>5. \A y \in Executions : accepted'[y] = IF y = x THEN "unstarted" ELSE accepted[y]
    BY <1>2 DEF PoolInv, PoolTypeOK
  <1>6. NamesKnown'
    BY <1>1, <1>2, <1>3, <1>4 DEF NamesKnown, Known, Held
  <1>7. StartsTracked'
    <2>1. (\A y \in Executions : accepted[y] = "unstarted" <=> \E d \in Executors : StartingOn(y, d))'
      BY <1>3, <1>4, <1>5 DEF StartsTracked
    <2>2. (\A y \in Executions, c, d \in Executors : StartingOn(y, c) /\ StartingOn(y, d) => c = d)'
      BY <1>3, <1>4 DEF StartsTracked
    <2>3. (\A y \in Executions, c, d \in Executors : InBatch(y, c) => <<y, d>> \notin startQueue)'
      BY <1>2, <1>3, <1>4 DEF StartsTracked, StartingOn
    <2>4. QED
      BY <1>1, <2>1, <2>2, <2>3 DEF StartsTracked
  <1>8. StartsHeld'
    BY <1>2, <1>3, <1>4 DEF StartsHeld
  <1>9. PageFresh'
    BY <1>1, <1>5 DEF PageFresh, LoopsTyped, ServerTypeOK
  <1>10. ResultsFollow'
    BY <1>1, <1>2, <1>4, <1>5 DEF ResultsFollow, Reporting, Began
  <1>11. RunnersReady'
    BY <1>1, <1>2, <1>3, <1>4 DEF RunnersReady
  <1>12. StartsKept'
    BY <1>1, <1>2, <1>4 DEF StartsKept, Reporting
  <1>13. ReportedGone'
    BY <1>1, <1>2, <1>4 DEF ReportedGone, Reporting, Held
  <1>14. OneExecutorRuns'
    BY <1>1, <1>2, <1>3 DEF OneExecutorRuns, HeldBy
  <1>15. RunningIsTracked'
    BY <1>1, <1>2, <1>3, <1>4 DEF RunningIsTracked, RunnersReady
  <1>16. QED
    BY <1>6, <1>7, <1>8, <1>9, <1>10, <1>11, <1>12, <1>13, <1>14, <1>15

\* What try_offer sends is neither on its way nor running.
LEMMA OfferKeeps ==
  ASSUME LoopsTyped, OnItsWay, ReadyOffer
  PROVE  OnItsWay'
  <1> USE DEF OnItsWay
  <1>1. PICK to \in Assignments(DOMAIN readyPage \ Taken) : Offer(to)
    BY DEF ReadyOffer
  <1> DEFINE immediate == {x \in DOMAIN to : ~handshake[to[x]]}
  <1>2. /\ UNCHANGED <<execStatus, execExecutor, startPc, startBatch, notStarted, eventOk,
                       eventFail, eventRetry>>
        /\ DOMAIN readyPage' = {} /\ readyPc' # "offer"
        /\ EventsHeld' = EventsHeld
    BY DEF ReadyOffer, backendVars, execVars, startVars, eventVars, EmptyMap, EventsHeld
  <1>3. /\ UNCHANGED <<conn, events>>
        /\ startQueue' = startQueue \cup {<<x, to[x]>> : x \in immediate}
        /\ \A x \in Executions : accepted'[x] =
             IF x \in immediate THEN "unstarted"
             ELSE IF accepted[x] = "before" THEN "none" ELSE accepted[x]
        /\ \A d \in Executors, x \in Executions : held'[d][x] =
             IF x \in DOMAIN to /\ to[x] = d
             THEN IF handshake[d] THEN "offered" ELSE "accepted"
             ELSE held[d][x]
    BY <1>1 DEF Offer
  <1>4. /\ DOMAIN to \subseteq Executions
        /\ \A x \in DOMAIN to :
             /\ to[x] \in Executors
             /\ conn[to[x]] \notin {"absent", "connected"}
             /\ \A d \in Executors : held[d][x] = "none"
    <2>1. PoolTypeOK /\ DOMAIN readyPage \in SUBSET Executions
      BY DEF LoopsTyped, ServerTypeOK
    <2>2. /\ DOMAIN to \subseteq Executions
          /\ \A x \in DOMAIN to :
               /\ to[x] \in Executors
               /\ HasCapacity(to[x])
               /\ \A d \in Executors : held[d][x] = "none"
      BY <1>1, <2>1, AssignmentsFit
    <2>3. QED
      BY <2>2 DEF HasCapacity
  <1>5. \A x \in DOMAIN to : x \in DOMAIN readyPage /\ accepted[x] \notin {"unstarted", "after"}
    <2>1. DOMAIN to \subseteq DOMAIN readyPage \ Taken
      BY <1>1 DEF Assignments
    <2>2. ASSUME NEW x \in Executions, accepted[x] \in {"unstarted", "after"}
          PROVE  x \in Taken
      BY <2>2 DEF Taken
    <2>3. QED
      BY <1>4, <2>1, <2>2
  <1>6. \A x \in DOMAIN to :
          /\ execStatus[x] # "running" /\ Known(x)
          /\ \A d \in Executors : ~StartingOn(x, d)
          /\ Reporting(x) => execStatus[x] \notin Active
    <2>1. \A x \in DOMAIN to : execStatus[x] # "running" /\ Known(x)
      BY <1>5 DEF PageFresh, NamesKnown
    <2>2. \A x \in DOMAIN to, d \in Executors : ~StartingOn(x, d)
      BY <1>4, <1>5 DEF StartsTracked
    <2>3. \A x \in DOMAIN to : Reporting(x) => execStatus[x] \notin Active
      BY <1>4, <1>5, <2>1 DEF ResultsFollow, Began, Active
    <2>4. QED
      BY <2>1, <2>2, <2>3
  <1> HIDE DEF immediate
  <1>7. /\ \A y : Reported(y)' <=> Reported(y)
        /\ \A y, d : InBatch(y, d)' <=> InBatch(y, d)
        /\ \A y, d : StartingOn(y, d)' <=> StartingOn(y, d) \/ (y \in immediate /\ d = to[y])
    BY <1>2, <1>3 DEF Reported, InBatch, StartingOn
  <1>8. /\ immediate \subseteq DOMAIN to
        /\ \A x \in immediate : ~handshake[to[x]]
        /\ \A x \in DOMAIN to : x \notin immediate => handshake[to[x]]
    BY DEF immediate
  <1>9. NamesKnown'
    BY <1>2, <1>3, <1>4, <1>6, <1>7, <1>8 DEF NamesKnown, Known, Held
  <1>10. StartsTracked'
    <2>1. (\A y \in Executions : accepted[y] = "unstarted" <=> \E d \in Executors : StartingOn(y, d))'
      BY <1>3, <1>4, <1>5, <1>7, <1>8 DEF StartsTracked
    <2>2. (\A y \in Executions, c, d \in Executors : StartingOn(y, c) /\ StartingOn(y, d) => c = d)'
      BY <1>6, <1>7, <1>8 DEF StartsTracked
    <2>3. ASSUME NEW y \in Executions, NEW c \in Executors, NEW d \in Executors, InBatch(y, c)
          PROVE  <<y, d>> \notin startQueue'
      <3>1. StartingOn(y, c) /\ y \notin immediate /\ <<y, d>> \notin startQueue
        BY <1>6, <1>8, <2>3 DEF StartingOn, StartsTracked
      <3>2. QED
        BY <1>3, <3>1
    <2>4. QED
      BY <1>2, <1>7, <2>1, <2>2, <2>3 DEF StartsTracked
  <1>11. StartsHeld'
    BY <1>3, <1>4, <1>6, <1>7, <1>8 DEF StartsHeld
  <1>12. PageFresh'
    BY <1>2 DEF PageFresh
  <1>13. ResultsFollow'
    BY <1>2, <1>3, <1>7, <1>8 DEF ResultsFollow, Reporting, Began
  <1>14. RunnersReady'
    BY <1>2, <1>3, <1>4, <1>6, <1>7, <1>8 DEF RunnersReady
  <1>15. StartsKept'
    BY <1>2, <1>3, <1>4, <1>7, <1>8 DEF StartsKept, Reporting
  <1>16. ReportedGone'
    BY <1>2, <1>3, <1>6, <1>7 DEF ReportedGone, Reporting, Held
  <1>17. OneExecutorRuns'
    BY <1>2, <1>3, <1>6 DEF OneExecutorRuns, HeldBy
  <1>18. RunningIsTracked'
    BY <1>2, <1>3, <1>4, <1>7 DEF RunningIsTracked, RunnersReady
  <1>19. QED
    BY <1>9, <1>10, <1>11, <1>12, <1>13, <1>14, <1>15, <1>16, <1>17, <1>18

\* A new round, a fetch, or a page of pending executions.
Fetches ==
  /\ UNCHANGED <<backendVars, executorVars, startQueue, events, startVars, eventVars>>
  /\ \A x \in Executions : accepted'[x] = "unstarted" <=> accepted[x] = "unstarted"
  /\ readyPc' = "offer" <=> DOMAIN readyPage' # {}
  /\ \A x \in DOMAIN readyPage' : Known(x)
  /\ \A x \in DOMAIN readyPage' :
       execStatus[x] = "running" => accepted'[x] \in {"unstarted", "after"}

LEMMA FetchKeeps ==
  ASSUME LoopsTyped, OnItsWay, Fetches
  PROVE  OnItsWay'
  <1> USE DEF OnItsWay
  <1>1. /\ UNCHANGED <<execStatus, execExecutor, conn, held, startQueue, events, startPc,
                       startBatch, notStarted, eventOk, eventFail, eventRetry>>
        /\ EventsHeld' = EventsHeld
    BY DEF Fetches, backendVars, execVars, executorVars, startVars, eventVars, EventsHeld
  <1>2. \A x : /\ Reported(x)' <=> Reported(x)
               /\ Held(x)' <=> Held(x)
               /\ \A e : StartingOn(x, e)' <=> StartingOn(x, e)
               /\ \A e : InBatch(x, e)' <=> InBatch(x, e)
    BY <1>1 DEF Reported, Held, StartingOn, InBatch
  <1>3. NamesKnown' /\ PageFresh'
    BY <1>1, <1>2 DEF Fetches, NamesKnown, Known, PageFresh
  <1>4. StartsTracked' /\ StartsHeld' /\ RunnersReady'
    <2>1. StartsTracked'
      BY <1>1, <1>2 DEF Fetches, StartsTracked
    <2>2. StartsHeld' /\ RunnersReady'
      BY <1>1, <1>2 DEF StartsHeld, RunnersReady
    <2>3. QED
      BY <2>1, <2>2
  <1>5. ResultsFollow' /\ StartsKept' /\ ReportedGone'
    BY <1>1, <1>2 DEF Fetches, ResultsFollow, StartsKept, ReportedGone, Reporting, Began
  <1>6. OneExecutorRuns' /\ RunningIsTracked'
    BY <1>1, <1>2 DEF OneExecutorRuns, HeldBy, RunningIsTracked
  <1>7. QED
    BY <1>3, <1>4, <1>5, <1>6

LEMMA ReadyFetches ==
  ASSUME LoopsTyped, OnItsWay, ReadyStart \/ ReadyStamp \/ ReadyQuery
  PROVE  Fetches
  <1> USE DEF OnItsWay, PageFresh, Fetches, poolVars, LoopsTyped, ServerTypeOK, PoolTypeOK
  <1>1. CASE ReadyStart
    BY <1>1 DEF ReadyStart
  <1>2. CASE ReadyStamp
    BY <1>2 DEF ReadyStamp, StampFetch
  <1>3. CASE ReadyQuery
    <2>1. PICK xs \in SUBSET Ready : /\ readyPage' = [x \in xs |-> AttemptNumber(x)]
                                     /\ readyPc' = IF xs = {} THEN "start" ELSE "offer"
      BY <1>3 DEF ReadyQuery
    <2>2. DOMAIN readyPage' = xs /\ \A x \in xs : x \in Executions /\ execStatus[x] = "pending"
      BY <2>1 DEF Ready
    <2>3. QED
      BY <1>3, <2>1, <2>2 DEF ReadyQuery, Known
  <1>4. QED
    BY <1>1, <1>2, <1>3

\* Executions that have ended are cancelled in the pool, maybe as the last step of
\* a batch of starts.
Cancels(xs) ==
  /\ \A x \in xs : execStatus[x] \notin Active
  /\ CancelIds(xs)
  /\ UNCHANGED <<backendVars, readyVars, eventVars>>
  /\ \/ UNCHANGED startVars
     \/ /\ startPc = "cancel" /\ startPc' = "idle"
        /\ startBatch' = EmptyMap /\ notStarted' = {}

LEMMA CancelKeeps ==
  ASSUME LoopsTyped, OnItsWay, NEW xs \in SUBSET Executions, Cancels(xs)
  PROVE  OnItsWay'
  <1> USE DEF OnItsWay
  <1>1. /\ UNCHANGED <<execStatus, execExecutor, conn, accepted, startQueue, events, readyPc,
                       readyPage, eventOk, eventFail, eventRetry>>
        /\ EventsHeld' = EventsHeld
        /\ \A d \in Executors, x \in Executions :
             held'[d][x] = IF x \in xs THEN "none" ELSE held[d][x]
    BY DEF Cancels, CancelIds, backendVars, execVars, readyVars, eventVars, EventsHeld
  <1>2. /\ \A x \in xs : execStatus[x] \notin Active
        /\ \/ UNCHANGED <<startPc, startBatch, notStarted>>
           \/ /\ startPc = "cancel" /\ startPc' = "idle"
              /\ DOMAIN startBatch' = {} /\ notStarted' = {}
    BY DEF Cancels, startVars, EmptyMap
  <1>3. \A x : /\ Reported(x)' <=> Reported(x)
               /\ \A e : StartingOn(x, e)' <=> StartingOn(x, e)
               /\ \A e : InBatch(x, e)' <=> InBatch(x, e)
    BY <1>1, <1>2 DEF Reported, StartingOn, InBatch
  <1>4. NamesKnown' /\ PageFresh'
    BY <1>1, <1>2, <1>3 DEF NamesKnown, Known, Held, PageFresh
  <1>5. StartsTracked'
    BY <1>1, <1>2, <1>3 DEF StartsTracked
  <1>6. StartsHeld'
    BY <1>1, <1>3 DEF StartsHeld
  <1>7. RunnersReady'
    BY <1>1, <1>2, <1>3 DEF RunnersReady
  <1>8. ResultsFollow'
    BY <1>1, <1>2, <1>3 DEF ResultsFollow, Reporting, Began
  <1>9. StartsKept'
    BY <1>1, <1>2, <1>3 DEF StartsKept, Reporting
  <1>10. ReportedGone'
    BY <1>1, <1>2, <1>3 DEF ReportedGone, Reporting, Held
  <1>11. OneExecutorRuns'
    BY <1>1, <1>2 DEF OneExecutorRuns, HeldBy
  <1>12. RunningIsTracked'
    BY <1>1, <1>2, <1>3 DEF RunningIsTracked, RunnersReady, Active
  <1>13. QED
    BY <1>4, <1>5, <1>6, <1>7, <1>8, <1>9, <1>10, <1>11, <1>12

\* Starts go from the queue to the batch.
LEMMA ReceiveKeeps ==
  ASSUME LoopsTyped, OnItsWay, StartsReceive
  PROVE  OnItsWay'
  <1> USE DEF OnItsWay
  <1>1. /\ UNCHANGED <<execStatus, execExecutor, conn, held, accepted, events, readyPc, readyPage,
                       notStarted, eventOk, eventFail, eventRetry>>
        /\ EventsHeld' = EventsHeld
        /\ startPc = "idle" /\ startPc' = "commit"
    BY DEF StartsReceive, TakeStarts, backendVars, execVars, executorVars, readyVars, eventVars,
           EventsHeld
  <1>2. PICK batch \in SUBSET startQueue :
          /\ startQueue' = startQueue \ batch
          /\ startBatch' = [x \in {p[1] : p \in batch} |-> (CHOOSE p \in batch : p[1] = x)[2]]
    BY DEF StartsReceive, TakeStarts
  <1>3. startQueue \subseteq Executions \X Executors
    BY DEF LoopsTyped, ServerTypeOK, PoolTypeOK
  <1>4. /\ \A x, e : ~InBatch(x, e)
        /\ \A x, e : StartingOn(x, e) <=> <<x, e>> \in startQueue
    BY <1>1 DEF InBatch, StartingOn
  <1>5. \A x \in DOMAIN startBatch' : /\ x \in Executions /\ startBatch'[x] \in Executors
                                      /\ <<x, startBatch'[x]>> \in batch
    <2>1. ASSUME NEW x \in DOMAIN startBatch'
          PROVE  x \in Executions /\ startBatch'[x] \in Executors /\ <<x, startBatch'[x]>> \in batch
      <3>1. \E p \in batch : p[1] = x
        BY <1>2, <2>1
      <3>2. PICK p \in batch : p[1] = x /\ startBatch'[x] = p[2]
        BY <1>2, <2>1, <3>1
      <3>3. p \in Executions \X Executors
        BY <1>3
      <3>4. QED
        BY <3>2, <3>3
    <2>2. QED
      BY <2>1
  <1>6. \A x, e : <<x, e>> \in batch => x \in DOMAIN startBatch' /\ startBatch'[x] = e
    <2>1. ASSUME NEW x, NEW e, <<x, e>> \in batch
          PROVE  x \in DOMAIN startBatch' /\ startBatch'[x] = e
      <3>1. x \in DOMAIN startBatch'
        BY <1>2, <2>1
      <3>2. x \in Executions /\ e \in Executors
        BY <1>3, <2>1
      <3>3. StartingOn(x, e) /\ StartingOn(x, startBatch'[x])
        BY <1>4, <1>5, <2>1, <3>1
      <3>4. QED
        BY <1>5, <3>1, <3>2, <3>3 DEF StartsTracked
    <2>2. QED
      BY <2>1
  <1>7. /\ \A x : Reported(x)' <=> Reported(x)
        /\ \A x, e : InBatch(x, e)' <=> <<x, e>> \in batch
        /\ \A x, e : StartingOn(x, e)' <=> StartingOn(x, e)
    <2>1. \A x : Reported(x)' <=> Reported(x)
      BY <1>1 DEF Reported
    <2>2. \A x, e : InBatch(x, e)' <=> <<x, e>> \in batch
      BY <1>1, <1>5, <1>6 DEF InBatch
    <2>3. QED
      BY <1>2, <1>4, <2>1, <2>2 DEF StartingOn
  <1>8. NamesKnown' /\ PageFresh'
    <2>1. \A x \in DOMAIN startBatch' : Known(x)
      BY <1>5 DEF NamesKnown
    <2>2. QED
      BY <1>1, <1>2, <1>7, <2>1 DEF NamesKnown, Known, Held, PageFresh
  <1>9. StartsTracked'
    <2>1. \A x, d, e : <<x, d>> \in batch /\ <<x, e>> \in startQueue => <<x, e>> \in batch
      <3>1. ASSUME NEW x, NEW d, NEW e, <<x, d>> \in batch, <<x, e>> \in startQueue
            PROVE  d = e
        <4>1. x \in Executions /\ d \in Executors /\ e \in Executors
          BY <1>3, <3>1
        <4>2. StartingOn(x, d) /\ StartingOn(x, e)
          BY <1>4, <3>1
        <4>3. QED
          BY <4>1, <4>2 DEF StartsTracked
      <3>2. QED
        BY <3>1
    <2>2. QED
      BY <1>1, <1>2, <1>7, <2>1 DEF StartsTracked
  <1>10. StartsHeld'
    BY <1>1, <1>7 DEF StartsHeld
  <1>11. ResultsFollow'
    BY <1>1, <1>7 DEF ResultsFollow, Reporting, Began
  <1>12. RunnersReady'
    BY <1>1, <1>2, <1>4, <1>5, <1>7 DEF RunnersReady
  <1>13. StartsKept'
    BY <1>1, <1>2, <1>7 DEF StartsKept, Reporting
  <1>14. ReportedGone' /\ OneExecutorRuns' /\ RunningIsTracked'
    BY <1>1, <1>7 DEF ReportedGone, Reporting, Held, OneExecutorRuns, HeldBy, RunningIsTracked
  <1>15. QED
    BY <1>8, <1>9, <1>10, <1>11, <1>12, <1>13, <1>14

\* The pool is told what was started, for the whole batch.
LEMMA MarkKeeps ==
  ASSUME LoopsTyped, OnItsWay, StartsMark
  PROVE  OnItsWay'
  <1> USE DEF OnItsWay
  <1>1. /\ UNCHANGED <<execStatus, execExecutor, conn, held, startQueue, events, readyPc, readyPage,
                       notStarted, eventOk, eventFail, eventRetry>>
        /\ EventsHeld' = EventsHeld
        /\ startPc = "mark" /\ startPc' \in {"idle", "cancel"}
        /\ startPc' = "idle" => notStarted = {} /\ DOMAIN startBatch' = {}
        /\ startPc' = "cancel" => startBatch' = startBatch
    BY DEF StartsMark, MarkStarted, backendVars, execVars, executorVars, readyVars, eventVars,
           EventsHeld, EmptyMap
  <1>2. \A x \in Executions : accepted'[x] =
          IF x \in DOMAIN startBatch /\ accepted[x] # "none" THEN "after" ELSE accepted[x]
    BY DEF StartsMark, MarkStarted
  <1>3. \A x \in DOMAIN startBatch :
          /\ x \in Executions /\ startBatch[x] \in Executors
          /\ StartingOn(x, startBatch[x])
          /\ \A e \in Executors : <<x, e>> \notin startQueue
          /\ Began(x)
    BY <1>1 DEF LoopsTyped, ServerTypeOK, StartingOn, InBatch, StartsTracked, ResultsFollow
  <1>4. \A x \in DOMAIN startBatch : accepted[x] = "unstarted"
    BY <1>3 DEF StartsTracked
  <1>5. /\ \A x : Reported(x)' <=> Reported(x)
        /\ \A x, e : ~InBatch(x, e)'
        /\ \A x \in Executions, e \in Executors :
             StartingOn(x, e)' <=> StartingOn(x, e) /\ x \notin DOMAIN startBatch
        /\ \A x, e : StartingOn(x, e)' <=> <<x, e>> \in startQueue
    BY <1>1, <1>3 DEF Reported, InBatch, StartingOn
  <1>6. NamesKnown' /\ PageFresh'
    BY <1>1, <1>2, <1>4, <1>5 DEF NamesKnown, Known, Held, PageFresh, LoopsTyped, ServerTypeOK
  <1>7. StartsTracked'
    <2>1. (\A x \in Executions : accepted[x] = "unstarted" <=> \E e \in Executors : StartingOn(x, e))'
      BY <1>2, <1>4, <1>5 DEF StartsTracked
    <2>2. (\A x \in Executions, d, e \in Executors : StartingOn(x, d) /\ StartingOn(x, e) => d = e)'
      BY <1>5 DEF StartsTracked
    <2>3. QED
      BY <1>1, <1>5, <2>1, <2>2 DEF StartsTracked
  <1>8. StartsHeld'
    BY <1>1, <1>5 DEF StartsHeld
  <1>9. ResultsFollow'
    BY <1>1, <1>2, <1>3, <1>5 DEF ResultsFollow, Reporting, Began
  <1>10. RunnersReady'
    BY <1>1, <1>5 DEF RunnersReady
  <1>11. StartsKept'
    BY <1>1, <1>5 DEF StartsKept, Reporting
  <1>12. ReportedGone' /\ OneExecutorRuns' /\ RunningIsTracked'
    BY <1>1, <1>5 DEF ReportedGone, Reporting, Held, OneExecutorRuns, HeldBy, RunningIsTracked
  <1>13. QED
    BY <1>6, <1>7, <1>8, <1>9, <1>10, <1>11, <1>12

\* Results go from the channel to the batch.
LEMMA ResultsReceived ==
  ASSUME LoopsTyped, EventsReceive
  PROVE  /\ EventsHeld' \subseteq Executions
         /\ \A x : Reporting(x)' <=> Reporting(x)
         /\ \A x : Reported(x)' \/ x \in EventsHeld' => Reported(x)
         /\ \A x \in eventRetry' : attempt[x] <= Retries[execJob[x]]
  <1>1. EventsHeld = {}
    BY DEF EventsReceive, EventsIdle, EventsHeld
  <1> DEFINE of(n, result) == UNION {events[i].xs : i \in {k \in 1..n : events[k].result = result}}
  <1>2. PICK n \in 1..(IF Len(events) < EventBatch THEN Len(events) ELSE EventBatch) :
          /\ TakeEvents(n)
          /\ eventOk' = of(n, "succeeded")
          /\ eventRetry' = Retried(of(n, "failed"), attempt)
          /\ eventFail' = of(n, "failed") \ eventRetry'
    BY DEF EventsReceive
  <1>3. /\ events \in Seq(Event) /\ Len(events) \in Nat /\ n \in 1..Len(events)
        /\ \A i \in 1..Len(events) : events[i].xs \subseteq Executions /\ events[i].result \in Results
    <2>1. events \in Seq(Event) /\ EventBatch \in Nat
      BY EventBatchAssumption DEF LoopsTyped, ServerTypeOK, PoolTypeOK
    <2>2. Len(events) \in Nat /\ \A i \in 1..Len(events) : events[i] \in Event
      BY <2>1
    <2>3. QED
      BY <2>1, <2>2 DEF Event
  <1>4. EventsHeld' = of(n, "succeeded") \cup of(n, "failed")
    BY <1>2 DEF EventsHeld, Retried
  <1>5. \A x : x \in EventsHeld' <=> \E i \in 1..n : x \in events[i].xs
    <2>1. \A r, x : x \in of(n, r) <=> \E i \in 1..n : events[i].result = r /\ x \in events[i].xs
      OBVIOUS
    <2>2. \A i \in 1..n : events[i].result \in {"succeeded", "failed"}
      BY <1>3 DEF Results
    <2>3. QED
      BY <1>4, <2>1, <2>2
  <1> HIDE DEF of
  <1>6. \A x : Reported(x)' <=> \E i \in (n + 1)..Len(events) : x \in events[i].xs
    <2>1. /\ events' = SubSeq(events, n + 1, Len(events))
          /\ DOMAIN events' = 1..(Len(events) - n)
          /\ \A i \in 1..(Len(events) - n) : events'[i] = events[n + i]
      BY <1>2, <1>3 DEF TakeEvents
    <2>2. \A x : (\E i \in 1..(Len(events) - n) : x \in events[n + i].xs)
                 <=> \E i \in (n + 1)..Len(events) : x \in events[i].xs
      <3>1. ASSUME NEW x, NEW i \in (n + 1)..Len(events), x \in events[i].xs
            PROVE  \E k \in 1..(Len(events) - n) : x \in events[n + k].xs
        <4>1. i - n \in 1..(Len(events) - n) /\ n + (i - n) = i
          BY <1>3
        <4>2. QED
          BY <3>1, <4>1
      <3>2. ASSUME NEW x, NEW i \in 1..(Len(events) - n), x \in events[n + i].xs
            PROVE  \E k \in (n + 1)..Len(events) : x \in events[k].xs
        <4>1. n + i \in (n + 1)..Len(events)
          BY <1>3
        <4>2. QED
          BY <3>2, <4>1
      <3>3. QED
        BY <3>1, <3>2
    <2>3. QED
      BY <2>1, <2>2 DEF Reported
  <1>7. \A x : Reporting(x)' <=> Reporting(x)
    <2>1. \A x : Reported(x) <=> \E i \in 1..Len(events) : x \in events[i].xs
      BY <1>3 DEF Reported
    <2>2. \A i : i \in 1..Len(events) <=> i \in 1..n \/ i \in (n + 1)..Len(events)
      BY <1>3
    <2>3. \A x : Reporting(x) <=> Reported(x)
      BY <1>1 DEF Reporting
    <2>4. \A x : Reporting(x)' <=> Reported(x)' \/ x \in EventsHeld'
      BY DEF Reporting
    <2>5. QED
      BY <1>5, <1>6, <2>1, <2>2, <2>3, <2>4
  <1>8. \A x \in eventRetry' : attempt[x] <= Retries[execJob[x]]
    BY <1>2 DEF Retried
  <1>9. EventsHeld' \subseteq Executions
    BY <1>3, <1>5
  <1>10. QED
    BY <1>1, <1>7, <1>8, <1>9 DEF Reporting

LEMMA ResultsKeep ==
  ASSUME LoopsTyped, OnItsWay, EventsReceive
  PROVE  OnItsWay'
  <1> USE DEF OnItsWay
  <1>1. UNCHANGED <<execStatus, execExecutor, conn, held, accepted, startQueue, readyPc,
                    readyPage, startPc, startBatch, notStarted>>
    BY DEF EventsReceive, TakeEvents, backendVars, execVars, executorVars, readyVars, startVars
  <1>2. \A x : Reporting(x)' <=> Reporting(x)
    BY ResultsReceived
  <1>3. \A x : /\ Held(x)' <=> Held(x)
               /\ \A e : StartingOn(x, e)' <=> StartingOn(x, e)
               /\ \A e : InBatch(x, e)' <=> InBatch(x, e)
    BY <1>1 DEF Held, StartingOn, InBatch
  <1>4. EventsHeld' \subseteq Executions /\ \A x \in Executions : Reporting(x) => Known(x)
    BY ResultsReceived DEF NamesKnown, Reporting
  <1>5. \A x : Reporting(x)' <=> Reported(x)' \/ x \in EventsHeld'
    BY DEF Reporting
  <1>6. NamesKnown'
    BY <1>1, <1>2, <1>3, <1>4, <1>5 DEF NamesKnown, Known
  <1>7. StartsTracked' /\ StartsHeld' /\ PageFresh'
    BY <1>1, <1>3 DEF StartsTracked, StartsHeld, PageFresh
  <1>8. RunnersReady' /\ OneExecutorRuns'
    BY <1>1, <1>3 DEF RunnersReady, OneExecutorRuns, HeldBy
  <1>9. ResultsFollow' /\ StartsKept' /\ ReportedGone'
    BY <1>1, <1>2, <1>3 DEF ResultsFollow, StartsKept, ReportedGone, Began
  <1>10. RunningIsTracked'
    BY <1>1, <1>2, <1>5 DEF RunningIsTracked, Reporting, LoopsTyped, ServerTypeOK, RunnersReady
  <1>11. QED
    BY <1>4, <1>6, <1>7, <1>8, <1>9, <1>10

\* Whatever was on its way is lost, but executors are gone too.
LEMMA CrashKeeps ==
  ASSUME LoopsTyped, OnItsWay, Crash
  PROVE  OnItsWay'
  <1> USE DEF OnItsWay
  <1>1. /\ UNCHANGED <<execStatus, execExecutor>>
        /\ startPc' = "idle" /\ notStarted' = {} /\ DOMAIN startBatch' = {} /\ startQueue' = {}
        /\ DOMAIN readyPage' = {} /\ readyPc' = "start"
        /\ EventsHeld' = {}
        /\ \A x : ~Reported(x)'
    BY DEF Crash, backendVars, execVars, EmptyMap, EventsHeld, Reported
  <1>2. /\ \A x \in Executions : accepted'[x] = "none"
        /\ \A d \in Executors, x \in Executions : held'[d][x] = "none"
        /\ \A d \in Executors : conn'[d] = IF conn[d] = "absent" THEN "absent" ELSE "gone"
    BY DEF Crash
  <1>3. /\ \A x, e : ~StartingOn(x, e)' /\ ~InBatch(x, e)'
        /\ \A x : ~Reporting(x)'
        /\ \A x \in Executions : ~Held(x)'
    BY <1>1, <1>2 DEF StartingOn, InBatch, Reporting, Held
  <1>4. NamesKnown' /\ PageFresh' /\ StartsTracked' /\ StartsHeld'
    BY <1>1, <1>2, <1>3 DEF NamesKnown, PageFresh, StartsTracked, StartsHeld
  <1>5. ResultsFollow' /\ RunnersReady' /\ StartsKept' /\ ReportedGone'
    BY <1>1, <1>2, <1>3 DEF ResultsFollow, RunnersReady, StartsKept, ReportedGone
  <1>6. OneExecutorRuns' /\ RunningIsTracked'
    BY <1>1, <1>2 DEF OneExecutorRuns, HeldBy, RunningIsTracked, RunnersReady
  <1>7. QED
    BY <1>4, <1>5, <1>6

(***************************************************************************)
(* Types, and the pool                                                     *)
(***************************************************************************)

\* Steps that leave the pool alone, and calls of it that give nothing to executors.
LEMMA PoolCallKeeps ==
  ASSUME PoolInv,
         \/ UNCHANGED poolVars
         \/ StampFetch
         \/ \E xs \in SUBSET Executions : MarkStarted(xs) \/ CancelIds(xs)
         \/ \E batch \in SUBSET startQueue : TakeStarts(batch)
         \/ \E n \in 1..Len(events) : TakeEvents(n)
         \/ \E e \in Executors : ExecutorStep(e)
  PROVE  PoolInv'
  <1>1. CASE UNCHANGED poolVars
    BY <1>1 DEF poolVars, executorVars, PoolInv, PoolTypeOK, HeldOnce, WithinLimit, BeliefsAgree,
                HeldBy
  <1>2. CASE Narrows
    BY <1>2, ShrinksKeeps DEF Narrows, PoolInv
  <1>3. QED
    BY <1>1, <1>2, CallsNarrow, ExecutorStepNarrows

\* After a crash the pool is empty.
LEMMA CrashPool ==
  ASSUME PoolInv, Crash
  PROVE  PoolInv'
  <1>1. /\ \A e \in Executors : /\ conn'[e] = IF conn[e] = "absent" THEN "absent" ELSE "gone"
                                /\ limit'[e] = 0 /\ believed'[e] = {} /\ open'[e] = FALSE
                                /\ \A x \in Executions : held'[e][x] = "none"
    BY DEF Crash
  <1>2. PoolTypeOK'
    <2>1. /\ conn' \in [Executors -> ConnStates] /\ open' \in [Executors -> BOOLEAN]
          /\ limit' \in [Executors -> Nat] /\ handshake' \in [Executors -> BOOLEAN]
          /\ backoff' \in [Executors -> BOOLEAN] /\ believed' \in [Executors -> SUBSET Executions]
      BY DEF Crash, ConnStates
    <2>2. held' \in [Executors -> [Executions -> HeldStates]]
      BY DEF Crash, HeldStates
    <2>3. /\ accepted' \in [Executions -> {"none", "unstarted", "after", "before"}]
          /\ startQueue' \in SUBSET (Executions \X Executors) /\ events' \in Seq(Event)
          /\ shutdown' \in BOOLEAN
      BY DEF Crash, PoolInv, PoolTypeOK
    <2>4. QED
      BY <1>1, <2>1, <2>2, <2>3 DEF PoolTypeOK
  <1>3. \A e \in Executors : HeldBy(e)' = {}
    BY <1>1 DEF HeldBy
  <1>4. HeldOnce' /\ BeliefsAgree'
    BY <1>1, <1>3 DEF HeldOnce, BeliefsAgree
  <1>5. WithinLimit'
    BY <1>1, <1>3, FS_EmptySet DEF WithinLimit
  <1>6. QED
    BY <1>2, <1>4, <1>5 DEF PoolInv

\* Every step keeps the pool's invariant.
LEMMA PoolKept ==
  ASSUME LoopsTyped, PoolInv, OnItsWay, CancelsEnded, [ServerNext]_serverVars
  PROVE  PoolInv'
  <1> USE DEF LoopsTyped, ServerTypeOK
  <1>1. CASE UNCHANGED poolVars
    BY <1>1, PoolCallKeeps
  <1>2. ASSUME NEW xs \in SUBSET Executions, CancelIds(xs)
        PROVE  PoolInv'
    BY <1>2, PoolCallKeeps
  <1>3. CASE ReadyStamp
    BY <1>3, PoolCallKeeps DEF ReadyStamp
  <1>4. CASE ReadyOffer
    <2>1. DOMAIN readyPage \in SUBSET Executions /\ TryOffer(DOMAIN readyPage)
      BY <1>4 DEF ReadyOffer, TryOffer, OnItsWay, PageFresh
    <2>2. QED
      BY <2>1, TryOfferInv
  <1>5. CASE StartsReceive
    BY <1>5, PoolCallKeeps DEF StartsReceive
  <1>6. CASE StartsMark
    BY <1>6, PoolCallKeeps DEF StartsMark
  <1>7. CASE EventsReceive
    <2>1. Len(events) \in Nat
      BY DEF PoolTypeOK
    <2>2. \E n \in 1..Len(events) : TakeEvents(n)
      BY <1>7, <2>1, EventBatchAssumption DEF EventsReceive
    <2>3. QED
      BY <2>2, PoolCallKeeps
  <1>8. CASE ExecutorAct
    BY <1>8, PoolCallKeeps DEF ExecutorAct
  <1>9. CASE Crash
    BY <1>9, CrashPool
  <1>10. CASE ReadyLoop
    BY <1>1, <1>3, <1>4, <1>10 DEF ReadyLoop, ReadyStart, ReadyQuery
  <1>11. CASE StartsLoop
    BY <1>1, <1>2, <1>5, <1>6, <1>11 DEF StartsLoop, StartsCommit, StartsCancel
  <1>12. CASE EventsLoop
    BY <1>1, <1>7, <1>12 DEF EventsLoop, EventsWait, EventsSucceed, EventsFail, EventsRetry
  <1>13. CASE TimeoutsLoop
    BY <1>1, <1>2, <1>13 DEF TimeoutsLoop, TimeoutsRead, TimeoutsCheck, TimeoutsFail, TimeoutsRetry,
       TimeoutsCancel, OrphansFail, OrphansRetry
  <1>14. CASE AddJob \/ (\E js \in SUBSET Jobs : AdminCancelJobs(js)) \/ AdminCancelInPool
    BY <1>1, <1>2, <1>14 DEF AddJob, AdminCancelJobs, AdminCancelInPool
  <1>15. QED
    BY <1>1, <1>8, <1>9, <1>10, <1>11, <1>12, <1>13, <1>14 DEF ServerNext, serverVars

\* Each loop has variables of its own, and only a crash resets them.
LEMMA OwnVariables ==
  ASSUME [ServerNext]_serverVars
  PROVE  /\ UNCHANGED readyVars \/ ReadyLoop \/ Crash
         /\ UNCHANGED startVars \/ StartsLoop \/ Crash
         /\ UNCHANGED eventVars \/ EventsLoop \/ Crash
         /\ UNCHANGED timeoutVars \/ TimeoutsLoop \/ Crash
         /\ \/ UNCHANGED otherVars
            \/ (\E js \in SUBSET Jobs : AdminCancelJobs(js)) \/ AdminCancelInPool \/ Crash
  <1> USE DEF loopVars
  <1>1. CASE UNCHANGED serverVars
    BY <1>1 DEF serverVars
  <1>2. CASE AddJob \/ ExecutorAct \/ Crash
    BY <1>2 DEF AddJob, ExecutorAct
  <1>3. CASE (\E js \in SUBSET Jobs : AdminCancelJobs(js)) \/ AdminCancelInPool
    BY <1>3 DEF AdminCancelJobs, AdminCancelInPool
  <1>4. CASE ReadyLoop
    BY <1>4 DEF ReadyLoop, ReadyStart, ReadyStamp, ReadyQuery, ReadyOffer
  <1>5. CASE StartsLoop
    BY <1>5 DEF StartsLoop, StartsReceive, StartsCommit, StartsMark, StartsCancel
  <1>6. CASE EventsLoop
    BY <1>6 DEF EventsLoop, EventsReceive, EventsWait, EventsSucceed, EventsFail, EventsRetry
  <1>7. CASE TimeoutsLoop
    BY <1>7 DEF TimeoutsLoop, TimeoutsRead, TimeoutsCheck, TimeoutsFail, TimeoutsRetry,
                TimeoutsCancel, OrphansFail, OrphansRetry
  <1>8. QED
    BY <1>1, <1>2, <1>3, <1>4, <1>5, <1>6, <1>7 DEF ServerNext

\* The steps that call the backend; it is only read by the others.
LEMMA BackendSteps ==
  ASSUME [ServerNext]_serverVars
  PROVE  \/ UNCHANGED backendVars
         \/ AddJob \/ \E js \in SUBSET Jobs : AdminCancelJobs(js)
         \/ StartsCommit
         \/ EventsSucceed \/ EventsFail \/ EventsRetry
         \/ TimeoutsFail \/ TimeoutsRetry \/ OrphansFail \/ OrphansRetry
  <1>1. CASE ReadyLoop
    BY <1>1 DEF ReadyLoop, ReadyStart, ReadyStamp, ReadyQuery, ReadyOffer
  <1>2. CASE StartsReceive \/ StartsMark \/ StartsCancel \/ EventsReceive \/ EventsWait
    BY <1>2 DEF StartsReceive, StartsMark, StartsCancel, EventsReceive, EventsWait
  <1>3. CASE \/ TimeoutsRead \/ TimeoutsCheck \/ TimeoutsCancel
             \/ AdminCancelInPool \/ ExecutorAct \/ Crash \/ UNCHANGED serverVars
    BY <1>3 DEF TimeoutsRead, TimeoutsCheck, TimeoutsCancel, AdminCancelInPool, ExecutorAct, Crash,
                serverVars
  <1>4. QED
    BY <1>1, <1>2, <1>3 DEF ServerNext, StartsLoop, EventsLoop, TimeoutsLoop

\* The number of attempts of a job is a number.
LEMMA AttemptIsNat ==
  ASSUME NEW x
  PROVE  AttemptNumber(x) \in Nat
  <1>1. ExecsOf(execJob[x]) \subseteq Executions
    BY DEF ExecsOf
  <1>2. QED
    BY <1>1, FiniteAssumption, FS_Subset, FS_CardinalityType DEF AttemptNumber

\* Every step keeps the types of what the loops carry.
LEMMA LoopsTypedKept ==
  ASSUME LoopsTyped, OnItsWay, EventsHeld' \subseteq Executions \/ ~EventsReceive,
         [ServerNext]_serverVars, BackendTypeOK', PoolTypeOK'
  PROVE  LoopsTyped'
  <1> DEFINE PageTyped ==
        /\ attempt \in [Executions -> Nat]
        /\ readyPc \in {"start", "stamp", "query", "offer"}
        /\ readyIgnore \subseteq Executions
        /\ DOMAIN readyPage \subseteq Executions
        /\ \A x \in DOMAIN readyPage : readyPage[x] \in Nat
      StartsTyped ==
        /\ startPc \in {"idle", "commit", "mark", "cancel"}
        /\ DOMAIN startBatch \subseteq Executions
        /\ startBatch \in [DOMAIN startBatch -> Executors]
        /\ notStarted \subseteq DOMAIN startBatch
      ResultsTyped ==
        /\ eventWaits \in BOOLEAN
        /\ eventOk \subseteq Executions /\ eventFail \subseteq Executions
        /\ eventRetry \subseteq Executions
      LateTyped ==
        /\ DOMAIN progress \subseteq Executions
        /\ lateFail \subseteq Executions /\ lateRetry \subseteq Executions
        /\ lateCancel \subseteq Executions
        /\ orphanFail \subseteq Executions /\ orphanRetry \subseteq Executions
      OtherTyped == adminCancel \subseteq Executions /\ crashes \in 0..MaxCrashes
  <1>1. PageTyped /\ StartsTyped /\ ResultsTyped /\ LateTyped /\ OtherTyped
    BY DEF LoopsTyped, ServerTypeOK
  <1>2. PageTyped'
    <2>1. CASE UNCHANGED readyVars
      BY <1>1, <2>1 DEF readyVars
    <2>2. CASE ReadyStart
      BY <1>1, <2>2 DEF ReadyStart, InFlight, OfferedTo
    <2>3. CASE ReadyStamp
      BY <1>1, <2>3 DEF ReadyStamp
    <2>4. CASE ReadyQuery
      <3>1. PICK xs \in SUBSET Ready : /\ readyPage' = [x \in xs |-> AttemptNumber(x)]
                                       /\ readyPc' = IF xs = {} THEN "start" ELSE "offer"
        BY <2>4 DEF ReadyQuery
      <3>2. xs \subseteq Executions /\ \A x \in xs : AttemptNumber(x) \in Nat
        BY AttemptIsNat DEF Ready
      <3>3. QED
        BY <1>1, <2>4, <3>1, <3>2 DEF ReadyQuery
    <2>5. CASE ReadyOffer
      <3>1. PICK to \in Assignments(DOMAIN readyPage \ Taken) :
              attempt' = [x \in Executions |-> IF x \in DOMAIN to THEN readyPage[x] ELSE attempt[x]]
        BY <2>5 DEF ReadyOffer
      <3>2. DOMAIN to \subseteq DOMAIN readyPage
        BY <3>1 DEF Assignments
      <3>3. attempt' \in [Executions -> Nat]
        BY <1>1, <3>1, <3>2
      <3>4. QED
        BY <1>1, <2>5, <3>3 DEF ReadyOffer, EmptyMap
    <2>6. CASE Crash
      BY <1>1, <2>6 DEF Crash, EmptyMap
    <2>7. QED
      BY <2>1, <2>2, <2>3, <2>4, <2>5, <2>6, OwnVariables DEF ReadyLoop
  <1>3. StartsTyped'
    <2>1. CASE UNCHANGED startVars
      BY <1>1, <2>1 DEF startVars
    <2>2. CASE StartsReceive
      <3>1. PICK batch \in SUBSET startQueue :
              startBatch' = [x \in {p[1] : p \in batch} |-> (CHOOSE p \in batch : p[1] = x)[2]]
        BY <2>2 DEF StartsReceive
      <3>2. startQueue \subseteq Executions \X Executors
        BY DEF LoopsTyped, ServerTypeOK, PoolTypeOK
      <3>3. ASSUME NEW x \in DOMAIN startBatch'
            PROVE  x \in Executions /\ startBatch'[x] \in Executors
        <4>1. \E p \in batch : p[1] = x
          BY <3>1, <3>3
        <4>2. PICK p \in batch : p[1] = x /\ startBatch'[x] = p[2]
          BY <3>1, <3>3, <4>1
        <4>3. QED
          BY <3>2, <4>2
      <3>4. notStarted' = {} /\ startPc' = "commit"
        BY <2>2 DEF StartsReceive, OnItsWay, StartsTracked
      <3>5. startBatch' = [x \in DOMAIN startBatch' |-> startBatch'[x]]
        BY <3>1
      <3>6. QED
        BY <3>3, <3>4, <3>5
    <2>3. CASE StartsCommit
      BY <1>1, <2>3 DEF StartsCommit
    <2>4. CASE StartsMark
      BY <1>1, <2>4 DEF StartsMark, EmptyMap
    <2>5. CASE StartsCancel
      BY <2>5 DEF StartsCancel, EmptyMap
    <2>6. CASE Crash
      BY <2>6 DEF Crash, EmptyMap
    <2>7. QED
      BY <2>1, <2>2, <2>3, <2>4, <2>5, <2>6, OwnVariables DEF StartsLoop
  <1>4. ResultsTyped'
    <2>1. CASE UNCHANGED eventVars
      BY <1>1, <2>1 DEF eventVars
    <2>2. CASE EventsReceive
      BY <2>2 DEF EventsReceive, EventsHeld
    <2>3. CASE EventsWait \/ EventsSucceed \/ EventsFail \/ EventsRetry
      BY <1>1, <2>3 DEF EventsWait, EventsSucceed, EventsFail, EventsRetry
    <2>4. CASE Crash
      BY <2>4 DEF Crash
    <2>5. QED
      BY <2>1, <2>2, <2>3, <2>4, OwnVariables DEF EventsLoop
  <1>5. LateTyped'
    <2>1. CASE UNCHANGED timeoutVars
      BY <1>1, <2>1 DEF timeoutVars
    <2>2. CASE TimeoutsRead
      BY <1>1, <2>2 DEF TimeoutsRead
    <2>3. CASE TimeoutsCheck
      BY <1>1, <2>3 DEF TimeoutsCheck, Retried, Orphans, EmptyMap
    <2>4. CASE TimeoutsFail \/ TimeoutsRetry \/ TimeoutsCancel \/ OrphansFail \/ OrphansRetry
      BY <1>1, <2>4 DEF TimeoutsFail, TimeoutsRetry, TimeoutsCancel, OrphansFail, OrphansRetry
    <2>5. CASE Crash
      BY <2>5 DEF Crash, EmptyMap
    <2>6. QED
      BY <2>1, <2>2, <2>3, <2>4, <2>5, OwnVariables DEF TimeoutsLoop
  <1>6. OtherTyped'
    <2>1. CASE UNCHANGED otherVars
      BY <1>1, <2>1 DEF otherVars
    <2>2. CASE \E js \in SUBSET Jobs : AdminCancelJobs(js)
      BY <1>1, <2>2 DEF AdminCancelJobs, OnePerJob, CancelledBy, ActiveExecs
    <2>3. CASE AdminCancelInPool
      BY <1>1, <2>3 DEF AdminCancelInPool
    <2>4. CASE Crash
      BY <1>1, <2>4, CrashesAssumption DEF Crash
    <2>5. QED
      BY <2>1, <2>2, <2>3, <2>4, OwnVariables
  <1>7. QED
    BY <1>2, <1>3, <1>4, <1>5, <1>6 DEF LoopsTyped, ServerTypeOK

(***************************************************************************)
(* Every step keeps executions on their way                                *)
(***************************************************************************)

\* The steps that are calls of the backend, reads of it, or no steps at all.
QuietStep ==
  \/ AddJob
  \/ \E js \in SUBSET Jobs : AdminCancelJobs(js)
  \/ EventsWait \/ EventsSucceed \/ EventsFail \/ EventsRetry
  \/ TimeoutsRead \/ TimeoutsCheck \/ TimeoutsFail \/ TimeoutsRetry
  \/ OrphansFail \/ OrphansRetry
  \/ UNCHANGED serverVars

\* What the events and timeouts loops carry names executions the backend knows.
LEMMA CarriedIsKnown ==
  ASSUME LoopsTyped, OnItsWay, TimeoutsKnow
  PROVE  /\ eventOk \in SUBSET KnownExecs /\ eventFail \in SUBSET KnownExecs
         /\ eventRetry \in SUBSET KnownExecs
         /\ lateFail \in SUBSET KnownExecs /\ lateRetry \in SUBSET KnownExecs
         /\ orphanFail \in SUBSET KnownExecs /\ orphanRetry \in SUBSET KnownExecs
  <1>1. /\ eventOk \subseteq Executions /\ eventFail \subseteq Executions
        /\ eventRetry \subseteq Executions
        /\ lateFail \subseteq Executions /\ lateRetry \subseteq Executions
        /\ orphanFail \subseteq Executions /\ orphanRetry \subseteq Executions
    BY DEF LoopsTyped, ServerTypeOK
  <1>2. /\ \A x \in eventOk \cup eventFail \cup eventRetry : execStatus[x] # "absent"
        /\ \A x \in lateFail \cup lateRetry \cup orphanFail \cup orphanRetry : execStatus[x] # "absent"
    BY DEF OnItsWay, NamesKnown, Known, EventsHeld, TimeoutsKnow, Began
  <1>3. QED
    BY <1>1, <1>2 DEF KnownExecs

LEMMA QuietSteps ==
  ASSUME LoopsTyped, OnItsWay, TimeoutsKnow, QuietStep
  PROVE  Quiet
  <1>1. BackendTypeOK
    BY DEF LoopsTyped, ServerTypeOK
  <1>2. ASSUME UNCHANGED backendVars PROVE BackendTypeOK' /\ StatusMoves
    BY <1>1, <1>2 DEF backendVars, jobVars, execVars, schedVars, BackendTypeOK, StatusMoves
  <1> USE DEF Quiet, loopVars, readyVars, EventsHeld
  <1>3. CASE AddJob \/ \E js \in SUBSET Jobs : AdminCancelJobs(js)
    BY <1>1, <1>3, AdminMoves DEF AddJob, AdminCancelJobs, eventVars
  <1>4. CASE EventsWait \/ TimeoutsRead \/ TimeoutsCheck \/ UNCHANGED serverVars
    BY <1>2, <1>4 DEF EventsWait, TimeoutsRead, TimeoutsCheck, serverVars, eventVars
  <1>5. CASE EventsSucceed
    BY <1>1, <1>5, CarriedIsKnown, ResultMoves DEF EventsSucceed
  <1>6. CASE EventsFail
    BY <1>1, <1>6, CarriedIsKnown, ResultMoves DEF EventsFail
  <1>7. CASE EventsRetry
    BY <1>1, <1>7, CarriedIsKnown, ResultMoves DEF EventsRetry
  <1>8. CASE TimeoutsFail \/ TimeoutsRetry
    BY <1>1, <1>8, CarriedIsKnown, ResultMoves DEF TimeoutsFail, TimeoutsRetry, eventVars
  <1>9. CASE OrphansFail \/ OrphansRetry
    BY <1>1, <1>9, CarriedIsKnown, ResultMoves DEF OrphansFail, OrphansRetry, eventVars
  <1>10. QED
    BY <1>3, <1>4, <1>5, <1>6, <1>7, <1>8, <1>9 DEF QuietStep

\* Executions are withdrawn from executors only after their end.
LEMMA CancelSteps ==
  ASSUME LoopsTyped, CancelsEnded, TimeoutsKnow,
         AdminCancelInPool \/ StartsCancel \/ TimeoutsCancel
  PROVE  \E xs \in SUBSET Executions : Cancels(xs)
  <1> USE DEF Cancels, loopVars
  <1>1. /\ adminCancel \in SUBSET Executions /\ lateCancel \in SUBSET Executions
        /\ notStarted \in SUBSET Executions
    BY DEF LoopsTyped, ServerTypeOK
  <1>2. CASE AdminCancelInPool
    <2>1. \A x \in adminCancel : execStatus[x] \notin Active
      BY DEF CancelsEnded, Ended, Outcome, Active
    <2>2. Cancels(adminCancel)
      BY <1>2, <2>1 DEF AdminCancelInPool
    <2>3. QED
      BY <1>1, <2>2
  <1>3. CASE StartsCancel
    <2>1. \A x \in notStarted : execStatus[x] \notin Active
      BY DEF CancelsEnded, Ended, Outcome, Active
    <2>2. Cancels(notStarted)
      BY <1>3, <2>1 DEF StartsCancel
    <2>3. QED
      BY <1>1, <2>2
  <1>4. CASE TimeoutsCancel
    <2>1. \A x \in lateCancel : execStatus[x] \notin Active
      BY <1>4 DEF TimeoutsCancel, TimeoutsKnow, Ended, Outcome, Active
    <2>2. Cancels(lateCancel)
      BY <1>4, <2>1 DEF TimeoutsCancel
    <2>3. QED
      BY <1>1, <2>2
  <1>5. QED
    BY <1>2, <1>3, <1>4

\* The kinds of steps the server takes.
LEMMA StepKinds ==
  ASSUME LoopsTyped, PoolInv, OnItsWay, CancelsEnded, TimeoutsKnow, [ServerNext]_serverVars
  PROVE  \/ Quiet
         \/ Fetches
         \/ ReadyOffer \/ StartsReceive \/ StartsCommit \/ StartsMark \/ EventsReceive
         \/ \E xs \in SUBSET Executions : Cancels(xs)
         \/ Takes /\ UNCHANGED <<backendVars, loopVars>>
         \/ \E e \in Executors, x \in Executions :
              AcceptOffer(e, x) /\ UNCHANGED <<backendVars, loopVars>>
         \/ Crash
  <1>1. CASE ExecutorAct
    BY <1>1, ExecutorTakes DEF ExecutorAct
  <1>2. CASE QuietStep
    BY <1>2, QuietSteps
  <1>3. CASE AdminCancelInPool \/ StartsCancel \/ TimeoutsCancel
    BY <1>3, CancelSteps
  <1>4. CASE ReadyStart \/ ReadyStamp \/ ReadyQuery
    BY <1>4, ReadyFetches
  <1>5. QED
    BY <1>1, <1>2, <1>3, <1>4 DEF ServerNext, ReadyLoop, StartsLoop, EventsLoop, TimeoutsLoop, QuietStep

LEMMA OnItsWayKept ==
  ASSUME LoopsTyped, PoolInv, OnItsWay, CancelsEnded, TimeoutsKnow, [ServerNext]_serverVars
  PROVE  OnItsWay'
  BY StepKinds, QuietKeeps, FetchKeeps, OfferKeeps, ReceiveKeeps, CommitKeeps, MarkKeeps, ResultsKeep,
     CancelKeeps, TakesKeeps, AcceptKeeps, CrashKeeps

\* What began does not become pending again, what ended stays so, a started
\* execution stays with its executor, and an executor never comes back.
Onward ==
  /\ \A x \in Executions : /\ Began(x) => Began(x)' /\ execExecutor'[x] = execExecutor[x]
                           /\ Ended(x) => Ended(x)'
  /\ \A d \in Executors :
       /\ conn[d] \notin {"absent", "connected"} => conn'[d] \notin {"absent", "connected"}
       /\ conn[d] = "gone" => conn'[d] = "gone"

\* Starting a batch: whatever of it is not started has ended.
LEMMA CommitMoves ==
  ASSUME LoopsTyped, OnItsWay, StartsCommit
  PROVE  /\ BackendTypeOK' /\ Onward
         /\ \A x \in DOMAIN startBatch \ Startable(startBatch) : Ended(x)'
  <1> DEFINE S == Startable(startBatch)
  <1>1. BackendTypeOK /\ DOMAIN startBatch \subseteq Executions
        /\ \A x \in DOMAIN startBatch : startBatch[x] \in Executors
    BY DEF LoopsTyped, ServerTypeOK
  <1>2. /\ UNCHANGED <<jobStatus, jobSchedule, execJob, schedStatus, activeJob, conn>>
        /\ execStatus' = [x \in Executions |-> IF x \in S THEN "running" ELSE execStatus[x]]
        /\ execExecutor' = [x \in Executions |-> IF x \in S THEN startBatch[x] ELSE execExecutor[x]]
        /\ startPc = "commit"
    BY DEF StartsCommit, ExecutionsStarted, jobVars, schedVars, poolVars, executorVars
  <1>3. S \subseteq DOMAIN startBatch
        /\ \A x \in S : \/ execStatus[x] = "pending"
                        \/ execStatus[x] = "running" /\ execExecutor[x] = startBatch[x]
    BY DEF Startable
  <1>4. \A x \in DOMAIN startBatch \ S : execStatus[x] \notin {"absent", "pending", "running"}
    BY <1>2 DEF Startable, OnItsWay, NamesKnown, Known, RunnersReady
  <1> HIDE DEF S
  <1>5. BackendTypeOK'
    <2>1. \A x \in S : execJob[x] \in Jobs /\ x \in Executions /\ startBatch[x] \in Executors
      BY <1>1, <1>3 DEF BackendTypeOK
    <2>2. execStatus' \in [Executions -> ExecStates]
      BY <1>1, <1>2 DEF BackendTypeOK, ExecStates, Active
    <2>3. execExecutor' \in [Executions -> Executors \cup {None}]
      BY <1>1, <1>2, <2>1 DEF BackendTypeOK
    <2>4. QED
      BY <1>1, <1>2, <2>1, <2>2, <2>3 DEF BackendTypeOK
  <1>6. Onward
    BY <1>2, <1>3 DEF Onward, Began, Ended, Outcome
  <1>7. \A x \in DOMAIN startBatch \ S : Ended(x)'
    BY <1>1, <1>2, <1>4 DEF BackendTypeOK, ExecStates, Active, Ended
  <1>8. QED
    BY <1>5, <1>6, <1>7 DEF S

\* Every step keeps the stored rows typed, and leads onward.
LEMMA StepOnward ==
  ASSUME LoopsTyped, PoolInv, OnItsWay, CancelsEnded, TimeoutsKnow, [ServerNext]_serverVars
  PROVE  BackendTypeOK' /\ Onward
  <1>1. BackendTypeOK
    BY DEF LoopsTyped, ServerTypeOK
  <1>2. CASE Quiet
    BY <1>1, <1>2, MovesKeep DEF Quiet, Onward, poolVars, executorVars
  <1>3. CASE StartsCommit
    BY <1>3, CommitMoves
  <1>4. ASSUME UNCHANGED backendVars, conn' = conn
        PROVE  BackendTypeOK' /\ Onward
    BY <1>1, <1>4 DEF backendVars, jobVars, execVars, schedVars, BackendTypeOK, Onward, Began, Ended
  <1>5. CASE Takes /\ UNCHANGED <<backendVars, loopVars>>
    BY <1>1, <1>5 DEF backendVars, jobVars, execVars, schedVars, BackendTypeOK, Onward, Began, Ended,
                      Takes
  <1>6. CASE Crash
    BY <1>1, <1>6 DEF backendVars, jobVars, execVars, schedVars, BackendTypeOK, Onward, Began, Ended,
                      Crash
  <1>7. CASE Fetches \/ ReadyOffer \/ StartsReceive \/ StartsMark \/ EventsReceive
             \/ \E xs \in SUBSET Executions : Cancels(xs)
    BY <1>4, <1>7 DEF Fetches, ReadyOffer, Offer, StartsReceive, TakeStarts, StartsMark, MarkStarted,
                      EventsReceive, TakeEvents, Cancels, CancelIds, executorVars
  <1>8. ASSUME NEW e \in Executors, NEW x \in Executions,
               AcceptOffer(e, x), UNCHANGED <<backendVars, loopVars>>
        PROVE  BackendTypeOK' /\ Onward
    BY <1>4, <1>8 DEF AcceptOffer
  <1>9. QED
    BY <1>2, <1>3, <1>5, <1>6, <1>7, <1>8, StepKinds

(***************************************************************************)
(* What is cancelled in the pool, and what the timeouts loop carries       *)
(***************************************************************************)

LEMMA CancelsEndedKept ==
  ASSUME LoopsTyped, OnItsWay, CancelsEnded, Onward, [ServerNext]_serverVars
  PROVE  CancelsEnded'
  <1>1. notStarted \subseteq Executions /\ adminCancel \subseteq Executions
    BY DEF LoopsTyped, ServerTypeOK
  <1>2. \A x \in notStarted \cup adminCancel : Ended(x)'
    BY <1>1 DEF CancelsEnded, Onward
  <1>3. \A x \in notStarted' : Ended(x)'
    <2>1. CASE UNCHANGED startVars
      BY <1>2, <2>1 DEF startVars
    <2>2. CASE StartsCommit
      BY <1>2, <2>2, CommitMoves DEF StartsCommit
    <2>3. CASE StartsReceive \/ StartsMark
      BY <1>2, <2>3 DEF StartsReceive, StartsMark
    <2>4. CASE StartsCancel \/ Crash
      BY <2>4 DEF StartsCancel, Crash
    <2>5. QED
      BY <2>1, <2>2, <2>3, <2>4, OwnVariables DEF StartsLoop
  <1>4. \A x \in adminCancel' : Ended(x)'
    <2>1. CASE UNCHANGED otherVars
      BY <1>2, <2>1 DEF otherVars
    <2>2. ASSUME NEW js \in SUBSET Jobs, AdminCancelJobs(js)
          PROVE  \A x \in adminCancel' : Ended(x)'
      <3>1. \A x \in CancelledBy(js) : Ended(x)'
        BY <2>2 DEF AdminCancelJobs, CancelJobs, FinishAndInsert, NoNewExecs, CancelledBy,
                    ActiveExecs, Ended, Outcome
      <3>2. adminCancel' \subseteq adminCancel \cup CancelledBy(js)
        BY <2>2 DEF AdminCancelJobs, OnePerJob
      <3>3. QED
        BY <1>2, <3>1, <3>2
    <2>3. CASE AdminCancelInPool \/ Crash
      BY <2>3 DEF AdminCancelInPool, Crash
    <2>4. QED
      BY <2>1, <2>2, <2>3, OwnVariables
  <1>5. QED
    BY <1>3, <1>4 DEF CancelsEnded

LEMMA TimeoutsKnowKept ==
  ASSUME LoopsTyped, OnItsWay, TimeoutsKnow, Onward, [ServerNext]_serverVars
  PROVE  TimeoutsKnow'
  <1>1. /\ DOMAIN progress \subseteq Executions /\ lateCancel \subseteq Executions
        /\ orphanFail \subseteq Executions /\ orphanRetry \subseteq Executions
        /\ lateFail \subseteq Executions /\ lateRetry \subseteq Executions
    BY DEF LoopsTyped, ServerTypeOK
  <1>2. \A x \in DOMAIN progress \cup lateCancel \cup orphanFail \cup orphanRetry : Began(x)'
    BY <1>1 DEF TimeoutsKnow, Onward
  <1>3. \A x \in lateCancel \ (lateFail \cup lateRetry) : Ended(x)'
    BY <1>1 DEF TimeoutsKnow, Onward
  <1>4. \A x \in DOMAIN progress :
          execExecutor'[x] \in Executors /\ conn'[execExecutor'[x]] \notin {"absent", "connected"}
    BY <1>1 DEF TimeoutsKnow, Onward
  <1>5. \A x \in orphanFail \cup orphanRetry :
          execExecutor'[x] \in Executors /\ conn'[execExecutor'[x]] = "gone"
    BY <1>1 DEF TimeoutsKnow, Onward
  <1>6. lateFail \cup lateRetry \subseteq lateCancel /\ (progress # EmptyMap => TimeoutsIdle)
    BY DEF TimeoutsKnow
  <1>7. CASE UNCHANGED timeoutVars
    BY <1>2, <1>3, <1>4, <1>5, <1>6, <1>7
       DEF TimeoutsKnow, timeoutVars, TimeoutsIdle
  <1>8. CASE TimeoutsRead
    <2>1. DOMAIN progress' = {y \in Executions : execStatus[y] = "running"}
          /\ UNCHANGED <<execStatus, execExecutor, conn, lateFail, lateRetry, lateCancel,
                         orphanFail, orphanRetry>>
      BY <1>8 DEF TimeoutsRead, backendVars, execVars, poolVars, executorVars
    <2>2. \A x \in DOMAIN progress' :
            /\ Began(x)'
            /\ execExecutor'[x] \in Executors /\ conn'[execExecutor'[x]] \notin {"absent", "connected"}
      BY <2>1 DEF Began, OnItsWay, RunnersReady
    <2>3. QED
      BY <1>2, <1>3, <1>5, <1>6, <1>8, <2>1, <2>2 DEF TimeoutsKnow, TimeoutsRead, TimeoutsIdle
  <1>9. CASE TimeoutsCheck
    <2>1. PICK late \in SUBSET (DOMAIN progress \ Orphans) :
            lateRetry' = Retried(late, progress) /\ lateFail' = late \ lateRetry' /\ lateCancel' = late
      BY <1>9 DEF TimeoutsCheck
    <2>2. /\ orphanRetry' = Retried(Orphans, progress) /\ orphanFail' = Orphans \ orphanRetry'
          /\ progress' = EmptyMap /\ DOMAIN progress' = {} /\ UNCHANGED <<execExecutor, conn>>
      BY <1>9 DEF TimeoutsCheck, EmptyMap, backendVars, execVars, poolVars, executorVars
    <2>3. /\ lateFail' \cup lateRetry' \subseteq late /\ late \ (lateFail' \cup lateRetry') = {}
          /\ late \subseteq DOMAIN progress
          /\ orphanFail' \cup orphanRetry' \subseteq Orphans /\ Orphans \subseteq DOMAIN progress
      BY <2>1, <2>2 DEF Retried, Orphans
    <2>4. \A x \in Orphans : execExecutor'[x] \in Executors /\ conn'[execExecutor'[x]] = "gone"
      BY <2>2 DEF Orphans, TimeoutsKnow, InPool, LoopsTyped, ServerTypeOK, PoolTypeOK, ConnStates
    <2>5. QED
      BY <1>2, <2>1, <2>2, <2>3, <2>4 DEF TimeoutsKnow
  <1>10. CASE TimeoutsFail \/ TimeoutsRetry
    <2>1. BackendTypeOK
      BY DEF LoopsTyped, ServerTypeOK
    <2>2. \A x \in (lateFail \cup lateRetry) \ (lateFail' \cup lateRetry') : Ended(x)'
      <3>1. /\ BackendTypeOK'
            /\ \A x \in (lateFail \cup lateRetry) \ (lateFail' \cup lateRetry') :
                 execStatus'[x] \notin Active
        BY <1>10, <2>1, CarriedIsKnown, ResultMoves DEF TimeoutsFail, TimeoutsRetry
      <3>2. \A x \in lateFail \cup lateRetry : Began(x)' /\ x \in Executions
        BY <1>1, <1>2, <1>6
      <3>3. QED
        BY <3>1, <3>2 DEF BackendTypeOK, ExecStates, Active, Began, Ended
    <2>3. UNCHANGED <<progress, lateCancel, orphanFail, orphanRetry>>
          /\ lateFail' \subseteq lateFail /\ lateRetry' \subseteq lateRetry /\ ~TimeoutsIdle
      BY <1>10 DEF TimeoutsFail, TimeoutsRetry, TimeoutsIdle
    <2>4. QED
      BY <1>2, <1>3, <1>4, <1>5, <1>6, <2>2, <2>3 DEF TimeoutsKnow
  <1>11. CASE TimeoutsCancel \/ OrphansFail \/ OrphansRetry
    <2>1. /\ UNCHANGED <<progress, lateFail, lateRetry>>
          /\ lateCancel' = lateCancel \/ (lateCancel' = {} /\ lateFail = {} /\ lateRetry = {})
          /\ orphanFail' \subseteq orphanFail /\ orphanRetry' \subseteq orphanRetry
          /\ ~TimeoutsIdle
      BY <1>11 DEF TimeoutsCancel, OrphansFail, OrphansRetry, TimeoutsIdle
    <2>2. QED
      BY <1>2, <1>3, <1>4, <1>5, <1>6, <2>1 DEF TimeoutsKnow
  <1>12. CASE Crash
    BY <1>12 DEF Crash, EmptyMap, TimeoutsKnow
  <1>13. QED
    BY <1>7, <1>8, <1>9, <1>10, <1>11, <1>12, OwnVariables DEF TimeoutsLoop

(***************************************************************************)
(* The invariant                                                           *)
(***************************************************************************)

LEMMA LoopsInvInit ==
  ASSUME ServerInit
  PROVE  LoopsInv
  <1> USE DEF ServerInit, LoopsInit, EmptyMap
  <1>1. PoolInv
    BY InitInv
  <1>2. /\ \A x \in Executions : execStatus[x] = "absent" /\ accepted[x] = "none" /\ ~Held(x)
        /\ \A x \in Executions, e \in Executors : held[e][x] = "none"
        /\ \A x : ~Reported(x)
        /\ startQueue = {} /\ EventsHeld = {}
    BY DEF BackendInit, PoolInit, Held, Reported, EventsHeld
  <1>3. LoopsTyped
    <2>1. BackendTypeOK
      BY DEF BackendInit, BackendTypeOK, JobStates, ExecStates, SchedStates
    <2>2. attempt \in [Executions -> Nat] /\ crashes \in 0..MaxCrashes
      BY CrashesAssumption
    <2>3. /\ DOMAIN readyPage = {} /\ DOMAIN startBatch = {} /\ DOMAIN progress = {}
          /\ readyIgnore = {} /\ notStarted = {} /\ readyPc = "start" /\ startPc = "idle"
      OBVIOUS
    <2>4. \A xs \in {eventOk, eventFail, eventRetry, lateFail, lateRetry, lateCancel,
                    orphanFail, orphanRetry, adminCancel} : xs \subseteq Executions
      OBVIOUS
    <2>5. eventWaits \in BOOLEAN /\ PoolTypeOK
      BY <1>1 DEF PoolInv
    <2> HIDE DEF ServerInit, LoopsInit, EmptyMap
    <2>6. QED
      BY <2>1, <2>2, <2>3, <2>4, <2>5 DEF LoopsTyped, ServerTypeOK
  <1>4. CancelsEnded /\ TimeoutsKnow
    BY DEF CancelsEnded, TimeoutsKnow
  <1>5. NamesKnown /\ StartsTracked /\ StartsHeld /\ PageFresh
    BY <1>2 DEF NamesKnown, StartsTracked, StartsHeld, PageFresh, StartingOn, InBatch
  <1>6. ResultsFollow /\ RunnersReady /\ StartsKept /\ ReportedGone
    BY <1>2 DEF ResultsFollow, RunnersReady, StartsKept, ReportedGone, StartingOn, InBatch,
                Reporting, Active
  <1>7. OneExecutorRuns /\ RunningIsTracked
    BY <1>2 DEF OneExecutorRuns, RunningIsTracked
  <1>8. QED
    BY <1>1, <1>3, <1>4, <1>5, <1>6, <1>7 DEF LoopsInv, OnItsWay

LEMMA LoopsInvKept ==
  ASSUME LoopsInv, [ServerNext]_serverVars
  PROVE  LoopsInv' /\ Onward
  <1> USE DEF LoopsInv
  <1>1. OnItsWay' /\ PoolInv' /\ BackendTypeOK' /\ Onward
    BY OnItsWayKept, PoolKept, StepOnward
  <1>2. LoopsTyped'
    BY <1>1, LoopsTypedKept, ResultsReceived DEF PoolInv
  <1>3. CancelsEnded' /\ TimeoutsKnow'
    BY <1>1, CancelsEndedKept, TimeoutsKnowKept
  <1>4. QED
    BY <1>1, <1>2, <1>3

\* What is on its way, and whatever the loops and the pool carry, stays so in every
\* execution of the server (the four loops, the pool, and its crashes).
THEOREM LoopsCorrect == ServerSpec => []LoopsInv
  <1>1. ServerInit => LoopsInv
    BY LoopsInvInit
  <1>2. LoopsInv /\ [ServerNext]_serverVars => LoopsInv'
    BY LoopsInvKept
  <1>3. QED
    BY <1>1, <1>2, PTL DEF ServerSpec

\* The types of the server's state: what its loops and its pool carry names jobs,
\* executions and executors, and the backend's rows are well-formed.
THEOREM ServerTypes == ServerSpec => []ServerTypeOK
  <1>1. LoopsInv => ServerTypeOK
    BY DEF LoopsInv, LoopsTyped
  <1>2. QED
    BY <1>1, LoopsCorrect, PTL

\* An execution that runs for one executor is not held by, offered to or run by
\* another one, however the steps of the loops mix (try_offer, executions_started).
THEOREM OneRuns == ServerSpec => []OneExecutorRuns
  <1>1. LoopsInv => OneExecutorRuns
    BY DEF LoopsInv, OnItsWay
  <1>2. QED
    BY <1>1, LoopsCorrect, PTL

\* No started execution is lost while its executor is connected: the executor holds
\* it, or its result is on the way to the backend.
THEOREM NoneIsLost == ServerSpec => []RunningIsTracked
  <1>1. LoopsInv => RunningIsTracked
    BY DEF LoopsInv, OnItsWay
  <1>2. QED
    BY <1>1, LoopsCorrect, PTL

\* What the events loop waits for is in the hands of the starts loop
\* (wait_for_starts, in_flight_execution_ids).
THEOREM WaitsAreForStarts == ServerSpec => []UnstartedIsQueued
  <1>1. LoopsInv => UnstartedIsQueued
    <2>1. LoopsInv => \A x \in Executions :
            accepted[x] = "unstarted" => \E e \in Executors : StartingOn(x, e)
      BY DEF LoopsInv, OnItsWay, StartsTracked
    <2>2. QED
      BY <2>1 DEF UnstartedIsQueued, StartingOn, InBatch
  <1>2. QED
    BY <1>1, LoopsCorrect, PTL

\* What holds of the pool whoever calls it holds of the pool under the server's loops
\* and crashes.
THEOREM PoolInServer == ServerSpec => []PoolInv
  <1>1. LoopsInv => PoolInv
    BY DEF LoopsInv
  <1>2. QED
    BY <1>1, LoopsCorrect, PTL

(***************************************************************************)
(* Results behind starts                                                   *)
(***************************************************************************)

\* Unless the wait for starts may elapse, the results that are applied are those of
\* executions that began.
LEMMA ResultsBeganKept ==
  ASSUME LoopsInv, ResultsBegan, ~StartWaitElapses, [ServerNext]_serverVars
  PROVE  ResultsBegan'
  <1> USE DEF ResultsBegan
  <1>1. EventsHeld \subseteq Executions /\ Onward
    BY LoopsInvKept DEF LoopsInv, LoopsTyped, ServerTypeOK, EventsHeld
  <1>2. CASE UNCHANGED eventVars
    BY <1>1, <1>2 DEF eventVars, EventsHeld, Onward
  <1>3. CASE EventsReceive
    BY <1>3 DEF EventsReceive
  <1>4. CASE EventsWait
    <2>1. /\ EventsHeld' = EventsHeld /\ execStatus' = execStatus
          /\ \A x \in EventsHeld : accepted[x] # "unstarted"
      BY <1>4 DEF EventsWait, EventsWaited, EventsHeld, backendVars, execVars
    <2>2. \A x \in EventsHeld : Began(x)
      BY <1>1, <2>1 DEF LoopsInv, OnItsWay, ResultsFollow, Reporting
    <2>3. QED
      BY <2>1, <2>2 DEF Began
  <1>5. CASE EventsSucceed \/ EventsFail \/ EventsRetry
    <2>1. eventWaits' = eventWaits /\ EventsHeld' \subseteq EventsHeld
      BY <1>5 DEF EventsSucceed, EventsFail, EventsRetry, EventsHeld
    <2>2. QED
      BY <1>1, <2>1 DEF Onward
  <1>6. CASE Crash
    BY <1>6 DEF Crash, EventsHeld
  <1>7. QED
    BY <1>2, <1>3, <1>4, <1>5, <1>6, OwnVariables DEF EventsLoop

\* What a step may make of a pending execution (the formula of StartBeforeResult).
PendingMoves ==
  \A x \in Executions : execStatus[x] = "pending" =>
    execStatus'[x] \in {"pending", "running", "cancelled"}

\* Results and retries of executions that began leave the pending ones alone.
LEMMA ResultsSparePending ==
  ASSUME BackendTypeOK, NEW xs, \A x \in xs : Began(x),
         ExecutionsSucceeded(xs) \/ ExecutionsFailed(xs) \/ ExecutionsRetried(xs)
  PROVE  PendingMoves
  <1>1. \A x \in Unfinished(xs) : execStatus[x] # "pending"
    BY DEF Unfinished, Began
  <1>2. CASE ExecutionsSucceeded(xs) \/ ExecutionsFailed(xs)
    BY <1>1, <1>2 DEF ExecutionsSucceeded, ExecutionsFailed, FinishAndInsert, NoNewExecs, PendingMoves
  <1>3. CASE ExecutionsRetried(xs)
    <2>1. PICK from \in FreshFor(Retryable(xs)) :
            execStatus' = [x \in Executions |->
              IF x \in DOMAIN from THEN "pending"
              ELSE IF x \in Unfinished(xs) THEN "failed" ELSE execStatus[x]]
      BY <1>3, RetriedShape
    <2>2. QED
      BY <1>1, <2>1 DEF PendingMoves
  <1>4. QED
    BY <1>2, <1>3

LEMMA PendingSteps ==
  ASSUME LoopsInv, ResultsBegan, ~StartWaitElapses, [ServerNext]_serverVars
  PROVE  PendingMoves
  <1>1. BackendTypeOK
    BY DEF LoopsInv, LoopsTyped, ServerTypeOK
  <1>2. CASE UNCHANGED backendVars
    BY <1>2 DEF backendVars, execVars, PendingMoves
  <1>3. CASE AddJob
    <2>1. \E new : FinishAndInsert({}, "absent", new)
      BY <1>1, <1>3, AddJobInserts DEF AddJob
    <2>2. QED
      BY <2>1 DEF FinishAndInsert, PendingMoves
  <1>4. ASSUME NEW js \in SUBSET Jobs, AdminCancelJobs(js) PROVE PendingMoves
    BY <1>4 DEF AdminCancelJobs, CancelJobs, FinishAndInsert, NoNewExecs, PendingMoves
  <1>5. CASE StartsCommit
    BY <1>5 DEF StartsCommit, ExecutionsStarted, PendingMoves
  <1>6. CASE EventsSucceed \/ EventsFail \/ EventsRetry
    <2>1. \A x \in EventsHeld : Began(x)
      BY <1>6 DEF ResultsBegan, EventsSucceed, EventsFail, EventsRetry
    <2>2. QED
      BY <1>1, <1>6, <2>1, ResultsSparePending DEF EventsHeld, EventsSucceed, EventsFail, EventsRetry
  <1>7. CASE TimeoutsFail \/ TimeoutsRetry \/ OrphansFail \/ OrphansRetry
    <2>1. \A x \in lateFail \cup lateRetry \cup orphanFail \cup orphanRetry : Began(x)
      BY DEF LoopsInv, TimeoutsKnow
    <2>2. QED
      BY <1>1, <1>7, <2>1, ResultsSparePending
         DEF TimeoutsFail, TimeoutsRetry, OrphansFail, OrphansRetry
  <1>8. QED
    BY <1>2, <1>3, <1>4, <1>5, <1>6, <1>7, BackendSteps

\* A result does not overtake the start of its execution, unless START_WAIT_TIMEOUT
\* elapses first: whatever the loops carry, the backend never ends an execution that
\* is not started, except by a cancellation (executor_events_loop, wait_for_starts).
THEOREM StartsPrecedeResults ==
  ASSUME ~StartWaitElapses
  PROVE  ServerSpec => StartBeforeResult
  <1>1. ServerInit => LoopsInv /\ ResultsBegan
    BY LoopsInvInit DEF ServerInit, LoopsInit, ResultsBegan, EventsHeld
  <1>2. LoopsInv /\ ResultsBegan /\ [ServerNext]_serverVars =>
          (LoopsInv /\ ResultsBegan)' /\ [PendingMoves]_serverVars
    BY LoopsInvKept, ResultsBeganKept, PendingSteps
  <1>3. ServerSpec => [][PendingMoves]_serverVars
    BY <1>1, <1>2, PTL DEF ServerSpec
  <1>4. QED
    BY <1>3 DEF StartBeforeResult, PendingMoves

(***************************************************************************)
(* Executors do not go on with what has ended                              *)
(***************************************************************************)

\* Results, failures and retries end only active executions they name.
LEMMA ResultsEndNamed ==
  ASSUME NEW xs, NEW x \in Executions, ~Ended(x), Ended(x)',
         ExecutionsSucceeded(xs) \/ ExecutionsFailed(xs) \/ ExecutionsRetried(xs)
  PROVE  x \in xs /\ execStatus[x] \in Active
  <1>1. CASE ExecutionsSucceeded(xs) \/ ExecutionsFailed(xs)
    BY <1>1 DEF ExecutionsSucceeded, ExecutionsFailed, FinishAndInsert, NoNewExecs, Unfinished,
                ActiveExecs, Ended
  <1>2. CASE ExecutionsRetried(xs)
    <2>1. PICK from \in FreshFor(Retryable(xs)) :
            execStatus' = [y \in Executions |->
              IF y \in DOMAIN from THEN "pending"
              ELSE IF y \in Unfinished(xs) THEN "failed" ELSE execStatus[y]]
      BY <1>2, RetriedShape
    <2>2. QED
      BY <2>1 DEF Unfinished, ActiveExecs, Ended, Outcome
  <1>3. QED
    BY <1>1, <1>2

\* Results, and what is reported of orphans, end executions that nobody holds.
LEMMA ResultsEndUnheld ==
  ASSUME LoopsInv,
         \/ EventsSucceed \/ EventsFail \/ EventsRetry
         \/ OrphansFail \/ OrphansRetry,
         NEW x \in Executions, ~Ended(x), Ended(x)'
  PROVE  ~Held(x)
  <1>1. BackendTypeOK /\ OnItsWay /\ LoopsTyped /\ TimeoutsKnow /\ PoolTypeOK
    BY DEF LoopsInv, LoopsTyped, ServerTypeOK
  <1>3. CASE EventsSucceed \/ EventsFail \/ EventsRetry
    <2>1. x \in EventsHeld /\ execStatus[x] \in Active
      BY <1>3, ResultsEndNamed DEF EventsSucceed, EventsFail, EventsRetry, EventsHeld
    <2>2. QED
      BY <1>1, <2>1 DEF OnItsWay, ReportedGone, Reporting
  <1>4. CASE OrphansFail \/ OrphansRetry
    <2>1. x \in orphanFail \cup orphanRetry /\ execStatus[x] \in Active
      BY <1>4, ResultsEndNamed DEF OrphansFail, OrphansRetry
    <2>2. /\ execStatus[x] = "running" /\ execExecutor[x] \in Executors
          /\ conn[execExecutor[x]] = "gone"
      BY <1>1, <2>1 DEF TimeoutsKnow, Began, Active
    <2>3. held[execExecutor[x]][x] = "none"
      BY <1>1, <2>2 DEF PoolTypeOK
    <2>4. QED
      BY <1>1, <2>2, <2>3 DEF Held, OnItsWay, OneExecutorRuns, HeldBy
  <1>5. QED
    BY <1>3, <1>4

\* The executions a cancellation tells the pool of are all it cancelled, as long as
\* no two executions of a job are active.
LEMMA AllAreTold ==
  ASSUME AtMostOneActive, NEW js, NEW told \in OnePerJob(CancelledBy(js))
  PROVE  told = CancelledBy(js)
  <1>1. told \subseteq CancelledBy(js) /\ CancelledBy(js) \subseteq ActiveExecs
    BY DEF OnePerJob, CancelledBy
  <1>2. ASSUME NEW x \in CancelledBy(js) PROVE x \in told
    <2> DEFINE mine == {y \in told : execJob[y] = execJob[x]}
    <2>1. Cardinality(mine) = 1
      BY DEF OnePerJob, JobsOf
    <2>2. mine # {}
      BY <2>1, FS_EmptySet
    <2>3. PICK y \in told : execJob[y] = execJob[x]
      BY <2>2
    <2>4. QED
      BY <1>1, <2>3 DEF AtMostOneActive
  <1>3. QED
    BY <1>1, <1>2

\* What an executor goes on with is about to be cancelled, whoever ended it.
LEMMA WithdrawnKept ==
  ASSUME LoopsInv, EndedWithdrawn, AtMostOneActive, "error" \notin CancelReplies,
         [ServerNext]_serverVars
  PROVE  EndedWithdrawn'
  <1>1. SUFFICES ASSUME NEW x \in Executions, NEW e \in Executors,
                        held'[e][x] = "accepted", Ended(x)'
                 PROVE  Withdrawing(x)'
    BY DEF EndedWithdrawn, Withdrawing
  <1>2. BackendTypeOK /\ OnItsWay /\ LoopsTyped /\ TimeoutsKnow /\ PoolTypeOK
    BY DEF LoopsInv, LoopsTyped, ServerTypeOK
  <1>3. held[e][x] = "accepted" /\ Ended(x) => Withdrawing(x)
    BY DEF EndedWithdrawn, Withdrawing
  <1>4. ASSUME Ended(x), held'[e][x] = held[e][x], UNCHANGED startVars,
               adminCancel \subseteq adminCancel', startQueue \subseteq startQueue',
               lateCancel \subseteq lateCancel'
        PROVE  Withdrawing(x)'
    BY <1>1, <1>3, <1>4 DEF Withdrawing, startVars
  <1> USE DEF loopVars, backendVars, execVars, poolVars, executorVars, timeoutVars, otherVars
  <1>5. CASE \/ UNCHANGED serverVars
             \/ ReadyStart \/ ReadyStamp \/ ReadyQuery
             \/ EventsReceive \/ EventsWait \/ TimeoutsRead
    BY <1>1, <1>4, <1>5 DEF serverVars, ReadyStart, ReadyStamp, StampFetch, ReadyQuery, EventsReceive,
                            TakeEvents, EventsWait, TimeoutsRead, Ended
  <1>6. CASE AddJob
    <2>1. \E new : FinishAndInsert({}, "absent", new)
      BY <1>2, <1>6, AddJobInserts DEF AddJob
    <2>2. Ended(x)
      BY <1>1, <2>1 DEF FinishAndInsert, Ended, Outcome
    <2>3. QED
      BY <1>4, <1>6, <2>2 DEF AddJob
  <1>7. ASSUME NEW js \in SUBSET Jobs, AdminCancelJobs(js)
        PROVE  Withdrawing(x)'
    <2>1. adminCancel' = adminCancel \cup CancelledBy(js)
          /\ UNCHANGED <<held, startVars, startQueue, lateCancel>>
      BY <1>7, AllAreTold DEF AdminCancelJobs
    <2>2. Ended(x) \/ x \in CancelledBy(js)
      BY <1>1, <1>7 DEF AdminCancelJobs, CancelJobs, FinishAndInsert, NoNewExecs, Ended
    <2>3. QED
      BY <1>4, <2>1, <2>2 DEF Withdrawing
  <1>8. CASE AdminCancelInPool \/ TimeoutsCancel
    <2>1. /\ Ended(x) /\ held[e][x] = "accepted" /\ UNCHANGED <<startVars, startQueue>>
          /\ \/ x \notin adminCancel /\ lateCancel' = lateCancel
             \/ x \notin lateCancel /\ adminCancel' = adminCancel
      BY <1>1, <1>2, <1>8 DEF AdminCancelInPool, TimeoutsCancel, CancelIds, Ended
    <2>2. QED
      BY <1>3, <2>1 DEF Withdrawing, startVars
  <1>9. CASE ReadyOffer
    <2>1. PICK to \in Assignments(DOMAIN readyPage \ Taken) : Offer(to)
      BY <1>9 DEF ReadyOffer
    <2>2. \/ held[e][x] = "accepted"
          \/ x \in DOMAIN to /\ to[x] = e /\ ~handshake[e]
      BY <1>1, <2>1 DEF Offer
    <2>3. startQueue' = startQueue \cup {<<y, to[y]>> : y \in {z \in DOMAIN to : ~handshake[to[z]]}}
      BY <2>1 DEF Offer
    <2>4. CASE held[e][x] = "accepted"
      BY <1>1, <1>4, <1>9, <2>3, <2>4 DEF ReadyOffer, Ended
    <2>5. CASE x \in DOMAIN to /\ to[x] = e /\ ~handshake[e]
      BY <2>3, <2>5 DEF Withdrawing
    <2>6. QED
      BY <2>2, <2>4, <2>5
  <1>10. CASE StartsReceive
    <2>1. PICK batch \in SUBSET startQueue :
            /\ startQueue' = startQueue \ batch
            /\ DOMAIN startBatch' = {p[1] : p \in batch}
      BY <1>10 DEF StartsReceive, TakeStarts
    <2>2. /\ Ended(x) /\ held[e][x] = "accepted" /\ UNCHANGED <<adminCancel, lateCancel, notStarted>>
          /\ startPc = "idle" /\ startPc' = "commit"
      BY <1>1, <1>10 DEF StartsReceive, TakeStarts, Ended
    <2>3. ASSUME NEW d \in Executors, <<x, d>> \in startQueue PROVE Withdrawing(x)'
      <3>1. <<x, d>> \in batch => x \in DOMAIN startBatch'
        BY <2>1
      <3>2. QED
        BY <2>1, <2>2, <2>3, <3>1 DEF Withdrawing
    <2>4. QED
      BY <1>3, <2>2, <2>3 DEF Withdrawing
  <1>11. CASE StartsCommit
    <2>1. /\ Ended(x) /\ x \notin Startable(startBatch)
          /\ held[e][x] = "accepted" /\ UNCHANGED <<adminCancel, lateCancel, startQueue, startBatch>>
          /\ startPc = "commit" /\ notStarted = {}
      BY <1>1, <1>2, <1>11 DEF StartsCommit, ExecutionsStarted, Startable, Ended, Outcome, OnItsWay,
                               StartsTracked
    <2>2. \/ UNCHANGED <<startPc, notStarted>>
          \/ notStarted' = DOMAIN startBatch \ Startable(startBatch)
      BY <1>11 DEF StartsCommit
    <2>3. CASE x \in DOMAIN startBatch
      BY <2>1, <2>2, <2>3 DEF Withdrawing
    <2>4. CASE x \notin DOMAIN startBatch
      BY <1>3, <2>1, <2>4 DEF Withdrawing
    <2>5. QED
      BY <2>3, <2>4
  <1>12. CASE StartsMark \/ StartsCancel
    <2>1. /\ Ended(x) /\ held[e][x] = "accepted" /\ UNCHANGED <<adminCancel, lateCancel, startQueue>>
          /\ startPc # "commit"
          /\ notStarted' = notStarted \/ x \notin notStarted
      BY <1>1, <1>2, <1>12 DEF StartsMark, MarkStarted, StartsCancel, CancelIds, Ended
    <2>2. QED
      BY <1>3, <2>1 DEF Withdrawing
  <1>13. CASE EventsSucceed \/ EventsFail \/ EventsRetry \/ OrphansFail \/ OrphansRetry
    <2>1. UNCHANGED <<held, startVars, startQueue, adminCancel, lateCancel>>
      BY <1>13 DEF EventsSucceed, EventsFail, EventsRetry, OrphansFail, OrphansRetry
    <2>2. Ended(x)
      BY <1>1, <1>13, <2>1, ResultsEndUnheld DEF Held
    <2>3. QED
      BY <1>4, <2>1, <2>2
  <1>14. CASE TimeoutsFail \/ TimeoutsRetry
    <2>1. UNCHANGED <<held, startVars, startQueue, adminCancel, lateCancel>>
      BY <1>14 DEF TimeoutsFail, TimeoutsRetry
    <2>2. Ended(x) \/ x \in lateCancel
      BY <1>1, <1>2, <1>14, ResultsEndNamed DEF TimeoutsFail, TimeoutsRetry, TimeoutsKnow
    <2>3. QED
      BY <1>4, <2>1, <2>2 DEF Withdrawing
  <1>15. CASE TimeoutsCheck
    <2>1. lateCancel = {}
      BY <1>2, <1>15 DEF TimeoutsCheck, TimeoutsKnow, TimeoutsIdle
    <2>2. UNCHANGED <<held, startVars, startQueue, adminCancel, execStatus>>
      BY <1>15 DEF TimeoutsCheck
    <2>3. QED
      BY <1>1, <1>4, <2>1, <2>2 DEF Ended
  <1>16. CASE ExecutorAct
    <2>1. PICK d \in Executors : ExecutorStep(d)
      BY <1>16 DEF ExecutorAct
    <2>2. Ended(x) /\ UNCHANGED <<startVars, adminCancel, lateCancel>>
      BY <1>1, <1>16 DEF ExecutorAct, Ended
    <2>3. CASE Takes
      BY <1>1, <1>4, <2>2, <2>3 DEF Takes
    <2>4. ASSUME NEW y \in Executions, AcceptOffer(d, y) PROVE Withdrawing(x)'
      <3>1. /\ startQueue' = startQueue \cup {<<y, d>>}
            /\ held'[e][x] = held[e][x] \/ (d = e /\ x = y)
        BY <1>2, <2>4 DEF AcceptOffer, PoolTypeOK
      <3>2. CASE d = e /\ x = y
        BY <3>1, <3>2 DEF Withdrawing
      <3>3. CASE held'[e][x] = held[e][x]
        BY <1>4, <2>2, <3>1, <3>3
      <3>4. QED
        BY <3>1, <3>2, <3>3
    <2>5. PoolInv
      BY DEF LoopsInv
    <2>6. QED
      BY <2>1, <2>3, <2>4, <2>5, ExecutorTakes
  <1>17. CASE Crash
    BY <1>1, <1>17 DEF Crash
  <1>18. QED
    BY <1>5, <1>6, <1>7, <1>8, <1>9, <1>10, <1>11, <1>12, <1>13, <1>14, <1>15, <1>16, <1>17
       DEF ServerNext, ReadyLoop, StartsLoop, EventsLoop, TimeoutsLoop

\* Whatever ends an execution that an executor runs - a user, a timeout, or a start
\* that came too late - a loop is about to cancel it there: no executor goes on with
\* it unnoticed.  Two things break this, and are excluded: an error of cancel_jobs that
\* hides its success, and two executions of a job active at a time, of which
\* cancel_jobs returns one.
THEOREM EndedAreWithdrawn ==
  ASSUME "error" \notin CancelReplies
  PROVE  ServerSpec /\ []AtMostOneActive => []FinishedIsWithdrawn
  <1>1. ServerInit => LoopsInv /\ EndedWithdrawn
    <2>1. ServerInit => EndedWithdrawn
      BY DEF ServerInit, PoolInit, EndedWithdrawn
    <2>2. QED
      BY <2>1, LoopsInvInit
  <1>2. LoopsInv /\ EndedWithdrawn /\ AtMostOneActive /\ [ServerNext]_serverVars =>
          (LoopsInv /\ EndedWithdrawn)'
    BY LoopsInvKept, WithdrawnKept
  <1>3. LoopsInv /\ EndedWithdrawn => FinishedIsWithdrawn
    BY DEF LoopsInv, OnItsWay, StartsTracked, StartingOn, InBatch, EndedWithdrawn, Withdrawing, Ended,
           FinishedIsWithdrawn, LoopsTyped, ServerTypeOK, PoolTypeOK
  <1>4. QED
    BY <1>1, <1>2, <1>3, PTL DEF ServerSpec

(***************************************************************************)
(* The server as a caller of the backend                                   *)
(***************************************************************************)

\* A retry that leaves a job at most one active execution retries only executions
\* that are active, one for each job.
LEMMA RetriesAreSingle ==
  ASSUME BackendTypeOK, NEW xs \in SUBSET KnownExecs, ExecutionsRetried(xs), AtMostOneActive'
  PROVE  /\ ExecutionsRetried(Unfinished(xs))
         /\ FailureBatch(Unfinished(xs))
         /\ Unfinished(xs) \in SUBSET KnownExecs
  <1>1. PICK from \in FreshFor(Retryable(xs)) :
          FinishAndInsert(Unfinished(xs), "failed", [x \in DOMAIN from |-> execJob[from[x]]])
    BY DEF ExecutionsRetried
  <1>2. /\ DOMAIN from \subseteq Executions
        /\ \A x \in Retryable(xs) : \E a \in DOMAIN from : from[a] = x
    BY FreshForIs DEF FreshExecs
  <1>3. \A a \in DOMAIN from : execStatus'[a] = "pending" /\ execJob'[a] = execJob[from[a]]
    BY <1>1, <1>2 DEF FinishAndInsert
  <1>4. ASSUME NEW x \in Retryable(xs), NEW y \in Retryable(xs), execJob[x] = execJob[y]
        PROVE  x = y
    <2>1. PICK a \in DOMAIN from, b \in DOMAIN from : from[a] = x /\ from[b] = y
      BY <1>2
    <2>2. a = b
      BY <1>2, <1>3, <1>4, <2>1 DEF AtMostOneActive, ActiveExecs, Active
    <2>3. QED
      BY <2>1, <2>2
  <1>5. Unfinished(xs) \subseteq Retryable(xs)
    BY DEF Unfinished, Retryable, JobsOf
  <1>6. Retryable(xs) = Unfinished(xs)
    BY <1>4, <1>5 DEF Retryable, JobsOf
  <1>7. Unfinished(Unfinished(xs)) = Unfinished(xs)
    BY DEF Unfinished
  <1>8. Retryable(Unfinished(xs)) = Unfinished(xs)
    BY <1>7 DEF Retryable, JobsOf
  <1>9. ExecutionsRetried(Unfinished(xs))
    BY <1>6, <1>7, <1>8 DEF ExecutionsRetried
  <1>10. FailureBatch(Unfinished(xs))
    BY <1>4, <1>6 DEF FailureBatch
  <1>11. QED
    BY <1>9, <1>10 DEF Unfinished

\* Every step of the server is a call of the backend, or leaves it alone.
LEMMA StepsAreCalls ==
  ASSUME LoopsInv, [ServerNext]_serverVars, ~OneFailurePerJob \/ AtMostOneActive'
  PROVE  [BackendNext]_backendVars
  <1>1. BackendTypeOK /\ LoopsTyped /\ OnItsWay /\ TimeoutsKnow
    BY DEF LoopsInv, LoopsTyped, ServerTypeOK
  <1>2. ASSUME NEW xs \in SUBSET KnownExecs, ExecutionsRetried(xs)
        PROVE  BackendNext
    <2>1. CASE ~OneFailurePerJob
      BY <1>2, <2>1 DEF BackendNext, FailureBatch
    <2>2. CASE AtMostOneActive'
      BY <1>1, <1>2, <2>2, RetriesAreSingle DEF BackendNext
    <2>3. QED
      BY <2>1, <2>2
  <1>3. CASE AddJob
    <2>1. PICK j \in FreshJobs : AddJobs([i \in {j} |-> None])
      BY <1>3 DEF AddJob
    <2> DEFINE sched == [i \in {j} |-> None]
    <2>2. {j} \in SUBSET FreshJobs /\ sched \in [{j} -> Schedules \cup {None}] /\ AddJobs(sched)
      BY <2>1
    <2> HIDE DEF sched
    <2>3. QED
      BY <2>2 DEF BackendNext
  <1>4. ASSUME NEW js \in SUBSET Jobs, AdminCancelJobs(js) PROVE BackendNext
    BY <1>4 DEF AdminCancelJobs, BackendNext
  <1>5. CASE StartsCommit
    <2>1. DOMAIN startBatch \in SUBSET KnownExecs
      BY <1>1 DEF LoopsTyped, ServerTypeOK, OnItsWay, NamesKnown, Known, KnownExecs
    <2>2. startBatch \in [DOMAIN startBatch -> Executors] /\ ExecutionsStarted(startBatch)
      BY <1>1, <1>5 DEF LoopsTyped, StartsCommit
    <2>3. QED
      BY <2>1, <2>2 DEF BackendNext
  <1>6. CASE EventsSucceed \/ EventsFail \/ TimeoutsFail \/ OrphansFail
    BY <1>1, <1>6, CarriedIsKnown DEF EventsSucceed, EventsFail, TimeoutsFail, OrphansFail, BackendNext
  <1>7. CASE EventsRetry \/ TimeoutsRetry \/ OrphansRetry
    BY <1>1, <1>2, <1>7, CarriedIsKnown DEF EventsRetry, TimeoutsRetry, OrphansRetry
  <1>8. QED
    BY <1>3, <1>4, <1>5, <1>6, <1>7, BackendSteps

\* The server is one of the callers the backend's module allows: what is proved of
\* the backend under any calls (BackendProofs) is true of the server.
THEOREM ServerCallsBackend ==
  ASSUME ~OneFailurePerJob
  PROVE  ServerSpec => BackendSpec
  <1>1. ServerInit => BackendInit
    BY DEF ServerInit
  <1>2. LoopsInv /\ [ServerNext]_serverVars => [BackendNext]_backendVars
    BY StepsAreCalls
  <1>3. QED
    BY <1>1, <1>2, LoopsCorrect, PTL DEF ServerSpec, BackendSpec

\* While no two executions of a job are active, the server is one of the callers that
\* retry each job once at a time, for which the backend keeps its whole contract.
THEOREM ServerKeepsContract ==
  ServerSpec /\ []AtMostOneActive => BackendSpec
  <1>1. ServerInit => BackendInit
    BY DEF ServerInit
  <1>2. LoopsInv /\ [ServerNext]_serverVars /\ AtMostOneActive' => [BackendNext]_backendVars
    BY StepsAreCalls
  <1>3. QED
    BY <1>1, <1>2, LoopsCorrect, PTL DEF ServerSpec, BackendSpec

\* No job is stuck in the server, and schedules track their jobs, whatever the loops
\* and executors do and however often the server crashes.
THEOREM ServerStores ==
  ASSUME ~OneFailurePerJob
  PROVE  ServerSpec => []StoredInv
  BY ServerCallsBackend, StoredCorrect, PTL

\* While no two executions of a job are active, outcomes are final: results that come
\* late, twice, or after a cancellation or a timeout rewrite nothing.
THEOREM ServerHistory ==
  ASSUME OneFailurePerJob
  PROVE  ServerSpec /\ []AtMostOneActive => OutcomesAreFinal
  BY ServerKeepsContract, HistoryIsFinal, PTL

\* Under the same condition the server implements the life of jobs: loops, executors,
\* timeouts, cancellations and crashes included.
THEOREM ServerLifecycle ==
  ASSUME OneFailurePerJob
  PROVE  ServerSpec /\ []AtMostOneActive => ImplementsLifecycle
  BY ServerKeepsContract, LifecycleImplemented, PTL

(***************************************************************************)
(* Attempts                                                                *)
(***************************************************************************)

\* Stored executions belong to stored jobs.
JobsRecorded ==
  \A x \in Executions : IF execStatus[x] = "absent" THEN execJob[x] = None
                        ELSE jobStatus[execJob[x]] # "absent"

\* The attempt numbers the loops carry are current as long as the execution is active,
\* and those that are to be retried have attempts left.
NumbersCurrent ==
  /\ \A x \in DOMAIN readyPage : execStatus[x] \in Active => readyPage[x] = AttemptNumber(x)
  /\ \A x \in DOMAIN progress : execStatus[x] \in Active => progress[x] = AttemptNumber(x)
  /\ \A x \in Executions : execStatus[x] \in Active /\ (Held(x) \/ Reported(x)) =>
       attempt[x] = AttemptNumber(x)
  /\ \A x \in eventRetry \cup lateRetry \cup orphanRetry :
       execStatus[x] \in Active => AttemptNumber(x) <= Retries[execJob[x]]

AttemptsInv == JobsRecorded /\ AttemptsBounded /\ NumbersCurrent

\* No other execution is added to the job of an execution that stays active.
SameAttempts ==
  \A x \in Executions : execStatus[x] # "absent" /\ execStatus'[x] \in Active =>
    /\ execStatus[x] \in Active
    /\ execJob'[x] = execJob[x] /\ AttemptNumber(x)' = AttemptNumber(x)

\* Calls that insert nothing.
LEMMA NothingInserted ==
  ASSUME BackendTypeOK, JobsRecorded, AttemptsBounded, execJob' = execJob,
         \A x \in Executions : /\ execStatus'[x] = "absent" <=> execStatus[x] = "absent"
                               /\ execStatus'[x] = "deleted" <=> execStatus[x] = "deleted"
                               /\ execStatus'[x] \in Active => execStatus[x] \in Active,
         \A j \in Jobs : jobStatus[j] # "absent" => jobStatus'[j] # "absent"
  PROVE  JobsRecorded' /\ AttemptsBounded' /\ SameAttempts
  <1>1. \A j : ExecsOf(j)' = ExecsOf(j)
    BY DEF ExecsOf
  <1>2. JobsRecorded'
    BY DEF JobsRecorded, BackendTypeOK
  <1>3. AttemptsBounded' /\ SameAttempts
    BY <1>1 DEF AttemptsBounded, SameAttempts, AttemptNumber
  <1>4. QED
    BY <1>2, <1>3

\* A job that is added gets its first attempt.
LEMMA AddJobAttempts ==
  ASSUME BackendTypeOK, JobsRecorded, AttemptsBounded, NEW j \in FreshJobs,
         AddJobs([i \in {j} |-> None])
  PROVE  JobsRecorded' /\ AttemptsBounded' /\ SameAttempts
  <1> DEFINE sched == [i \in {j} |-> None]
  <1>1. /\ {j} \in SUBSET FreshJobs /\ sched \in [{j} -> Schedules \cup {None}] /\ AddJobs(sched)
        /\ DOMAIN sched = {j}
    OBVIOUS
  <1> HIDE DEF sched
  <1>2. PICK claim \in [Claimable(sched) -> DOMAIN sched] :
          /\ \E new \in FreshFor(Added(sched, claim)) : FinishAndInsert({}, "absent", new)
          /\ jobStatus' = [i \in Jobs |->
                IF i \in Added(sched, claim) THEN "active" ELSE jobStatus[i]]
    BY <1>1 DEF AddJobs
  <1> DEFINE added == Added(sched, claim)
  <1>3. added \subseteq {j}
    BY <1>1 DEF Added
  <1>4. PICK new \in FreshFor(added) : FinishAndInsert({}, "absent", new)
    BY <1>2
  <1>5. /\ DOMAIN new \subseteq Executions
        /\ \A x \in DOMAIN new : execStatus[x] = "absent" /\ new[x] = j /\ new[x] \in added
        /\ \A x, y \in DOMAIN new : x = y
    BY <1>3, FreshForIs DEF FreshExecs
  <1>6. /\ execStatus' = [x \in Executions |-> IF x \in DOMAIN new THEN "pending" ELSE execStatus[x]]
        /\ execJob' = [x \in Executions |-> IF x \in DOMAIN new THEN new[x] ELSE execJob[x]]
    BY <1>4 DEF FinishAndInsert
  <1>7. j \in Jobs /\ jobStatus[j] = "absent"
    BY DEF FreshJobs
  <1>8. \A x \in Executions : execJob[x] # j
    BY <1>7, NoneAssumption DEF JobsRecorded
  <1> HIDE DEF added
  <1>9. JobsRecorded'
    <2>1. jobStatus' = [i \in Jobs |-> IF i \in added THEN "active" ELSE jobStatus[i]]
      BY <1>2 DEF added
    <2>2. \A x \in Executions : execStatus[x] # "absent" => execJob[x] \in Jobs
      BY DEF BackendTypeOK
    <2>3. QED
      BY <1>5, <1>6, <1>7, <2>1, <2>2 DEF JobsRecorded
  <1>10. \A i \in Jobs : i # j => ExecsOf(i)' = ExecsOf(i)
    BY <1>5, <1>6, <1>7, NoneAssumption DEF ExecsOf, JobsRecorded
  <1>11. ExecsOf(j)' = DOMAIN new
    BY <1>5, <1>6, <1>8 DEF ExecsOf
  <1>12. Cardinality(DOMAIN new) <= Retries[j] + 1
    <2>0. Retries[j] \in Nat
      BY <1>7, RetriesAssumption
    <2>1. CASE DOMAIN new = {}
      BY <2>0, <2>1, FS_EmptySet
    <2>2. ASSUME NEW x \in DOMAIN new PROVE Cardinality(DOMAIN new) <= Retries[j] + 1
      <3>1. DOMAIN new = {x}
        BY <1>5
      <3>2. Cardinality(DOMAIN new) = 1
        BY <3>1, FS_Singleton
      <3>3. QED
        BY <2>0, <3>2
    <2>3. QED
      BY <2>1, <2>2
  <1>13. AttemptsBounded'
    BY <1>10, <1>11, <1>12 DEF AttemptsBounded
  <1>14. SameAttempts
    <2>1. ASSUME NEW x \in Executions, execStatus[x] # "absent"
          PROVE  execJob'[x] = execJob[x] /\ execJob[x] \in Jobs /\ execJob[x] # j
      BY <1>5, <1>6, <1>8, <2>1 DEF BackendTypeOK
    <2>2. QED
      BY <1>5, <1>6, <1>10, <2>1 DEF SameAttempts, AttemptNumber
  <1>15. QED
    BY <1>9, <1>13, <1>14

\* A retry adds one attempt to each job it retries, and those had attempts left.
LEMMA RetryAttempts ==
  ASSUME BackendTypeOK, JobsRecorded, AttemptsBounded, NEW xs \in SUBSET KnownExecs,
         ExecutionsRetried(xs), AtMostOneActive',
         \A x \in xs : execStatus[x] \in Active => AttemptNumber(x) <= Retries[execJob[x]]
  PROVE  JobsRecorded' /\ AttemptsBounded' /\ SameAttempts
  <1> DEFINE U == Unfinished(xs)
  <1>1. ExecutionsRetried(U) /\ Retryable(U) = U /\ Unfinished(U) = U
    BY RetriesAreSingle DEF Unfinished, Retryable, JobsOf
  <1>2. PICK from \in FreshFor(U) :
          FinishAndInsert(U, "failed", [x \in DOMAIN from |-> execJob[from[x]]])
    BY <1>1 DEF ExecutionsRetried
  <1>3. /\ DOMAIN from \subseteq Executions
        /\ \A a \in DOMAIN from : execStatus[a] = "absent" /\ from[a] \in U
        /\ \A x \in U : \E a \in DOMAIN from : from[a] = x
    BY FreshForIs DEF FreshExecs
  <1>4. /\ execStatus' = [x \in Executions |-> IF x \in DOMAIN from THEN "pending"
                                               ELSE IF x \in U THEN "failed" ELSE execStatus[x]]
        /\ execJob' = [x \in Executions |-> IF x \in DOMAIN from THEN execJob[from[x]] ELSE execJob[x]]
        /\ jobStatus' = jobStatus
    BY <1>1, <1>2 DEF FinishAndInsert, ExecutionsRetried, jobVars
  <1>5. U \subseteq Executions /\ U \subseteq xs /\ \A x \in U : execStatus[x] \in Active
    BY DEF Unfinished, ActiveExecs
  <1> HIDE DEF U
  <1>6. \A a, b \in DOMAIN from : execJob[from[a]] = execJob[from[b]] => a = b
    BY <1>3, <1>4 DEF AtMostOneActive, ActiveExecs, Active
  <1>7. JobsRecorded'
    BY <1>3, <1>4, <1>5 DEF JobsRecorded, Active
  <1>8. ASSUME NEW j \in Jobs, \A a \in DOMAIN from : execJob[from[a]] # j
        PROVE  ExecsOf(j)' = ExecsOf(j)
    BY <1>3, <1>4, <1>5, <1>8, NoneAssumption DEF ExecsOf, JobsRecorded, Active
  <1>9. ASSUME NEW a \in DOMAIN from, NEW j \in Jobs, execJob[from[a]] = j
        PROVE  ExecsOf(j)' = ExecsOf(j) \cup {a} /\ a \notin ExecsOf(j)
    <2>2. execJob'[a] = j /\ execStatus'[a] = "pending" /\ execJob[a] = None
      BY <1>3, <1>4, <1>9 DEF JobsRecorded
    <2>3. \A x \in Executions : x # a => (x \in ExecsOf(j)' <=> x \in ExecsOf(j))
      BY <1>3, <1>4, <1>5, <1>6, <1>9, NoneAssumption DEF ExecsOf, JobsRecorded, Active
    <2>4. QED
      BY <1>3, <2>2, <2>3, NoneAssumption DEF ExecsOf
  <1>10. AttemptsBounded'
    <2>1. ASSUME NEW j \in Jobs PROVE (Cardinality(ExecsOf(j)) <= Retries[j] + 1)'
      <3>1. CASE \A a \in DOMAIN from : execJob[from[a]] # j
        BY <1>8, <3>1 DEF AttemptsBounded
      <3>2. ASSUME NEW a \in DOMAIN from, execJob[from[a]] = j
            PROVE  (Cardinality(ExecsOf(j)) <= Retries[j] + 1)'
        <4>1. ExecsOf(j) \subseteq Executions
          BY DEF ExecsOf
        <4>2. IsFiniteSet(ExecsOf(j)) /\ Cardinality(ExecsOf(j)) \in Nat
          BY <4>1, FiniteAssumption, FS_Subset, FS_CardinalityType
        <4>3. Cardinality(ExecsOf(j)) <= Retries[j]
          BY <1>3, <1>5, <3>2 DEF AttemptNumber
        <4>4. Cardinality(ExecsOf(j) \cup {a}) = Cardinality(ExecsOf(j)) + 1
          BY <1>9, <3>2, <4>2, FS_AddElement
        <4>5. Retries[j] \in Nat
          BY RetriesAssumption
        <4>6. Cardinality(ExecsOf(j)') = Cardinality(ExecsOf(j)) + 1
          BY <1>9, <3>2, <4>4
        <4>7. QED
          BY <4>2, <4>3, <4>5, <4>6
      <3>3. QED
        BY <3>1, <3>2
    <2>2. QED
      BY <2>1 DEF AttemptsBounded
  <1>11. SameAttempts
    <2>1. SUFFICES ASSUME NEW x \in Executions, execStatus[x] # "absent", execStatus'[x] \in Active
                   PROVE  /\ execStatus[x] \in Active
                          /\ execJob'[x] = execJob[x] /\ AttemptNumber(x)' = AttemptNumber(x)
      BY DEF SameAttempts
    <2>2. x \notin DOMAIN from /\ x \notin U /\ execStatus[x] \in Active
      BY <1>3, <1>4, <2>1 DEF Active
    <2>3. execJob'[x] = execJob[x] /\ execJob[x] \in Jobs
      BY <1>4, <2>1, <2>2 DEF BackendTypeOK
    <2>4. \A a \in DOMAIN from : execJob[from[a]] # execJob[x]
      BY <1>3, <1>4, <2>1, <2>2, <2>3 DEF AtMostOneActive, ActiveExecs, Active
    <2>5. QED
      BY <1>8, <2>2, <2>3, <2>4 DEF AttemptNumber
  <1>12. QED
    BY <1>7, <1>10, <1>11

\* What every step does to stored attempts.
LEMMA StoredAttempts ==
  ASSUME LoopsInv, AttemptsInv, AtMostOneActive', [ServerNext]_serverVars
  PROVE  JobsRecorded' /\ AttemptsBounded' /\ SameAttempts
  <1>1. BackendTypeOK /\ LoopsTyped /\ OnItsWay /\ TimeoutsKnow /\ JobsRecorded /\ AttemptsBounded
    BY DEF LoopsInv, LoopsTyped, ServerTypeOK, AttemptsInv
  <1>2. CASE UNCHANGED backendVars
    BY <1>1, <1>2, NothingInserted DEF backendVars, jobVars, execVars
  <1>3. ASSUME NEW done \in SUBSET ActiveExecs, NEW outcome \in Outcome, FinishJobs(done, outcome)
        PROVE  JobsRecorded' /\ AttemptsBounded' /\ SameAttempts
    <2>1. /\ execStatus' = [x \in Executions |-> IF x \in done THEN outcome ELSE execStatus[x]]
          /\ execJob' = execJob
      BY <1>1, <1>3 DEF FinishJobs, FinishAndInsert, NoNewExecs, BackendTypeOK
    <2>2. \A x \in Executions : /\ execStatus'[x] = "absent" <=> execStatus[x] = "absent"
                                /\ execStatus'[x] = "deleted" <=> execStatus[x] = "deleted"
                                /\ execStatus'[x] \in Active => execStatus[x] \in Active
      BY <2>1 DEF ActiveExecs, Active, Outcome
    <2>3. \A j \in Jobs : jobStatus[j] # "absent" => jobStatus'[j] # "absent"
      BY <1>3 DEF FinishJobs, MarkJobsInactive, Outcome
    <2>4. QED
      BY <1>1, <2>1, <2>2, <2>3, NothingInserted
  <1>4. ASSUME NEW xs \in SUBSET KnownExecs, ExecutionsSucceeded(xs) \/ ExecutionsFailed(xs)
        PROVE  JobsRecorded' /\ AttemptsBounded' /\ SameAttempts
    BY <1>3, <1>4, ResultsFinishJobs DEF Outcome, KnownExecs
  <1>5. CASE AddJob
    BY <1>1, <1>5, AddJobAttempts DEF AddJob
  <1>6. ASSUME NEW js \in SUBSET Jobs, AdminCancelJobs(js)
        PROVE  JobsRecorded' /\ AttemptsBounded' /\ SameAttempts
    BY <1>3, <1>6, CancelFinishesJobs DEF AdminCancelJobs, Outcome
  <1>7. CASE StartsCommit
    <2>1. \A x \in Startable(startBatch) : execStatus[x] \in Active
      BY DEF Startable, Active
    <2>2. \A x \in Executions : /\ execStatus'[x] = "absent" <=> execStatus[x] = "absent"
                                /\ execStatus'[x] = "deleted" <=> execStatus[x] = "deleted"
                                /\ execStatus'[x] \in Active => execStatus[x] \in Active
      BY <1>7, <2>1 DEF StartsCommit, ExecutionsStarted, Active
    <2>3. QED
      BY <1>1, <1>7, <2>2, NothingInserted DEF StartsCommit, ExecutionsStarted, jobVars
  <1>8. CASE EventsSucceed \/ EventsFail \/ TimeoutsFail \/ OrphansFail
    BY <1>1, <1>4, <1>8, CarriedIsKnown DEF EventsSucceed, EventsFail, TimeoutsFail, OrphansFail
  <1>9. CASE EventsRetry \/ TimeoutsRetry \/ OrphansRetry
    <2>1. PICK xs \in SUBSET KnownExecs :
            xs \subseteq eventRetry \cup lateRetry \cup orphanRetry /\ ExecutionsRetried(xs)
      BY <1>1, <1>9, CarriedIsKnown DEF EventsRetry, TimeoutsRetry, OrphansRetry
    <2>2. \A x \in xs : execStatus[x] \in Active => AttemptNumber(x) <= Retries[execJob[x]]
      BY <2>1 DEF AttemptsInv, NumbersCurrent
    <2>3. QED
      BY <1>1, <2>1, <2>2, RetryAttempts
  <1>10. QED
    BY <1>2, <1>5, <1>6, <1>7, <1>8, <1>9, BackendSteps

\* What the loops carry stays current.
LEMMA NumbersStay ==
  ASSUME LoopsInv, NumbersCurrent, SameAttempts, [ServerNext]_serverVars
  PROVE  NumbersCurrent'
  <1> USE DEF NumbersCurrent
  <1>1. /\ LoopsTyped /\ OnItsWay /\ PoolInv /\ PoolTypeOK
        /\ DOMAIN readyPage \subseteq Executions /\ DOMAIN progress \subseteq Executions
        /\ eventRetry \subseteq Executions /\ lateRetry \subseteq Executions
        /\ orphanRetry \subseteq Executions
    BY DEF LoopsInv, LoopsTyped, ServerTypeOK
  <1>2. /\ \A x \in DOMAIN readyPage \cup eventRetry : execStatus[x] # "absent"
        /\ \A x \in Executions : Held(x) \/ Reported(x) => execStatus[x] # "absent"
        /\ \A x \in DOMAIN progress \cup lateRetry \cup orphanRetry : execStatus[x] # "absent"
    BY DEF LoopsInv, OnItsWay, NamesKnown, Known, EventsHeld, TimeoutsKnow, Began
  \* The carried numbers are of the execution's job before and after the step.
  <1>3. /\ \A x \in DOMAIN readyPage : execStatus'[x] \in Active => readyPage[x] = AttemptNumber(x)'
        /\ \A x \in DOMAIN progress : execStatus'[x] \in Active => progress[x] = AttemptNumber(x)'
        /\ \A x \in Executions : execStatus'[x] \in Active /\ (Held(x) \/ Reported(x)) =>
             attempt[x] = AttemptNumber(x)'
        /\ \A x \in eventRetry \cup lateRetry \cup orphanRetry :
             execStatus'[x] \in Active => AttemptNumber(x)' <= Retries[execJob'[x]]
    BY <1>1, <1>2 DEF SameAttempts
  <1>4. \A x \in DOMAIN readyPage' : execStatus'[x] \in Active => readyPage'[x] = AttemptNumber(x)'
    <2>1. CASE UNCHANGED readyVars \/ ReadyStart \/ ReadyStamp
      BY <1>3, <2>1 DEF readyVars, ReadyStart, ReadyStamp
    <2>2. CASE ReadyQuery
      <3>1. PICK xs \in SUBSET Ready : readyPage' = [x \in xs |-> AttemptNumber(x)]
        BY <2>2 DEF ReadyQuery
      <3>2. \A x \in xs : AttemptNumber(x)' = AttemptNumber(x)
        BY <2>2, <3>1 DEF ReadyQuery, backendVars, execVars, AttemptNumber, ExecsOf
      <3>3. QED
        BY <3>1, <3>2
    <2>3. CASE ReadyOffer \/ Crash
      BY <2>3 DEF ReadyOffer, Crash, EmptyMap
    <2>4. QED
      BY <2>1, <2>2, <2>3, OwnVariables DEF ReadyLoop
  <1>5. \A x \in DOMAIN progress' : execStatus'[x] \in Active => progress'[x] = AttemptNumber(x)'
    <2>1. CASE UNCHANGED timeoutVars \/ TimeoutsFail \/ TimeoutsRetry \/ TimeoutsCancel
               \/ OrphansFail \/ OrphansRetry
      BY <1>3, <2>1 DEF timeoutVars, TimeoutsFail, TimeoutsRetry, TimeoutsCancel, OrphansFail,
                        OrphansRetry
    <2>2. CASE TimeoutsRead
      <3>1. \A x : AttemptNumber(x)' = AttemptNumber(x)
        BY <2>2 DEF TimeoutsRead, backendVars, execVars, AttemptNumber, ExecsOf
      <3>2. QED
        BY <2>2, <3>1 DEF TimeoutsRead
    <2>3. CASE TimeoutsCheck \/ Crash
      BY <2>3 DEF TimeoutsCheck, Crash, EmptyMap
    <2>4. QED
      BY <2>1, <2>2, <2>3, OwnVariables DEF TimeoutsLoop
  <1>6. \A x \in Executions : execStatus'[x] \in Active /\ (Held(x)' \/ Reported(x)') =>
          attempt'[x] = AttemptNumber(x)'
    <2>1. CASE ReadyOffer
      <3>1. PICK to \in Assignments(DOMAIN readyPage \ Taken) :
              /\ Offer(to)
              /\ attempt' = [x \in Executions |-> IF x \in DOMAIN to THEN readyPage[x] ELSE attempt[x]]
        BY <2>1 DEF ReadyOffer
      <3>2. DOMAIN to \subseteq DOMAIN readyPage
        BY <3>1 DEF Assignments
      <3>3. \A x \in Executions : Held(x)' \/ Reported(x)' => x \in DOMAIN to \/ Held(x) \/ Reported(x)
        BY <1>1, <3>1 DEF Offer, Held, Reported
      <3>4. QED
        BY <1>3, <3>1, <3>2, <3>3
    <2>2. UNCHANGED attempt \/ ReadyOffer
      BY OwnVariables DEF readyVars, ReadyLoop, ReadyStart, ReadyStamp, ReadyQuery, Crash
    <2>3. ASSUME \A x \in Executions : Held(x)' \/ Reported(x)' => Held(x) \/ Reported(x), ~ReadyOffer
          PROVE  \A x \in Executions : execStatus'[x] \in Active /\ (Held(x)' \/ Reported(x)') =>
                   attempt'[x] = AttemptNumber(x)'
      BY <1>3, <2>2, <2>3
    <2>4. CASE Quiet \/ Fetches \/ StartsReceive \/ StartsCommit \/ StartsMark
      <3>1. UNCHANGED <<held, events>>
        BY <2>4 DEF Quiet, Fetches, StartsReceive, TakeStarts, StartsCommit, StartsMark, MarkStarted,
                    poolVars, executorVars
      <3>2. \A x : Held(x)' \/ Reported(x)' => Held(x) \/ Reported(x)
        BY <3>1 DEF Held, Reported
      <3>3. QED
        BY <2>1, <2>3, <3>2
    <2>5. CASE EventsReceive
      <3>1. UNCHANGED held
        BY <2>5 DEF EventsReceive, TakeEvents, executorVars
      <3>2. \A x : Held(x)' \/ Reported(x)' => Held(x) \/ Reported(x)
        BY <1>1, <2>5, <3>1, ResultsReceived DEF Held
      <3>3. QED
        BY <2>1, <2>3, <3>2
    <2>6. CASE Takes
      <3>1. \A x \in Executions : Held(x)' => Held(x)
        BY <2>6 DEF Takes, Held
      <3>2. \A x \in Executions : Reported(x)' => Reported(x) \/ Held(x)
        BY <2>6 DEF Takes, Held
      <3>3. QED
        BY <2>1, <2>3, <3>1, <3>2
    <2>7. ASSUME NEW e \in Executors, NEW y \in Executions, AcceptOffer(e, y)
          PROVE  \A x \in Executions : execStatus'[x] \in Active /\ (Held(x)' \/ Reported(x)') =>
                   attempt'[x] = AttemptNumber(x)'
      <3>1. \A x \in Executions : Held(x)' \/ Reported(x)' => Held(x) \/ Reported(x)
        BY <1>1, <2>7 DEF AcceptOffer, Held, Reported, PoolTypeOK
      <3>2. QED
        BY <2>1, <2>3, <3>1
    <2>8. ASSUME NEW xs \in SUBSET Executions, Cancels(xs)
          PROVE  \A x \in Executions : execStatus'[x] \in Active /\ (Held(x)' \/ Reported(x)') =>
                   attempt'[x] = AttemptNumber(x)'
      <3>1. \A x \in Executions : Held(x)' \/ Reported(x)' => Held(x) \/ Reported(x)
        BY <2>8 DEF Cancels, CancelIds, Held, Reported
      <3>2. QED
        BY <2>1, <2>3, <3>1
    <2>9. CASE Crash
      BY <2>9 DEF Crash, Held, Reported
    <2>10. QED
      BY <1>1, <2>1, <2>4, <2>5, <2>6, <2>7, <2>8, <2>9, StepKinds DEF LoopsInv
  <1>7. \A x \in eventRetry' : execStatus'[x] \in Active => AttemptNumber(x)' <= Retries[execJob'[x]]
    <2>1. CASE UNCHANGED eventVars \/ EventsWait \/ EventsSucceed \/ EventsFail \/ EventsRetry \/ Crash
      BY <1>3, <2>1 DEF eventVars, EventsWait, EventsSucceed, EventsFail, EventsRetry, Crash
    <2>2. CASE EventsReceive
      <3>1. \A x \in eventRetry' :
               x \in Executions /\ Reported(x) /\ attempt[x] <= Retries[execJob[x]]
        BY <1>1, <2>2, ResultsReceived DEF EventsHeld
      <3>2. execJob' = execJob
        BY <2>2 DEF EventsReceive, backendVars, execVars
      <3>3. QED
        BY <1>3, <3>1, <3>2
    <2>3. QED
      BY <2>1, <2>2, OwnVariables DEF EventsLoop
  <1>8. \A x \in lateRetry' \cup orphanRetry' :
          execStatus'[x] \in Active => AttemptNumber(x)' <= Retries[execJob'[x]]
    <2>1. CASE UNCHANGED timeoutVars \/ TimeoutsRead \/ TimeoutsFail \/ TimeoutsRetry \/ TimeoutsCancel
               \/ OrphansFail \/ OrphansRetry \/ Crash
      BY <1>3, <2>1 DEF timeoutVars, TimeoutsRead, TimeoutsFail, TimeoutsRetry, TimeoutsCancel,
                        OrphansFail, OrphansRetry, Crash
    <2>2. CASE TimeoutsCheck
      <3>1. \A x \in lateRetry' \cup orphanRetry' :
               x \in DOMAIN progress /\ progress[x] <= Retries[execJob[x]]
        BY <2>2 DEF TimeoutsCheck, Retried, Orphans
      <3>2. execJob' = execJob
        BY <2>2 DEF TimeoutsCheck, backendVars, execVars
      <3>3. QED
        BY <1>3, <3>1, <3>2
    <2>3. QED
      BY <2>1, <2>2, OwnVariables DEF TimeoutsLoop
  <1>9. QED
    BY <1>4, <1>5, <1>6, <1>7, <1>8

\* While no two executions of a job are active, a job gets at most retries + 1 of
\* them, whichever loops retry it and however late they learn of a failure; and the
\* loops' state has its types, and waits only for what is on its way.
THEOREM AttemptsCorrect ==
  ServerSpec /\ []AtMostOneActive => []ServerInv
  <1>1. ServerInit => LoopsInv /\ AttemptsInv
    <2>1. ASSUME ServerInit PROVE AttemptsInv
      <3>1. JobsRecorded /\ \A j \in Jobs : ExecsOf(j) = {}
        BY <2>1, NoneAssumption DEF ServerInit, BackendInit, JobsRecorded, ExecsOf
      <3>2. AttemptsBounded
        <4>1. \A j \in Jobs : Cardinality({}) <= Retries[j] + 1
          BY FS_EmptySet, RetriesAssumption
        <4>2. QED
          BY <3>1, <4>1 DEF AttemptsBounded
      <3>3. NumbersCurrent
        BY <2>1 DEF ServerInit, BackendInit, LoopsInit, EmptyMap, NumbersCurrent, Active
      <3>4. QED
        BY <3>1, <3>2, <3>3 DEF AttemptsInv
    <2>2. QED
      BY <2>1, LoopsInvInit
  <1>2. LoopsInv /\ AttemptsInv /\ AtMostOneActive' /\ [ServerNext]_serverVars =>
          (LoopsInv /\ AttemptsInv)'
    BY LoopsInvKept, StoredAttempts, NumbersStay DEF AttemptsInv
  <1>3. ServerSpec /\ []AtMostOneActive => []AttemptsBounded
    <2>1. AttemptsInv => AttemptsBounded
      BY DEF AttemptsInv
    <2>2. QED
      BY <1>1, <1>2, <2>1, PTL DEF ServerSpec
  <1>4. QED
    BY <1>3, ServerTypes, WaitsAreForStarts, PTL DEF ServerInv
=============================================================================
