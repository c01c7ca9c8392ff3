------------------------------ MODULE WaitGroup ------------------------------
(***************************************************************************)
(* The wait group that stops the server and the executors: guards that are *)
(* added and dropped by tasks on any thread, and the future (all_done) or  *)
(* the stream (all_done_stream) that waits for the last of them.           *)
(*                                                                         *)
(* The mutex around the guards is taken and released in steps of its own.  *)
(* AtomicWaker and CancellationToken are linearizable and not modelled     *)
(* further: registering and waking are one step each.                      *)
(***************************************************************************)
EXTENDS Naturals, FiniteSets

CONSTANT Guards  \* the guards that may be added

ASSUME WaitGroupAssumption == IsFiniteSet(Guards)

VARIABLES
  guard,     \* of a guard: new, held, removed (id taken out, waker not woken), gone
  ids,       \* WgInner.guards
  locked,    \* is the mutex held by the waiter?
  waiter,    \* outside, idle, polling, checked, pending, done
  waker,     \* is the waiter's waker registered?
  woken,     \* is the waiter's task scheduled?
  waiting,   \* the cancellation token
  stream,    \* is the group awaited with all_done_stream?
  lastCount, \* AllDone.last_count
  late       \* guards added through a handle after the waiter was done

vars == <<guard, ids, locked, waiter, waker, woken, waiting, stream, lastCount, late>>

Held == {g \in Guards : guard[g] = "held"}

\* The types, and: the guards that are counted are those somebody holds.
WaitGroupTypeOK ==
  /\ ids = Held
  /\ guard \in [Guards -> {"new", "held", "removed", "gone"}]
  /\ locked \in BOOLEAN
  /\ waiter \in {"outside", "polling", "checked", "pending", "done"}
  /\ waker \in BOOLEAN /\ woken \in BOOLEAN /\ waiting \in BOOLEAN
  /\ stream \in BOOLEAN
  /\ lastCount \in Nat
  /\ late \in SUBSET Guards

Init ==
  /\ guard = [g \in Guards |-> "new"]
  /\ ids = {} /\ locked = FALSE
  /\ waiter = "outside" /\ waker = FALSE /\ woken = FALSE
  /\ waiting = FALSE /\ stream = FALSE /\ lastCount = 0
  /\ late = {}


-----------------------------------------------------------------------------
(* Guards *)

\* Mutant: the new guard is not counted.
Insert_uncounted(g) ==
  /\ guard[g] = "new" /\ ~locked
  /\ guard' = [guard EXCEPT ![g] = "held"]
  /\ UNCHANGED <<ids, locked, waiter, waker, woken, waiting, stream, lastCount>>

\* WgInner::add
Insert(g) ==
  /\ guard[g] = "new" /\ ~locked
  /\ guard' = [guard EXCEPT ![g] = "held"]
  /\ ids' = ids \cup {g}
  /\ UNCHANGED <<locked, waiter, waker, woken, waiting, stream, lastCount>>

\* WaitGroup::add, WaitGroupHandle::add: at any time.
AddByHandle(g) ==
  /\ Insert(g)
  /\ late' = IF waiter = "done" THEN late \cup {g} ELSE late

\* WaitGuard::add: a task that has a guard gives one to another task.
AddByGuard(g) ==
  /\ \E h \in Held : late' = IF h \in late THEN late \cup {g} ELSE late
  /\ Insert(g)

\* WaitGuard::drop, its body.
RemoveGuard(g) ==
  /\ guard[g] = "held" /\ ~locked
  /\ ids' = ids \ {g}
  /\ guard' = [guard EXCEPT ![g] = "removed"]
  /\ UNCHANGED <<locked, waiter, waker, woken, waiting, stream, lastCount, late>>

\* DropWaker::drop: the guard's field is dropped after the guard's body.
Wake(g) ==
  /\ guard[g] = "removed"
  /\ guard' = [guard EXCEPT ![g] = "gone"]
  /\ waker' = FALSE
  /\ woken' = (woken \/ waker)
  /\ UNCHANGED <<ids, locked, waiter, waiting, stream, lastCount, late>>

-----------------------------------------------------------------------------
(* The waiter *)

\* all_done, all_done_stream: consume the group, whose drop cancels the token.
AllDone ==
  /\ waiter = "outside"
  /\ waiting' = TRUE
  /\ waiter' = "polling"
  /\ stream' \in BOOLEAN
  /\ UNCHANGED <<guard, ids, locked, waker, woken, lastCount, late>>

\* Mutant: the mutex is released before the waker is registered.
Check_unlocked ==
  /\ waiter = "polling"
  /\ waiter' = IF ids = {} THEN "done" ELSE "checked"
  /\ woken' = FALSE
  /\ UNCHANGED <<guard, ids, locked, waker, waiting, stream, lastCount, late>>

\* poll, poll_next: with the mutex held until the waker is registered.
Check ==
  /\ waiter = "polling"
  /\ IF ids = {}
     THEN waiter' = "done" /\ locked' = FALSE
     ELSE waiter' = "checked" /\ locked' = TRUE
  /\ woken' = FALSE
  /\ UNCHANGED <<guard, ids, waker, waiting, stream, lastCount, late>>

\* Mutant: the stream only registers its waker when it returns an item.
Register_itemsOnly ==
  /\ waiter = "checked"
  /\ locked' = FALSE
  /\ IF stream /\ Cardinality(ids) # lastCount
     THEN waiter' = "polling" /\ waker' = TRUE /\ lastCount' = Cardinality(ids)
     ELSE waiter' = "pending" /\ UNCHANGED <<waker, lastCount>>
  /\ UNCHANGED <<guard, ids, woken, waiting, stream, late>>

\* Poll::Pending, or an item of the stream, which is polled again at once.
Register ==
  /\ waiter = "checked"
  /\ waker' = TRUE
  /\ locked' = FALSE
  /\ IF stream /\ Cardinality(ids) # lastCount
     THEN waiter' = "polling" /\ lastCount' = Cardinality(ids)
     ELSE waiter' = "pending" /\ UNCHANGED lastCount
  /\ UNCHANGED <<guard, ids, woken, waiting, stream, late>>

\* The runtime polls the task whose waker was woken.
Repoll ==
  /\ waiter = "pending" /\ woken
  /\ waiter' = "polling"
  /\ UNCHANGED <<guard, ids, locked, waker, woken, waiting, stream, lastCount, late>>

Waiter == AllDone \/ Check \/ Register \/ Repoll

Next ==
  \/ Waiter
  \/ \E g \in Guards : AddByHandle(g) \/ AddByGuard(g) \/ RemoveGuard(g) \/ Wake(g)

Spec == Init /\ [][Next]_vars

\* The runtime polls tasks that are woken, and a drop that has begun ends.  A
\* task drops its guard once the group is waiting, as those of the server do.
Fairness ==
  /\ WF_vars(Check) /\ WF_vars(Register) /\ WF_vars(Repoll)
  /\ \A g \in Guards : WF_vars(Wake(g)) /\ WF_vars(waiting /\ RemoveGuard(g))

FairSpec == Spec /\ Fairness

-----------------------------------------------------------------------------
(* Properties *)

\* The waiter never sleeps over the last guard: if no guard is left, one that
\* was dropped is about to wake it, or it is woken already ("otherwise the last
\* guard could be dropped between the check and the registration").
NoLostWakeup ==
  (waiter = "pending" /\ ids = {}) =>
    woken \/ (waker /\ \E g \in Guards : guard[g] = "removed")

\* Once the waiter is done no task is left that had a guard before, nor one that
\* such a task started with a guard of the group.
NobodyLeftBehind == waiter = "done" => Held \subseteq late

\* all_done resolves, and the stream ends, if the tasks end.
WaitEnds == (waiter = "polling") ~> (waiter = "done")
=============================================================================
