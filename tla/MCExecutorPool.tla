--------------------------- MODULE MCExecutorPool ---------------------------
(***************************************************************************)
(* ExecutorPool for TLC.                                                   *)
(***************************************************************************)
EXTENDS ExecutorPool, TLC

Symmetry == Permutations(Executions) \cup Permutations(Executors)
=============================================================================
