------------------------------ MODULE MCServer ------------------------------
(***************************************************************************)
(* Server for TLC.                                                         *)
(***************************************************************************)
EXTENDS Server, TLC

NoRetry    == [j \in Jobs |-> 0]
OneRetry   == [j \in Jobs |-> 1]
TwoRetries == [j \in Jobs |-> 2]

Symmetry == Permutations(Jobs) \cup Permutations(Executions) \cup Permutations(Executors)
=============================================================================
