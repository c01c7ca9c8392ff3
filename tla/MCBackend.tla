----------------------------- MODULE MCBackend -----------------------------
(***************************************************************************)
(* Backend for TLC: symmetric model values for every kind of id.           *)
(***************************************************************************)
EXTENDS Backend, TLC

Symmetry == Permutations(Jobs) \cup Permutations(Executions)
            \cup Permutations(Schedules) \cup Permutations(Executors)
=============================================================================
