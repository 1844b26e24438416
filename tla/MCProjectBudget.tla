-------------------------- MODULE MCProjectBudget --------------------------
(* Instances of ProjectBudget for TLC. *)
EXTENDS ProjectBudget, TLC

\* Workers and projects are interchangeable.
BudgetSymmetry == Permutations(Requests) \cup Permutations(Projects)
=============================================================================
