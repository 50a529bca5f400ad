------------------------------ MODULE MCGuardian ------------------------------
(* The worktrees, the runs of `learn' and the findings are interchangeable. *)
EXTENDS Guardian, TLC

Symmetry == Permutations(Worktrees) \cup Permutations(Learners) \cup Permutations(Findings)
==============================================================================
