------------------------------ MODULE MCSettings ------------------------------
(* Settings on small sets: the repositories are interchangeable.           *)
EXTENDS Settings, TLC

RepoSymmetry == Permutations(Repos)
================================================================================
