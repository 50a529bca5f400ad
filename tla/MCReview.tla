------------------------------ MODULE MCReview ------------------------------
(***************************************************************************)
(* "auth" matches a tier-4 pattern and a tier-1 pattern, "acl" only a      *)
(* tier-1 pattern, "doc" none.  The working copies hold a candidate that   *)
(* changes "auth", another version of it, a candidate that changes both,   *)
(* and one that changes "acl" alone: candidates of two tiers, corrections  *)
(* inside and outside of what the findings name.  One of the worktrees has *)
(* another name than the repository, and is known by it while the origin   *)
(* cannot be looked up.                                                    *)
(***************************************************************************)
EXTENDS Review, TLC

MCBlobs == {0, 1, 2}
MCHunks(a, b) == <<a, b>>
MCRenames(a, b) == {}
MCEmptyTree == [p \in Paths |-> 0]

Copy(name, touched, blob) ==
  [name |-> name, origin |-> "origin", head |-> MCEmptyTree,
   index |-> [p \in Paths |-> IF p \in touched THEN blob ELSE 0]]

MCCopies == {Copy("clone", {"auth"}, 1), Copy("origin", {"auth"}, 2),
             Copy("origin", {"auth", "acl"}, 1), Copy("origin", {"acl"}, 1)}

MCFindingSets == {{}, {"auth"}}

Symmetry == Permutations(Procs)
=============================================================================
