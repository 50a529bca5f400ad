------------------------------ MODULE Candidate ------------------------------
(***************************************************************************)
(* What is reviewed and how one candidate is compared with another: the    *)
(* pure core of internal/rdd and internal/rddgate, and the git facts       *)
(* internal/reviewstore feeds it.                                          *)
(*                                                                         *)
(* A tree maps every path to its content (and mode).  Hashes are taken to  *)
(* be collision free, so a tree hash is the tree, and a subject hash is    *)
(* the identity it digests.  Two fields of CandidateIdentity are left out: *)
(* ChangedPathsModesDigest is a function of the two trees, and PolicyHash  *)
(* is always empty.                                                        *)
(***************************************************************************)
EXTENDS Naturals

CONSTANTS Paths,      \* paths of the repository
          Blobs,      \* contents a path can have, absent included
          EmptyTree,  \* git's empty tree
          Hunks(_, _),   \* the hunks of git diff from one content to another,
                         \* without blanks and line numbers
          Renames(_, _), \* the moves git diff detects between two trees
          Critical,   \* paths a tier-4 pattern matches
          Elevated,   \* paths a tier-1 pattern matches
          Lenses,     \* the canonical lenses
          LensRisk,   \* the one a tier-1 review mandates
          Names,      \* repository ids: origin URLs and directory names
          NoOrigin    \* no origin remote is configured

Trees == [Paths -> Blobs]
Identities == [repo : Names, base : Trees, tree : Trees]
Tiers == {0, 1, 4}

ChangedPaths(a, b) == {p \in Paths : a[p] # b[p]}

ASSUME TreesAssumption == EmptyTree \in Trees
ASSUME RenamesAssumption ==
  \A a, b \in Trees : Renames(a, b) \subseteq ChangedPaths(a, b) \X ChangedPaths(a, b)
ASSUME LensesAssumption == LensRisk \in Lenses
ASSUME NamesAssumption == NoOrigin \notin Names

(***************************************************************************)
(* A working copy: its directory name and origin, the tree of HEAD and the *)
(* tree of the index.  The file content outside the index plays no part.   *)
(***************************************************************************)
WorkingCopies ==
  [name : Names, origin : Names \cup {NoOrigin}, head : Trees, index : Trees]

(* The calls whose failure capiko takes for an answer: without a remote    *)
(* origin the directory names the repository, without a parent the commit  *)
(* is compared with the empty tree, whatever git has failed for.           *)
Lookups == {"origin", "parent"}

RepositoryID(w, failed) ==
  IF w.origin = NoOrigin \/ "origin" \in failed THEN w.name ELSE w.origin

BuildIdentity(w, failed) ==
  [repo |-> RepositoryID(w, failed), base |-> w.head, tree |-> w.index]

(* What a bug would make of the next definition. *)
MutBuildIdentityFromCommit(w, c, failed) ==
  [repo |-> RepositoryID(w, failed), base |-> w.head, tree |-> c.tree]

(* A commit is its tree and the tree of its first parent, if it has one. *)
BuildIdentityFromCommit(w, c, failed) ==
  [repo |-> RepositoryID(w, failed),
   base |-> IF "parent" \in failed THEN EmptyTree ELSE c.parent,
   tree |-> c.tree]

Classify(changed) ==
  IF changed \cap Critical # {} THEN 4
  ELSE IF changed \cap Elevated # {} THEN 1
  ELSE 0

(* An unknown tier mandates every lens. *)
SelectLenses(tier) ==
  CASE tier = 0 -> {}
    [] tier = 1 -> {LensRisk}
    [] OTHER -> Lenses

PathScopeCheck(touched, allowed) == touched \subseteq allowed

(* The files of git diff a b, as the path before and the path after.       *)
Moved(a, b) == {r[1] : r \in Renames(a, b)} \cup {r[2] : r \in Renames(a, b)}
Files(a, b) == {<<p, p>> : p \in ChangedPaths(a, b) \ Moved(a, b)} \cup Renames(a, b)

(***************************************************************************)
(* git diff a b | git patch-id --stable: the empty string when the trees   *)
(* are equal, otherwise a digest of the paths (and modes) of every file    *)
(* and of its hunks.  Where in a file a hunk is, and the text around it,   *)
(* plays no part, and nothing but the paths of a file that only moved.     *)
(***************************************************************************)
PatchId(a, b) == {<<f, Hunks(a[f[1]], b[f[2]])>> : f \in Files(a, b)}

(* A side whose git command fails is left empty. *)
GateEvidence(a, b, failed) ==
  [a |-> IF "a" \in failed THEN {} ELSE PatchId(a.base, a.tree),
   b |-> IF "b" \in failed THEN {} ELSE PatchId(b.base, b.tree)]

(* The gate's evidence always carries a merge base, so the branch for      *)
(* missing evidence is not reached from here.                              *)
Compare(a, b, evidence) ==
  CASE a.repo # b.repo -> "unrelated"
    [] a = b -> "exact"
    [] a.repo = b.repo /\ a # b ->
         CASE evidence.a = {} /\ evidence.b = {} -> "unknown"
           [] evidence.a # {} /\ evidence.a = evidence.b -> "compatible_base_advance"
           [] evidence.a # {} /\ evidence.b = {} -> "provable_contraction"
           [] evidence.a = {} /\ evidence.b # {} -> "ambiguous"
           [] OTHER -> "changed"

(* What a bug would make of the next definition. *)
MutAcceptedRelations == {"exact", "compatible_base_advance", "provable_contraction"}

AcceptedRelations == {"exact", "compatible_base_advance"}

(* Both gates have the same policy. *)
Admits(reviewed, current, failed) ==
  Compare(reviewed, current, GateEvidence(reviewed, current, failed))
    \in AcceptedRelations
==============================================================================
