----------------------------- MODULE MCDelivery -----------------------------
(***************************************************************************)
(* A critical path and another.  A file has two parts that lie further     *)
(* apart than the context of a hunk: the first may be changed, in two ways *)
(* that differ in blanks only, and the second be advanced by others.  The  *)
(* reviews approved that a file is moved to the critical path and its      *)
(* first part changed; the same while the origin could not be looked up;   *)
(* and the critical file as a new one.  A gate reads no outcome, so a run  *)
(* needs only one.                                                         *)
(***************************************************************************)
EXTENDS Delivery, TLC

Gone == <<0, 0>>
MCBlobs == {Gone} \cup ({1, 2, 3} \X {1, 2})
NoBlanks(part) == IF part = 3 THEN 2 ELSE part
MCHunks(a, b) ==
  {<<NoBlanks(a[i]), NoBlanks(b[i])>> : i \in {j \in 1..2 : a[j] # b[j]}}

(* Similar enough to have moved: the second part is the same.              *)
MCRenames(a, b) ==
  {r \in Paths \X Paths :
     /\ a[r[1]] # Gone /\ b[r[1]] = Gone
     /\ a[r[2]] = Gone /\ b[r[2]] # Gone
     /\ a[r[1]][2] = b[r[2]][2]}

Tree(auth, doc) == [p \in Paths |-> IF p = "auth" THEN auth ELSE doc]
MCEmptyTree == Tree(Gone, Gone)
Old == Tree(Gone, <<1, 1>>)

Approved(repo, base, tree) ==
  [cand |-> [repo |-> repo, base |-> base, tree |-> tree], tier |-> 4, outcome |-> "approved"]
Approvals == {Approved("origin", Old, Tree(<<2, 1>>, Gone)),
              Approved("clone", Old, Tree(<<2, 1>>, Gone)),
              Approved("origin", MCEmptyTree, Tree(<<2, 1>>, Gone))}

MCCopies == {[name |-> "clone", origin |-> "origin", head |-> Old, index |-> Old]}

(* The reviewed tree, the other's advance, the reviewed change on top.     *)
MCStaged == {Tree(<<2, 1>>, Gone), Tree(Gone, <<1, 2>>), Tree(<<3, 2>>, Gone)}
=============================================================================
