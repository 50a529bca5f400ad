---------------------------- MODULE ReviewPromise ----------------------------
(***************************************************************************)
(* What the review verbs promise together: one review, taken through its   *)
(* lifecycle by one step at a time, whoever takes it, and one receipt that *)
(* says how it ended.  There are no processes, versions or crashes here;   *)
(* Review.tla has them, and implements this.                               *)
(***************************************************************************)
EXTENDS ReviewRecord

VARIABLES review,  \* the review, as a record whose version is left at 0
          receipt  \* the receipt, or None

vars == <<review, receipt>>

Init ==
  /\ review = None \/ (review \in Records /\ review.state = "unreviewed")
  /\ receipt = None

(* A review begins once, for a candidate whose tier and lenses follow from *)
(* the paths it changes.                                                   *)
Begin ==
  /\ State(review) = "unreviewed"
  /\ \E id \in Identities : review' = Started(id, 0)
  /\ UNCHANGED receipt

(* One mandated lens hands in its findings, once.                          *)
Capture ==
  /\ State(review) = "reviewing"
  /\ \E l \in Missing(review), found \in SUBSET Paths :
       review' = Captured(review, l, found)
  /\ UNCHANGED receipt

(* The frozen findings decide, and nothing else does, where a step leads.  *)
Proceed ==
  /\ review # None
  /\ \E next \in LifecycleStates :
       /\ <<review.state, next>> \in ForwardTransitions
       /\ review.state \notin {"unreviewed", "reviewing", "fix_required"}
       /\ next # "escalated"
       /\ review.state = "evidence_classified" =>
            (next = "fix_required" <=> RequiresFix(review))
       /\ review' = [review EXCEPT !.state = next]
  /\ UNCHANGED receipt

(* One correction is tried; out of the findings' scope, it ends the review. *)
Correct ==
  /\ State(review) = "fix_required"
  /\ ~ review.consumed
  /\ \E id \in Identities :
       review' = [Corrected(review, id) EXCEPT
                    !.state = IF InScope(review, id) THEN "fixing" ELSE "invalidated"]
  /\ UNCHANGED receipt

Issue ==
  /\ receipt = None
  /\ IsTerminal(State(review))
  /\ receipt' = ReceiptOf(review)
  /\ UNCHANGED review

Next == Begin \/ Capture \/ Proceed \/ Correct \/ Issue

Spec == Init /\ [][Next]_vars
==============================================================================
