------------------------------ MODULE Lifecycle ------------------------------
(***************************************************************************)
(* The twelve-state review lifecycle of internal/rdd/lifecycle.go: a pure  *)
(* transition table.  Everything not in the table is refused, and the      *)
(* three terminal states have no way out.                                  *)
(***************************************************************************)
EXTENDS Naturals

LifecycleStates ==
  {"unreviewed", "reviewing", "findings_frozen", "evidence_classified",
   "fix_required", "fixing", "fix_validating", "ready_final_verification",
   "final_verifying", "approved", "escalated", "invalidated"}

TerminalStates == {"approved", "escalated", "invalidated"}

IsTerminal(s) == s \in TerminalStates

(***************************************************************************)
(* The rows of validTransitions without the entry every non-terminal row   *)
(* shares, which leads to invalidated.                                     *)
(***************************************************************************)
ForwardTransitions ==
  {<<"unreviewed", "reviewing">>,
   <<"reviewing", "findings_frozen">>,
   <<"findings_frozen", "evidence_classified">>,
   <<"evidence_classified", "fix_required">>,
   <<"evidence_classified", "ready_final_verification">>,
   <<"fix_required", "fixing">>,
   <<"fixing", "fix_validating">>,
   <<"fix_validating", "ready_final_verification">>,
   <<"fix_validating", "escalated">>,
   <<"ready_final_verification", "final_verifying">>,
   <<"final_verifying", "approved">>,
   <<"final_verifying", "escalated">>}

ValidateTransition(from, to) ==
  \/ <<from, to>> \in ForwardTransitions
  \/ from \in LifecycleStates \ TerminalStates /\ to = "invalidated"

(***************************************************************************)
(* How far along the lifecycle a state is.  The table only ever moves to a *)
(* higher rank, so the record of a review is rewritten a bounded number of *)
(* times and the fix lane is entered at most once.                         *)
(***************************************************************************)
Rank(s) ==
  CASE s = "unreviewed" -> 0
    [] s = "reviewing" -> 1
    [] s = "findings_frozen" -> 2
    [] s = "evidence_classified" -> 3
    [] s = "fix_required" -> 4
    [] s = "fixing" -> 5
    [] s = "fix_validating" -> 6
    [] s = "ready_final_verification" -> 7
    [] s = "final_verifying" -> 8
    [] OTHER -> 9
==============================================================================
