---------------------------- MODULE ReviewRecord ----------------------------
(***************************************************************************)
(* The review record (ReviewState) and what each verb of cmd/capiko-ai/    *)
(* review.go makes of the one it has read, apart from files and processes. *)
(***************************************************************************)
EXTENDS Candidate, Lifecycle

CONSTANT None  \* no record, no receipt, no result, no attempt

(***************************************************************************)
(* cand is the Candidate and, hashes being collision free, the SubjectHash *)
(* that review start derives from it; attempt is CorrectionAttemptHash.    *)
(* Of a lens result only the paths its findings name are kept.             *)
(***************************************************************************)
Records ==
  [version : Nat, state : LifecycleStates, cand : Identities, tier : Tiers,
   lenses : SUBSET Lenses, results : [Lenses -> {None} \cup SUBSET Paths],
   consumed : BOOLEAN, attempt : Identities \cup {None}]

Receipts == [cand : Identities, tier : Tiers, outcome : TerminalStates]

ASSUME NoneAssumption ==
  /\ None \notin Identities /\ None \notin Records
  /\ \A found \in SUBSET Paths : None # found

Version(r) == IF r = None THEN 0 ELSE r.version

State(r) == IF r = None THEN "unreviewed" ELSE r.state

Committed(r) == [r EXCEPT !.version = @ + 1]

(* What review start saves, before advanceState-style transition checks:   *)
(* nothing of an earlier record is kept but its version.                   *)
Started(id, version) ==
  LET tier == Classify(ChangedPaths(id.base, id.tree))
  IN  [version |-> version, state |-> "reviewing", cand |-> id,
       tier |-> tier, lenses |-> SelectLenses(tier),
       results |-> [l \in Lenses |-> None],
       consumed |-> FALSE, attempt |-> None]

Missing(r) == {l \in r.lenses : r.results[l] = None}

(* Mut...: what a bug would make of the definition that follows.           *)
MutCaptured(r, l, found) ==
  [r EXCEPT !.results[l] = found, !.state = "findings_frozen"]

(* review capture-result: the last mandated lens freezes the findings.     *)
Captured(r, l, found) ==
  [r EXCEPT !.results[l] = found,
            !.state = IF Missing(r) = {l} THEN "findings_frozen" ELSE @]

FindingPaths(r) == UNION {r.results[l] : l \in {m \in Lenses : r.results[m] # None}}

(* finalizeRequiresFix *)
RequiresFix(r) == FindingPaths(r) # {}

(* The paths a correction may touch; without any finding path, those of    *)
(* the candidate itself.                                                   *)
Scope(r) ==
  IF RequiresFix(r) THEN FindingPaths(r)
                    ELSE ChangedPaths(r.cand.base, r.cand.tree)

InScope(r, id) == PathScopeCheck(ChangedPaths(r.cand.tree, id.tree), Scope(r))

(* review correct spends the budget whatever comes of the correction.      *)
Corrected(r, id) == [r EXCEPT !.consumed = TRUE, !.attempt = id]

(* Where advanceState takes a record next: the walk of review finalize     *)
(* from findings_frozen or fix_validating, and of review correct from      *)
(* fix_required.  The production seams always approve.                     *)
NextState(r) ==
  CASE r.state = "findings_frozen" -> "evidence_classified"
    [] r.state = "evidence_classified" ->
         IF RequiresFix(r) THEN "fix_required" ELSE "ready_final_verification"
    [] r.state = "fix_required" ->
         IF InScope(r, r.attempt) THEN "fixing" ELSE "invalidated"
    [] r.state = "fixing" -> "fix_validating"
    [] r.state = "fix_validating" -> "ready_final_verification"
    [] r.state = "ready_final_verification" -> "final_verifying"
    [] r.state = "final_verifying" -> "approved"

MutStops == {"fix_required", "fix_validating", "evidence_classified"}
MutEnds == {"fix_required", "fix_validating", "approved"}

(* Where the two verbs stop and leave the rest to the next call. *)
Stops == {"fix_required", "fix_validating"}

(* writeTerminalReceiptIfNeeded *)
ReceiptOf(r) == [cand |-> r.cand, tier |-> r.tier, outcome |-> r.state]
=============================================================================
