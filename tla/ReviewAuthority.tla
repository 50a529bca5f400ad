--------------------------- MODULE ReviewAuthority ---------------------------
(***************************************************************************)
(* What the authority store of internal/reviewstore promises its callers:  *)
(* an atomic, versioned review record and a receipt that is written once.  *)
(* Nothing is said of locks, temporary files or crashes; ReviewStore.tla   *)
(* is the protocol, and implements this.                                   *)
(***************************************************************************)
EXTENDS Naturals

CONSTANTS States,      \* lifecycle states a record may carry
          Frozen,      \* values of the fields that freeze: tier, lenses, subject hash
          Outcomes,    \* outcomes a receipt may carry
          NoFile       \* the file does not exist

VARIABLES record,  \* review-state.json
          receipt  \* review-receipt.json

vars == <<record, receipt>>

Records ==
  [version : Nat, state : States, frozen : Frozen, consumed : BOOLEAN]

Version(r) == IF r = NoFile THEN 0 ELSE r.version

(***************************************************************************)
(* What one committed record may do to the one it replaces: the correction *)
(* budget is never given back, and once the review has left unreviewed its *)
(* tier, lenses and subject stay as they are.                              *)
(***************************************************************************)
RespectsFreeze(old, new) ==
  old # NoFile =>
    /\ old.consumed => new.consumed
    /\ old.state # "unreviewed" => new.frozen = old.frozen

Init ==
  /\ record = NoFile \/ record \in Records
  /\ receipt = NoFile \/ receipt \in Outcomes

Commit ==
  /\ record' \in Records
  /\ record'.version = Version(record) + 1
  /\ RespectsFreeze(record, record')
  /\ UNCHANGED receipt

IssueReceipt ==
  /\ receipt = NoFile
  /\ receipt' \in Outcomes
  /\ UNCHANGED record

Next == Commit \/ IssueReceipt

Spec == Init /\ [][Next]_vars
==============================================================================
