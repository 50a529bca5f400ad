------------------------------ MODULE Delivery ------------------------------
(***************************************************************************)
(* The delivery gates: git commit and git push with the hooks of `review   *)
(* gate install`, which call `review validate`.  A gate reads the kill     *)
(* switch, then the receipt, then compares the candidate that git is about *)
(* to record or send with the one the receipt names.  Reviews end, modes   *)
(* change and hooks come and go while it does.                             *)
(***************************************************************************)
EXTENDS Candidate, Sequences

CONSTANTS None,        \* no receipt
          Receipts,    \* what a review of this repository can end with
          Copies,      \* how the working copy may start
          Staged,      \* trees the user stages
          GlobalMode,  \* the global kill-switch record
          MaxCommits   \* bound on the commits of the branch

Outcomes == {"approved", "invalidated"}
ValidModes == {"managed", "disabled"}
Hooks == {"pre-commit", "pre-push"}
Calls == Lookups \cup {"a", "b"}

(* A tier-0 review mandates no lens and never ends (Review.tla).           *)
ASSUME ReceiptsAssumption ==
  \A r \in Receipts :
    /\ r.cand \in Identities /\ r.outcome \in Outcomes
    /\ r.tier = Classify(ChangedPaths(r.cand.base, r.cand.tree)) /\ r.tier # 0
ASSUME DeliveryNoneAssumption == None \notin Receipts
ASSUME CopiesAssumption == Copies \subseteq WorkingCopies /\ Staged \subseteq Trees
ASSUME MaxCommitsAssumption == MaxCommits \in Nat \ {0}

VARIABLES copy,     \* the working copy: name, origin, HEAD's tree, index
          branch,   \* its commits, oldest first
          vetted,   \* history: the commits a pre-push gate let through, their
                    \* parent known
          receipt,  \* review-receipt.json
          clone,    \* the clone's kill-switch record
          hooks,    \* the hook files that hold the gate's block
          git       \* the git command under way and the gate it runs

vars == <<copy, branch, vetted, receipt, clone, hooks, git>>

(* validate: the gate exists unless the mode resolves to disabled. *)
Disabled == clone = "disabled" \/ (clone = "absent" /\ GlobalMode = "disabled")

Idle == [op |-> "none", refs |-> {}, step |-> "idle", seen |-> None, blind |-> {}]

Init ==
  /\ copy \in Copies
  /\ branch = <<[tree |-> copy.head, parent |-> EmptyTree,
                 gated |-> FALSE, amend |-> FALSE]>>
  /\ vetted = {} /\ receipt = None
  /\ clone = "absent" /\ hooks = {}
  /\ git = Idle
------------------------------------------------------------------------------
(* git add.  git commit releases the index while its hooks run and reads   *)
(* it again afterwards, so what the gate has compared may be overtaken.    *)
Stage ==
  /\ \E t \in Staged : copy' = [copy EXCEPT !.index = t]
  /\ git' = IF git.op \in {"commit", "amend"} /\ git.step = "gated"
              THEN [git EXCEPT !.step = "overtaken"] ELSE git
  /\ UNCHANGED <<branch, vetted, receipt, clone, hooks>>

(* The one receipt of the clone (ReviewStore.tla, Review.tla). *)
ReviewEnds ==
  /\ receipt = None
  /\ receipt' \in Receipts
  /\ UNCHANGED <<copy, branch, vetted, clone, hooks, git>>

ModeSet ==
  /\ clone' \in ValidModes
  /\ UNCHANGED <<copy, branch, vetted, receipt, hooks, git>>

(* Mut...: what a bug would make of the definition that follows.           *)
MutGateInstall ==
  /\ hooks' \in {hooks \cup {"pre_commit"}, hooks \cup {"pre_commit", "pre-push"}}
  /\ UNCHANGED <<copy, branch, vetted, receipt, clone, git>>

(* review gate install writes one hook file, then the other; it may fail   *)
(* between the two.  So does review gate uninstall.                        *)
GateInstall ==
  /\ hooks' \in {hooks \cup {"pre-commit"}, hooks \cup Hooks}
  /\ UNCHANGED <<copy, branch, vetted, receipt, clone, git>>

GateUninstall ==
  /\ hooks' \in {hooks \ {"pre-commit"}, hooks \ Hooks}
  /\ UNCHANGED <<copy, branch, vetted, receipt, clone, git>>

(* git starts, and runs the hook it finds. *)
GitStarts(op, hook, refs) ==
  /\ git.op = "none"
  /\ git' = [op |-> op, refs |-> refs, seen |-> None, blind |-> {},
             step |-> IF hook \in hooks THEN "mode" ELSE "open"]
  /\ UNCHANGED <<copy, branch, vetted, receipt, clone, hooks>>

CommitStarts == Len(branch) < MaxCommits /\ GitStarts("commit", "pre-commit", {})

AmendStarts == GitStarts("amend", "pre-commit", {})

(* A push names local commits; one that only deletes refs names none. *)
PushStarts ==
  \E refs \in SUBSET (1..Len(branch)) : GitStarts("push", "pre-push", refs)

(* reviewValidate: the kill switch, then the receipt. *)
GateMode ==
  /\ git.step = "mode"
  /\ git' = [git EXCEPT !.step = IF Disabled THEN "open" ELSE "receipt"]
  /\ UNCHANGED <<copy, branch, vetted, receipt, clone, hooks>>

GateReceipt ==
  /\ git.step = "receipt"
  /\ git' = IF receipt = None THEN Idle
            ELSE [git EXCEPT !.step = "compare", !.seen = receipt]
  /\ UNCHANGED <<copy, branch, vetted, receipt, clone, hooks>>

(* What the gate compares with the receipt: the index, or every pushed tip. *)
Targets == IF git.op = "push" THEN git.refs ELSE {0}
Target(t, failed) ==
  IF git.op = "push" THEN BuildIdentityFromCommit(copy, branch[t], failed)
                     ELSE BuildIdentity(copy, failed)

(* One admitted ref is enough. *)
MutGateCompare ==
  /\ git.step = "compare"
  /\ \E failed \in [Targets -> SUBSET Calls] :
       git' = IF \E t \in Targets : Admits(git.seen.cand, Target(t, failed[t]), failed[t])
                THEN [git EXCEPT !.step = "gated",
                                 !.blind = {i \in git.refs : "parent" \in failed[i]}]
                ELSE Idle
  /\ UNCHANGED <<copy, branch, vetted, receipt, clone, hooks>>

(* Calls of git whose failure does not end the gate may fail for each of   *)
(* them: a lookup, a digest of either side.                                *)
GateCompare ==
  /\ git.step = "compare"
  /\ \E failed \in [Targets -> SUBSET Calls] :
       git' = IF \A t \in Targets : Admits(git.seen.cand, Target(t, failed[t]), failed[t])
                THEN [git EXCEPT !.step = "gated",
                                 !.blind = {i \in git.refs : "parent" \in failed[i]}]
                ELSE Idle
  /\ UNCHANGED <<copy, branch, vetted, receipt, clone, hooks>>

(* The user interrupts git, or a git command of the gate fails. *)
GitFails ==
  /\ git # Idle
  /\ git' = Idle
  /\ UNCHANGED <<copy, branch, vetted, receipt, clone, hooks>>

(* git goes through with it. *)
Passed == git.step \in {"open", "gated", "overtaken"}

Commits ==
  /\ git.op = "commit" /\ Passed
  /\ branch' = Append(branch, [tree |-> copy.index, parent |-> copy.head,
                               gated |-> git.step = "gated", amend |-> FALSE])
  /\ copy' = [copy EXCEPT !.head = copy.index]
  /\ git' = Idle
  /\ UNCHANGED <<vetted, receipt, clone, hooks>>

(* git commit --amend replaces the last commit and keeps its parent. *)
Amends ==
  /\ git.op = "amend" /\ Passed
  /\ branch' = [branch EXCEPT ![Len(branch)] =
                  [tree |-> copy.index, parent |-> @.parent,
                   gated |-> git.step = "gated", amend |-> TRUE]]
  /\ copy' = [copy EXCEPT !.head = copy.index]
  /\ git' = Idle
  /\ UNCHANGED <<vetted, receipt, clone, hooks>>

Pushes ==
  /\ git.op = "push" /\ Passed
  /\ vetted' = vetted \cup (IF git.step = "gated"
                            THEN {branch[i] : i \in git.refs \ git.blind} ELSE {})
  /\ git' = Idle
  /\ UNCHANGED <<copy, branch, receipt, clone, hooks>>

User == Stage \/ CommitStarts \/ AmendStarts \/ PushStarts
Capiko == ReviewEnds \/ ModeSet \/ GateInstall \/ GateUninstall
Gate == GateMode \/ GateReceipt \/ GateCompare
Git == Commits \/ Amends \/ Pushes \/ GitFails

Next == User \/ Capiko \/ Gate \/ Git

Spec == Init /\ [][Next]_vars
------------------------------------------------------------------------------
CommitRecords == [tree : Trees, parent : Trees, gated : BOOLEAN, amend : BOOLEAN]

(* A git command over a branch of n commits; blind are the tips that the   *)
(* gate has compared without finding their parent.                         *)
GitCommands(n) ==
  [op : {"none", "commit", "amend", "push"}, refs : SUBSET (1..n),
   blind : SUBSET (1..n), seen : {None} \cup Receipts,
   step : {"idle", "mode", "receipt", "compare", "open", "gated", "overtaken"}]

TypeOK ==
  /\ copy \in WorkingCopies
  /\ branch \in Seq(CommitRecords) /\ Len(branch) \in 1..MaxCommits
  /\ vetted \subseteq CommitRecords
  /\ receipt \in {None} \cup Receipts
  /\ clone \in ValidModes \cup {"absent"}
  /\ hooks \subseteq Hooks
  /\ git \in GitCommands(Len(branch))

Branch == {branch[i] : i \in 1..Len(branch)}

(* Two candidates ask for the same change: git diff shows the same files,  *)
(* each with the same hunks.                                               *)
SameChange(a, b) ==
  /\ Files(a.base, a.tree) = Files(b.base, b.tree)
  /\ \A f \in Files(a.base, a.tree) :
       Hunks(a.base[f[1]], a.tree[f[2]]) = Hunks(b.base[f[1]], b.tree[f[2]])

(* What a lookup of the origin may make of the repository.                 *)
KnownAs(w) == {RepositoryID(w, failed) : failed \in SUBSET {"origin"}}

(* A gate admits this candidate whenever it names the repository as the    *)
(* receipt does.                                                           *)
Reviewed(id) ==
  /\ receipt # None /\ receipt.cand.repo \in KnownAs(copy)
  /\ Admits(receipt.cand, [id EXCEPT !.repo = receipt.cand.repo], {})

(* A commit that the gate admitted and that is the candidate it saw.       *)
Vouched(c) == c.gated /\ ~ c.amend

(* Why the two properties below hold.  A gate past its receipt works with  *)
(* the one on disk, which is never replaced; what it admitted would be     *)
(* admitted if no git command failed, a parent not found apart, and is     *)
(* still what git is about to record or send.                              *)
GateInv ==
  /\ git.op = "none" => git.step = "idle"
  /\ git.op = "commit" => Len(branch) < MaxCommits
  /\ git.seen # None => git.seen = receipt
  /\ git.step \in {"compare", "gated", "overtaken"} => git.seen # None
  /\ git.step = "gated" => \A t \in Targets \ git.blind : Reviewed(Target(t, {}))

HistoryInv ==
  \A c \in {d \in Branch : Vouched(d)} \cup vetted :
    Reviewed(BuildIdentityFromCommit(copy, c, {}))

IInv == TypeOK /\ GateInv /\ HistoryInv

(* What a working gate let through is the reviewed change: every commit it *)
(* admitted and every tip it let be pushed shows the same files with the   *)
(* same hunks as the candidate of the receipt, a candidate of this         *)
(* repository, so it has the tier that decided how many lenses looked at   *)
(* it.  Of the commits, not those whose index was staged again behind the  *)
(* gate, and not an amended one, which is compared with the commit it      *)
(* replaces and not with its parent; of the tips, not one whose parent git *)
(* failed to look up, which is compared as if it were the first commit.    *)
GatedIsReviewed ==
  \A c \in {d \in Branch : Vouched(d)} \cup vetted :
    /\ receipt # None
    /\ receipt.cand.repo \in KnownAs(copy)
    /\ SameChange(receipt.cand, BuildIdentityFromCommit(copy, c, {}))
    /\ Classify(ChangedPaths(c.parent, c.tree)) = receipt.tier

(* The two gates agree: a commit the pre-commit gate admitted is one the   *)
(* pre-push gate admits, whenever it runs, as long as git works, up to     *)
(* the lookup of the origin: it need only name the repository as the       *)
(* receipt does.                                                           *)
GatesAgree ==
  \A c \in Branch :
    Vouched(c) =>
      \A failed \in SUBSET {"origin"} :
        RepositoryID(copy, failed) = receipt.cand.repo =>
          Admits(receipt.cand, BuildIdentityFromCommit(copy, c, failed), {})
==============================================================================
