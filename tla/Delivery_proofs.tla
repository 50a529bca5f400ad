--------------------------- MODULE Delivery_proofs ---------------------------
(***************************************************************************)
(* Theorems about the delivery gates, for any trees, any receipts, any     *)
(* number of commits and any interleaving of git, gates and reviews.       *)
(***************************************************************************)
EXTENDS Delivery, SequenceTheorems, TLAPS

USE TreesAssumption, LensesAssumption, NamesAssumption, ReceiptsAssumption,
    DeliveryNoneAssumption, CopiesAssumption, MaxCommitsAssumption

------------------------------------------------------------------------------
(* What the comparison of two candidates establishes.                      *)

(* Equal digests name the same files, with the same hunks in each.         *)
LEMMA PatchIdSound ==
  ASSUME NEW a, NEW b, NEW c, NEW d, PatchId(a, b) = PatchId(c, d)
  PROVE  /\ Files(a, b) = Files(c, d)
         /\ \A f \in Files(a, b) : Hunks(a[f[1]], b[f[2]]) = Hunks(c[f[1]], d[f[2]])
<1>1. ASSUME NEW f \in Files(a, b)
      PROVE  f \in Files(c, d) /\ Hunks(a[f[1]], b[f[2]]) = Hunks(c[f[1]], d[f[2]])
  <2>1. <<f, Hunks(a[f[1]], b[f[2]])>> \in PatchId(c, d)
    BY DEF PatchId
  <2> QED
    BY <2>1 DEF PatchId
<1>2. ASSUME NEW f \in Files(c, d)
      PROVE  f \in Files(a, b)
  <2>1. <<f, Hunks(c[f[1]], d[f[2]])>> \in PatchId(a, b)
    BY DEF PatchId
  <2> QED
    BY <2>1 DEF PatchId
<1> QED
  BY <1>1, <1>2

(* Every path that changes is the one or the other path of a file that git *)
(* diff shows, and no other path is.                                       *)
LEMMA FilesCoverChange ==
  ASSUME NEW a \in Trees, NEW b \in Trees
  PROVE  ChangedPaths(a, b) = {f[1] : f \in Files(a, b)} \cup {f[2] : f \in Files(a, b)}
<1>1. ASSUME NEW p \in ChangedPaths(a, b)
      PROVE  p \in {f[1] : f \in Files(a, b)} \cup {f[2] : f \in Files(a, b)}
  <2>1. CASE p \in Moved(a, b)
    <3>1. PICK f \in Renames(a, b) : p = f[1] \/ p = f[2]
      BY <2>1 DEF Moved
    <3> QED
      BY <3>1 DEF Files
  <2>2. CASE p \notin Moved(a, b)
    <3>1. PICK f : f = <<p, p>>
      OBVIOUS
    <3>2. f \in Files(a, b) /\ f[1] = p
      BY <2>2, <3>1 DEF Files
    <3> QED
      BY <3>2
  <2> QED
    BY <2>1, <2>2
<1>2. ASSUME NEW f \in Files(a, b)
      PROVE  f[1] \in ChangedPaths(a, b) /\ f[2] \in ChangedPaths(a, b)
  <2>1. Renames(a, b) \subseteq ChangedPaths(a, b) \X ChangedPaths(a, b)
    BY RenamesAssumption
  <2>2. CASE f \in Renames(a, b)
    BY <2>1, <2>2
  <2>3. CASE f \notin Renames(a, b)
    <3>1. PICK p \in ChangedPaths(a, b) : f = <<p, p>>
      BY <2>3 DEF Files
    <3> QED
      BY <3>1
  <2> QED
    BY <2>2, <2>3
<1> QED
  BY <1>1, <1>2

(* A gate that admits a candidate has shown that it asks for the reviewed  *)
(* change, whichever git command failed while it compared them.            *)
THEOREM GateSound ==
  ASSUME NEW a \in Identities, NEW b \in Identities, NEW failed,
         Admits(a, b, failed)
  PROVE  a.repo = b.repo /\ SameChange(a, b) /\ Admits(a, b, {})
<1>1. PICK e : e = GateEvidence(a, b, failed)
  OBVIOUS
<1>2. Compare(a, b, e) \in {"exact", "compatible_base_advance"}
  BY <1>1 DEF Admits, AcceptedRelations
<1>3. CASE a = b
  <2>1. SameChange(a, b)
    BY <1>3 DEF SameChange
  <2>2. Admits(a, b, {})
    BY <1>3 DEF Admits, Compare, AcceptedRelations
  <2> QED
    BY <1>3, <2>1, <2>2
<1>4. CASE a # b
  <2>1. a.repo = b.repo /\ e.a # {} /\ e.a = e.b
    BY <1>2, <1>4 DEF Compare
  <2>2. e.a = PatchId(a.base, a.tree) /\ e.b = PatchId(b.base, b.tree)
    BY <1>1, <2>1 DEF GateEvidence
  <2>3. PatchId(a.base, a.tree) = PatchId(b.base, b.tree)
    BY <2>1, <2>2
  <2>4. SameChange(a, b)
    BY <2>1, <2>3, PatchIdSound DEF SameChange
  <2>5. PICK f : f = GateEvidence(a, b, {})
    OBVIOUS
  <2>6. f.a # {} /\ f.a = f.b
    BY <2>1, <2>2, <2>5 DEF GateEvidence
  <2>7. Compare(a, b, f) = "compatible_base_advance"
    BY <1>4, <2>1, <2>6 DEF Compare
  <2> QED
    BY <2>1, <2>4, <2>5, <2>7 DEF Admits, AcceptedRelations
<1> QED
  BY <1>3, <1>4

(* Two candidates that ask for the same change have one tier.              *)
LEMMA SameTier ==
  ASSUME NEW a \in Identities, NEW b \in Identities, SameChange(a, b)
  PROVE  Classify(ChangedPaths(a.base, a.tree)) = Classify(ChangedPaths(b.base, b.tree))
<1>1. Files(a.base, a.tree) = Files(b.base, b.tree)
  BY DEF SameChange
<1>2. a.base \in Trees /\ a.tree \in Trees /\ b.base \in Trees /\ b.tree \in Trees
  BY DEF Identities
<1>3. ChangedPaths(a.base, a.tree)
        = {f[1] : f \in Files(a.base, a.tree)} \cup {f[2] : f \in Files(a.base, a.tree)}
  BY <1>2, FilesCoverChange
<1>4. ChangedPaths(b.base, b.tree)
        = {f[1] : f \in Files(b.base, b.tree)} \cup {f[2] : f \in Files(b.base, b.tree)}
  BY <1>2, FilesCoverChange
<1> QED
  BY <1>1, <1>3, <1>4

------------------------------------------------------------------------------
(* The invariant.                                                          *)

(* What the gates build from a working copy or a commit is an identity,    *)
(* whatever cannot be looked up.                                           *)
LEMMA IdentityTypes ==
  ASSUME NEW w \in WorkingCopies, NEW c \in CommitRecords, NEW failed
  PROVE  /\ BuildIdentity(w, failed) \in Identities
         /\ BuildIdentityFromCommit(w, c, failed) \in Identities
BY DEF WorkingCopies, CommitRecords, BuildIdentity, BuildIdentityFromCommit,
       RepositoryID, Identities

(* The repository may be known by two names.                               *)
LEMMA Names2 ==
  ASSUME NEW w, NEW failed
  PROVE  RepositoryID(w, failed) \in KnownAs(w)
<1>1. RepositoryID(w, failed) = RepositoryID(w, failed \cap {"origin"})
  BY DEF RepositoryID
<1> QED
  BY <1>1 DEF KnownAs

(* What the gate compares is an identity.                                  *)
LEMMA TargetType ==
  ASSUME TypeOK, NEW t \in Targets, NEW failed
  PROVE  Target(t, failed) \in Identities
<1>1. \A i \in git.refs : branch[i] \in CommitRecords
  BY ElementOfSeq DEF TypeOK, GitCommands
<1>2. CASE git.op = "push"
  BY <1>1, <1>2, IdentityTypes DEF TypeOK, Target, Targets
<1>3. CASE git.op # "push"
  <2>1. PICK c : c = [tree |-> copy.head, parent |-> EmptyTree, gated |-> FALSE, amend |-> FALSE]
    OBVIOUS
  <2>2. c \in CommitRecords
    BY <2>1 DEF TypeOK, WorkingCopies, CommitRecords
  <2> QED
    BY <1>3, <2>2, IdentityTypes DEF TypeOK, Target
<1> QED
  BY <1>2, <1>3

(* A gate that admitted what it saw of a target whose parent it knew would *)
(* have admitted it with every lookup answered, under the receipt's name.  *)
LEMMA AdmittedIsReviewed ==
  ASSUME TypeOK, receipt # None, NEW t \in Targets, NEW failed,
         git.op = "push" => "parent" \notin failed,
         Admits(receipt.cand, Target(t, failed), failed)
  PROVE  Reviewed(Target(t, {}))
<1>1. receipt.cand \in Identities
  BY DEF TypeOK
<1>2. /\ receipt.cand.repo = Target(t, failed).repo
      /\ Admits(receipt.cand, Target(t, failed), {})
  BY <1>1, TargetType, GateSound
<1>3. PICK id : id = Target(t, {})
  OBVIOUS
<1>4. PICK known : known = Target(t, failed)
  OBVIOUS
<1>5. known \in Identities /\ id \in Identities
  BY <1>3, <1>4, TargetType
<1>6. /\ known.repo = RepositoryID(copy, failed)
      /\ known.base = id.base /\ known.tree = id.tree
  BY <1>3, <1>4 DEF Target, BuildIdentity, BuildIdentityFromCommit
<1>7. known = [id EXCEPT !.repo = receipt.cand.repo]
  BY <1>2, <1>4, <1>5, <1>6 DEF Identities
<1>8. receipt.cand.repo \in KnownAs(copy)
  BY <1>2, <1>4, <1>6, Names2
<1> QED
  BY <1>2, <1>3, <1>4, <1>7, <1>8 DEF Reviewed

(* The commits of the branch are commits.                                  *)
LEMMA BranchType == TypeOK => Branch \subseteq CommitRecords
BY ElementOfSeq DEF TypeOK, Branch

(* The history is judged by the receipt and the repository alone.          *)
LEMMA HistoryFrame ==
  ASSUME TypeOK, HistoryInv, copy'.name = copy.name, copy'.origin = copy.origin,
         receipt' = receipt \/ receipt = None,
         \A c \in Branch' : Vouched(c) => c \in Branch,
         vetted' \subseteq vetted
  PROVE  HistoryInv'
<1>1. \A c : BuildIdentityFromCommit(copy', c, {}) = BuildIdentityFromCommit(copy, c, {})
  BY DEF BuildIdentityFromCommit, RepositoryID
<1>2. KnownAs(copy') = KnownAs(copy)
  BY DEF KnownAs, RepositoryID
<1> QED
  BY <1>1, <1>2 DEF HistoryInv, Reviewed

(* A fresh clone satisfies the invariant.                                  *)
LEMMA InitIInv == Init => IInv
<1> SUFFICES ASSUME Init PROVE IInv
  OBVIOUS
<1>1. PICK c : c = [tree |-> copy.head, parent |-> EmptyTree, gated |-> FALSE, amend |-> FALSE]
  OBVIOUS
<1>2. copy \in WorkingCopies
  BY DEF Init
<1>3. c \in CommitRecords /\ ~ c.gated
  BY <1>1, <1>2 DEF CommitRecords, WorkingCopies
<1>4. branch = <<c>>
  BY <1>1 DEF Init
<1>5. branch \in Seq(CommitRecords) /\ Len(branch) = 1 /\ branch[1] = c
  BY <1>3, <1>4
<1>6. TypeOK
  BY <1>2, <1>5 DEF Init, TypeOK, Idle, GitCommands
<1>7. GateInv
  BY DEF Init, GateInv, Idle
<1>8. HistoryInv
  BY <1>3, <1>5 DEF Init, HistoryInv, Branch, Vouched
<1> QED
  BY <1>6, <1>7, <1>8 DEF IInv

(* No step of the user, git, a gate or a review breaks the invariant.      *)
LEMMA NextIInv == IInv /\ [Next]_vars => IInv'
<1> SUFFICES ASSUME IInv, [Next]_vars PROVE IInv'
  OBVIOUS
<1>0. /\ TypeOK /\ GateInv /\ HistoryInv
      /\ copy.head \in Trees /\ copy.index \in Trees
  BY DEF IInv, TypeOK, WorkingCopies
<1>1. CASE UNCHANGED vars
  BY <1>1 DEF vars, IInv, TypeOK, GateInv, Targets, Target, Reviewed, HistoryInv, Branch
<1>2. CASE Stage
  <2>1. PICK tree \in Staged : copy' = [copy EXCEPT !.index = tree]
    BY <1>2 DEF Stage
  <2>2. /\ copy' \in WorkingCopies
        /\ copy'.name = copy.name /\ copy'.origin = copy.origin
        /\ UNCHANGED <<branch, vetted, receipt, clone, hooks>>
    BY <1>0, <1>2, <2>1 DEF Stage, TypeOK, WorkingCopies
  <2>3. /\ git'.op = git.op /\ git'.refs = git.refs /\ git'.seen = git.seen
        /\ git'.blind = git.blind
        /\ git'.step = git.step \/ (git.step = "gated" /\ git'.step = "overtaken")
        /\ git'.step = "gated" => git.step = "gated" /\ git.op \notin {"commit", "amend"}
    BY <1>0, <1>2 DEF Stage, TypeOK, GitCommands
  <2>4. TypeOK'
    <3>1. git' \in GitCommands(Len(branch))
      BY <1>0, <1>2 DEF Stage, TypeOK, GitCommands
    <3> QED
      BY <1>0, <2>2, <3>1 DEF TypeOK
  <2>5. GateInv'
    <3>1. ASSUME git'.step = "gated", NEW t \in Targets' \ git'.blind
          PROVE  Reviewed(Target(t, {}))'
      <4>1. git.step = "gated" /\ git.op = "push"
        BY <1>0, <2>3, <3>1 DEF TypeOK, GitCommands, GateInv
      <4>2. Target(t, {})' = Target(t, {}) /\ KnownAs(copy)' = KnownAs(copy)
        BY <2>2, <2>3, <4>1 DEF Target, BuildIdentityFromCommit, RepositoryID, KnownAs
      <4>3. t \in Targets \ git.blind
        BY <2>3, <3>1, <4>1 DEF Targets
      <4>4. Reviewed(Target(t, {}))
        BY <1>0, <4>1, <4>3 DEF GateInv
      <4> QED
        BY <2>2, <4>2, <4>4 DEF Reviewed
    <3> QED
      BY <1>0, <2>2, <2>3, <3>1 DEF GateInv
  <2>6. HistoryInv'
    BY <1>0, <2>2, HistoryFrame DEF Branch
  <2> QED
    BY <2>4, <2>5, <2>6 DEF IInv
<1>3. CASE ReviewEnds
  <2>1. /\ receipt = None /\ receipt' \in Receipts
        /\ UNCHANGED <<copy, branch, vetted, clone, hooks, git>>
    BY <1>3 DEF ReviewEnds
  <2>2. git.seen = None
    BY <1>0, <2>1 DEF GateInv
  <2>3. TypeOK' /\ GateInv'
    BY <1>0, <2>1, <2>2 DEF TypeOK, GateInv
  <2>4. HistoryInv'
    BY <1>0, <2>1, HistoryFrame DEF Branch
  <2> QED
    BY <2>3, <2>4 DEF IInv
<1>4. CASE ModeSet \/ GateInstall \/ GateUninstall
  <2>1. UNCHANGED <<copy, branch, vetted, receipt, git>>
    BY <1>4 DEF ModeSet, GateInstall, GateUninstall
  <2>2. TypeOK'
    BY <1>0, <1>4, <2>1 DEF ModeSet, GateInstall, GateUninstall, TypeOK, Hooks
  <2>3. GateInv' /\ HistoryInv'
    BY <1>0, <2>1 DEF GateInv, Targets, Target, Reviewed, HistoryInv, Branch
  <2> QED
    BY <2>2, <2>3 DEF IInv
<1>5. CASE CommitStarts \/ AmendStarts \/ PushStarts
  <2>1. UNCHANGED <<copy, branch, vetted, receipt, clone, hooks>>
    BY <1>5 DEF CommitStarts, AmendStarts, PushStarts, GitStarts
  <2>2. PICK op \in {"commit", "amend", "push"}, refs \in SUBSET (1..Len(branch)),
             s \in {"mode", "open"} :
          /\ git' = [op |-> op, refs |-> refs, seen |-> None, blind |-> {}, step |-> s]
          /\ op = "commit" => Len(branch) < MaxCommits
    BY <1>5 DEF CommitStarts, AmendStarts, PushStarts, GitStarts
  <2>3. TypeOK' /\ GateInv'
    BY <1>0, <2>1, <2>2 DEF TypeOK, GitCommands, GateInv
  <2>4. HistoryInv'
    BY <1>0, <2>1 DEF HistoryInv, Reviewed, Branch
  <2> QED
    BY <2>3, <2>4 DEF IInv
<1>6. CASE GateMode
  <2>1. /\ UNCHANGED <<copy, branch, vetted, receipt, clone, hooks>>
        /\ git'.op = git.op /\ git'.refs = git.refs /\ git'.seen = git.seen
        /\ git'.step \in {"open", "receipt"}
    <3>1. PICK s \in {"open", "receipt"} : git' = [git EXCEPT !.step = s]
      BY <1>6 DEF GateMode
    <3> QED
      BY <1>0, <1>6, <3>1 DEF GateMode, TypeOK, GitCommands
  <2>2. TypeOK' /\ GateInv'
    <3>1. git' \in GitCommands(Len(branch))
      BY <1>0, <1>6 DEF GateMode, TypeOK, GitCommands
    <3>2. git'.op # "none"
      BY <1>0, <1>6, <2>1 DEF GateMode, GateInv
    <3> QED
      BY <1>0, <2>1, <3>1, <3>2 DEF TypeOK, GateInv
  <2>3. HistoryInv'
    BY <1>0, <2>1 DEF HistoryInv, Reviewed, Branch
  <2> QED
    BY <2>2, <2>3 DEF IInv
<1>7. CASE GateReceipt
  <2>1. /\ UNCHANGED <<copy, branch, vetted, receipt, clone, hooks>>
        /\ git.step = "receipt"
        /\ \/ git' = Idle
           \/ receipt # None /\ git' = [git EXCEPT !.step = "compare", !.seen = receipt]
    BY <1>7 DEF GateReceipt
  <2>2. git' \in GitCommands(Len(branch)) /\ GateInv'
    <3>1. CASE git' = Idle
      BY <3>1 DEF Idle, GitCommands, GateInv
    <3>2. CASE receipt # None /\ git' = [git EXCEPT !.step = "compare", !.seen = receipt]
      BY <1>0, <2>1, <3>2 DEF TypeOK, GitCommands, GateInv
    <3> QED
      BY <2>1, <3>1, <3>2
  <2>3. TypeOK' /\ HistoryInv'
    BY <1>0, <2>1, <2>2 DEF TypeOK, HistoryInv, Reviewed, Branch
  <2> QED
    BY <2>2, <2>3 DEF IInv
<1>8. CASE GateCompare
  <2>1. PICK failed \in [Targets -> SUBSET Calls] :
          git' = IF \A t \in Targets : Admits(git.seen.cand, Target(t, failed[t]), failed[t])
                   THEN [git EXCEPT !.step = "gated",
                                    !.blind = {i \in git.refs : "parent" \in failed[i]}]
                   ELSE Idle
    BY <1>8 DEF GateCompare
  <2>2. /\ UNCHANGED <<copy, branch, vetted, receipt, clone, hooks>>
        /\ git.step = "compare" /\ git.seen = receipt /\ receipt # None
        /\ git.op # "none" /\ receipt.cand \in Identities
    BY <1>0, <1>8 DEF GateCompare, GateInv, TypeOK
  <2>3. CASE git' = Idle
    <3>1. TypeOK'
      BY <1>0, <2>2, <2>3 DEF TypeOK, Idle, GitCommands
    <3>2. GateInv'
      BY <2>3 DEF Idle, GateInv
    <3>3. HistoryInv'
      BY <1>0, <2>2 DEF HistoryInv, Reviewed, Branch
    <3> QED
      BY <3>1, <3>2, <3>3 DEF IInv
  <2>4. CASE /\ \A t \in Targets : Admits(git.seen.cand, Target(t, failed[t]), failed[t])
             /\ git' = [git EXCEPT !.step = "gated",
                                   !.blind = {i \in git.refs : "parent" \in failed[i]}]
    <3>1. git' \in GitCommands(Len(branch)) /\ git'.op = git.op /\ git'.refs = git.refs
          /\ git'.seen = git.seen /\ git'.step = "gated"
          /\ git'.blind = {i \in git.refs : "parent" \in failed[i]}
      BY <1>0, <2>4 DEF TypeOK, GitCommands
    <3>2. ASSUME NEW t \in Targets \ git'.blind
          PROVE  Reviewed(Target(t, {}))
      <4>1. git.op = "push" => "parent" \notin failed[t]
        BY <3>1 DEF Targets
      <4> QED
        BY <1>0, <2>2, <2>4, <4>1, AdmittedIsReviewed
    <3>3. Targets' = Targets /\ \A t : Target(t, {})' = Target(t, {})
      BY <2>2, <3>1 DEF Targets, Target
    <3>4. TypeOK' /\ HistoryInv'
      BY <1>0, <2>2, <3>1 DEF TypeOK, HistoryInv, Reviewed, Branch
    <3>5. GateInv'
      BY <1>0, <2>2, <3>1, <3>2, <3>3 DEF GateInv, Reviewed
    <3> QED
      BY <3>4, <3>5 DEF IInv
  <2> QED
    BY <2>1, <2>3, <2>4
<1>9. CASE GitFails
  <2>1. TypeOK' /\ GateInv' /\ HistoryInv'
    BY <1>0, <1>9 DEF GitFails, TypeOK, Idle, GitCommands, GateInv, HistoryInv, Reviewed, Branch
  <2> QED
    BY <2>1 DEF IInv
<1>10. CASE Commits
  <2>1. PICK c : c = [tree |-> copy.index, parent |-> copy.head,
                      gated |-> git.step = "gated", amend |-> FALSE]
    OBVIOUS
  <2>2. c \in CommitRecords /\ c.tree = copy.index /\ c.parent = copy.head
        /\ (c.gated <=> git.step = "gated")
    BY <1>0, <2>1 DEF CommitRecords
  <2>3. /\ branch' = Append(branch, c) /\ copy' = [copy EXCEPT !.head = copy.index]
        /\ git' = Idle /\ git.op = "commit" /\ UNCHANGED <<vetted, receipt, clone, hooks>>
    BY <1>10, <2>1 DEF Commits
  <2>4. /\ copy' \in WorkingCopies
        /\ copy'.name = copy.name /\ copy'.origin = copy.origin
    BY <1>0, <2>3 DEF TypeOK, WorkingCopies
  <2>5. TypeOK' /\ GateInv'
    <3>1. /\ branch' \in Seq(CommitRecords) /\ Len(branch') = Len(branch) + 1
          /\ Len(branch) < MaxCommits
      BY <1>0, <2>2, <2>3 DEF TypeOK, GateInv
    <3>2. git' \in GitCommands(Len(branch'))
      BY <2>3 DEF Idle, GitCommands
    <3> QED
      BY <1>0, <2>3, <2>4, <3>1, <3>2 DEF TypeOK, GateInv, Idle
  <2>6. Branch' \subseteq Branch \cup {c}
    <3>1. ASSUME NEW i \in 1..Len(branch') PROVE branch'[i] \in Branch \cup {c}
      BY <1>0, <2>3, <3>1 DEF TypeOK, Branch
    <3> QED
      BY <3>1 DEF Branch
  <2>7. /\ \A d : BuildIdentityFromCommit(copy', d, {}) = BuildIdentityFromCommit(copy, d, {})
        /\ KnownAs(copy') = KnownAs(copy)
    BY <2>4 DEF BuildIdentityFromCommit, RepositoryID, KnownAs
  <2>8. Vouched(c) => Reviewed(BuildIdentityFromCommit(copy, c, {}))
    <3>1. BuildIdentityFromCommit(copy, c, {}) = Target(0, {})
      BY <2>2, <2>3 DEF BuildIdentityFromCommit, BuildIdentity, Target
    <3>2. 0 \in Targets \ git.blind
      BY <1>0, <2>3 DEF Targets, TypeOK, GitCommands
    <3> QED
      BY <1>0, <2>2, <3>1, <3>2 DEF Vouched, GateInv
  <2>9. HistoryInv'
    BY <1>0, <2>3, <2>6, <2>7, <2>8 DEF HistoryInv, Reviewed
  <2> QED
    BY <2>5, <2>9 DEF IInv
<1>11. CASE Amends
  <2>1. PICK c : c = [tree |-> copy.index, parent |-> branch[Len(branch)].parent,
                      gated |-> git.step = "gated", amend |-> TRUE]
    OBVIOUS
  <2>2. Len(branch) \in 1..MaxCommits /\ Len(branch) \in 1..Len(branch)
        /\ branch \in Seq(CommitRecords)
    BY <1>0 DEF TypeOK
  <2>3. c \in CommitRecords /\ ~ Vouched(c)
    <3>1. branch[Len(branch)] \in CommitRecords
      BY <2>2, ElementOfSeq
    <3> QED
      BY <1>0, <2>1, <3>1 DEF CommitRecords, Vouched
  <2>4. /\ branch' = [branch EXCEPT ![Len(branch)] = c]
        /\ copy' = [copy EXCEPT !.head = copy.index]
        /\ git' = Idle /\ UNCHANGED <<vetted, receipt, clone, hooks>>
    BY <1>11, <2>1 DEF Amends
  <2>5. /\ copy' \in WorkingCopies
        /\ copy'.name = copy.name /\ copy'.origin = copy.origin
    BY <1>0, <2>4 DEF TypeOK, WorkingCopies
  <2>6. /\ branch' \in Seq(CommitRecords) /\ Len(branch') = Len(branch)
        /\ \A i \in 1..Len(branch) : branch'[i] = IF i = Len(branch) THEN c ELSE branch[i]
    BY <2>2, <2>3, <2>4, ExceptSeq
  <2>7. TypeOK' /\ GateInv'
    BY <1>0, <2>4, <2>5, <2>6 DEF TypeOK, GateInv, Idle, GitCommands
  <2>8. \A d \in Branch' : Vouched(d) => d \in Branch
    BY <2>3, <2>6 DEF Branch
  <2>9. HistoryInv'
    BY <1>0, <2>4, <2>5, <2>8, HistoryFrame
  <2> QED
    BY <2>7, <2>9 DEF IInv
<1>12. CASE Pushes
  <2>1. /\ UNCHANGED <<copy, branch, receipt, clone, hooks>> /\ git' = Idle
        /\ git.op = "push"
        /\ vetted' = vetted \cup (IF git.step = "gated"
                                   THEN {branch[i] : i \in git.refs \ git.blind} ELSE {})
    BY <1>12 DEF Pushes
  <2>2. \A i \in git.refs : branch[i] \in CommitRecords
    BY <1>0, ElementOfSeq DEF TypeOK, GitCommands
  <2>3. TypeOK' /\ GateInv'
    BY <1>0, <2>1, <2>2 DEF TypeOK, GateInv, Idle, GitCommands
  <2>4. ASSUME git.step = "gated", NEW i \in git.refs \ git.blind
        PROVE  Reviewed(BuildIdentityFromCommit(copy, branch[i], {}))
    BY <1>0, <2>1, <2>4 DEF GateInv, Targets, Target
  <2>5. HistoryInv'
    BY <1>0, <2>1, <2>4 DEF HistoryInv, Reviewed, Branch
  <2> QED
    BY <2>3, <2>5 DEF IInv
<1> QED
  BY <1>1, <1>2, <1>3, <1>4, <1>5, <1>6, <1>7, <1>8, <1>9, <1>10, <1>11, <1>12
     DEF Next, User, Capiko, Gate, Git

(* The invariant holds in every state of every run.                        *)
THEOREM Invariance == Spec => []IInv
<1> QED
  BY InitIInv, NextIInv, PTL DEF Spec

(* The branch, the gates and the receipts keep their types.                *)
THEOREM TypeCorrect == Spec => []TypeOK
BY Invariance, PTL DEF IInv

(* The pre-push gate admits whatever the pre-commit gate has vouched for,  *)
(* when it names the repository as the receipt does.                       *)
THEOREM GatesAgreeAlways == Spec => []GatesAgree
<1>1. IInv => GatesAgree
  <2> SUFFICES ASSUME IInv, NEW c \in Branch, Vouched(c), NEW failed \in SUBSET {"origin"},
                      RepositoryID(copy, failed) = receipt.cand.repo
               PROVE  Admits(receipt.cand, BuildIdentityFromCommit(copy, c, failed), {})
    BY DEF GatesAgree
  <2>1. Reviewed(BuildIdentityFromCommit(copy, c, {}))
    BY DEF IInv, HistoryInv
  <2>2. BuildIdentityFromCommit(copy, c, failed)
          = [BuildIdentityFromCommit(copy, c, {}) EXCEPT !.repo = receipt.cand.repo]
    BY DEF BuildIdentityFromCommit
  <2> QED
    BY <2>1, <2>2 DEF Reviewed
<1> QED
  BY <1>1, Invariance, PTL

(* What went through a gate is the reviewed change, of the reviewed tier.  *)
THEOREM GatedIsReviewedAlways == Spec => []GatedIsReviewed
<1>1. IInv => GatedIsReviewed
  <2> SUFFICES ASSUME IInv, NEW c \in {d \in Branch : Vouched(d)} \cup vetted
               PROVE  /\ receipt # None
                      /\ receipt.cand.repo \in KnownAs(copy)
                      /\ SameChange(receipt.cand, BuildIdentityFromCommit(copy, c, {}))
                      /\ Classify(ChangedPaths(c.parent, c.tree)) = receipt.tier
    BY DEF GatedIsReviewed
  <2>1. Reviewed(BuildIdentityFromCommit(copy, c, {}))
    BY DEF IInv, HistoryInv
  <2>2. /\ receipt # None /\ receipt.cand.repo \in KnownAs(copy)
        /\ receipt \in Receipts /\ c \in CommitRecords /\ copy \in WorkingCopies
    BY <2>1, BranchType DEF Reviewed, IInv, TypeOK
  <2>3. PICK id : id = [BuildIdentityFromCommit(copy, c, {}) EXCEPT !.repo = receipt.cand.repo]
    OBVIOUS
  <2>4. id = [repo |-> receipt.cand.repo, base |-> c.parent, tree |-> c.tree]
    BY <2>3 DEF BuildIdentityFromCommit
  <2>5. id \in Identities /\ id.base = c.parent /\ id.tree = c.tree
    BY <2>2, <2>4 DEF Identities, CommitRecords
  <2>6. SameChange(receipt.cand, id)
    BY <2>1, <2>2, <2>3, <2>5, GateSound DEF Reviewed
  <2>7. SameChange(receipt.cand, BuildIdentityFromCommit(copy, c, {}))
    BY <2>5, <2>6 DEF SameChange, BuildIdentityFromCommit
  <2>8. Classify(ChangedPaths(receipt.cand.base, receipt.cand.tree))
          = Classify(ChangedPaths(c.parent, c.tree))
    BY <2>2, <2>5, <2>6, SameTier
  <2> QED
    BY <2>2, <2>7, <2>8
<1> QED
  BY <1>1, Invariance, PTL
==============================================================================
