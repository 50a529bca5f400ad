------------------------------- MODULE Review -------------------------------
(***************************************************************************)
(* The review verbs of cmd/capiko-ai/review.go as processes that run side  *)
(* by side over one authority store: agents, terminals and worktrees of    *)
(* one clone.  A process reads the record without a lock, looks at the     *)
(* working copy and the kill switch, and saves; SaveState and WriteReceipt *)
(* are single steps here because ReviewStore.tla shows that they are.      *)
(* A process may end between any two steps, on a crash or on an error.     *)
(***************************************************************************)
EXTENDS ReviewRecord

CONSTANTS Procs,          \* concurrent capiko-ai processes
          WorkingCopiesIn,\* the states the working copies can be in
          FindingSets,    \* sets of paths a lens result may name
          GlobalMode      \* ~/.capiko/review-mode.json; no verb writes it

ASSUME WorkingCopiesAssumption == WorkingCopiesIn \subseteq WorkingCopies
ASSUME FindingsAssumption == FindingSets \subseteq SUBSET Paths

VARIABLES disk,     \* review-state.json
          receipt,  \* review-receipt.json
          clone,    \* the clone's review-mode.json
          pc,       \* where each process is
          mem,      \* the record it has read and is changing
          built     \* review start: the identity it has built

vars == <<disk, receipt, clone, pc, mem, built>>
local == <<pc, mem, built>>

ValidModes == {"managed", "disabled"}
ModeFiles == ValidModes \cup {"absent", "corrupt"}
ASSUME GlobalModeAssumption == GlobalMode \in ModeFiles

(* Anything but a valid record counts as absent; managed is the default.   *)
ResolveMode(global, own) ==
  CASE own \in ValidModes -> own
    [] own \notin ValidModes /\ global \in ValidModes -> global
    [] OTHER -> "managed"

Managed == ResolveMode(GlobalMode, clone) = "managed"

(* checkFreezeInvariant *)
RespectsFreeze(old, new) ==
  old # None =>
    /\ old.consumed => new.consumed
    /\ old.state # "unreviewed" =>
         new.tier = old.tier /\ new.cand = old.cand /\ new.lenses = old.lenses

(* What a bug would make of definitions of this module is spelled out as   *)
(* Mut... next to them, to show that a property notices.                   *)
MutSaves(r) == RespectsFreeze(disk, r)

(* SaveState accepts r: the record read is the one on disk.                *)
Saves(r) == r.version = Version(disk) /\ RespectsFreeze(disk, r)

(* What BuildIdentity may make of the working copies, whether it can look  *)
(* up the origin or not.                                                   *)
Candidates ==
  {BuildIdentity(w, failed) : w \in WorkingCopiesIn, failed \in SUBSET {"origin"}}

(* A record from before the lifecycle, whose missing state reads as        *)
(* unreviewed.                                                             *)
Legacy(id) == [Started(id, 1) EXCEPT !.state = "unreviewed"]

Init ==
  /\ disk \in {None} \cup {Legacy(id) : id \in Candidates}
  /\ receipt = None
  /\ clone \in ModeFiles
  /\ pc = [p \in Procs |-> "idle"]
  /\ mem = [p \in Procs |-> None]
  /\ built = [p \in Procs |-> None]

Goto(p, from, to) ==
  /\ pc[p] = from
  /\ pc' = [pc EXCEPT ![p] = to]

(* The process ends, with success, an error or a crash. *)
Leave(p) ==
  /\ pc' = [pc EXCEPT ![p] = "idle"]
  /\ mem' = [mem EXCEPT ![p] = None]
  /\ built' = [built EXCEPT ![p] = None]
------------------------------------------------------------------------------
(* review start --consent granted.  A relayed or declined consent ends     *)
(* before the record is read.                                              *)
StartMode(p) ==
  /\ Managed
  /\ Goto(p, "idle", "start_build")
  /\ UNCHANGED <<disk, receipt, clone, mem, built>>

StartBuild(p) ==
  /\ Goto(p, "start_build", "start_load")
  /\ \E id \in Candidates : built' = [built EXCEPT ![p] = id]
  /\ UNCHANGED <<disk, receipt, clone, mem>>

(* A review may be started over. *)
MutStartLoad(p) ==
  /\ Goto(p, "start_load", "save")
  /\ mem' = [mem EXCEPT ![p] = Started(built[p], Version(disk))]
  /\ UNCHANGED <<disk, receipt, clone, built>>

StartLoad(p) ==
  /\ ValidateTransition(State(disk), "reviewing")
  /\ Goto(p, "start_load", "save")
  /\ mem' = [mem EXCEPT ![p] = Started(built[p], Version(disk))]
  /\ UNCHANGED <<disk, receipt, clone, built>>

(* review capture-result *)
CaptureLoad(p) ==
  /\ State(disk) = "reviewing"
  /\ Goto(p, "idle", "capture")
  /\ mem' = [mem EXCEPT ![p] = disk]
  /\ UNCHANGED <<disk, receipt, clone, built>>

(* A lens may hand in its result twice. *)
MutCaptureResult(p) ==
  /\ Goto(p, "capture", "save")
  /\ mem[p].cand \in Candidates
  /\ \E l \in mem[p].lenses, found \in FindingSets :
       mem' = [mem EXCEPT ![p] = Captured(mem[p], l, found)]
  /\ UNCHANGED <<disk, receipt, clone, built>>

CaptureResult(p) ==
  /\ Goto(p, "capture", "save")
  /\ mem[p].cand \in Candidates
  /\ \E l \in Missing(mem[p]), found \in FindingSets :
       mem' = [mem EXCEPT ![p] = Captured(mem[p], l, found)]
  /\ UNCHANGED <<disk, receipt, clone, built>>

(* review finalize *)
FinalizeLoad(p) ==
  /\ State(disk) \in {"findings_frozen", "fix_validating"}
  /\ Goto(p, "idle", "advance")
  /\ mem' = [mem EXCEPT ![p] = disk]
  /\ UNCHANGED <<disk, receipt, clone, built>>

(* A second correction from fix_validating. *)
MutCorrectLoad(p) ==
  /\ State(disk) \in {"fix_required", "fix_validating"}
  /\ Goto(p, "idle", "correct_mode")
  /\ mem' = [mem EXCEPT ![p] = disk]
  /\ UNCHANGED <<disk, receipt, clone, built>>

(* review correct *)
CorrectLoad(p) ==
  /\ State(disk) = "fix_required"
  /\ Goto(p, "idle", "correct_mode")
  /\ mem' = [mem EXCEPT ![p] = disk]
  /\ UNCHANGED <<disk, receipt, clone, built>>

CorrectMode(p) ==
  /\ Managed
  /\ Goto(p, "correct_mode", "correct_build")
  /\ UNCHANGED <<disk, receipt, clone, mem, built>>

CorrectBuild(p) ==
  /\ Goto(p, "correct_build", "advance")
  /\ \E id \in Candidates :
       /\ ~ (mem[p].consumed /\ mem[p].attempt = id)
       /\ mem' = [mem EXCEPT ![p] = Corrected(mem[p], id)]
  /\ UNCHANGED <<disk, receipt, clone, built>>

(* The one save of review start and review capture-result. *)
Save(p) ==
  /\ pc[p] = "save"
  /\ Saves(mem[p])
  /\ disk' = Committed(mem[p])
  /\ Leave(p)
  /\ UNCHANGED <<receipt, clone>>

(* The receipt is written on the way. *)
MutAdvance(p) ==
  /\ pc[p] = "advance"
  /\ LET next == [mem[p] EXCEPT !.state = NextState(mem[p])]
     IN  /\ ValidateTransition(mem[p].state, next.state)
         /\ Saves(next)
         /\ disk' = Committed(next)
         /\ mem' = [mem EXCEPT ![p] = Committed(next)]
         /\ pc' = [pc EXCEPT ![p] = "receipt"]
  /\ UNCHANGED <<receipt, clone, built>>

(* advanceState, once for every state on the way. *)
Advance(p) ==
  /\ pc[p] = "advance"
  /\ LET next == [mem[p] EXCEPT !.state = NextState(mem[p])]
     IN  /\ ValidateTransition(mem[p].state, next.state)
         /\ Saves(next)
         /\ disk' = Committed(next)
         /\ IF next.state \in Stops
              THEN Leave(p)
              ELSE /\ mem' = [mem EXCEPT ![p] = Committed(next)]
                   /\ pc' = [pc EXCEPT ![p] =
                               IF IsTerminal(next.state) THEN "receipt" ELSE @]
                   /\ UNCHANGED built
  /\ UNCHANGED <<receipt, clone>>

(* SaveState refused the record: it is stale, or it would thaw a field. *)
Refused(p) ==
  /\ pc[p] \in {"save", "advance"}
  /\ ~ Saves(mem[p])
  /\ Leave(p)
  /\ UNCHANGED <<disk, receipt, clone>>

(* writeTerminalReceiptIfNeeded; a second receipt is an error. *)
WriteReceipt(p) ==
  /\ pc[p] = "receipt"
  /\ receipt' = IF receipt = None THEN ReceiptOf(mem[p]) ELSE receipt
  /\ Leave(p)
  /\ UNCHANGED <<disk, clone>>

(* A verb ends before it has anything to save: the kill switch is off, the *)
(* working copy is not the frozen subject, the correction is a replay, a   *)
(* git command fails, the process is killed.                               *)
Decline(p) ==
  /\ pc[p] \in {"start_build", "start_load", "capture", "correct_mode",
               "correct_build"}
  /\ Leave(p)
  /\ UNCHANGED <<disk, receipt, clone>>

(* A crash, or a file operation that fails, on the way through the saves.  *)
Abort(p) ==
  /\ pc[p] \in {"save", "advance", "receipt"}
  /\ Leave(p)
  /\ UNCHANGED <<disk, receipt, clone>>

(* review mode enable, review mode disable *)
ModeSet ==
  /\ clone' \in ValidModes
  /\ UNCHANGED <<disk, receipt, local>>

Call(p) == StartMode(p) \/ CaptureLoad(p) \/ FinalizeLoad(p) \/ CorrectLoad(p)

Step(p) ==
  \/ StartBuild(p) \/ StartLoad(p) \/ CaptureResult(p)
  \/ CorrectMode(p) \/ CorrectBuild(p)
  \/ Save(p) \/ Advance(p) \/ Refused(p) \/ WriteReceipt(p)

Next == ModeSet \/ \E p \in Procs : Call(p) \/ Step(p) \/ Decline(p) \/ Abort(p)

Spec == Init /\ [][Next]_vars

(***************************************************************************)
(* Every process that is in a verb goes on with it, and none is killed or  *)
(* fails.  Only a user starts a verb.                                      *)
(***************************************************************************)
NextUndisturbed ==
  ModeSet \/ \E p \in Procs : Call(p) \/ Step(p) \/ Decline(p)

Undisturbed ==
  Init /\ [][NextUndisturbed]_vars /\ \A p \in Procs : WF_vars(Step(p))
------------------------------------------------------------------------------
Steps == {"start_build", "start_load", "capture", "correct_mode",
          "correct_build", "save", "advance", "receipt"}

TypeOK ==
  /\ disk \in Records \cup {None}
  /\ receipt \in Receipts \cup {None}
  /\ clone \in ModeFiles
  /\ pc \in [Procs -> {"idle"} \cup Steps]
  /\ mem \in [Procs -> Records \cup {None}]
  /\ built \in [Procs -> Identities \cup {None}]

(* States no verb starts from. *)
Halfway == {"evidence_classified", "fixing", "ready_final_verification",
            "final_verifying"}

(* States in which a verb is under way and holds what is on disk. *)
Walked == {"findings_frozen", "evidence_classified", "fixing", "fix_validating",
           "ready_final_verification", "final_verifying"}

(***************************************************************************)
(* What a process holds while the record on disk is the one it read.  All  *)
(* of it may be false once another process has committed, and harmless:    *)
(* the version is then behind, and SaveState refuses.                      *)
(***************************************************************************)
Holds(p) ==
  /\ pc[p] = "save" =>
       \/ /\ State(disk) = "unreviewed"
          /\ mem[p] = Started(mem[p].cand, Version(disk))
       \/ /\ State(disk) = "reviewing"
          /\ \E l \in Missing(disk) :
               mem[p].results[l] # None /\ mem[p] = Captured(disk, l, mem[p].results[l])
  /\ pc[p] = "advance" =>
       \/ mem[p] = disk /\ disk.state \in Walked
       \/ /\ State(disk) = "fix_required"
          /\ mem[p].attempt # None
          /\ mem[p] = Corrected(disk, mem[p].attempt)
  /\ pc[p] \in {"capture", "correct_mode", "correct_build"} => mem[p] = disk

ReadsOf(p) ==
  /\ mem[p] = None <=> pc[p] \in {"idle", "start_build", "start_load"}
  /\ pc[p] = "start_load" => built[p] # None
  /\ Version(mem[p]) <= Version(disk)
  /\ pc[p] = "capture" => mem[p].state = "reviewing"
  /\ pc[p] \in {"correct_mode", "correct_build"} => mem[p].state = "fix_required"
  /\ mem[p] # None /\ mem[p].version = Version(disk) => Holds(p)

ReadsInv == \A p \in Procs : ReadsOf(p)

(* Whoever is about to write the receipt brought the review to its end,    *)
(* and is alone: the version compare let one process through.              *)
OneReceiptWriter ==
  \A p \in Procs : pc[p] = "receipt" =>
    /\ receipt = None
    /\ mem[p] = disk /\ IsTerminal(disk.state)
    /\ \A q \in Procs \ {p} : pc[q] # "receipt"

(* Every state of the review is earned.  The tier and the lenses are those *)
(* of the frozen candidate; nothing moves past reviewing before every      *)
(* mandated lens has reported on it; approval means that no finding names  *)
(* a path, or that exactly one correction was admitted and stayed within   *)
(* the paths the findings name; invalidation means that it strayed.        *)
Bound(r) ==
  /\ r.tier = Classify(ChangedPaths(r.cand.base, r.cand.tree))
  /\ r.lenses = SelectLenses(r.tier)

Tried(r) == r.consumed /\ r.attempt # None

Justified(r) ==
  /\ Bound(r)
  /\ r.state # "reviewing" => Missing(r) = {}
  /\ r.state \in {"reviewing", "findings_frozen", "evidence_classified"} =>
       ~ r.consumed
  /\ r.state = "fix_required" => RequiresFix(r) /\ ~ r.consumed
  /\ r.state \in {"fixing", "fix_validating"} =>
       RequiresFix(r) /\ Tried(r) /\ InScope(r, r.attempt)
  /\ r.state \in {"ready_final_verification", "final_verifying", "approved"} =>
       IF RequiresFix(r) THEN Tried(r) /\ InScope(r, r.attempt) ELSE ~ r.consumed
  /\ r.state = "invalidated" => Tried(r) /\ ~ InScope(r, r.attempt)
  /\ r.state # "escalated"

VerdictJustified == State(disk) # "unreviewed" => Justified(disk)

(* A receipt exists only for a review that has ended, and says how it      *)
(* ended and for which candidate: nothing can change the record under it.  *)
ReceiptTellsTruth ==
  receipt # None => IsTerminal(State(disk)) /\ receipt = ReceiptOf(disk)

IInv == TypeOK /\ ReadsInv /\ OneReceiptWriter /\ VerdictJustified /\ ReceiptTellsTruth

(* However many processes run the verbs and wherever they die, the record  *)
(* on disk goes through one sequential review: no captured lens is lost,   *)
(* no state is skipped, the budget is spent once, one receipt is written.  *)
Promise == INSTANCE ReviewPromise
             WITH review <- IF disk = None THEN None ELSE [disk EXCEPT !.version = 0]
ImplementsPromise == Promise!Spec

(* Left alone, a verb that has moved the record to a state no verb starts  *)
(* from moves it on, and a review that has ended gets its receipt, however *)
(* many processes compete: of two that read one version, one gets through. *)
HalfwayIsLeft == State(disk) \in Halfway ~> State(disk) \notin Halfway
EndedIsIssued == IsTerminal(State(disk)) ~> receipt # None
==============================================================================
