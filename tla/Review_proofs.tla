---------------------------- MODULE Review_proofs ----------------------------
(***************************************************************************)
(* Theorems about the review verbs, for any number of processes, any       *)
(* candidates and findings and any length of run.                          *)
(***************************************************************************)
EXTENDS Review, TLAPS

USE TreesAssumption, LensesAssumption, NamesAssumption, NoneAssumption,
    WorkingCopiesAssumption, FindingsAssumption, GlobalModeAssumption

------------------------------------------------------------------------------
(* The operators of ReviewRecord.tla on records.                           *)

(* BuildIdentity returns an identity, with or without an origin remote and *)
(* whether the origin can be looked up or not.                             *)
LEMMA IdentityType == Candidates \subseteq Identities
BY DEF Candidates, WorkingCopies, BuildIdentity, RepositoryID, Identities

(* Classify knows the tiers 0, 1 and 4.                                    *)
LEMMA TierType == \A changed : Classify(changed) \in Tiers
BY DEF Classify, Tiers

(* SelectLenses mandates canonical lenses only.                            *)
LEMMA LensType == \A tier : SelectLenses(tier) \in SUBSET Lenses
BY DEF SelectLenses

(* The record of review start is complete, unspent, and bound to its       *)
(* candidate.                                                              *)
LEMMA StartedType ==
  ASSUME NEW id \in Identities, NEW v \in Nat
  PROVE  /\ Started(id, v) \in Records
         /\ Started(id, v).version = v
         /\ Started(id, v).state = "reviewing"
         /\ Started(id, v).cand = id
         /\ ~ Started(id, v).consumed
         /\ Bound(Started(id, v))
<1> DEFINE tier == Classify(ChangedPaths(id.base, id.tree))
<1>1. tier \in Tiers /\ SelectLenses(tier) \in SUBSET Lenses
  BY TierType, LensType
<1>2. [l \in Lenses |-> None] \in [Lenses -> {None} \cup SUBSET Paths]
  OBVIOUS
<1> HIDE DEF tier
<1>3. Started(id, v) = [version |-> v, state |-> "reviewing", cand |-> id,
       tier |-> tier, lenses |-> SelectLenses(tier),
       results |-> [l \in Lenses |-> None],
       consumed |-> FALSE, attempt |-> None]
  BY DEF Started, tier
<1>4. Started(id, v) \in Records
  BY <1>1, <1>2, <1>3 DEF Records, LifecycleStates
<1> QED
  BY <1>3, <1>4 DEF Bound, tier

(* capture-result fills one missing lens, and freezes the findings exactly *)
(* at the last one.                                                        *)
LEMMA CapturedType ==
  ASSUME NEW r \in Records, NEW l \in Missing(r), NEW found \in SUBSET Paths,
         NEW c, c = Captured(r, l, found)
  PROVE  /\ c \in Records
         /\ c.version = r.version /\ c.cand = r.cand /\ c.tier = r.tier
         /\ c.lenses = r.lenses /\ c.consumed = r.consumed
         /\ c.attempt = r.attempt
         /\ c.state = IF Missing(r) = {l} THEN "findings_frozen" ELSE r.state
         /\ Missing(c) = Missing(r) \ {l}
<1>1. l \in Lenses /\ None # found
  BY DEF Missing, Records
<1>2. [r.results EXCEPT ![l] = found] \in [Lenses -> {None} \cup SUBSET Paths]
  BY DEF Records
<1>3. /\ c.version = r.version /\ c.cand = r.cand /\ c.tier = r.tier
      /\ c.lenses = r.lenses /\ c.consumed = r.consumed /\ c.attempt = r.attempt
      /\ c.results = [r.results EXCEPT ![l] = found]
      /\ c.state = IF Missing(r) = {l} THEN "findings_frozen" ELSE r.state
  BY DEF Captured, Records
<1>4. c \in Records
  BY <1>2 DEF Captured, Records, LifecycleStates
<1>5. Missing(c) = Missing(r) \ {l}
  BY <1>1, <1>2, <1>3 DEF Missing, Records
<1> QED
  BY <1>3, <1>4, <1>5

(* A record with another version, state or correction has the same         *)
(* findings and the same frozen fields.                                    *)
Alike(r, s) == /\ r.cand = s.cand /\ r.tier = s.tier
               /\ r.lenses = s.lenses /\ r.results = s.results

(* The candidate, tier, lenses and results decide what is missing, whether *)
(* a fix is required, and its scope.                                       *)
LEMMA AlikeSame ==
  ASSUME NEW r, NEW s, Alike(r, s)
  PROVE  /\ Bound(r) <=> Bound(s)
         /\ Missing(r) = Missing(s)
         /\ RequiresFix(r) <=> RequiresFix(s)
         /\ \A id : InScope(r, id) <=> InScope(s, id)
<1>1. Missing(r) = Missing(s)
  BY DEF Alike, Missing
<1>2. FindingPaths(r) = FindingPaths(s)
  BY DEF Alike, FindingPaths
<1>3. Scope(r) = Scope(s)
  BY <1>2 DEF Alike, Scope, RequiresFix
<1> QED
  BY <1>1, <1>2, <1>3 DEF Alike, Bound, RequiresFix, InScope

(* SaveState changes the version and nothing else.                         *)
LEMMA CommittedType ==
  ASSUME NEW r \in Records
  PROVE  LET c == Committed(r)
         IN  /\ c \in Records /\ Alike(c, r) /\ c.version = r.version + 1
             /\ c.state = r.state /\ c.consumed = r.consumed /\ c.attempt = r.attempt
BY DEF Committed, Records, Alike

(* advanceState changes the state and nothing else.                        *)
LEMMA AdvancedType ==
  ASSUME NEW r \in Records, NEW s \in LifecycleStates
  PROVE  LET n == [r EXCEPT !.state = s]
         IN  /\ n \in Records /\ Alike(n, r) /\ n.version = r.version
             /\ n.state = s /\ n.consumed = r.consumed /\ n.attempt = r.attempt
BY DEF Records, Alike

(* review correct spends the budget and notes the attempt, nothing else.   *)
LEMMA CorrectedType ==
  ASSUME NEW r \in Records, NEW id \in Identities
  PROVE  LET c == Corrected(r, id)
         IN  /\ c \in Records /\ Alike(c, r) /\ c.version = r.version
             /\ c.state = r.state /\ c.consumed /\ c.attempt = id
BY DEF Records, Alike, Corrected

(* The walks of finalize and correct keep to the transition table.         *)
LEMMA NextStateType ==
  ASSUME NEW r, r.state \in Walked \cup {"fix_required"}
  PROVE  /\ NextState(r) \in LifecycleStates
         /\ NextState(r) \notin {"unreviewed", "reviewing", "findings_frozen", "escalated"}
         /\ ValidateTransition(r.state, NextState(r))
BY DEF Walked, NextState, LifecycleStates, ValidateTransition, ForwardTransitions,
       TerminalStates

------------------------------------------------------------------------------
(* What a committed record inherits from the one it replaces.              *)

(* What was earned before a save is earned after it.                       *)
LEMMA CommittedJustified ==
  ASSUME NEW r \in Records, Justified(r)
  PROVE  Justified(Committed(r))
<1> DEFINE c == Committed(r)
<1>1. /\ Alike(c, r) /\ c.state = r.state
      /\ c.consumed = r.consumed /\ c.attempt = r.attempt
  BY CommittedType
<1> HIDE DEF c
<1>2. /\ Bound(c) <=> Bound(r)
      /\ Missing(c) = Missing(r)
      /\ RequiresFix(c) <=> RequiresFix(r)
      /\ InScope(c, c.attempt) <=> InScope(r, r.attempt)
  BY <1>1, AlikeSame
<1>3. Tried(c) <=> Tried(r)
  BY <1>1 DEF Tried
<1>4. Justified(c)
  BY <1>1, <1>2, <1>3 DEF Justified
<1> QED
  BY <1>4 DEF c

(* A review that has just begun has nothing to show for.                   *)
LEMMA StartJustified ==
  ASSUME NEW id \in Identities, NEW v \in Nat
  PROVE  Justified(Committed(Started(id, v)))
<1>1. Started(id, v) \in Records
  BY StartedType
<1>2. Justified(Started(id, v))
  BY StartedType DEF Justified
<1> QED
  BY <1>1, <1>2, CommittedJustified

(* Capturing a missing lens moves on only when none is left.               *)
LEMMA CaptureJustified ==
  ASSUME NEW r \in Records, r.state = "reviewing", Justified(r),
         NEW l \in Missing(r), NEW found \in SUBSET Paths
  PROVE  Justified(Committed(Captured(r, l, found)))
<1>0. PICK c : c = Captured(r, l, found)
  OBVIOUS
<1>1. /\ c \in Records /\ c.cand = r.cand /\ c.tier = r.tier
      /\ c.lenses = r.lenses /\ c.consumed = r.consumed
      /\ c.state = IF Missing(r) = {l} THEN "findings_frozen" ELSE r.state
      /\ Missing(c) = Missing(r) \ {l}
  BY <1>0, CapturedType
<1>2. Bound(c)
  BY <1>1 DEF Justified, Bound
<1>3. ~ c.consumed
  BY <1>1 DEF Justified
<1>4. c.state = "reviewing" \/ (c.state = "findings_frozen" /\ Missing(c) = {})
  BY <1>1
<1>5. Justified(c)
  BY <1>2, <1>3, <1>4 DEF Justified
<1> QED
  BY <1>0, <1>1, <1>5, CommittedJustified

(* Each state finalize walks to is earned by the one before.               *)
LEMMA WalkJustified ==
  ASSUME NEW r \in Records, r.state \in Walked, Justified(r)
  PROVE  Justified(Committed([r EXCEPT !.state = NextState(r)]))
<1> DEFINE n == [r EXCEPT !.state = NextState(r)]
<1>1. /\ n \in Records /\ Alike(n, r)
      /\ n.state = NextState(r) /\ n.consumed = r.consumed /\ n.attempt = r.attempt
  BY NextStateType, AdvancedType
<1> HIDE DEF n
<1>2. Justified(n)
  BY <1>1, AlikeSame DEF Justified, Tried, NextState, Walked
<1> QED
  BY <1>1, <1>2, CommittedJustified DEF n

(* fixing and invalidated are told apart by the scope of the attempt.      *)
LEMMA CorrectJustified ==
  ASSUME NEW r \in Records, r.state = "fix_required", Justified(r),
         NEW id \in Identities
  PROVE  LET c == Corrected(r, id)
         IN  Justified(Committed([c EXCEPT !.state = NextState(c)]))
<1> DEFINE c == Corrected(r, id)
           n == [c EXCEPT !.state = NextState(c)]
<1>1. /\ c \in Records /\ Alike(c, r) /\ c.state = "fix_required"
      /\ c.consumed /\ c.attempt = id
  BY CorrectedType
<1>2. NextState(c) = IF InScope(r, id) THEN "fixing" ELSE "invalidated"
  BY <1>1, AlikeSame DEF NextState
<1> HIDE DEF c
<1>3. n \in Records /\ Alike(n, c) /\ n.state = NextState(c) /\ n.consumed /\ n.attempt = id
  BY <1>1, NextStateType, AdvancedType
<1>4. Alike(n, r)
  BY <1>1, <1>3 DEF Alike
<1>5. Justified(n)
  BY <1>2, <1>3, <1>4, AlikeSame DEF Justified, Tried
<1> HIDE DEF n
<1>6. Justified(Committed(n))
  BY <1>3, <1>5, CommittedJustified
<1> QED
  BY <1>6 DEF n, c
------------------------------------------------------------------------------
(* The invariant.                                                          *)

(* The processes other than p are where they were.                         *)
OthersStay(p) ==
  \A q \in Procs \ {p} : pc'[q] = pc[q] /\ mem'[q] = mem[q] /\ built'[q] = built[q]

(* Only an unreviewed record may start, and what a verb picks up is not    *)
(* terminal.                                                               *)
LEMMA LifecycleFacts ==
  /\ \A s : ValidateTransition(s, "reviewing") => s = "unreviewed"
  /\ \A s \in Walked \cup {"reviewing", "fix_required", "unreviewed"} : ~ IsTerminal(s)
BY DEF ValidateTransition, ForwardTransitions, IsTerminal, TerminalStates, Walked

(* A step of p that leaves the files alone and does not bring p to the     *)
(* receipt keeps the invariant if it keeps what p is to hold.              *)
LEMMA QuietStep ==
  ASSUME IInv, NEW p \in Procs, TypeOK', disk' = disk, receipt' = receipt,
         OthersStay(p), ReadsOf(p)', pc'[p] # "receipt"
  PROVE  IInv'
<1>1. ReadsInv'
  <2>1. ASSUME NEW q \in Procs, q # p PROVE ReadsOf(q)'
    BY <2>1 DEF IInv, ReadsInv, ReadsOf, Holds, OthersStay
  <2> QED
    BY <2>1 DEF ReadsInv
<1>2. OneReceiptWriter'
  BY DEF IInv, OneReceiptWriter, OthersStay
<1>3. VerdictJustified' /\ ReceiptTellsTruth'
  BY DEF IInv, VerdictJustified, ReceiptTellsTruth
<1> QED
  BY <1>1, <1>2, <1>3 DEF IInv

(* A save by p outdates what every other process has read.                 *)
LEMMA SavingStep ==
  ASSUME IInv, NEW p \in Procs, TypeOK', disk' # None, receipt' = receipt,
         disk'.version = Version(disk) + 1, ~ IsTerminal(State(disk)),
         OthersStay(p), ReadsOf(p)', Justified(disk'),
         pc'[p] = "receipt" => mem'[p] = disk' /\ IsTerminal(disk'.state)
  PROVE  IInv'
<1>1. Version(disk) \in Nat /\ Version(disk') = Version(disk) + 1
  BY DEF IInv, TypeOK, Version, Records
<1>2. ReadsInv'
  <2>1. ASSUME NEW q \in Procs, q # p PROVE ReadsOf(q)'
    <3>1. ReadsOf(q) /\ mem[q] \in Records \cup {None}
      BY DEF IInv, TypeOK, ReadsInv
    <3>2. Version(mem[q]) \in Nat
      BY <3>1 DEF Version, Records
    <3>3. pc'[q] = pc[q] /\ mem'[q] = mem[q] /\ built'[q] = built[q]
      BY <2>1 DEF OthersStay
    <3>4. mem'[q] # None => mem'[q].version # Version(disk')
      BY <1>1, <3>1, <3>2, <3>3 DEF ReadsOf, Version
    <3>5. Version(mem'[q]) <= Version(disk')
      BY <1>1, <3>1, <3>2, <3>3 DEF ReadsOf
    <3> QED
      BY <3>1, <3>3, <3>4, <3>5 DEF ReadsOf
  <2> QED
    BY <2>1 DEF ReadsInv
<1>3. receipt = None /\ \A q \in Procs : pc[q] # "receipt"
  BY DEF IInv, ReadsInv, ReadsOf, OneReceiptWriter, ReceiptTellsTruth, State
<1>4. OneReceiptWriter' /\ ReceiptTellsTruth'
  BY <1>3 DEF OneReceiptWriter, ReceiptTellsTruth, OthersStay
<1>5. VerdictJustified'
  BY DEF VerdictJustified
<1> QED
  BY <1>2, <1>4, <1>5 DEF IInv

(* No record, or one from before the lifecycle, satisfies the invariant.   *)
LEMMA InitIInv == Init => IInv
<1> SUFFICES ASSUME Init PROVE IInv
  OBVIOUS
<1>1. ASSUME NEW id \in Candidates
      PROVE  Legacy(id) \in Records /\ Legacy(id).state = "unreviewed"
  <2>1. id \in Identities
    BY IdentityType
  <2>2. Started(id, 1) \in Records
    BY <2>1, StartedType
  <2>3. "unreviewed" \in LifecycleStates
    BY DEF LifecycleStates
  <2> QED
    BY <2>2, <2>3, AdvancedType DEF Legacy
<1>2. disk \in Records \cup {None} /\ State(disk) = "unreviewed"
  BY <1>1 DEF Init, State
<1>3. TypeOK
  BY <1>2 DEF Init, TypeOK
<1>4. ReadsInv
  BY <1>2 DEF Init, ReadsInv, ReadsOf, Version, Records
<1>5. OneReceiptWriter /\ ReceiptTellsTruth /\ VerdictJustified
  BY <1>2 DEF Init, OneReceiptWriter, ReceiptTellsTruth, VerdictJustified
<1> QED
  BY <1>3, <1>4, <1>5 DEF IInv

(* What was captured for a lens can be read back.                          *)
LEMMA CapturedResult ==
  ASSUME NEW r \in Records, NEW l \in Missing(r), NEW found \in SUBSET Paths
  PROVE  Captured(r, l, found).results[l] = found /\ found # None
<1>1. l \in Lenses
  BY DEF Missing, Records
<1> QED
  BY <1>1 DEF Captured, Records

(* No step of a process, finished or killed, and no change of the kill     *)
(* switch breaks the invariant.                                            *)
LEMMA NextIInv == IInv /\ [Next]_vars => IInv'
<1> SUFFICES ASSUME IInv, [Next]_vars PROVE IInv'
  OBVIOUS
<1> USE DEF ModeFiles, ValidModes
<1>0. /\ TypeOK /\ ReadsInv
      /\ \A p \in Procs : ReadsOf(p)
      /\ Version(disk) \in Nat
  BY DEF IInv, ReadsInv, TypeOK, Version, Records
<1>1. CASE UNCHANGED vars
  BY <1>1 DEF vars, IInv, TypeOK, ReadsInv, ReadsOf, Holds, OneReceiptWriter,
              VerdictJustified, ReceiptTellsTruth
<1>2. CASE ModeSet
  BY <1>2 DEF ModeSet, local, IInv, TypeOK, ReadsInv, ReadsOf, Holds,
              OneReceiptWriter, VerdictJustified, ReceiptTellsTruth
<1>3. ASSUME NEW p \in Procs, StartMode(p) PROVE IInv'
  <2>1. TypeOK' /\ OthersStay(p) /\ pc'[p] # "receipt"
    BY <1>0, <1>3 DEF StartMode, Goto, TypeOK, Steps, OthersStay
  <2>2. ReadsOf(p)'
    BY <1>0, <1>3 DEF StartMode, Goto, TypeOK, ReadsOf, Holds
  <2> QED
    BY <1>3, <2>1, <2>2, QuietStep DEF StartMode
<1>4. ASSUME NEW p \in Procs, StartBuild(p) PROVE IInv'
  <2>1. PICK id \in Candidates : built' = [built EXCEPT ![p] = id]
    BY <1>4 DEF StartBuild
  <2>2. id \in Identities
    BY IdentityType
  <2>3. TypeOK' /\ OthersStay(p) /\ pc'[p] # "receipt"
    BY <1>0, <1>4, <2>1, <2>2 DEF StartBuild, Goto, TypeOK, Steps, OthersStay
  <2>4. ReadsOf(p)'
    BY <1>0, <1>4, <2>1, <2>2 DEF StartBuild, Goto, TypeOK, ReadsOf, Holds
  <2> QED
    BY <1>4, <2>3, <2>4, QuietStep DEF StartBuild
<1>5. ASSUME NEW p \in Procs, StartLoad(p) PROVE IInv'
  <2>1. built[p] \in Identities
    BY <1>0, <1>5 DEF StartLoad, Goto, TypeOK, ReadsOf
  <2>2. PICK m : m = Started(built[p], Version(disk))
    OBVIOUS
  <2>3. m \in Records /\ m.version = Version(disk) /\ m.cand = built[p]
    BY <1>0, <2>1, <2>2, StartedType
  <2>4. State(disk) = "unreviewed"
    BY <1>5, LifecycleFacts DEF StartLoad
  <2>5. mem' = [mem EXCEPT ![p] = m]
    BY <1>5, <2>2 DEF StartLoad
  <2>6. TypeOK' /\ OthersStay(p) /\ pc'[p] # "receipt"
    BY <1>0, <1>5, <2>3, <2>5 DEF StartLoad, Goto, TypeOK, Steps, OthersStay
  <2>7. Holds(p)'
    BY <1>0, <1>5, <2>2, <2>3, <2>4, <2>5 DEF StartLoad, Goto, TypeOK, Holds
  <2>8. ReadsOf(p)'
    BY <1>0, <1>5, <2>3, <2>5, <2>7 DEF StartLoad, Goto, TypeOK, ReadsOf, Version
  <2> QED
    BY <1>5, <2>6, <2>8, QuietStep DEF StartLoad
<1>6. ASSUME NEW p \in Procs,
             CaptureLoad(p) \/ FinalizeLoad(p) \/ CorrectLoad(p)
      PROVE  IInv'
  <2>1. /\ disk # None /\ disk \in Records
        /\ disk' = disk /\ receipt' = receipt /\ clone' = clone /\ built' = built
        /\ mem' = [mem EXCEPT ![p] = disk]
        /\ \/ pc' = [pc EXCEPT ![p] = "capture"] /\ disk.state = "reviewing"
           \/ pc' = [pc EXCEPT ![p] = "advance"] /\ disk.state \in Walked
           \/ pc' = [pc EXCEPT ![p] = "correct_mode"] /\ disk.state = "fix_required"
    BY <1>0, <1>6 DEF CaptureLoad, FinalizeLoad, CorrectLoad, Goto, TypeOK, State, Walked
  <2>2. TypeOK' /\ OthersStay(p) /\ pc'[p] # "receipt"
    BY <1>0, <2>1 DEF TypeOK, Steps, OthersStay
  <2>3. Holds(p)'
    BY <1>0, <2>1 DEF TypeOK, Holds
  <2>4. ReadsOf(p)'
    BY <1>0, <2>1, <2>3 DEF TypeOK, ReadsOf, Version
  <2> QED
    BY <2>1, <2>2, <2>4, QuietStep
<1>7. ASSUME NEW p \in Procs, CaptureResult(p) PROVE IInv'
  <2>1. /\ mem[p] \in Records /\ mem[p].state = "reviewing"
        /\ mem[p].version = Version(disk) => mem[p] = disk
    BY <1>0, <1>7 DEF CaptureResult, Goto, TypeOK, ReadsOf, Holds
  <2>2. PICK l \in Missing(mem[p]), found \in SUBSET Paths :
          mem' = [mem EXCEPT ![p] = Captured(mem[p], l, found)]
    BY <1>7 DEF CaptureResult
  <2>3. PICK m : m = Captured(mem[p], l, found)
    OBVIOUS
  <2>4. m \in Records /\ m.version = mem[p].version /\ m.results[l] = found /\ found # None
    BY <2>1, <2>2, <2>3, CapturedType, CapturedResult
  <2>5. mem' = [mem EXCEPT ![p] = m]
    BY <2>2, <2>3
  <2>6. TypeOK' /\ OthersStay(p) /\ pc'[p] # "receipt"
    BY <1>0, <1>7, <2>4, <2>5 DEF CaptureResult, Goto, TypeOK, Steps, OthersStay
  <2>7. ASSUME m.version = Version(disk) PROVE Holds(p)'
    <3>1. mem[p] = disk /\ disk # None /\ State(disk) = "reviewing"
      BY <2>1, <2>4, <2>7 DEF State
    <3>2. l \in Missing(disk) /\ m = Captured(disk, l, m.results[l]) /\ m.results[l] # None
      BY <2>2, <2>3, <2>4, <3>1
    <3>3. pc'[p] = "save" /\ mem'[p] = m /\ disk' = disk
      BY <1>0, <1>7, <2>5 DEF CaptureResult, Goto, TypeOK
    <3> QED
      BY <3>1, <3>2, <3>3 DEF Holds
  <2>8. ReadsOf(p)'
    BY <1>0, <1>7, <2>1, <2>4, <2>5, <2>7
       DEF CaptureResult, Goto, TypeOK, ReadsOf, Version
  <2> QED
    BY <1>7, <2>6, <2>8, QuietStep DEF CaptureResult
<1>8. ASSUME NEW p \in Procs, CorrectMode(p) PROVE IInv'
  <2>1. TypeOK' /\ OthersStay(p) /\ pc'[p] # "receipt"
    BY <1>0, <1>8 DEF CorrectMode, Goto, TypeOK, Steps, OthersStay
  <2>2. ReadsOf(p)'
    BY <1>0, <1>8 DEF CorrectMode, Goto, TypeOK, ReadsOf, Holds
  <2> QED
    BY <1>8, <2>1, <2>2, QuietStep DEF CorrectMode
<1>9. ASSUME NEW p \in Procs, CorrectBuild(p) PROVE IInv'
  <2>1. /\ mem[p] \in Records /\ mem[p].state = "fix_required"
        /\ mem[p].version = Version(disk) => mem[p] = disk
    BY <1>0, <1>9 DEF CorrectBuild, Goto, TypeOK, ReadsOf, Holds
  <2>2. PICK id \in Candidates :
          mem' = [mem EXCEPT ![p] = Corrected(mem[p], id)]
    BY <1>9 DEF CorrectBuild
  <2>3. PICK m : m = Corrected(mem[p], id)
    OBVIOUS
  <2>4. id \in Identities
    BY IdentityType
  <2>5. m \in Records /\ m.version = mem[p].version /\ m.attempt = id
    BY <2>1, <2>3, <2>4, CorrectedType
  <2>6. mem' = [mem EXCEPT ![p] = m]
    BY <2>2, <2>3
  <2>7. TypeOK' /\ OthersStay(p) /\ pc'[p] # "receipt"
    BY <1>0, <1>9, <2>5, <2>6 DEF CorrectBuild, Goto, TypeOK, Steps, OthersStay
  <2>8. ASSUME m.version = Version(disk) PROVE Holds(p)'
    <3>1. mem[p] = disk /\ State(disk) = "fix_required"
      BY <2>1, <2>5, <2>8 DEF State
    <3>2. m = Corrected(disk, m.attempt) /\ m.attempt # None
      BY <2>3, <2>4, <2>5, <3>1
    <3>3. pc'[p] = "advance" /\ mem'[p] = m /\ disk' = disk
      BY <1>0, <1>9, <2>6 DEF CorrectBuild, Goto, TypeOK
    <3> QED
      BY <3>1, <3>2, <3>3 DEF Holds
  <2>9. ReadsOf(p)'
    BY <1>0, <1>9, <2>1, <2>5, <2>6, <2>8
       DEF CorrectBuild, Goto, TypeOK, ReadsOf, Version
  <2> QED
    BY <1>9, <2>7, <2>9, QuietStep DEF CorrectBuild
<1>10. ASSUME NEW p \in Procs, Save(p) PROVE IInv'
  <2>1. /\ mem[p] \in Records /\ mem[p].version = Version(disk) /\ Holds(p)
        /\ pc[p] = "save"
    BY <1>0, <1>10 DEF Save, Saves, TypeOK, ReadsOf
  <2>2. PICK d : d = Committed(mem[p])
    OBVIOUS
  <2>3. d \in Records /\ d.version = Version(disk) + 1
    BY <2>1, <2>2, CommittedType
  <2>4. Justified(d) /\ ~ IsTerminal(State(disk))
    <3>1. CASE State(disk) = "unreviewed" /\ mem[p] = Started(mem[p].cand, Version(disk))
      <4>1. mem[p].cand \in Identities
        BY <2>1 DEF Records
      <4> QED
        BY <1>0, <2>2, <3>1, <4>1, StartJustified, LifecycleFacts
    <3>2. CASE /\ State(disk) = "reviewing"
               /\ \E l \in Missing(disk) :
                    mem[p].results[l] # None /\ mem[p] = Captured(disk, l, mem[p].results[l])
      <4>1. disk \in Records /\ disk.state = "reviewing"
        BY <1>0, <3>2 DEF State, TypeOK
      <4>2. PICK l \in Missing(disk) :
              mem[p].results[l] # None /\ mem[p] = Captured(disk, l, mem[p].results[l])
        BY <3>2
      <4>3. mem[p].results[l] \in SUBSET Paths
        <5>1. l \in Lenses
          BY <4>1 DEF Missing, Records
        <5>2. mem[p].results \in [Lenses -> {None} \cup SUBSET Paths]
          BY <2>1 DEF Records
        <5> QED
          BY <4>2, <5>1, <5>2
      <4>4. Justified(disk)
        BY <3>2 DEF IInv, VerdictJustified
      <4> QED
        BY <2>2, <3>2, <4>1, <4>2, <4>3, <4>4, CaptureJustified, LifecycleFacts
    <3> QED
      BY <2>1, <3>1, <3>2 DEF Holds
  <2>5. /\ disk' = d /\ disk' # None
        /\ pc' = [pc EXCEPT ![p] = "idle"] /\ mem' = [mem EXCEPT ![p] = None]
        /\ built' = [built EXCEPT ![p] = None]
        /\ UNCHANGED <<receipt, clone>>
    BY <1>10, <2>2, <2>3 DEF Save, Leave
  <2>6. TypeOK' /\ OthersStay(p) /\ pc'[p] # "receipt"
    BY <1>0, <2>3, <2>5 DEF TypeOK, OthersStay
  <2>7. ReadsOf(p)'
    BY <1>0, <2>3, <2>5 DEF TypeOK, ReadsOf, Version
  <2> QED
    BY <2>3, <2>4, <2>5, <2>6, <2>7, SavingStep
<1>11. ASSUME NEW p \in Procs, Advance(p) PROVE IInv'
  <2>1. PICK next : next = [mem[p] EXCEPT !.state = NextState(mem[p])]
    OBVIOUS
  <2>2. /\ pc[p] = "advance" /\ Saves(next) /\ disk' = Committed(next)
        /\ UNCHANGED <<receipt, clone>>
        /\ IF next.state \in Stops
             THEN Leave(p)
             ELSE /\ mem' = [mem EXCEPT ![p] = Committed(next)]
                  /\ pc' = [pc EXCEPT ![p] = IF IsTerminal(next.state) THEN "receipt" ELSE @]
                  /\ UNCHANGED built
    BY <1>11, <2>1 DEF Advance
  <2>3. mem[p] \in Records
    BY <1>0, <2>2 DEF TypeOK, ReadsOf
  <2>4. next.version = mem[p].version
    BY <2>1, <2>3 DEF Records
  <2>5. Holds(p) /\ mem[p].version = Version(disk)
    BY <1>0, <2>2, <2>3, <2>4 DEF Saves, ReadsOf
  <2>6. /\ disk \in Records /\ State(disk) = disk.state
        /\ disk.state \in Walked \cup {"fix_required"}
        /\ mem[p].state = disk.state
        /\ ~ IsTerminal(State(disk)) /\ Justified(disk)
    <3>1. disk # None
      BY <2>2, <2>3, <2>5 DEF Holds, State
    <3>2. disk \in Records /\ State(disk) = disk.state
      BY <1>0, <3>1 DEF TypeOK, State
    <3>3. disk.state \in Walked \cup {"fix_required"} /\ mem[p].state = disk.state
      BY <2>2, <2>5, <3>2 DEF Holds, Corrected, Records
    <3> QED
      BY <3>2, <3>3, LifecycleFacts DEF IInv, VerdictJustified, Walked
  <2>7. /\ NextState(mem[p]) \in LifecycleStates
        /\ NextState(mem[p]) \notin {"unreviewed", "reviewing", "findings_frozen", "escalated"}
    BY <2>6, NextStateType
  <2>8. next \in Records /\ next.state = NextState(mem[p])
    BY <2>1, <2>3, <2>7, AdvancedType
  <2>9. PICK d : d = Committed(next)
    OBVIOUS
  <2>10. /\ d \in Records /\ d # None /\ d.version = Version(disk) + 1
         /\ d.state = next.state /\ d.version \in Nat
    BY <2>4, <2>5, <2>8, <2>9, <1>0, CommittedType
  <2>11. Justified(d)
    <3>1. CASE mem[p] = disk /\ disk.state \in Walked
      BY <2>1, <2>6, <2>9, <3>1, WalkJustified
    <3>2. CASE /\ State(disk) = "fix_required"
               /\ mem[p].attempt # None
               /\ mem[p] = Corrected(disk, mem[p].attempt)
      <4>1. mem[p].attempt \in Identities
        BY <2>3, <3>2 DEF Records
      <4> QED
        BY <2>1, <2>6, <2>9, <3>2, <4>1, CorrectJustified
    <3> QED
      BY <2>2, <2>5, <3>1, <3>2 DEF Holds
  <2>12. CASE next.state \in Stops
    <3>1. /\ disk' = d
          /\ pc' = [pc EXCEPT ![p] = "idle"] /\ mem' = [mem EXCEPT ![p] = None]
          /\ built' = [built EXCEPT ![p] = None]
      BY <2>2, <2>9, <2>12 DEF Leave
    <3>2. TypeOK' /\ OthersStay(p) /\ pc'[p] # "receipt"
      BY <1>0, <2>2, <2>10, <3>1 DEF TypeOK, OthersStay
    <3>3. ReadsOf(p)'
      BY <1>0, <2>10, <3>1 DEF TypeOK, ReadsOf, Version
    <3> QED
      BY <2>2, <2>6, <2>10, <2>11, <3>1, <3>2, <3>3, SavingStep
  <2>13. CASE next.state \notin Stops
    <3>1. /\ disk' = d /\ mem' = [mem EXCEPT ![p] = d] /\ built' = built
          /\ pc' = [pc EXCEPT ![p] = IF IsTerminal(d.state) THEN "receipt" ELSE pc[p]]
      BY <2>2, <2>9, <2>10, <2>13
    <3>2. IsTerminal(d.state) \/ d.state \in Walked
      BY <2>7, <2>8, <2>10, <2>13
         DEF LifecycleStates, Walked, Stops, IsTerminal, TerminalStates
    <3>3. TypeOK' /\ OthersStay(p)
      BY <1>0, <2>2, <2>10, <3>1 DEF TypeOK, OthersStay, Steps
    <3>4. mem'[p] = d /\ pc'[p] \in {"receipt", "advance"}
      BY <1>0, <2>2, <3>1 DEF TypeOK
    <3>5. pc'[p] = "receipt" <=> IsTerminal(d.state)
      BY <1>0, <2>2, <3>1 DEF TypeOK
    <3>6. Holds(p)'
      BY <3>1, <3>2, <3>4, <3>5 DEF Holds
    <3>7. ReadsOf(p)'
      BY <2>10, <3>1, <3>4, <3>6 DEF ReadsOf, Version
    <3> QED
      BY <2>2, <2>6, <2>10, <2>11, <3>1, <3>3, <3>4, <3>5, <3>7, SavingStep
  <2> QED
    BY <2>12, <2>13
<1>12. ASSUME NEW p \in Procs, Refused(p) \/ Decline(p) \/ Abort(p) PROVE IInv'
  <2>1. Leave(p) /\ UNCHANGED <<disk, receipt, clone>>
    BY <1>12 DEF Refused, Decline, Abort
  <2>2. TypeOK' /\ OthersStay(p) /\ pc'[p] # "receipt"
    BY <1>0, <2>1 DEF Leave, TypeOK, OthersStay
  <2>3. ReadsOf(p)'
    BY <1>0, <2>1 DEF Leave, TypeOK, ReadsOf, Version
  <2> QED
    BY <2>1, <2>2, <2>3, QuietStep
<1>13. ASSUME NEW p \in Procs, WriteReceipt(p) PROVE IInv'
  <2>1. /\ receipt = None /\ mem[p] = disk /\ IsTerminal(disk.state)
        /\ \A q \in Procs \ {p} : pc[q] # "receipt"
    BY <1>13 DEF WriteReceipt, IInv, OneReceiptWriter
  <2>2. disk \in Records
    BY <1>0, <1>13, <2>1 DEF WriteReceipt, TypeOK, ReadsOf
  <2>3. ReceiptOf(disk) \in Receipts
    BY <2>1, <2>2 DEF ReceiptOf, Records, Receipts, IsTerminal
  <2>4. /\ receipt' = ReceiptOf(disk) /\ disk' = disk /\ clone' = clone
        /\ Leave(p)
    BY <1>13, <2>1 DEF WriteReceipt
  <2>5. TypeOK'
    BY <1>0, <2>3, <2>4 DEF TypeOK, Leave
  <2>6. ReadsInv'
    <3>1. ReadsOf(p)'
      BY <1>0, <2>4 DEF Leave, TypeOK, ReadsOf, Version
    <3>2. ASSUME NEW q \in Procs, q # p PROVE ReadsOf(q)'
      <4>1. pc'[q] = pc[q] /\ mem'[q] = mem[q] /\ built'[q] = built[q]
        BY <1>0, <2>4, <3>2 DEF Leave, TypeOK
      <4> QED
        BY <1>0, <2>4, <4>1 DEF ReadsOf, Holds
    <3> QED
      BY <3>1, <3>2 DEF ReadsInv
  <2>7. \A q \in Procs : pc'[q] # "receipt"
    BY <1>0, <2>1, <2>4 DEF Leave, TypeOK
  <2>8. OneReceiptWriter'
    BY <2>7 DEF OneReceiptWriter
  <2>9. VerdictJustified'
    BY <2>4 DEF IInv, VerdictJustified
  <2>10. ReceiptTellsTruth'
    BY <2>1, <2>2, <2>4 DEF ReceiptTellsTruth, State
  <2> QED
    BY <2>5, <2>6, <2>8, <2>9, <2>10 DEF IInv
<1> QED
  BY <1>1, <1>2, <1>3, <1>4, <1>5, <1>6, <1>7, <1>8, <1>9, <1>10, <1>11, <1>12,
     <1>13 DEF Next, Call, Step

(* The invariant holds in every state of every run.                        *)
THEOREM Invariance == Spec => []IInv
<1> QED
  BY InitIInv, NextIInv, PTL DEF Spec

(* Records, receipts and process states keep their types.                  *)
THEOREM TypeCorrect == Spec => []TypeOK
BY Invariance, PTL DEF IInv

(* Every verdict on disk is earned: all mandated lenses have reported, and *)
(* a fix was made, once and in scope, exactly when a finding asked for it. *)
THEOREM VerdictJustifiedAlways == Spec => []VerdictJustified
BY Invariance, PTL DEF IInv

(* At most one process ever comes to write the receipt, and what it is     *)
(* about to write is what the disk says.                                   *)
THEOREM OneReceiptWriterAlways == Spec => []OneReceiptWriter
BY Invariance, PTL DEF IInv

(* The receipt agrees with the record for ever after it was written.       *)
THEOREM ReceiptTellsTruthAlways == Spec => []ReceiptTellsTruth
BY Invariance, PTL DEF IInv

------------------------------------------------------------------------------
(* The refinement.                                                         *)

(* The refinement mapping: a record without its version.                   *)
Bar(r) == IF r = None THEN None ELSE [r EXCEPT !.version = 0]

(* The version is the only thing the mapping drops.                        *)
LEMMA BarAlike ==
  ASSUME NEW r \in Records
  PROVE  /\ Bar(r) # None /\ Alike(Bar(r), r) /\ State(Bar(r)) = r.state
         /\ Bar(r).state = r.state /\ Bar(r).consumed = r.consumed
         /\ Bar(r) \in Records
         /\ ReceiptOf(Bar(r)) = ReceiptOf(r)
<1>1. r # None
  OBVIOUS
<1>2. Bar(r) = [r EXCEPT !.version = 0]
  BY <1>1 DEF Bar
<1>3. Bar(r) \in Records
  BY <1>2 DEF Records
<1>4. /\ Alike(Bar(r), r)
      /\ Bar(r).state = r.state /\ Bar(r).consumed = r.consumed
  BY <1>2 DEF Records, Alike
<1>5. ReceiptOf(Bar(r)) = ReceiptOf(r)
  BY <1>4 DEF ReceiptOf, Alike
<1> QED
  BY <1>3, <1>4, <1>5 DEF State

(* Saved, a started review is the one the promise begins.                  *)
LEMMA BarStarted ==
  ASSUME NEW id \in Identities, NEW v \in Nat
  PROVE  Bar(Committed(Started(id, v))) = Started(id, 0)
<1>1. Committed(Started(id, v)) \in Records
  BY StartedType, CommittedType
<1>2. Committed(Started(id, v)) # None
  BY <1>1
<1> QED
  BY <1>2 DEF Bar, Committed, Started

(* Saved, a captured result is the one the promise captures.               *)
LEMMA BarCaptured ==
  ASSUME NEW r \in Records, NEW l \in Missing(r), NEW found \in SUBSET Paths
  PROVE  Bar(Committed(Captured(r, l, found))) = Captured(Bar(r), l, found)
<1>1. Captured(r, l, found) \in Records
  BY CapturedType
<1>2. Committed(Captured(r, l, found)) # None /\ r # None
  BY <1>1, CommittedType
<1>3. Missing(Bar(r)) = Missing(r)
  BY BarAlike, AlikeSame
<1> QED
  BY <1>2, <1>3 DEF Bar, Committed, Captured, Records

(* Saved, a new state is the new state of the promised review.             *)
LEMMA BarAdvanced ==
  ASSUME NEW r \in Records, NEW s \in LifecycleStates
  PROVE  Bar(Committed([r EXCEPT !.state = s])) = [Bar(r) EXCEPT !.state = s]
<1>1. Committed([r EXCEPT !.state = s]) # None /\ r # None
  BY AdvancedType, CommittedType
<1> QED
  BY <1>1 DEF Bar, Committed, Records

(* Saved, a correction is the one the promise tries.                       *)
LEMMA BarCorrected ==
  ASSUME NEW r \in Records, NEW id \in Identities, NEW s \in LifecycleStates
  PROVE  Bar(Committed([Corrected(r, id) EXCEPT !.state = s]))
           = [Corrected(Bar(r), id) EXCEPT !.state = s]
<1>1. Committed([Corrected(r, id) EXCEPT !.state = s]) # None /\ r # None
  BY CorrectedType, AdvancedType, CommittedType
<1> QED
  BY <1>1 DEF Bar, Committed, Corrected, Records

(* The promise uses the very operators of ReviewRecord.tla.                *)
LEMMA SameOperators ==
  /\ Promise!LifecycleStates = LifecycleStates
  /\ Promise!ForwardTransitions = ForwardTransitions
  /\ Promise!Identities = Identities
  /\ Promise!Records = Records
  /\ \A s : Promise!IsTerminal(s) <=> IsTerminal(s)
  /\ \A r : Promise!State(r) = State(r)
  /\ \A r : Promise!Missing(r) = Missing(r)
  /\ \A r : Promise!RequiresFix(r) <=> RequiresFix(r)
  /\ \A r : Promise!ReceiptOf(r) = ReceiptOf(r)
  /\ \A r, id : Promise!InScope(r, id) <=> InScope(r, id)
  /\ \A r, id : Promise!Corrected(r, id) = Corrected(r, id)
  /\ \A r, l, found : Promise!Captured(r, l, found) = Captured(r, l, found)
  /\ \A id, v : Promise!Started(id, v) = Started(id, v)
<1>1. /\ Promise!LifecycleStates = LifecycleStates
      /\ Promise!ForwardTransitions = ForwardTransitions
      /\ Promise!TerminalStates = TerminalStates
      /\ Promise!Trees = Trees /\ Promise!Tiers = Tiers
  BY DEF Promise!LifecycleStates, LifecycleStates, Promise!ForwardTransitions,
         ForwardTransitions, Promise!TerminalStates, TerminalStates,
         Promise!Trees, Trees, Promise!Tiers, Tiers
<1>2. Promise!Identities = Identities
  BY <1>1 DEF Promise!Identities, Identities
<1>3. Promise!Records = Records
  BY <1>1, <1>2 DEF Promise!Records, Records
<1>4. \A s : Promise!IsTerminal(s) <=> IsTerminal(s)
  BY <1>1 DEF Promise!IsTerminal, IsTerminal
<1>5. \A r : /\ Promise!State(r) = State(r)
             /\ Promise!Missing(r) = Missing(r)
             /\ Promise!FindingPaths(r) = FindingPaths(r)
             /\ Promise!ReceiptOf(r) = ReceiptOf(r)
  BY DEF Promise!State, State, Promise!Missing, Missing, Promise!FindingPaths,
         FindingPaths, Promise!ReceiptOf, ReceiptOf
<1>6. \A r : Promise!RequiresFix(r) <=> RequiresFix(r)
  BY <1>5 DEF Promise!RequiresFix, RequiresFix
<1>7. \A a, b : Promise!ChangedPaths(a, b) = ChangedPaths(a, b)
  BY DEF Promise!ChangedPaths, ChangedPaths
<1>8. \A r : Promise!Scope(r) = Scope(r)
  BY <1>5, <1>6, <1>7 DEF Promise!Scope, Scope
<1>9. \A r, id : Promise!InScope(r, id) <=> InScope(r, id)
  BY <1>7, <1>8 DEF Promise!InScope, InScope, Promise!PathScopeCheck, PathScopeCheck
<1>10. \A r, id : Promise!Corrected(r, id) = Corrected(r, id)
  BY DEF Promise!Corrected, Corrected
<1>11. \A r, l, found : Promise!Captured(r, l, found) = Captured(r, l, found)
  BY <1>5 DEF Promise!Captured, Captured
<1>12. \A changed : Promise!Classify(changed) = Classify(changed)
  BY DEF Promise!Classify, Classify
<1>13. \A tier : Promise!SelectLenses(tier) = SelectLenses(tier)
  BY DEF Promise!SelectLenses, SelectLenses
<1>14. \A id, v : Promise!Started(id, v) = Started(id, v)
  BY <1>7, <1>12, <1>13 DEF Promise!Started, Started
<1> QED
  BY <1>1, <1>2, <1>3, <1>4, <1>5, <1>6, <1>9, <1>10, <1>11, <1>14

(* The save of review start begins, that of capture-result captures.       *)
LEMMA SaveKeepsPromise ==
  ASSUME IInv, NEW p \in Procs, Save(p)
  PROVE  Promise!Begin \/ Promise!Capture
<1>1. /\ mem[p] \in Records /\ mem[p].version = Version(disk) /\ Holds(p)
      /\ disk' = Committed(mem[p]) /\ receipt' = receipt
      /\ Version(disk) \in Nat /\ pc[p] = "save" /\ disk \in Records \cup {None}
  BY DEF Save, Saves, IInv, TypeOK, ReadsInv, ReadsOf, Version, Records
<1>2. CASE State(disk) = "unreviewed" /\ mem[p] = Started(mem[p].cand, Version(disk))
  <2>1. mem[p].cand \in Identities
    BY <1>1 DEF Records
  <2>2. Bar(disk') = Started(mem[p].cand, 0)
    BY <1>1, <1>2, <2>1, BarStarted
  <2>3. State(Bar(disk)) = "unreviewed"
    <3>1. CASE disk = None
      BY <3>1 DEF Bar, State
    <3>2. CASE disk \in Records
      BY <1>2, <3>2, BarAlike DEF State
    <3> QED
      BY <1>1, <3>1, <3>2
  <2> QED
    BY <1>1, <2>1, <2>2, <2>3, SameOperators DEF Promise!Begin, Bar
<1>3. CASE /\ State(disk) = "reviewing"
           /\ \E l \in Missing(disk) :
                mem[p].results[l] # None /\ mem[p] = Captured(disk, l, mem[p].results[l])
  <2>1. disk \in Records /\ disk.state = "reviewing"
    BY <1>1, <1>3 DEF State
  <2>2. PICK l \in Missing(disk) :
          mem[p].results[l] # None /\ mem[p] = Captured(disk, l, mem[p].results[l])
    BY <1>3
  <2>3. PICK found : found = mem[p].results[l]
    OBVIOUS
  <2>4. found \in SUBSET Paths
    <3>1. l \in Lenses
      BY <2>1 DEF Missing, Records
    <3>2. mem[p].results \in [Lenses -> {None} \cup SUBSET Paths]
      BY <1>1 DEF Records
    <3> QED
      BY <2>2, <2>3, <3>1, <3>2
  <2>5. Bar(disk') = Captured(Bar(disk), l, found)
    BY <1>1, <2>1, <2>2, <2>3, <2>4, BarCaptured
  <2>6. l \in Missing(Bar(disk)) /\ State(Bar(disk)) = "reviewing"
    BY <2>1, BarAlike, AlikeSame
  <2> QED
    BY <1>1, <2>4, <2>5, <2>6, SameOperators DEF Promise!Capture, Bar
<1> QED
  BY <1>1, <1>2, <1>3 DEF Holds

(* Every save on the walk of finalize proceeds; the first of review        *)
(* correct tries the one correction.                                       *)
LEMMA AdvanceKeepsPromise ==
  ASSUME IInv, NEW p \in Procs, Advance(p)
  PROVE  Promise!Proceed \/ Promise!Correct
<1>1. PICK next : next = [mem[p] EXCEPT !.state = NextState(mem[p])]
  OBVIOUS
<1>2. /\ pc[p] = "advance" /\ Saves(next) /\ disk' = Committed(next)
      /\ ValidateTransition(mem[p].state, NextState(mem[p])) /\ receipt' = receipt
      /\ mem[p] \in Records /\ disk \in Records \cup {None}
  <2>1. mem[p] \in Records /\ disk \in Records \cup {None}
    BY DEF Advance, IInv, TypeOK, ReadsInv, ReadsOf
  <2>2. next.state = NextState(mem[p])
    BY <1>1, <2>1 DEF Records
  <2> QED
    BY <1>1, <2>1, <2>2 DEF Advance
<1>3. Holds(p)
  <2>1. next.version = mem[p].version
    BY <1>1, <1>2 DEF Records
  <2> QED
    BY <1>2, <2>1 DEF IInv, ReadsInv, ReadsOf, Saves
<1>4. CASE mem[p] = disk /\ disk.state \in Walked
  <2>1. disk \in Records
    BY <1>2, <1>4
  <2>2. PICK s : s = NextState(disk)
    OBVIOUS
  <2>3. /\ s \in LifecycleStates /\ <<disk.state, s>> \in ForwardTransitions
        /\ s # "escalated"
        /\ disk.state = "evidence_classified" =>
             (s = "fix_required" <=> RequiresFix(disk))
    BY <1>4, <2>2 DEF Walked, NextState, LifecycleStates, ForwardTransitions
  <2>4. Bar(disk') = [Bar(disk) EXCEPT !.state = s]
    BY <1>1, <1>2, <1>4, <2>1, <2>2, <2>3, BarAdvanced
  <2>5. /\ Bar(disk) # None /\ Bar(disk).state = disk.state
        /\ RequiresFix(Bar(disk)) <=> RequiresFix(disk)
    BY <2>1, BarAlike, AlikeSame
  <2>6. Promise!Proceed
    BY <1>2, <1>4, <2>3, <2>4, <2>5, SameOperators DEF Promise!Proceed, Bar, Walked
  <2> QED
    BY <2>6
<1>5. CASE /\ State(disk) = "fix_required"
           /\ mem[p].attempt # None
           /\ mem[p] = Corrected(disk, mem[p].attempt)
  <2>1. disk \in Records /\ disk.state = "fix_required"
    BY <1>2, <1>5 DEF State
  <2>2. PICK id \in Identities : mem[p] = Corrected(disk, id)
    BY <1>2, <1>5 DEF Records
  <2>3. ~ disk.consumed
    BY <1>5, <2>1 DEF IInv, VerdictJustified, Justified
  <2>4. PICK s : s = NextState(mem[p])
    OBVIOUS
  <2>5. s = IF InScope(disk, id) THEN "fixing" ELSE "invalidated"
    <3>1. mem[p].state = "fix_required" /\ mem[p].attempt = id /\ Alike(mem[p], disk)
      BY <2>1, <2>2, CorrectedType
    <3> QED
      BY <2>4, <3>1, AlikeSame DEF NextState
  <2>6. Bar(disk') = [Corrected(Bar(disk), id) EXCEPT !.state = s]
    <3>1. s \in LifecycleStates
      BY <2>5 DEF LifecycleStates
    <3> QED
      BY <1>1, <1>2, <2>1, <2>2, <2>4, <3>1, BarCorrected
  <2>7. /\ State(Bar(disk)) = "fix_required" /\ ~ Bar(disk).consumed
        /\ InScope(Bar(disk), id) <=> InScope(disk, id)
    BY <2>1, <2>3, BarAlike, AlikeSame
  <2>8. Promise!Correct
    BY <1>2, <2>2, <2>5, <2>6, <2>7, SameOperators DEF Promise!Correct, Bar
  <2> QED
    BY <2>8
<1> QED
  BY <1>2, <1>3, <1>4, <1>5 DEF Holds

(* Writing the receipt issues it.                                          *)
LEMMA WriteReceiptKeepsPromise ==
  ASSUME IInv, NEW p \in Procs, WriteReceipt(p)
  PROVE  Promise!Issue
<1>1. /\ receipt = None /\ mem[p] = disk /\ IsTerminal(disk.state) /\ disk \in Records
      /\ receipt' = ReceiptOf(disk) /\ disk' = disk
  BY DEF WriteReceipt, IInv, TypeOK, ReadsInv, ReadsOf, OneReceiptWriter
<1>2. ReceiptOf(Bar(disk)) = ReceiptOf(disk) /\ State(Bar(disk)) = disk.state
  BY <1>1, BarAlike
<1> QED
  BY <1>1, <1>2, SameOperators DEF Promise!Issue, Bar

(* Every step is a step of the promise, or leaves record and receipt       *)
(* alone.                                                                  *)
LEMMA StepKeepsPromise == IInv /\ [Next]_vars => [Promise!Next]_(Promise!vars)
<1> SUFFICES ASSUME IInv, [Next]_vars PROVE [Promise!Next]_(Promise!vars)
  OBVIOUS
<1>1. ASSUME disk' = disk, receipt' = receipt PROVE UNCHANGED Promise!vars
  BY <1>1 DEF Promise!vars
<1>2. CASE UNCHANGED vars \/ ModeSet
  BY <1>1, <1>2 DEF vars, ModeSet
<1>3. ASSUME NEW p \in Procs, Call(p) \/ Decline(p) \/ Abort(p) \/ Refused(p)
      PROVE  UNCHANGED Promise!vars
  BY <1>1, <1>3 DEF Call, StartMode, CaptureLoad, FinalizeLoad, CorrectLoad, Decline,
                    Abort, Refused
<1>4. ASSUME NEW p \in Procs,
             StartBuild(p) \/ StartLoad(p) \/ CaptureResult(p) \/ CorrectMode(p)
               \/ CorrectBuild(p)
      PROVE  UNCHANGED Promise!vars
  BY <1>1, <1>4 DEF StartBuild, StartLoad, CaptureResult, CorrectMode, CorrectBuild
<1>5. ASSUME NEW p \in Procs, Save(p) \/ Advance(p) \/ WriteReceipt(p)
      PROVE  Promise!Next
  BY <1>5, SaveKeepsPromise, AdvanceKeepsPromise, WriteReceiptKeepsPromise
     DEF Promise!Next
<1> QED
  BY <1>2, <1>3, <1>4, <1>5 DEF Next, Step

(* However many processes run the verbs, the record on disk, its version   *)
(* left aside, and the receipt go through one run of ReviewPromise.tla.    *)
THEOREM ImplementsPromiseAlways == Spec => ImplementsPromise
<1>1. Init => Promise!Init
  <2> SUFFICES ASSUME Init PROVE Promise!Init
    OBVIOUS
  <2>1. disk \in Records \cup {None} /\ State(disk) = "unreviewed"
    <3>1. TypeOK
      BY InitIInv DEF IInv
    <3>2. State(disk) = "unreviewed"
      <4>1. CASE disk = None
        BY <4>1 DEF State
      <4>2. ASSUME NEW id \in Candidates, disk = Legacy(id)
            PROVE  State(disk) = "unreviewed"
        <5>1. Started(id, 1) \in Records
          BY IdentityType, StartedType
        <5> QED
          BY <4>2, <5>1 DEF Legacy, State, Records
      <4> QED
        BY <4>1, <4>2 DEF Init
    <3> QED
      BY <3>1, <3>2 DEF TypeOK
  <2>2. CASE disk = None
    BY <2>2 DEF Init, Promise!Init
  <2>3. CASE disk \in Records
    <3>1. Bar(disk) \in Records /\ Bar(disk).state = "unreviewed"
      BY <2>1, <2>3, BarAlike DEF State
    <3> QED
      BY <3>1, SameOperators DEF Init, Promise!Init, Bar
  <2> QED
    BY <2>1, <2>2, <2>3
<1>2. IInv /\ [Next]_vars => [Promise!Next]_(Promise!vars)
  BY StepKeepsPromise
<1> QED
  BY <1>1, <1>2, Invariance, PTL DEF Spec, ImplementsPromise, Promise!Spec
==============================================================================
