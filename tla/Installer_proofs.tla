--------------------------- MODULE Installer_proofs ---------------------------
(***************************************************************************)
(* Theorems about the commands that install, remove and restore, for any   *)
(* catalog, any instruction directories, any releases and any number of    *)
(* commands, failures and kills.                                           *)
(***************************************************************************)
EXTENDS Installer, TLAPS

USE ItemsAssumption, LabelAssumption, RestorableAssumption, ReleaseAssumption,
    ContentsAssumption, RankAssumption, NoneAssumption, BoundAssumption
USE DEF Files, Items, Managed

------------------------------------------------------------------------------
(* What a backup holds.                                                    *)

(* A new backup is one.                                                    *)
LEMMA NewManifestIsExact ==
  ASSUME NEW d \in [Items -> Contents]
  PROVE  NewManifest(d) \in Manifests /\ Exact(NewManifest(d))
BY DEF NewManifest, Manifests, Contents, Exact, Brings

(* So is what an interrupted deletion leaves.                              *)
LEMMA CutsAreManifests ==
  ASSUME NEW m \in Manifests, NEW n \in Cuts(m)
  PROVE  n \in Manifests /\ (Exact(m) => Exact(n))
<1>1. PICK lost \in SUBSET {Label[s] : s \in Skills \cap m.existed} :
        n = [m EXCEPT !.whole = FALSE,
                      !.copies = [l \in Labels |-> IF l \in lost THEN Torn ELSE m.copies[l]]]
  BY DEF Cuts
<1>2. [l \in Labels |-> IF l \in lost THEN Torn ELSE m.copies[l]] \in [Labels -> Contents]
  BY DEF Manifests, Contents
<1>3. n \in Manifests
  BY <1>1, <1>2 DEF Manifests
<1>4. n.listed = m.listed /\ n.existed = m.existed /\ n.whole = FALSE
  BY <1>1 DEF Manifests
<1> QED
  BY <1>3, <1>4 DEF Exact

(* Copying one more item gives a manifest again.                           *)
LEMMA WithSnapshotType ==
  ASSUME NEW m \in Manifests, NEW d \in [Items -> Contents], NEW i \in Items
  PROVE  WithSnapshot(m, d, i) \in Manifests
BY DEF WithSnapshot, Manifests

(* ... that brings back what it lists, as long as the disk is what it was  *)
(* when the backup was begun and the item is copied once.                  *)
LEMMA WithSnapshotIsExact ==
  ASSUME NEW m \in Manifests, NEW d \in [Items -> Contents], NEW i \in Items,
         Exact(m), m.whole, m.before = d, i \notin m.listed
  PROVE  Exact(WithSnapshot(m, d, i))
<1> DEFINE n == WithSnapshot(m, d, i)
<1>1. /\ n.listed = m.listed \cup {i}
      /\ n.existed = IF d[i] = Absent THEN m.existed ELSE m.existed \cup {i}
      /\ n.copies = IF d[i] = Absent THEN m.copies
                    ELSE [m.copies EXCEPT ![Label[i]] = d[i]]
      /\ n.before = d
  BY DEF WithSnapshot, Manifests
<1>2. i \notin m.existed
  BY DEF Exact
<1>3. ASSUME LabelsApart(n) PROVE \A j \in n.listed : Brings(n, j)
  <2>1. LabelsApart(m)
    BY <1>1, <1>3 DEF LabelsApart
  <2>2. Brings(n, i)
    BY <1>1, <1>2 DEF Brings, Saved, Manifests
  <2>3. ASSUME NEW j \in m.listed PROVE Brings(n, j)
    <3>1. Label[j] # Label[i]
      BY <1>1, <1>3 DEF LabelsApart, Manifests
    <3>2. Brings(m, j)
      BY <2>1 DEF Exact
    <3>3. j \in n.existed <=> j \in m.existed
      BY <1>1, <3>1
    <3>4. n.copies[Label[j]] = m.copies[Label[j]]
      BY <1>1, <3>1 DEF Manifests
    <3> QED
      BY <1>1, <3>2, <3>3, <3>4 DEF Brings, Saved
  <2> QED
    BY <1>1, <2>2, <2>3
<1> QED
  BY <1>1, <1>3 DEF Exact

(* Skills and agents never share the name of their copies.                 *)
LEMMA ManagedApart ==
  ASSUME NEW m, m.listed \subseteq Managed
  PROVE  LabelsApart(m)
BY DEF LabelsApart

(* What Restore writes is some content.                                    *)
LEMMA TargetType ==
  ASSUME TypeOK, NEW i \in Items
  PROVE  Target(i) \in Contents
BY DEF TypeOK, Target, Saved, Manifests, Contents, Releases

------------------------------------------------------------------------------
(* Types.                                                                  *)

(* Half of the work on an item leaves some content.                        *)
LEMMA HalfwayType ==
  ASSUME TypeOK, NEW i \in Items
  PROVE  Halfway(i) \subseteq Contents
BY DEF TypeOK, Halfway, Contents

(* The ledger keeps its type.                                              *)
LEMMA RecordType ==
  ASSUME TypeOK, NEW S, Record(S)
  PROVE  recorded' \in [Managed -> Releases \cup {None}]
BY DEF TypeOK, Record

(* To be done with an item keeps the types.                                *)
LEMMA FinishedType ==
  ASSUME TypeOK, NEW i \in todo, Finished(i)
  PROVE  /\ todo' \subseteq Items /\ done' \subseteq Items
         /\ wrote' \in [Managed -> SUBSET Releases]
BY DEF TypeOK, Finished

(* What comes first is among what there is.                                *)
LEMMA FirstIn == \A S : First(S) \subseteq S
BY DEF First

(* A command that begins has its types.                                    *)
LEMMA BeginType ==
  ASSUME TypeOK, NEW v \in Verbs, NEW items \in SUBSET Items,
         NEW removals \in SUBSET Items, NEW copied \in SUBSET Items,
         Begin(v, items, removals, copied)
  PROVE  TypeOK'
<1>1. man' \in Manifests
  BY NewManifestIsExact DEF TypeOK, Begin
<1> QED
  BY <1>1 DEF TypeOK, Begin, Move, state, PCs

(* Every step keeps the types.                                             *)
LEMMA TypeStep == TypeOK /\ [Next]_vars => TypeOK'
<1> SUFFICES ASSUME TypeOK, [Next]_vars PROVE TypeOK'
  OBVIOUS
<1> USE DEF state, plan, world
<1>1. CASE Install
  BY <1>1, BeginType DEF Install, Recorded, Verbs
<1>2. CASE Uninstall
  BY <1>2, BeginType DEF Uninstall, Recorded, Verbs
<1>3. CASE Select
  <2>1. PICK wish \in SUBSET Skills :
          Begin("select", (wish \ seen) \cup (seen \ wish), seen \ wish,
                (wish \ seen) \cup (seen \ wish))
    BY <1>3 DEF Select
  <2>2. seen \subseteq Skills
    BY DEF TypeOK
  <2> QED
    BY <2>1, <2>2, BeginType DEF Verbs
<1>4. CASE Sync
  BY <1>4, BeginType DEF Sync, Verbs
<1>5. CASE Instructions
  BY <1>5, BeginType DEF Instructions, Verbs
<1>6. CASE Restore
  BY <1>6 DEF Restore, Move, TypeOK, Manifests, Verbs, PCs
<1>7. CASE Purge
  BY <1>7 DEF Purge, Move, TypeOK, Recorded, Verbs, PCs
<1>8. CASE Delete
  BY <1>8, CutsAreManifests DEF Delete, Move, TypeOK
<1>9. CASE Snapshot
  <2>1. PICK i \in First(scope) :
          man' = WithSnapshot(man, disk, i) /\ scope' = scope \ {i}
    BY <1>9 DEF Snapshot
  <2>2. man' \in Manifests
    BY <2>1, FirstIn, WithSnapshotType DEF TypeOK
  <2> QED
    BY <1>9, <2>1, <2>2 DEF Snapshot, TypeOK
<1>10. CASE Publish
  BY <1>10 DEF Publish, TypeOK, PCs
<1>11. CASE Skip
  <2>1. PICK i \in First(todo) : Finished(i)
    BY <1>11 DEF Skip
  <2> QED
    BY <1>11, <2>1, FirstIn, FinishedType DEF Skip, TypeOK
<1>12. CASE Touch
  <2>1. PICK i \in First(todo) : \E c \in Halfway(i) : disk' = [disk EXCEPT ![i] = c]
    BY <1>12 DEF Touch
  <2>2. disk' \in [Items -> Contents]
    BY <2>1, FirstIn, HalfwayType DEF TypeOK
  <2> QED
    BY <1>12, <2>2 DEF Touch, TypeOK, PCs
<1>13. CASE Complete
  <2>1. PICK i \in First(todo) : Finished(i) /\ disk' = [disk EXCEPT ![i] = Target(i)]
    BY <1>13 DEF Complete
  <2>2. disk' \in [Items -> Contents]
    BY <2>1, FirstIn, TargetType DEF TypeOK
  <2> QED
    BY <1>13, <2>1, <2>2, FirstIn, FinishedType DEF Complete, TypeOK, PCs
<1>14. CASE Refuse \/ AllDone
  BY <1>14 DEF Refuse, AllDone, TypeOK, PCs
<1>15. CASE RecordSkills \/ RecordAgents
  BY <1>15, RecordType DEF RecordSkills, RecordAgents, TypeOK, PCs
<1>16. CASE Reapply
  <2>1. man' \in Manifests
    BY <1>16, NewManifestIsExact DEF Reapply, TypeOK
  <2> QED
    BY <1>16, <2>1 DEF Reapply, TypeOK, PCs, Verbs
<1>17. CASE RecordScoped
  BY <1>17 DEF RecordScoped, TypeOK, PCs
<1>18. CASE PurgeHome
  <2>1. backups' \subseteq Manifests
    BY <1>18, CutsAreManifests DEF PurgeHome, TypeOK
  <2> QED
    BY <1>18, <2>1 DEF PurgeHome, TypeOK, PCs
<1>19. CASE Fail
  BY <1>19 DEF Fail, TypeOK, PCs
<1>20. CASE End
  <2>1. man' \in Manifests
    BY <1>20, NewManifestIsExact DEF End, NoManifest, Contents
  <2> QED
    BY <1>20, <2>1 DEF End, TypeOK, PCs, Verbs
<1>21. CASE Launch
  BY <1>21 DEF Launch, Move, TypeOK
<1>22. CASE Upgrade
  BY <1>22 DEF Upgrade, Move, TypeOK, Releases
<1>23. CASE Edit
  BY <1>23 DEF Edit, Move, TypeOK, Contents
<1>24. CASE UNCHANGED vars
  BY <1>24 DEF vars, TypeOK
<1> QED
  BY <1>1, <1>2, <1>3, <1>4, <1>5, <1>6, <1>7, <1>8, <1>9, <1>10, <1>11, <1>12, <1>13,
     <1>14, <1>15, <1>16, <1>17, <1>18, <1>19, <1>20, <1>21, <1>22, <1>23, <1>24
     DEF Next, Command, Step

------------------------------------------------------------------------------
(* What the other parts of the invariant say, kept by every step.          *)

(* A command that takes a backup begins in the right place, with nothing   *)
(* done and an empty backup.                                               *)
LEMMA BeginFacts ==
  ASSUME NEW v, NEW items, NEW removals, NEW copied, Begin(v, items, removals, copied)
  PROVE  /\ pc' = "snapshot" /\ verb' = v /\ todo' = items /\ drop' = removals
         /\ scope' = copied /\ done' = {} /\ man' = NewManifest(disk)
         /\ UNCHANGED <<disk, recorded, backups, wrote, release>>
BY DEF Begin, state

(* The commands that begin with a backup, and what they copy.              *)
LEMMA SnapshotBegins ==
  ASSUME TypeOK, Install \/ Uninstall \/ Select \/ Sync \/ Instructions
  PROVE  /\ pc = "idle"
         /\ pc' = "snapshot" /\ verb' \in Snapshotting
         /\ done' = {} /\ man' = NewManifest(disk)
         /\ \A i \in todo' : (verb' = "sync" => i \in Skills) => i \in scope'
         /\ verb' # "instructions" => scope' \subseteq Managed
         /\ verb' = "uninstall" => todo' = Recorded
         /\ UNCHANGED <<disk, recorded, backups, wrote, release>>
<1>1. CASE Install
  BY <1>1, BeginFacts DEF Install, Recorded, Snapshotting, Begin, Move
<1>2. CASE Uninstall
  BY <1>2, BeginFacts DEF Uninstall, Recorded, Snapshotting, Begin, Move
<1>3. CASE Select
  <2>1. PICK wish \in SUBSET Skills :
          Begin("select", (wish \ seen) \cup (seen \ wish), seen \ wish,
                (wish \ seen) \cup (seen \ wish))
    BY <1>3 DEF Select
  <2>2. seen \subseteq Skills
    BY DEF TypeOK
  <2> QED
    BY <2>1, <2>2, BeginFacts DEF Snapshotting, Begin, Move
<1>4. CASE Sync
  <2>1. PICK withAgents \in {{}, Agents} :
          Begin("sync", Skills \cup withAgents, {}, Skills)
    BY <1>4 DEF Sync
  <2> QED
    BY <2>1, BeginFacts DEF Snapshotting, Begin, Move
<1>5. CASE Instructions
  BY <1>5, BeginFacts DEF Instructions, Snapshotting, Begin, Move
<1> QED
  BY <1>1, <1>2, <1>3, <1>4, <1>5

(* Every step leaves each command at a step of its own.                    *)
LEMMA StageStep == TypeOK /\ StageInv /\ [Next]_vars => StageInv'
<1> SUFFICES ASSUME TypeOK, StageInv, [Next]_vars PROVE StageInv'
  OBVIOUS
<1> USE DEF StageInv, Snapshotting, state, plan, world
<1>1. CASE Install \/ Uninstall \/ Select \/ Sync \/ Instructions
  BY <1>1, SnapshotBegins
<1>2. CASE Restore \/ Purge \/ Delete
  BY <1>2 DEF Restore, Purge, Delete, Move
<1>3. CASE Snapshot \/ Publish \/ Skip \/ Touch \/ Complete \/ Refuse
  BY <1>3 DEF Snapshot, Publish, Skip, Touch, Complete, Refuse
<1>4. CASE AllDone
  BY <1>4 DEF AllDone, TypeOK, Verbs
<1>5. CASE RecordSkills \/ RecordAgents \/ Reapply \/ RecordScoped \/ PurgeHome
  BY <1>5 DEF RecordSkills, RecordAgents, Reapply, RecordScoped, PurgeHome
<1>6. CASE Fail \/ End
  BY <1>6 DEF Fail, End
<1>7. CASE Launch \/ Upgrade \/ Edit
  BY <1>7 DEF Launch, Upgrade, Edit, Move
<1>8. CASE UNCHANGED vars
  BY <1>8 DEF vars
<1> QED
  BY <1>1, <1>2, <1>3, <1>4, <1>5, <1>6, <1>7, <1>8 DEF Next, Command, Step

(* Every step keeps the backups right.                                     *)
LEMMA BackupStep ==
  TypeOK /\ StageInv /\ BackupInv /\ [Next]_vars => BackupInv'
<1> SUFFICES ASSUME TypeOK, StageInv, BackupInv, [Next]_vars PROVE BackupInv'
  OBVIOUS
<1> USE DEF Snapshotting, state, plan, world
<1>0. /\ NewManifest(disk).listed = {} /\ NewManifest(disk).before = disk
      /\ NewManifest(disk).whole
      /\ Exact(NewManifest(disk)) /\ Exact(NoManifest) /\ NoManifest.listed = {}
  BY NewManifestIsExact DEF TypeOK, NewManifest, NoManifest, Contents
<1>1. CASE Install \/ Uninstall \/ Select \/ Sync \/ Instructions
  BY <1>0, <1>1, SnapshotBegins DEF BackupInv, Backed
<1>2. CASE Restore \/ Purge
  BY <1>2 DEF Restore, Purge, Move, BackupInv, StageInv
<1>3. CASE Delete
  <2>1. \A b \in backups' : Exact(b)
    BY <1>3, CutsAreManifests DEF Delete, BackupInv, TypeOK
  <2> QED
    BY <1>3, <2>1 DEF Delete, Move, BackupInv, StageInv
<1>4. CASE Snapshot
  <2>1. PICK i \in First(scope) :
          man' = WithSnapshot(man, disk, i) /\ scope' = scope \ {i}
    BY <1>4 DEF Snapshot
  <2>2. /\ i \in scope /\ i \in Items /\ i \notin man.listed
        /\ man.before = disk /\ man.whole
    BY <1>4, <2>1, FirstIn DEF Snapshot, BackupInv, StageInv, TypeOK
  <2>3. /\ man'.listed = man.listed \cup {i}
        /\ man'.before = man.before /\ man'.whole = man.whole
    BY <2>1 DEF WithSnapshot, TypeOK, Manifests
  <2>4. Exact(man')
    BY <2>1, <2>2, WithSnapshotIsExact DEF BackupInv, TypeOK
  <2> QED
    BY <1>4, <2>1, <2>2, <2>3, <2>4 DEF Snapshot, BackupInv, Backed
<1>5. CASE Publish
  BY <1>5 DEF Publish, BackupInv, Backed
<1>6. CASE Skip \/ Touch \/ Complete
  <2>1. /\ UNCHANGED <<backups, verb, scope, man>> /\ pc' \in {"act", "touched"}
        /\ pc \in {"act", "touched"} /\ todo' \subseteq todo
    BY <1>6 DEF Skip, Touch, Complete, Finished
  <2> QED
    BY <2>1 DEF BackupInv, Backed
<1>7. CASE Refuse \/ AllDone
  BY <1>7 DEF Refuse, AllDone, BackupInv
<1>8. CASE RecordSkills \/ RecordAgents \/ RecordScoped
  BY <1>8 DEF RecordSkills, RecordAgents, RecordScoped, BackupInv, StageInv
<1>9. CASE Reapply
  BY <1>0, <1>9 DEF Reapply, BackupInv, Backed
<1>10. CASE PurgeHome
  <2>1. \A b \in backups' : Exact(b)
    BY <1>10, CutsAreManifests DEF PurgeHome, BackupInv, TypeOK
  <2> QED
    BY <1>10, <2>1 DEF PurgeHome, BackupInv, StageInv
<1>11. CASE Fail
  BY <1>11 DEF Fail, BackupInv, Backed
<1>12. CASE End
  BY <1>0, <1>12 DEF End, BackupInv
<1>13. CASE Launch \/ Upgrade \/ Edit
  BY <1>13 DEF Launch, Upgrade, Edit, Move, BackupInv, StageInv
<1>14. CASE UNCHANGED vars
  BY <1>14 DEF vars, BackupInv, Backed
<1> QED
  BY <1>1, <1>2, <1>3, <1>4, <1>5, <1>6, <1>7, <1>8, <1>9, <1>10, <1>11, <1>12, <1>13, <1>14
     DEF Next, Command, Step

(* What a command is about to touch, its backup brings back.               *)
LEMMA TouchedIsBacked ==
  ASSUME TypeOK, BackupInv, pc \in {"act", "touched"}, NEW i \in todo, Covered(i)
  PROVE  man \in backups /\ Brings(man, i)
<1>1. verb \in Snapshotting
  BY DEF Covered, Snapshotting
<1>2. man \in backups /\ i \in man.listed /\ man.whole
  BY <1>1 DEF BackupInv, Backed, Covered
<1>3. LabelsApart(man)
  BY <1>1, ManagedApart DEF BackupInv, Covered, Snapshotting
<1> QED
  BY <1>2, <1>3 DEF BackupInv, Exact

(* Every step keeps what has been changed undoable.                        *)
LEMMA UndoableStep ==
  TypeOK /\ StageInv /\ BackupInv /\ Undoable /\ [Next]_vars => Undoable'
<1> SUFFICES ASSUME TypeOK, StageInv, BackupInv, Undoable, [Next]_vars,
                    NEW i \in Items, Covered(i)'
             PROVE  UndoneByBackup(i)'
  BY DEF Undoable
<1> USE DEF state, plan, world
<1>1. CASE Install \/ Uninstall \/ Select \/ Sync \/ Instructions
  BY <1>1, SnapshotBegins DEF NewManifest, UndoneByBackup
<1>2. CASE Restore \/ Purge \/ Delete
  BY <1>2 DEF Restore, Purge, Delete, Move, Covered, StageInv
<1>3. CASE Snapshot \/ Publish
  <2>1. disk' = disk /\ disk = man.before
    BY <1>3 DEF Snapshot, Publish, BackupInv
  <2>2. man'.before = man.before
    BY <1>3 DEF Snapshot, Publish, WithSnapshot, TypeOK, Manifests
  <2> QED
    BY <2>1, <2>2 DEF UndoneByBackup
<1>4. CASE Touch \/ Complete
  <2>1. PICK j \in First(todo) : \E c : disk' = [disk EXCEPT ![j] = c]
    BY <1>4 DEF Touch, Complete
  <2>2. UNCHANGED <<man, backups, verb>> /\ pc \in {"act", "touched"}
    BY <1>4 DEF Touch, Complete
  <2>3. Covered(i)
    BY <2>2 DEF Covered
  <2>4. CASE i = j
    BY <2>2, <2>3, <2>4, FirstIn, TouchedIsBacked DEF UndoneByBackup
  <2>5. CASE i # j
    BY <2>1, <2>2, <2>3, <2>5 DEF UndoneByBackup, Undoable, TypeOK
  <2> QED
    BY <2>4, <2>5
<1>5. CASE Skip \/ Refuse \/ AllDone \/ RecordSkills \/ RecordAgents \/ RecordScoped \/ Fail
  <2>1. UNCHANGED <<disk, man, backups, verb>>
    BY <1>5 DEF Skip, Refuse, AllDone, RecordSkills, RecordAgents, RecordScoped, Fail
  <2> QED
    BY <2>1 DEF Covered, UndoneByBackup, Undoable
<1>6. CASE Reapply
  BY <1>6 DEF Reapply, NewManifest, UndoneByBackup
<1>7. CASE PurgeHome \/ End
  BY <1>7 DEF PurgeHome, End, StageInv, Covered
<1>8. CASE Launch \/ Upgrade \/ Edit
  BY <1>8 DEF Launch, Upgrade, Edit, Move, StageInv, Covered
<1>9. CASE UNCHANGED vars
  BY <1>9 DEF vars, Covered, UndoneByBackup, Undoable
<1> QED
  BY <1>1, <1>2, <1>3, <1>4, <1>5, <1>6, <1>7, <1>8, <1>9 DEF Next, Command, Step

(* Every step of a restore brings an item back, and spoils none.           *)
LEMMA RestoreStep ==
  TypeOK /\ StageInv /\ RestoreInv /\ [Next]_vars => RestoreInv'
<1> SUFFICES ASSUME TypeOK, StageInv, RestoreInv, [Next]_vars PROVE RestoreInv'
  OBVIOUS
<1> USE DEF state, plan, world
<1>1. CASE Install \/ Uninstall \/ Select \/ Sync \/ Instructions
  BY <1>1, SnapshotBegins DEF RestoreInv
<1>2. CASE Restore \/ Purge \/ Delete
  BY <1>2 DEF Restore, Purge, Delete, Move, RestoreInv
<1>3. CASE Snapshot \/ Publish
  BY <1>3 DEF Snapshot, Publish, StageInv, RestoreInv, Snapshotting
<1>4. CASE Skip
  <2>1. PICK i \in First(todo) : Settled(i) /\ Finished(i)
    BY <1>4 DEF Skip
  <2>2. verb = "restore" => disk[i] = Saved(man, i)
    BY <2>1 DEF Settled, Target
  <2> QED
    BY <1>4, <2>1, <2>2 DEF Skip, Finished, RestoreInv
<1>5. CASE Touch
  <2>1. PICK i \in First(todo) : \E c : disk' = [disk EXCEPT ![i] = c]
    BY <1>5 DEF Touch
  <2> QED
    BY <1>5, <2>1, FirstIn DEF Touch, RestoreInv, TypeOK, Manifests
<1>6. CASE Complete
  <2>1. PICK i \in First(todo) : Finished(i) /\ disk' = [disk EXCEPT ![i] = Target(i)]
    BY <1>6 DEF Complete
  <2>2. i \in Items /\ (verb = "restore" => disk'[i] = Saved(man, i))
    BY <2>1, FirstIn DEF Target, TypeOK
  <2> QED
    BY <1>6, <2>1, <2>2 DEF Complete, Finished, RestoreInv, TypeOK, Manifests
<1>7. CASE Refuse \/ AllDone
  BY <1>7 DEF Refuse, AllDone, RestoreInv
<1>8. CASE RecordSkills \/ RecordAgents \/ Reapply \/ RecordScoped \/ PurgeHome
  BY <1>8 DEF RecordSkills, RecordAgents, Reapply, RecordScoped, PurgeHome, StageInv,
              Snapshotting, RestoreInv
<1>9. CASE Fail \/ End
  BY <1>9 DEF Fail, End, StageInv, Snapshotting, RestoreInv
<1>10. CASE Launch \/ Upgrade \/ Edit
  BY <1>10 DEF Launch, Upgrade, Edit, Move, RestoreInv
<1>11. CASE UNCHANGED vars
  BY <1>11 DEF vars, RestoreInv
<1> QED
  BY <1>1, <1>2, <1>3, <1>4, <1>5, <1>6, <1>7, <1>8, <1>9, <1>10, <1>11
     DEF Next, Command, Step

(* Being done with an item keeps what the ledger may claim, and adds to it *)
(* what has been written completely.                                       *)
LEMMA FinishedEarns ==
  ASSUME TypeOK, ClaimsEarned, LedgerInv, NEW i \in todo, Finished(i),
         UNCHANGED <<recorded, release, verb, drop>>
  PROVE  ClaimsEarned' /\ LedgerInv'
<1>1. \A j \in Managed : wrote[j] \subseteq wrote'[j]
  BY DEF Finished, TypeOK
<1>2. verb \in Snapshotting /\ i \in Managed \ drop => release \in wrote'[i]
  BY DEF Finished, TypeOK, Snapshotting
<1>3. todo' \subseteq todo /\ done' = done \cup {i}
  BY DEF Finished
<1>4. ClaimsEarned'
  BY <1>1 DEF ClaimsEarned
<1>5. \A j \in Managed \cap (done' \ drop) : verb \in Snapshotting => release \in wrote'[j]
  BY <1>1, <1>2, <1>3 DEF LedgerInv
<1>6. \A j \in Managed \cap todo' : verb \in {"uninstall", "purge"} => wrote'[j] # {}
  BY <1>1, <1>3 DEF LedgerInv
<1> QED
  BY <1>4, <1>5, <1>6 DEF LedgerInv

(* What is recorded for items a command has acted on has been earned.      *)
LEMMA RecordEarns ==
  ASSUME TypeOK, ClaimsEarned, LedgerInv, verb \in Snapshotting,
         NEW S \in SUBSET done, Record(S), UNCHANGED wrote
  PROVE  ClaimsEarned'
BY DEF TypeOK, ClaimsEarned, LedgerInv, Record

(* Every step keeps the claims earned, and removes only what was installed.*)
LEMMA LedgerStep ==
  TypeOK /\ StageInv /\ ClaimsEarned /\ LedgerInv /\ [Next]_vars
    => ClaimsEarned' /\ LedgerInv'
<1> SUFFICES ASSUME TypeOK, StageInv, ClaimsEarned, LedgerInv, [Next]_vars
             PROVE  ClaimsEarned' /\ LedgerInv'
  OBVIOUS
<1> USE DEF state, plan, world
<1>0. \A i \in Recorded : wrote[i] # {}
  BY DEF Recorded, ClaimsEarned
<1>1. CASE Install \/ Uninstall \/ Select \/ Sync \/ Instructions
  <2>1. done' = {} /\ verb' \in Snapshotting /\ UNCHANGED <<recorded, wrote>>
    BY <1>1, SnapshotBegins
  <2>2. verb' = "uninstall" => todo' = Recorded
    BY <1>1, SnapshotBegins
  <2> QED
    BY <1>0, <2>1, <2>2 DEF ClaimsEarned, LedgerInv, Snapshotting
<1>2. CASE Restore
  BY <1>2 DEF Restore, Move, ClaimsEarned, LedgerInv, Snapshotting
<1>3. CASE Purge
  <2>1. UNCHANGED <<recorded, wrote>> /\ verb' = "purge"
    BY <1>3 DEF Purge
  <2>2. Managed \cap todo' \subseteq Recorded
    BY <1>3 DEF Purge
  <2> QED
    BY <1>0, <2>1, <2>2 DEF ClaimsEarned, LedgerInv, Snapshotting
<1>4. CASE Delete
  BY <1>4 DEF Delete, ClaimsEarned, LedgerInv
<1>5. CASE Skip
  <2>1. PICK i \in First(todo) : Finished(i)
    BY <1>5 DEF Skip
  <2> QED
    BY <1>5, <2>1, FirstIn, FinishedEarns DEF Skip
<1>6. CASE Complete
  <2>1. PICK i \in First(todo) : Finished(i)
    BY <1>6 DEF Complete
  <2> QED
    BY <1>6, <2>1, FirstIn, FinishedEarns DEF Complete
<1>7. CASE Snapshot \/ Publish \/ Touch \/ Refuse \/ AllDone \/ RecordScoped
  <2>1. UNCHANGED <<recorded, release, verb, drop, done, todo, wrote>>
    BY <1>7 DEF Snapshot, Publish, Touch, Refuse, AllDone, RecordScoped
  <2> QED
    BY <2>1 DEF ClaimsEarned, LedgerInv
<1>8. CASE RecordSkills \/ RecordAgents
  <2>1. verb \in Snapshotting /\ UNCHANGED <<release, verb, drop, done, todo, wrote>>
    BY <1>8 DEF RecordSkills, RecordAgents, StageInv
  <2>2. \E S \in SUBSET done : Record(S)
    BY <1>8 DEF RecordSkills, RecordAgents
  <2>3. ClaimsEarned'
    BY <2>1, <2>2, RecordEarns
  <2> QED
    BY <2>1, <2>3 DEF LedgerInv
<1>9. CASE Reapply
  BY <1>9 DEF Reapply, ClaimsEarned, LedgerInv
<1>10. CASE PurgeHome
  <2>1. verb = "purge" /\ UNCHANGED <<release, verb, drop, done, todo, wrote>>
    BY <1>10 DEF PurgeHome, StageInv
  <2>2. recorded' = recorded \/ recorded' = [i \in Managed |-> None]
    BY <1>10 DEF PurgeHome
  <2> QED
    BY <2>1, <2>2 DEF ClaimsEarned, LedgerInv
<1>11. CASE Fail
  <2>1. UNCHANGED <<recorded, release, verb, drop, done, wrote>> /\ todo' \subseteq todo
    BY <1>11 DEF Fail
  <2> QED
    BY <2>1 DEF ClaimsEarned, LedgerInv
<1>12. CASE End
  BY <1>12 DEF End, ClaimsEarned, LedgerInv
<1>13. CASE Launch \/ Edit
  BY <1>13 DEF Launch, Edit, ClaimsEarned, LedgerInv
<1>14. CASE Upgrade
  BY <1>14 DEF Upgrade, Move, StageInv, ClaimsEarned, LedgerInv
<1>15. CASE UNCHANGED vars
  BY <1>15 DEF vars, ClaimsEarned, LedgerInv
<1> QED
  BY <1>1, <1>2, <1>3, <1>4, <1>5, <1>6, <1>7, <1>8, <1>9, <1>10, <1>11, <1>12, <1>13,
     <1>14, <1>15 DEF Next, Command, Step

------------------------------------------------------------------------------
(* The theorems.                                                           *)

(* A machine capiko has not touched satisfies the invariant.               *)
LEMMA InitIInv == Init => IInv
<1> SUFFICES ASSUME Init PROVE IInv
  OBVIOUS
<1>1. man \in Manifests /\ Exact(man)
  BY NewManifestIsExact DEF Init, NoManifest, Contents
<1>2. disk \in [Items -> Contents]
  BY DEF Init, Contents
<1>3. TypeOK
  <2>1. release \in Releases /\ moves \in 0..MaxMoves
    BY DEF Init, Releases
  <2>2. wrote \in [Managed -> SUBSET Releases] /\ recorded \in [Managed -> Releases \cup {None}]
    BY DEF Init
  <2>3. ok \in BOOLEAN /\ scopedOn \in BOOLEAN /\ backups \subseteq Manifests
    BY DEF Init
  <2> QED
    BY <1>1, <1>2, <2>1, <2>2, <2>3 DEF Init, TypeOK, Verbs, PCs
<1>4. StageInv /\ Undoable /\ RestoreInv /\ ClaimsEarned /\ LedgerInv
  BY DEF Init, StageInv, Undoable, Covered, RestoreInv, ClaimsEarned, LedgerInv, Snapshotting
<1>5. BackupInv
  BY <1>1 DEF Init, BackupInv, Snapshotting
<1> QED
  BY <1>3, <1>4, <1>5 DEF IInv

(* The inductive invariant holds whatever commands, failures, kills and    *)
(* edits follow each other.                                                *)
THEOREM Invariance == Spec => []IInv
<1>1. IInv /\ [Next]_vars => IInv'
  BY TypeStep, StageStep, BackupStep, UndoableStep, RestoreStep, LedgerStep DEF IInv
<1> QED
  BY InitIInv, <1>1, PTL DEF Spec

(* Every variable keeps its type.                                          *)
THEOREM TypeCorrect == Spec => []TypeOK
<1>1. IInv => TypeOK
  BY DEF IInv
<1> QED
  BY <1>1, Invariance, PTL

(* Whatever a command fails at, what it changed is in its backup as it was.*)
THEOREM UndoableAlways == Spec => []Undoable
<1>1. IInv => Undoable
  BY DEF IInv
<1> QED
  BY <1>1, Invariance, PTL

(* A restore that succeeds brings back what was there before the command.  *)
THEOREM RestoreUndoesAlways == Spec => []RestoreUndoes
<1>1. IInv => RestoreUndoes
  BY DEF IInv, RestoreUndoes, Restored, RestoreInv, BackupInv, Exact, Brings
<1> QED
  BY <1>1, Invariance, PTL

(* The state records nothing that capiko did not write completely.         *)
THEOREM ClaimsEarnedAlways == Spec => []ClaimsEarned
<1>1. IInv => ClaimsEarned
  BY DEF IInv
<1> QED
  BY <1>1, Invariance, PTL

(* What changes while uninstall or purge runs is one of the items they     *)
(* have planned to remove.                                                 *)
LEMMA RemovalsAreManaged ==
  ASSUME IInv, [Next]_vars, NEW i \in Managed, verb \in {"uninstall", "purge"},
         disk'[i] # disk[i]
  PROVE  wrote[i] # {}
<1> USE DEF state, plan, world
<1>1. CASE Touch \/ Complete
  <2>1. PICK j \in First(todo) : \E c : disk' = [disk EXCEPT ![j] = c]
    BY <1>1 DEF Touch, Complete
  <2>2. i = j
    BY <2>1 DEF IInv, TypeOK
  <2> QED
    BY <2>1, <2>2, FirstIn DEF IInv, LedgerInv
<1>2. CASE Edit
  BY <1>2 DEF Edit, Move, IInv, StageInv
<1>3. CASE Install \/ Uninstall \/ Select \/ Sync \/ Instructions
  BY <1>3, SnapshotBegins DEF IInv
<1>4. CASE Restore \/ Purge \/ Delete \/ Launch \/ Upgrade
  BY <1>4 DEF Restore, Purge, Delete, Launch, Upgrade
<1>5. CASE Snapshot \/ Publish \/ Skip \/ Refuse \/ AllDone \/ Reapply \/ Fail
  BY <1>5 DEF Snapshot, Publish, Skip, Refuse, AllDone, Reapply, Fail
<1>6. CASE RecordSkills \/ RecordAgents \/ RecordScoped \/ PurgeHome \/ End
  BY <1>6 DEF RecordSkills, RecordAgents, RecordScoped, PurgeHome, End
<1>7. CASE UNCHANGED vars
  BY <1>7 DEF vars
<1> QED
  BY <1>1, <1>2, <1>3, <1>4, <1>5, <1>6, <1>7 DEF Next, Command, Step

(* Neither uninstall nor purge takes away what capiko never installed.     *)
THEOREM OnlyManagedDeletedAlways == Spec => OnlyManagedDeleted
<1>1. IInv /\ [Next]_vars =>
        [\A i \in Managed :
           verb \in {"uninstall", "purge"} /\ disk'[i] # disk[i] => wrote[i] # {}]_vars
  BY RemovalsAreManaged
<1> QED
  BY <1>1, Invariance, PTL DEF Spec, OnlyManagedDeleted

------------------------------------------------------------------------------
(* What a command that goes well achieves.                                 *)
Acting == pc \in {"snapshot", "act", "touched"}

(* `install' plans what is not recorded, and records what it has planned.  *)
InstallInv ==
  verb = "install" =>
    /\ drop = {} /\ pc # "reapply"
    /\ Acting \/ pc = "record_skills" => Managed \ Recorded \subseteq todo \cup done
    /\ pc \in {"record_skills", "record_agents"} => todo = {}
    /\ pc = "record_agents" => Managed \ Recorded \subseteq done \cap Agents
    /\ pc = "done" => Recorded = Managed

(* `uninstall' plans what is recorded, and has removed what it is done     *)
(* with, as long as nothing fails.                                         *)
UninstallInv ==
  verb = "uninstall" /\ ok =>
    /\ todo \cup done \subseteq drop /\ pc # "reapply"
    /\ man.listed \cup scope \subseteq todo \cup done
    /\ \A i \in done : disk[i] = Absent
    /\ Acting \/ pc = "record_skills" => Recorded \subseteq todo \cup done
    /\ pc \in {"record_skills", "record_agents", "done"} => todo = {}
    /\ pc = "record_agents" => Recorded \subseteq done \cap Agents
    /\ pc = "done" => Recorded = {}

(* `sync' writes every skill, and then records them.                       *)
SyncInv ==
  verb = "sync" =>
    /\ drop = {} /\ Skills \subseteq todo \cup done
    /\ \A i \in Skills \cap done : disk[i] = release
    /\ pc \in {"record_skills", "record_agents", "reapply", "done"} => todo = {}
    /\ pc \in {"record_agents", "reapply", "done"} => \A i \in Skills : recorded[i] = release

ProgressInv ==
  /\ todo \cap done = {}
  /\ verb = "uninstall" /\ pc \in {"reapply", "done"} => ok
  /\ InstallInv /\ UninstallInv /\ SyncInv

(* A command that begins has all of its plan before it.                    *)
LEMMA ProgressBegins ==
  ASSUME TypeOK, Install \/ Uninstall \/ Select \/ Sync \/ Instructions
  PROVE  ProgressInv'
<1> USE DEF ProgressInv, InstallInv, UninstallInv, SyncInv, Acting
<1>1. ASSUME Install \/ Uninstall
      PROVE  ProgressInv'
  <2>1. PICK v \in {"install", "uninstall"}, items \in {Managed \ Recorded, Recorded} :
          /\ v = "install" => items = Managed \ Recorded /\ drop' = {}
          /\ v = "uninstall" => items = Recorded /\ drop' = items
          /\ pc' = "snapshot" /\ verb' = v /\ todo' = items /\ scope' = items
          /\ done' = {} /\ man' = NewManifest(disk) /\ recorded' = recorded
    BY <1>1, BeginFacts DEF Install, Uninstall
  <2>2. man'.listed = {} /\ Recorded' = Recorded
    BY <2>1 DEF NewManifest, Recorded
  <2>3. todo' \cap done' = {} /\ SyncInv'
    BY <2>1
  <2>4. CASE v = "install"
    BY <2>1, <2>2, <2>3, <2>4
  <2>5. CASE v = "uninstall"
    BY <2>1, <2>2, <2>3, <2>5
  <2> QED
    BY <2>4, <2>5
<1>2. CASE Select \/ Instructions
  <2>1. verb' \notin {"install", "uninstall", "sync"} /\ done' = {}
    BY <1>2 DEF Select, Instructions, Begin
  <2> QED
    BY <2>1
<1>3. CASE Sync
  <2>1. PICK withAgents \in {{}, Agents} : Begin("sync", Skills \cup withAgents, {}, Skills)
    BY <1>3 DEF Sync
  <2> QED
    BY <2>1, BeginFacts
<1> QED
  BY <1>1, <1>2, <1>3

(* Being done with an item whose content is now what the command wants.    *)
LEMMA ProgressFinishes ==
  ASSUME TypeOK, ProgressInv, NEW i \in todo, Finished(i), pc \in {"act", "touched"},
         pc' = "act", disk'[i] = Target(i), \A j \in Items \ {i} : disk'[j] = disk[j],
         UNCHANGED <<state, backups, verb, drop, ok, scope, man, world>>
  PROVE  ProgressInv'
<1> USE DEF state, world
<1>1. /\ todo' = todo \ {i} /\ done' = done \cup {i} /\ todo' \cup done' = todo \cup done
      /\ i \notin done /\ i \in Items /\ done \subseteq Items
  BY DEF Finished, ProgressInv, TypeOK
<1>2. Recorded' = Recorded
  BY DEF Recorded
<1>3. InstallInv'
  BY <1>1, <1>2 DEF ProgressInv, InstallInv, Acting
<1>4. UninstallInv'
  <2> SUFFICES ASSUME verb = "uninstall", ok PROVE UninstallInv'
    BY DEF UninstallInv
  <2>1. disk'[i] = Absent
    BY <1>1 DEF ProgressInv, UninstallInv, Target
  <2> QED
    BY <1>1, <1>2, <2>1 DEF ProgressInv, UninstallInv, Acting
<1>5. SyncInv'
  <2> SUFFICES ASSUME verb = "sync" PROVE SyncInv'
    BY DEF SyncInv
  <2>1. disk'[i] = release
    BY <1>1 DEF ProgressInv, SyncInv, Target
  <2> QED
    BY <1>1, <2>1 DEF ProgressInv, SyncInv
<1> QED
  BY <1>1, <1>3, <1>4, <1>5 DEF ProgressInv

(* What Record does, item by item.                                         *)
LEMMA RecordFacts ==
  ASSUME TypeOK, NEW S \in SUBSET Managed, Record(S)
  PROVE  /\ drop = {} => Recorded' = Recorded \cup S /\ \A i \in S : recorded'[i] = release
         /\ S \subseteq drop => Recorded' = Recorded \ S
         /\ \A i \in Managed \ S : recorded'[i] = recorded[i]
<1>1. release # None
  BY DEF TypeOK, Contents
<1>2. \A i \in Managed : recorded'[i] = IF i \notin S THEN recorded[i]
                                        ELSE IF i \in drop THEN None ELSE release
  BY DEF Record
<1> QED
  BY <1>1, <1>2 DEF Recorded

LEMMA ProgressRecords ==
  ASSUME TypeOK, StageInv, ProgressInv, RecordSkills \/ RecordAgents
  PROVE  ProgressInv'
<1> USE DEF state, plan, world
<1>1. UNCHANGED <<disk, verb, todo, drop, ok, scope, done, man, release>>
  BY DEF RecordSkills, RecordAgents
<1>2. done \cap Skills \in SUBSET Managed /\ done \cap Agents \in SUBSET Managed
  OBVIOUS
<1>3. CASE RecordSkills
  <2>1. pc = "record_skills" /\ pc' = "record_agents" /\ Record(done \cap Skills)
    BY <1>3 DEF RecordSkills
  <2>2. InstallInv'
    BY <1>1, <1>2, <2>1, RecordFacts DEF ProgressInv, InstallInv, Acting
  <2>3. UninstallInv'
    <3> SUFFICES ASSUME verb = "uninstall", ok PROVE UninstallInv'
      BY <1>1 DEF UninstallInv
    <3>1. Recorded' = Recorded \ (done \cap Skills) /\ Recorded \subseteq done /\ todo = {}
      BY <1>2, <2>1, RecordFacts DEF ProgressInv, UninstallInv
    <3>2. Recorded' \subseteq done \cap Agents
      BY <3>1 DEF Recorded
    <3> QED
      BY <1>1, <2>1, <3>1, <3>2 DEF ProgressInv, UninstallInv, Acting
  <2>4. SyncInv'
    BY <1>1, <1>2, <2>1, RecordFacts DEF ProgressInv, SyncInv
  <2> QED
    BY <1>1, <2>1, <2>2, <2>3, <2>4 DEF ProgressInv
<1>4. CASE RecordAgents
  <2>1. /\ pc = "record_agents" /\ Record(done \cap Agents)
        /\ pc' = IF ~ ok THEN "failed"
                 ELSE IF verb = "sync" /\ scopedOn THEN "reapply" ELSE "done"
    BY <1>4 DEF RecordAgents
  <2>2. InstallInv'
    <3> SUFFICES ASSUME verb = "install" PROVE InstallInv'
      BY <1>1 DEF InstallInv
    <3>1. Recorded' = Recorded \cup (done \cap Agents) /\ Managed \ Recorded \subseteq done \cap Agents
      BY <1>2, <2>1, RecordFacts DEF ProgressInv, InstallInv
    <3>2. Recorded' \subseteq Managed
      BY DEF Recorded
    <3>3. Recorded' = Managed
      BY <3>1, <3>2
    <3> QED
      BY <1>1, <2>1, <3>3 DEF ProgressInv, InstallInv, Acting
  <2>3. UninstallInv'
    <3> SUFFICES ASSUME verb = "uninstall", ok PROVE UninstallInv'
      BY <1>1 DEF UninstallInv
    <3>1. Recorded' = Recorded \ (done \cap Agents) /\ Recorded \subseteq done \cap Agents
      BY <1>2, <2>1, RecordFacts DEF ProgressInv, UninstallInv
    <3>2. Recorded' = {}
      BY <3>1
    <3> QED
      BY <1>1, <2>1, <3>2 DEF ProgressInv, UninstallInv, Acting
  <2>4. SyncInv'
    <3> SUFFICES ASSUME verb = "sync" PROVE SyncInv'
      BY <1>1 DEF SyncInv
    <3>1. \A i \in Skills : i \notin done \cap Agents \/ recorded'[i] = release
      BY <1>2, <2>1, RecordFacts DEF ProgressInv, SyncInv
    <3>2. \A i \in Skills : recorded'[i] = release
      BY <1>2, <2>1, <3>1, RecordFacts DEF ProgressInv, SyncInv
    <3> QED
      BY <1>1, <2>1, <3>2 DEF ProgressInv, SyncInv
  <2> QED
    BY <1>1, <2>1, <2>2, <2>3, <2>4 DEF ProgressInv
<1> QED
  BY <1>3, <1>4

(* Every step brings a command nearer to what it is for, or to a failure.  *)
LEMMA ProgressStep ==
  TypeOK /\ StageInv /\ ProgressInv /\ [Next]_vars => ProgressInv'
<1> SUFFICES ASSUME TypeOK, StageInv, ProgressInv, [Next]_vars PROVE ProgressInv'
  OBVIOUS
<1> USE DEF state, plan, world
<1>1. CASE Restore \/ Purge
  <2>1. done' = {} /\ verb' \in {"restore", "purge"}
    BY <1>1 DEF Restore, Purge, Move, StageInv
  <2> QED
    BY <2>1 DEF ProgressInv, InstallInv, UninstallInv, SyncInv
<1>2. CASE Delete \/ Launch \/ Upgrade \/ Edit
  <2>1. verb' = "none" /\ UNCHANGED <<todo, done>>
    BY <1>2 DEF Delete, Launch, Upgrade, Edit, Move, StageInv
  <2> QED
    BY <2>1 DEF ProgressInv, InstallInv, UninstallInv, SyncInv
<1>3. CASE Snapshot
  <2>1. PICK i \in First(scope) : man' = WithSnapshot(man, disk, i) /\ scope' = scope \ {i}
    BY <1>3 DEF Snapshot
  <2>2. man'.listed = man.listed \cup {i} /\ i \in scope
    BY <2>1, FirstIn DEF WithSnapshot, TypeOK, Manifests
  <2>3. UNCHANGED <<disk, recorded, verb, todo, drop, ok, pc, done, release>>
    BY <1>3 DEF Snapshot
  <2> QED
    BY <2>1, <2>2, <2>3 DEF ProgressInv, InstallInv, UninstallInv, SyncInv, Acting, Recorded
<1>4. CASE Publish
  BY <1>4 DEF Publish, ProgressInv, InstallInv, UninstallInv, SyncInv, Acting, Recorded
<1>5. CASE Skip
  <2>1. PICK i \in First(todo) : ~ Refused(i) /\ Settled(i) /\ Finished(i)
    BY <1>5 DEF Skip
  <2>2. i \in todo /\ disk[i] = Target(i)
    BY <2>1, FirstIn DEF Settled
  <2> QED
    BY <1>5, <2>1, <2>2, ProgressFinishes DEF Skip
<1>6. CASE Touch
  <2>1. PICK i \in First(todo) : \E c : disk' = [disk EXCEPT ![i] = c]
    BY <1>6 DEF Touch
  <2>2. \A j \in done : disk'[j] = disk[j]
    BY <2>1, FirstIn DEF TypeOK, ProgressInv
  <2>3. UNCHANGED <<recorded, verb, todo, drop, ok, scope, done, man, release>>
        /\ pc = "act" /\ pc' = "touched"
    BY <1>6 DEF Touch
  <2> QED
    BY <2>2, <2>3 DEF ProgressInv, InstallInv, UninstallInv, SyncInv, Acting, Recorded
<1>7. CASE Complete
  <2>1. PICK i \in First(todo) : Finished(i) /\ disk' = [disk EXCEPT ![i] = Target(i)]
    BY <1>7 DEF Complete
  <2>2. i \in todo /\ disk'[i] = Target(i) /\ \A j \in Items \ {i} : disk'[j] = disk[j]
    BY <2>1, FirstIn DEF TypeOK
  <2> QED
    BY <1>7, <2>1, <2>2, ProgressFinishes DEF Complete
<1>8. CASE Refuse
  BY <1>8 DEF Refuse, ProgressInv, InstallInv, UninstallInv, SyncInv, Acting, Recorded
<1>9. CASE AllDone
  BY <1>9 DEF AllDone, ProgressInv, InstallInv, UninstallInv, SyncInv, Acting, Recorded
<1>10. CASE RecordSkills \/ RecordAgents
  BY <1>10, ProgressRecords
<1>11. CASE Reapply
  BY <1>11 DEF Reapply, ProgressInv, InstallInv, UninstallInv, SyncInv
<1>12. CASE RecordScoped \/ PurgeHome
  <2>1. verb' = verb /\ verb \in {"instructions", "purge"} /\ UNCHANGED <<todo, done>>
    BY <1>12 DEF RecordScoped, PurgeHome, StageInv
  <2> QED
    BY <2>1 DEF ProgressInv, InstallInv, UninstallInv, SyncInv
<1>13. CASE Fail
  <2>1. UNCHANGED <<disk, recorded, verb, drop, scope, done, man, release>> /\ todo' \subseteq todo
    BY <1>13 DEF Fail
  <2>2. CASE pc' = "failed" /\ UNCHANGED <<todo, ok>>
    BY <2>1, <2>2 DEF ProgressInv, InstallInv, UninstallInv, SyncInv, Acting
  <2>3. CASE verb = "uninstall" /\ pc' = "record_skills" /\ ok' = FALSE
    BY <2>1, <2>3 DEF ProgressInv, InstallInv, UninstallInv, SyncInv
  <2>4. CASE verb = "purge"
    BY <2>1, <2>4 DEF ProgressInv, InstallInv, UninstallInv, SyncInv
  <2>5. CASE pc = "reapply" /\ pc' = "done" /\ UNCHANGED plan
    BY <2>1, <2>5 DEF ProgressInv, InstallInv, UninstallInv, SyncInv, StageInv
  <2> QED
    BY <1>13, <2>2, <2>3, <2>4, <2>5 DEF Fail
<1>14. CASE End
  BY <1>14 DEF End, ProgressInv, InstallInv, UninstallInv, SyncInv
<1>15. CASE UNCHANGED vars
  BY <1>15 DEF vars, ProgressInv, InstallInv, UninstallInv, SyncInv, Acting, Recorded
<1> QED
  BY <1>1, <1>2, <1>3, <1>4, <1>5, <1>6, <1>7, <1>8, <1>9, <1>10, <1>11, <1>12, <1>13,
     <1>14, <1>15, ProgressBegins DEF Next, Command, Step

(* A command that reports success has done what it is for: `install' has   *)
(* left nothing unrecorded, `uninstall' nothing recorded and nothing of    *)
(* its backup on disk, `sync' every skill written and recorded.            *)
THEOREM SucceededAlways == Spec => []Succeeded
<1>1. Init => ProgressInv
  BY DEF Init, ProgressInv, InstallInv, UninstallInv, SyncInv
<1>2. IInv /\ ProgressInv /\ [Next]_vars => ProgressInv'
  BY ProgressStep DEF IInv
<1>3. ProgressInv => Succeeded
  BY DEF ProgressInv, InstallInv, UninstallInv, SyncInv, Succeeded
<1> QED
  BY <1>1, <1>2, <1>3, Invariance, PTL DEF Spec
===============================================================================
