-------------------------------- MODULE Backup --------------------------------
(***************************************************************************)
(* What a backup of internal/backup/backup.go holds, and what restoring it *)
(* writes back.  A backup lists items, says which of them existed, and     *)
(* keeps a copy of those: a skill directory under skills/<name>, a file    *)
(* under files/<base name of its path>.                                    *)
(***************************************************************************)
EXTENDS Naturals

CONSTANTS Skills,      \* skill directories of the catalog
          Agents,      \* agent files of the catalog
          Scoped,      \* curated instruction files, one per target directory
          Labels,      \* the names copies are kept under
          Label,       \* the name each item's copy is kept under
          Restorable,  \* files under the Copilot configuration directory
          MaxRelease,  \* bound on the releases of capiko, and so of its content
          UserTexts,   \* content the user wrote
          Torn,        \* a half-written file, or directory
          Absent       \* not on disk

Files == Agents \cup Scoped
Items == Skills \cup Files
Releases == 1..MaxRelease
Contents == Releases \cup UserTexts \cup {Torn, Absent}

ASSUME ItemsAssumption ==
  Skills \cap Agents = {} /\ Skills \cap Scoped = {} /\ Agents \cap Scoped = {}
(* Only instruction files of two target directories share a base name.     *)
ASSUME LabelAssumption ==
  /\ Label \in [Items -> Labels]
  /\ \A i \in Skills \cup Agents, j \in Items : Label[i] = Label[j] => i = j
ASSUME RestorableAssumption == Restorable \subseteq Files
ASSUME ReleaseAssumption == MaxRelease \in Nat \ {0}
ASSUME ContentsAssumption ==
  /\ Torn # Absent
  /\ {Torn, Absent} \cap (Releases \cup UserTexts) = {}
  /\ Releases \cap UserTexts = {}

(* `before' is the disk when the backup was begun, `whole' says that no    *)
(* deletion of it was begun.  No file holds them: they let the properties  *)
(* say what a restore should bring back.                                   *)
Manifests ==
  [listed : SUBSET Items, existed : SUBSET Items,
   copies : [Labels -> Contents], before : [Items -> Contents], whole : BOOLEAN]

NewManifest(disk) ==
  [listed |-> {}, existed |-> {},
   copies |-> [l \in Labels |-> Absent], before |-> disk, whole |-> TRUE]

(* snapshotSkills and snapshotFiles for one item: what is not there is     *)
(* listed too.                                                             *)
WithSnapshot(man, disk, i) ==
  [man EXCEPT
     !.listed = @ \cup {i},
     !.existed = IF disk[i] = Absent THEN @ ELSE @ \cup {i},
     !.copies = IF disk[i] = Absent THEN @ ELSE [@ EXCEPT ![Label[i]] = disk[i]]]

(* What os.RemoveAll leaves of a backup when it stops before the manifest: *)
(* of some skills only a part, and a restore copies back what it finds.  A *)
(* copy that is gone makes it fail.                                        *)
Cuts(man) ==
  {[man EXCEPT !.whole = FALSE,
               !.copies = [l \in Labels |-> IF l \in lost THEN Torn ELSE @[l]]] :
     lost \in SUBSET {Label[s] : s \in Skills \cap man.existed}}

(* What a bug would make of a definition is spelled out as Mut... next to  *)
(* it.  Here: the copy is read by the name of some listed file.            *)
MutSaved(man, i) ==
  LET j == CHOOSE j \in man.listed : TRUE
  IN  IF j \in man.existed THEN man.copies[Label[j]] ELSE Absent

(* What Restore makes of a listed item.                                    *)
Saved(man, i) == IF i \in man.existed THEN man.copies[Label[i]] ELSE Absent

(* Restoring the backup brings item i back to what it was.                 *)
Brings(man, i) == i \in man.listed /\ Saved(man, i) = man.before[i]

(* No two files of the backup share the name of their copies.              *)
LabelsApart(man) ==
  \A i, j \in man.listed : Label[i] = Label[j] => i = j

Exact(man) ==
  /\ man.existed \subseteq man.listed
  /\ man.whole /\ LabelsApart(man) => \A i \in man.listed : Brings(man, i)
===============================================================================
