------------------------------- MODULE Installer -------------------------------
(***************************************************************************)
(* The commands that put capiko's catalog on disk and take it off again:   *)
(* `install', `uninstall' (internal/reconcile), the selector, Sync, scoped *)
(* instructions, Manage backups and purge (internal/tui).  Each plans from *)
(* the state file or from what it has seen on disk, takes a backup, acts   *)
(* on one item after another, and records what it did.  Every system call  *)
(* may fail and the process may be killed between any two of them.  One    *)
(* command runs at a time, and the user edits files between commands only. *)
(***************************************************************************)
EXTENDS Backup, FiniteSets

CONSTANTS Rank,        \* the order in which items are handled
          None,        \* no record of an item
          MaxBackups,  \* bound on the backups kept
          MaxMoves     \* bound on what the user does: commands, edits, launches

VARIABLES disk,      \* content of every item under ~/.copilot
          recorded,  \* state.json: the release recorded for a skill or agent
          scopedOn,  \* state.json: instructions_installed
          backups,   \* the backups that have a manifest
          release,   \* the release of the capiko binary
          seen,      \* skills the running TUI found on disk when it started
          verb,      \* the command that runs
          pc,        \* where it is
          scope,     \* what its backup still has to copy
          todo,      \* items it still has to act on
          drop,      \* those of its plan it removes
          done,      \* those it has acted on
          man,       \* the backup it writes, or restores
          ok,        \* it has met no error
          wrote,     \* history: releases capiko completely wrote per skill, agent
          moves      \* how much the user has done so far

state == <<recorded, scopedOn>>
plan == <<verb, todo, drop, ok>>
world == <<release, seen, moves>>
vars == <<disk, state, backups, plan, pc, scope, done, man, wrote, world>>

Managed == Skills \cup Agents

ASSUME RankAssumption ==
  /\ Rank \in [Items -> Nat]
  /\ \A i, j \in Items : Rank[i] = Rank[j] => i = j
ASSUME NoneAssumption == None \notin Contents
ASSUME BoundAssumption == MaxBackups \in Nat /\ MaxMoves \in Nat

Recorded == {i \in Managed : recorded[i] # None}
First(S) == {i \in S : \A j \in S : Rank[i] <= Rank[j]}
NoManifest == NewManifest([i \in Items |-> Absent])

Init ==
  /\ disk \in [Items -> UserTexts \cup {Absent}]
  /\ recorded = [i \in Managed |-> None]
  /\ scopedOn = FALSE
  /\ backups = {}
  /\ release = 1
  /\ seen = {}
  /\ verb = "none" /\ pc = "idle"
  /\ scope = {} /\ todo = {} /\ drop = {} /\ done = {}
  /\ man = NoManifest
  /\ ok = TRUE
  /\ wrote = [i \in Managed |-> {}]
  /\ moves = 0
------------------------------------------------------------------------------
(* The user does something, once no command runs.                          *)
Move ==
  /\ pc = "idle"
  /\ moves < MaxMoves
  /\ moves' = moves + 1

(* A command has its plan; its backup is about to be taken.                *)
Begin(v, items, removals, copied) ==
  /\ Move
  /\ pc' = "snapshot"
  /\ verb' = v /\ todo' = items /\ drop' = removals /\ ok' = TRUE
  /\ scope' = copied
  /\ done' = {}
  /\ man' = NewManifest(disk)
  /\ UNCHANGED <<disk, state, backups, wrote, release, seen>>

(* The agents are left out of the backup.                                  *)
MutInstall ==
  /\ Managed \ Recorded # {}
  /\ Begin("install", Managed \ Recorded, {}, Skills \ Recorded)

(* InstallAll: whatever the state does not record.                         *)
Install ==
  /\ Managed \ Recorded # {}
  /\ Begin("install", Managed \ Recorded, {}, Managed \ Recorded)

(* Without a state file, what is on disk is taken for capiko's.            *)
MutUninstall ==
  LET found == {i \in Managed : disk[i] # Absent}
  IN  found # {} /\ Begin("uninstall", found, found, found)

(* UninstallAll: whatever the state records, and nothing else.             *)
Uninstall ==
  /\ Recorded # {}
  /\ Begin("uninstall", Recorded, Recorded, Recorded)

(* The selector compares the wish with what the TUI saw when it started.   *)
Select ==
  \E wish \in SUBSET Skills :
    LET affected == (wish \ seen) \cup (seen \ wish)
    IN  affected # {} /\ Begin("select", affected, seen \ wish, affected)

(* RunSync overwrites the whole catalog and backs up the skills.  Upgrade  *)
(* + sync in place passes no agents.                                       *)
Sync ==
  \E withAgents \in {{}, Agents} : Begin("sync", Skills \cup withAgents, {}, Skills)

(* installInstructions, from its screen.                                   *)
Instructions == Begin("instructions", Scoped, {}, Scoped)

(* Restore of a listed backup takes no backup of its own.                  *)
Restore ==
  \E b \in backups :
    /\ Move
    /\ pc' = "act"
    /\ verb' = "restore" /\ todo' = b.listed /\ drop' = {} /\ ok' = TRUE
    /\ man' = b
    /\ UNCHANGED <<disk, state, backups, scope, done, wrote, release, seen>>

(* PurgeAll takes none either, and removes the curated instruction files   *)
(* of every target directory along with what the state records.            *)
Purge ==
  /\ Move
  /\ pc' = "act"
  /\ verb' = "purge" /\ ok' = TRUE
  /\ todo' = Recorded \cup Scoped
  /\ drop' = Recorded \cup Scoped
  /\ UNCHANGED <<disk, state, backups, scope, done, man, wrote, release, seen>>

(* Delete removes the manifest with the rest, in no particular order.      *)
Delete ==
  /\ Move
  /\ \E b \in backups :
       \/ backups' = backups \ {b}
       \/ \E c \in Cuts(b) : backups' = (backups \ {b}) \cup {c}
  /\ UNCHANGED <<disk, state, plan, pc, scope, done, man, wrote, release, seen>>
------------------------------------------------------------------------------
(* snapshotSkills, snapshotFiles: one more item is copied.                 *)
Snapshot ==
  /\ pc = "snapshot"
  /\ \E i \in First(scope) :
       /\ man' = WithSnapshot(man, disk, i)
       /\ scope' = scope \ {i}
  /\ UNCHANGED <<disk, state, backups, plan, pc, done, wrote, world>>

(* writeManifest: from here on the backup is listed and can be restored.   *)
Publish ==
  /\ pc = "snapshot"
  /\ scope = {}
  /\ pc' = "act"
  /\ backups' = backups \cup {man}
  /\ Cardinality(backups') <= MaxBackups
  /\ UNCHANGED <<disk, state, plan, scope, done, man, wrote, world>>

(* What the command leaves of an item.                                     *)
Target(i) ==
  IF verb = "restore" THEN Saved(man, i)
  ELSE IF i \in drop THEN Absent
  ELSE release

(* Nothing to remove, or an agent file that already has the content.       *)
Settled(i) ==
  \/ Target(i) = Absent /\ disk[i] = Absent
  \/ i \in Agents /\ verb # "restore" /\ Target(i) = disk[i]

(* In the middle of the work on an item: os.Remove is one step, WriteFile  *)
(* truncates first, a skill is many files, and Restore clears a skill      *)
(* before it copies.                                                       *)
Halfway(i) ==
  IF i \in Files /\ Target(i) = Absent THEN {disk[i]}
  ELSE IF i \in Skills /\ verb = "restore" THEN {Torn, Absent}
  ELSE {Torn}

(* validateFilePath: Restore stops at a file outside the configuration     *)
(* directory, after having restored what comes before it.                  *)
Refused(i) == verb = "restore" /\ i \in Files \ Restorable

Finished(i) ==
  /\ todo' = todo \ {i}
  /\ done' = done \cup {i}
  /\ wrote' = IF verb # "restore" /\ i \in Managed \ drop
                THEN [wrote EXCEPT ![i] = @ \cup {release}] ELSE wrote

Skip ==
  /\ pc = "act"
  /\ \E i \in First(todo) : ~ Refused(i) /\ Settled(i) /\ Finished(i)
  /\ UNCHANGED <<disk, state, backups, verb, drop, ok, pc, scope, man, world>>

Touch ==
  /\ pc = "act"
  /\ pc' = "touched"
  /\ \E i \in First(todo) :
       /\ ~ Refused(i) /\ ~ Settled(i)
       /\ \E c \in Halfway(i) : disk' = [disk EXCEPT ![i] = c]
  /\ UNCHANGED <<state, backups, plan, scope, done, man, wrote, world>>

Complete ==
  /\ pc = "touched"
  /\ pc' = "act"
  /\ \E i \in First(todo) : Finished(i) /\ disk' = [disk EXCEPT ![i] = Target(i)]
  /\ UNCHANGED <<state, backups, verb, drop, ok, scope, man, world>>

Refuse ==
  /\ pc = "act"
  /\ \E i \in First(todo) : Refused(i)
  /\ pc' = "failed"
  /\ UNCHANGED <<disk, state, backups, plan, scope, done, man, wrote, world>>

AllDone ==
  /\ pc = "act"
  /\ todo = {}
  /\ pc' = CASE verb = "restore" -> "done"
             [] verb = "purge" -> "purge_home"
             [] verb = "instructions" -> "record_scoped"
             [] OTHER -> "record_skills"
  /\ UNCHANGED <<disk, state, backups, plan, scope, done, man, wrote, world>>
------------------------------------------------------------------------------
(* A removed item keeps its entry.                                         *)
MutRecord(items) ==
  recorded' = [i \in Managed |-> IF i \in items \ drop THEN release ELSE recorded[i]]

(* A removed item keeps an entry without content.                          *)
MutTombstone(items) ==
  recorded' = [i \in Managed |-> IF i \notin items THEN recorded[i]
                                 ELSE IF i \in drop THEN Absent ELSE release]

(* Apply and ApplyAgents: what was written and what was removed.           *)
Record(items) ==
  recorded' = [i \in Managed |-> IF i \notin items THEN recorded[i]
                                 ELSE IF i \in drop THEN None ELSE release]

RecordSkills ==
  /\ pc = "record_skills"
  /\ pc' = "record_agents"
  /\ Record(done \cap Skills)
  /\ UNCHANGED <<disk, scopedOn, backups, plan, scope, done, man, wrote, world>>

RecordAgents ==
  /\ pc = "record_agents"
  /\ Record(done \cap Agents)
  /\ pc' = IF ~ ok THEN "failed"
           ELSE IF verb = "sync" /\ scopedOn THEN "reapply" ELSE "done"
  /\ UNCHANGED <<disk, scopedOn, backups, plan, scope, done, man, wrote, world>>

(* The backup of the sync is taken to be enough.                           *)
MutReapply ==
  /\ pc = "reapply"
  /\ pc' = "act"
  /\ verb' = "instructions" /\ todo' = Scoped
  /\ done' = {}
  /\ UNCHANGED <<disk, state, backups, drop, ok, scope, man, wrote, world>>

(* RunSync goes on to installInstructions when the state asks for it.      *)
Reapply ==
  /\ pc = "reapply"
  /\ pc' = "snapshot"
  /\ verb' = "instructions" /\ todo' = Scoped
  /\ scope' = Scoped
  /\ done' = {}
  /\ man' = NewManifest(disk)
  /\ UNCHANGED <<disk, state, backups, drop, ok, wrote, world>>

RecordScoped ==
  /\ pc = "record_scoped"
  /\ pc' = "done"
  /\ scopedOn' = TRUE
  /\ UNCHANGED <<disk, recorded, backups, plan, scope, done, man, wrote, world>>

(* purgeCapikoHome is best effort: some of ~/.capiko may stay, and some of *)
(* a backup.                                                               *)
PurgeHome ==
  /\ pc = "purge_home"
  /\ pc' = "done"
  /\ backups' \in SUBSET (backups \cup UNION {Cuts(b) : b \in backups})
  /\ Cardinality(backups') <= MaxBackups
  /\ \/ recorded' = [i \in Managed |-> None] /\ scopedOn' = FALSE
     \/ UNCHANGED state
  /\ UNCHANGED <<disk, plan, scope, done, man, wrote, world>>
------------------------------------------------------------------------------
(* Every command records what it had planned.                              *)
MutFail ==
  /\ pc \in {"act", "touched"} /\ todo # {} /\ verb # "purge"
  /\ pc' = "record_skills" /\ ok' = FALSE
  /\ done' = done \cup todo
  /\ UNCHANGED <<disk, state, backups, todo, verb, drop, scope, man, wrote, world>>

(* A system call fails.  UninstallAll records what it has removed before   *)
(* it returns the error, PurgeAll goes on with the next item, every other  *)
(* command returns at once and records nothing.  RunSync takes a state it  *)
(* cannot load for one that asks for nothing.                              *)
Fail ==
  \/ /\ pc \in {"act", "touched"} /\ todo # {}
     /\ \/ verb = "uninstall" /\ pc' = "record_skills" /\ ok' = FALSE /\ UNCHANGED todo
        \/ verb = "purge" /\ pc' = "act" /\ todo' = todo \ First(todo) /\ UNCHANGED ok
        \/ verb \notin {"uninstall", "purge"} /\ pc' = "failed" /\ UNCHANGED <<todo, ok>>
     /\ UNCHANGED <<disk, state, backups, verb, drop, scope, done, man, wrote, world>>
  \/ /\ pc \in {"snapshot", "record_skills", "record_agents", "record_scoped"}
     /\ pc' = "failed"
     /\ UNCHANGED <<disk, state, backups, plan, scope, done, man, wrote, world>>
  \/ /\ pc = "reapply" /\ pc' = "done"
     /\ UNCHANGED <<disk, state, backups, plan, scope, done, man, wrote, world>>

(* The command returns, or its process is killed.                          *)
End ==
  /\ pc # "idle"
  /\ pc' = "idle"
  /\ verb' = "none" /\ todo' = {} /\ drop' = {} /\ ok' = TRUE
  /\ scope' = {} /\ done' = {}
  /\ man' = NoManifest
  /\ UNCHANGED <<disk, state, backups, wrote, world>>

(* detectCmd, once per TUI session.  A torn skill may lack its SKILL.md.   *)
Launch ==
  /\ Move
  /\ \E half \in SUBSET {s \in Skills : disk[s] = Torn} :
       seen' = {s \in Skills : disk[s] \notin {Absent, Torn}} \cup half
  /\ UNCHANGED <<disk, state, backups, plan, pc, scope, done, man, wrote, release>>

Upgrade ==
  /\ Move
  /\ release < MaxRelease
  /\ release' = release + 1
  /\ UNCHANGED <<disk, state, backups, plan, pc, scope, done, man, wrote, seen>>

Edit ==
  /\ Move
  /\ \E i \in Items, c \in UserTexts \cup {Absent} : disk' = [disk EXCEPT ![i] = c]
  /\ UNCHANGED <<state, backups, plan, pc, scope, done, man, wrote, release, seen>>

Command ==
  Install \/ Uninstall \/ Select \/ Sync \/ Instructions \/ Restore \/ Purge \/ Delete

Step ==
  \/ Snapshot \/ Publish \/ Skip \/ Touch \/ Complete \/ Refuse \/ AllDone
  \/ RecordSkills \/ RecordAgents \/ Reapply \/ RecordScoped \/ PurgeHome

Next == Command \/ Step \/ Fail \/ End \/ Launch \/ Upgrade \/ Edit

Spec == Init /\ [][Next]_vars
------------------------------------------------------------------------------

Verbs == {"none", "install", "uninstall", "select", "sync", "instructions",
          "restore", "purge"}
PCs == {"idle", "snapshot", "act", "touched", "record_skills", "record_agents",
        "record_scoped", "reapply", "purge_home", "done", "failed"}

TypeOK ==
  /\ disk \in [Items -> Contents]
  /\ recorded \in [Managed -> Releases \cup {None}]
  /\ scopedOn \in BOOLEAN
  /\ backups \subseteq Manifests
  /\ release \in Releases
  /\ seen \subseteq Skills
  /\ verb \in Verbs /\ pc \in PCs
  /\ scope \subseteq Items /\ todo \subseteq Items
  /\ drop \subseteq Items /\ done \subseteq Items
  /\ man \in Manifests
  /\ ok \in BOOLEAN
  /\ wrote \in [Managed -> SUBSET Releases]
  /\ moves \in 0..MaxMoves

(* The backup of the running command undoes what the command has done to   *)
(* item i so far.                                                          *)
UndoneByBackup(i) ==
  disk[i] # man.before[i] => man \in backups /\ Brings(man, i)

Covered(i) ==
  \/ verb \in {"install", "uninstall", "select"}
  \/ verb = "sync" /\ i \in Skills
  \/ verb = "instructions" /\ LabelsApart(man)

(* Whatever step a command has come to, fails at or is killed at, each     *)
(* item it has changed is in its backup as it was before.  For `sync' this *)
(* is about skills, and for instructions about files whose base names      *)
(* differ.                                                                 *)
Undoable == \A i \in Items : Covered(i) => UndoneByBackup(i)

Restored == verb = "restore" /\ pc = "done"

(* A restore that ends without an error has brought every item of the      *)
(* backup back to what it was when the backup was begun, whatever happened *)
(* to the disk since; unless copies shared a name, or a deletion of the    *)
(* backup was begun.                                                       *)
RestoreUndoes ==
  Restored /\ man.whole /\ LabelsApart(man) => \A i \in man.listed : disk[i] = man.before[i]

(* backup.go:161-162 and its tests say so of every restore.                *)
RestoreIsExact == Restored => \A i \in man.listed : disk[i] = man.before[i]

(* The state never records a release of an item that capiko did not write  *)
(* completely, whichever commands failed half-way, and when.               *)
ClaimsEarned == \A i \in Managed : recorded[i] # None => recorded[i] \in wrote[i]

(* `uninstall' and `purge' take away no skill or agent that capiko never   *)
(* installed, even one with a catalog name.                                *)
OnlyManagedDeleted ==
  [][\A i \in Managed :
       verb \in {"uninstall", "purge"} /\ disk'[i] # disk[i] => wrote[i] # {}]_vars

(* The verbs that take a backup, and which verb can be at which step.      *)
Snapshotting == {"install", "uninstall", "select", "sync", "instructions"}

StageInv ==
  /\ pc = "idle" => verb = "none" /\ todo = {} /\ drop = {} /\ done = {}
  /\ verb = "none" => pc = "idle"
  /\ pc = "snapshot" => verb \in Snapshotting
  /\ pc \in {"record_skills", "record_agents", "reapply"} =>
       verb \in Snapshotting \ {"instructions"}
  /\ pc = "record_scoped" => verb = "instructions"
  /\ pc = "purge_home" => verb = "purge"

(* Every backup brings back what it lists, and what a command is going to  *)
(* touch is listed before it is touched.                                   *)
Backed == {i \in todo : verb = "sync" => i \in Skills}

BackupInv ==
  /\ \A b \in backups \cup {man} : Exact(b)
  /\ verb \in Snapshotting => man.whole
  /\ verb \in Snapshotting \ {"instructions"} => man.listed \cup scope \subseteq Managed
  /\ pc = "snapshot" =>
       /\ disk = man.before
       /\ scope \cap man.listed = {}
       /\ Backed \subseteq man.listed \cup scope
  /\ pc \in {"act", "touched"} /\ verb \in Snapshotting =>
       man \in backups /\ Backed \subseteq man.listed

(* A restore has brought back what it no longer has to do.                 *)
RestoreInv ==
  verb = "restore" /\ pc \in {"act", "touched", "done"} =>
    /\ \A i \in man.listed \ todo : disk[i] = Saved(man, i)
    /\ pc = "done" => todo = {}

(* Who has acted on an item, and who is going to remove one.               *)
LedgerInv ==
  /\ verb \in Snapshotting => \A i \in Managed \cap (done \ drop) : release \in wrote[i]
  /\ verb \in {"uninstall", "purge"} => \A i \in Managed \cap todo : wrote[i] # {}

IInv == TypeOK /\ StageInv /\ BackupInv /\ Undoable /\ RestoreInv
          /\ ClaimsEarned /\ LedgerInv

(* What a command that reports success has achieved: `install' leaves      *)
(* nothing unrecorded, `uninstall' nothing recorded and nothing it listed  *)
(* on disk, `sync' the whole catalog of skills, on disk and recorded.      *)
Succeeded ==
  pc = "done" =>
    /\ verb = "install" => Recorded = Managed
    /\ verb = "uninstall" =>
         Recorded = {} /\ \A i \in man.listed : disk[i] = Absent
    /\ verb = "sync" => \A s \in Skills : disk[s] = release /\ recorded[s] = release
==============================================================================
