----------------------------- MODULE ReviewStore -----------------------------
(***************************************************************************)
(* The protocol of internal/reviewstore/store.go.  Short-lived processes   *)
(* read review-state.json without a lock, change the record in memory, and *)
(* call SaveState: take the flock, read the file again, compare versions,  *)
(* check the frozen fields, write review-state.json.tmp, rename it over    *)
(* review-state.json, drop the lock.  WriteReceipt does the same for a     *)
(* file that may be written once.  A process may die at any point: the     *)
(* kernel drops its flock, the temporary file stays as it was left.        *)
(***************************************************************************)
EXTENDS Naturals, Lifecycle

CONSTANTS Procs,       \* capiko-ai processes sharing the store (all worktrees)
          NoProc,      \* nobody holds the flock
          States,      \* the lifecycle states records carry in this instance
          Frozen,      \* values of (Tier, SelectedLenses, SubjectHash) together
          Outcomes,    \* receipt contents, told apart by their outcome
          NoFile,      \* no such file
          Torn,        \* a file whose content does not parse
          MaxVersion   \* bound on the versions a caller goes on to write

VARIABLES record,      \* review-state.json
          receipt,     \* review-receipt.json
          stateTmp,    \* review-state.json.tmp
          receiptTmp,  \* review-receipt.json.tmp
          lock,        \* holder of the flock on .lock
          pc,          \* where each process is
          job,         \* the file it is saving, "state" or "receipt"
          base,        \* the record it last read, or last committed itself
          new          \* what it is about to write

vars == <<record, receipt, stateTmp, receiptTmp, lock, pc, job, base, new>>

Records ==
  [version : Nat, state : States, frozen : Frozen, consumed : BOOLEAN]

ASSUME ProcsAssumption == NoProc \notin Procs
ASSUME StatesAssumption ==
  "unreviewed" \in States /\ States \subseteq LifecycleStates
ASSUME FilesAssumption ==
  /\ NoFile # Torn
  /\ {NoFile, Torn} \cap Outcomes = {}
  /\ NoFile \notin Records /\ Torn \notin Records
ASSUME BoundAssumption == MaxVersion \in Nat

Version(r) == IF r = NoFile THEN 0 ELSE r.version

MutRespectsFreeze(old, next) == old # NoFile => next.frozen = old.frozen

(* checkFreezeInvariant *)
RespectsFreeze(old, next) ==
  old # NoFile =>
    /\ old.consumed => next.consumed
    /\ old.state # "unreviewed" => next.frozen = old.frozen

(* Steps of SaveState and WriteReceipt taken while the flock is held. *)
Critical == {"check", "truncate", "fill", "rename", "unlock", "unlock_failed"}

Init ==
  /\ \/ record = NoFile
     \/ \E f \in Frozen : record = [version |-> 1, state |-> "unreviewed",
                                  frozen |-> f, consumed |-> FALSE]
  /\ receipt = NoFile
  /\ stateTmp = NoFile /\ receiptTmp = NoFile
  /\ lock = NoProc
  /\ pc = [p \in Procs |-> "idle"]
  /\ job = [p \in Procs |-> "state"]
  /\ base = [p \in Procs |-> NoFile]
  /\ new = [p \in Procs |-> NoFile]

Goto(p, from, to) ==
  /\ pc[p] = from
  /\ pc' = [pc EXCEPT ![p] = to]

(* The process ends: nothing of its memory is left. *)
Forget(p) ==
  /\ job' = [job EXCEPT ![p] = "state"]
  /\ base' = [base EXCEPT ![p] = NoFile]
  /\ new' = [new EXCEPT ![p] = NoFile]

(* LoadState: no lock; a file that does not parse is an error. *)
LoadState(p) ==
  /\ record # Torn
  /\ Goto(p, "idle", "loaded")
  /\ base' = [base EXCEPT ![p] = record]
  /\ UNCHANGED <<record, receipt, stateTmp, receiptTmp, lock, job, new>>

(* A caller presents a record that carries the version it read. *)
CallSaveState(p) ==
  /\ Version(base[p]) < MaxVersion
  /\ Goto(p, "loaded", "acquire")
  /\ job' = [job EXCEPT ![p] = "state"]
  /\ \E s \in States, f \in Frozen, c \in BOOLEAN :
       new' = [new EXCEPT ![p] = [version |-> Version(base[p]), state |-> s,
                                  frozen |-> f, consumed |-> c]]
  /\ UNCHANGED <<record, receipt, stateTmp, receiptTmp, lock, base>>

CallWriteReceipt(p) ==
  /\ Goto(p, "loaded", "acquire")
  /\ job' = [job EXCEPT ![p] = "receipt"]
  /\ \E o \in Outcomes : new' = [new EXCEPT ![p] = o]
  /\ UNCHANGED <<record, receipt, stateTmp, receiptTmp, lock, base>>

(* flockAcquire blocks until the lock is free. *)
Acquire(p) ==
  /\ lock = NoProc
  /\ Goto(p, "acquire", "check")
  /\ lock' = p
  /\ UNCHANGED <<record, receipt, stateTmp, receiptTmp, job, base, new>>

(* What a bug would make of definitions of this module is spelled out as   *)
(* Mut... next to them, to show that a property notices.                   *)
MutAdmits(current, next) == current # Torn /\ RespectsFreeze(current, next)

(* SaveState under the lock: version compare, freeze check, new version. *)
Admits(current, next) ==
  /\ current # Torn
  /\ next.version = Version(current)
  /\ RespectsFreeze(current, next)

CheckState(p) ==
  /\ job[p] = "state"
  /\ \/ /\ Goto(p, "check", "truncate")
        /\ Admits(record, new[p])
        /\ new' = [new EXCEPT ![p].version = @ + 1]
     \/ /\ Goto(p, "check", "unlock_failed")
        /\ ~ Admits(record, new[p])
        /\ UNCHANGED new
  /\ UNCHANGED <<record, receipt, stateTmp, receiptTmp, lock, job, base>>

(* WriteReceipt under the lock: refuse when the file is there. *)
CheckReceipt(p) ==
  /\ job[p] = "receipt"
  /\ Goto(p, "check", IF receipt = NoFile THEN "truncate" ELSE "unlock_failed")
  /\ UNCHANGED <<record, receipt, stateTmp, receiptTmp, lock, job, base, new>>

(* Both files written through one temporary file. *)
MutSetTmp(p, content) == stateTmp' = content /\ UNCHANGED receiptTmp

(* os.WriteFile(tmp): the file is emptied, then filled. *)
SetTmp(p, content) ==
  IF job[p] = "state"
    THEN stateTmp' = content /\ UNCHANGED receiptTmp
    ELSE receiptTmp' = content /\ UNCHANGED stateTmp

(* Renamed before the content is written. *)
MutTruncate(p) ==
  /\ Goto(p, "truncate", "rename")
  /\ SetTmp(p, Torn)
  /\ UNCHANGED <<record, receipt, lock, job, base, new>>

Truncate(p) ==
  /\ Goto(p, "truncate", "fill")
  /\ SetTmp(p, Torn)
  /\ UNCHANGED <<record, receipt, lock, job, base, new>>

Fill(p) ==
  /\ Goto(p, "fill", "rename")
  /\ SetTmp(p, new[p])
  /\ UNCHANGED <<record, receipt, lock, job, base, new>>

(* os.Rename publishes whatever the temporary file holds. *)
RenameState(p) ==
  /\ job[p] = "state"
  /\ stateTmp # NoFile
  /\ Goto(p, "rename", "unlock")
  /\ record' = stateTmp
  /\ stateTmp' = NoFile
  /\ base' = [base EXCEPT ![p] = new[p]]
  /\ UNCHANGED <<receipt, receiptTmp, lock, job, new>>

RenameReceipt(p) ==
  /\ job[p] = "receipt"
  /\ receiptTmp # NoFile
  /\ Goto(p, "rename", "unlock")
  /\ receipt' = receiptTmp
  /\ receiptTmp' = NoFile
  /\ UNCHANGED <<record, stateTmp, lock, job, base, new>>

(* Any system call under the lock may fail; the error is returned. *)
IOError(p) ==
  /\ \E step \in {"check", "truncate", "fill", "rename"} :
       Goto(p, step, "unlock_failed")
  /\ UNCHANGED <<record, receipt, stateTmp, receiptTmp, lock, job, base, new>>

(* The lock is not released on this path. *)
MutUnlock(p) ==
  /\ Goto(p, "unlock", "loaded")
  /\ new' = [new EXCEPT ![p] = NoFile]
  /\ job' = [job EXCEPT ![p] = "state"]
  /\ UNCHANGED <<record, receipt, stateTmp, receiptTmp, base, lock>>

(* The deferred flockRelease: a successful caller may go on to its next    *)
(* save with the version it now holds, a failed one returns its error.     *)
Unlock(p) ==
  /\ Goto(p, "unlock", "loaded")
  /\ lock' = NoProc
  /\ new' = [new EXCEPT ![p] = NoFile]
  /\ job' = [job EXCEPT ![p] = "state"]
  /\ UNCHANGED <<record, receipt, stateTmp, receiptTmp, base>>

MutUnlockFailed(p) ==
  /\ Goto(p, "unlock_failed", "idle")
  /\ Forget(p)
  /\ UNCHANGED <<record, receipt, stateTmp, receiptTmp, lock>>

UnlockFailed(p) ==
  /\ Goto(p, "unlock_failed", "idle")
  /\ lock' = NoProc
  /\ Forget(p)
  /\ UNCHANGED <<record, receipt, stateTmp, receiptTmp>>

(* The process returns to the shell after a load, or is killed anywhere.   *)
Exit(p) ==
  /\ pc[p] # "idle"
  /\ pc' = [pc EXCEPT ![p] = "idle"]
  /\ lock' = IF lock = p THEN NoProc ELSE lock
  /\ Forget(p)
  /\ UNCHANGED <<record, receipt, stateTmp, receiptTmp>>

Save(p) ==
  \/ Acquire(p) \/ CheckState(p) \/ CheckReceipt(p) \/ Truncate(p) \/ Fill(p)
  \/ RenameState(p) \/ RenameReceipt(p) \/ Unlock(p) \/ UnlockFailed(p)

Next ==
  \E p \in Procs :
    LoadState(p) \/ CallSaveState(p) \/ CallWriteReceipt(p) \/ Save(p)
      \/ IOError(p) \/ Exit(p)

Spec == Init /\ [][Next]_vars

(* A call that has begun keeps running: SaveState has no wait but the flock. *)
FairSpec == Spec /\ \A p \in Procs : WF_vars(Save(p))
------------------------------------------------------------------------------

PCs == {"idle", "loaded", "acquire"} \cup Critical

TypeOK ==
  /\ record \in Records \cup {NoFile, Torn}
  /\ receipt \in Outcomes \cup {NoFile, Torn}
  /\ stateTmp \in Records \cup {NoFile, Torn}
  /\ receiptTmp \in Outcomes \cup {NoFile, Torn}
  /\ lock \in Procs \cup {NoProc}
  /\ pc \in [Procs -> PCs]
  /\ job \in [Procs -> {"state", "receipt"}]
  /\ base \in [Procs -> Records \cup {NoFile}]
  /\ new \in [Procs -> Records \cup Outcomes \cup {NoFile}]

(* A crash or an error in the middle of a write never damages what was     *)
(* committed: neither file is ever anything but a complete document.       *)
NeverTorn == record # Torn /\ receipt # Torn

(* The process in the critical section is the one that holds the flock.    *)
LockInv == \A p \in Procs : lock = p <=> pc[p] \in Critical

(* A version number names one record: whoever holds a record with the      *)
(* version that is on disk holds the record that is on disk.               *)
VersionIdentifies ==
  /\ record # NoFile => Version(record) > 0
  /\ \A p \in Procs :
       /\ base[p] # NoFile => Version(base[p]) > 0
       /\ Version(base[p]) <= Version(record)
       /\ Version(base[p]) = Version(record) => base[p] = record

(* What a process in the middle of a save has established.                 *)
SaveInv ==
  \A p \in Procs :
    /\ job[p] = "state" =>
         /\ pc[p] \in {"acquire", "check", "truncate", "fill", "rename", "unlock"}
              => new[p] \in Records
         /\ pc[p] \in {"acquire", "check"} => new[p].version = Version(base[p])
         /\ pc[p] \in {"truncate", "fill", "rename"} =>
              /\ base[p] = record
              /\ new[p].version = Version(record) + 1
              /\ RespectsFreeze(record, new[p])
         /\ pc[p] = "rename" => stateTmp = new[p]
    /\ job[p] = "receipt" =>
         /\ pc[p] \in {"acquire", "check", "truncate", "fill", "rename", "unlock"}
              => new[p] \in Outcomes
         /\ pc[p] \in {"truncate", "fill", "rename"} => receipt = NoFile
         /\ pc[p] = "rename" => receiptTmp = new[p]

IInv == TypeOK /\ NeverTorn /\ LockInv /\ VersionIdentifies /\ SaveInv

(* No lost update: a process only ever replaces the record it has read, so *)
(* two processes that read the same version cannot both commit.            *)
NoLostUpdate ==
  [][record' # record =>
       \E p \in Procs : base[p] = record /\ base'[p] = record']_vars

(* The protocol, with its lock, temporary files and crashes, implements    *)
(* the atomic versioned record and write-once receipt callers rely on.     *)
Authority == INSTANCE ReviewAuthority
ImplementsAuthority == Authority!Spec

(* The flock is never held for ever: whoever takes it finishes its call or *)
(* dies.                                                                   *)
LockReleased == \A p \in Procs : lock = p ~> lock # p
==============================================================================
