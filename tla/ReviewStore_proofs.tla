-------------------------- MODULE ReviewStore_proofs --------------------------
(***************************************************************************)
(* Theorems about the protocol of the authority store, for any number of   *)
(* processes, any records and any length of run.  The inductive invariant  *)
(* is IInv of ReviewStore.tla: the flock holder is the process in the      *)
(* critical section, a version names one record, and a process in the      *)
(* middle of a save has established what it is about to publish.           *)
(***************************************************************************)
EXTENDS ReviewStore, TLAPS

(* The store's files and processes start out as IInv says. *)
LEMMA InitIInv == Init => IInv
<1> SUFFICES ASSUME Init PROVE IInv
  OBVIOUS
<1> USE ProcsAssumption, StatesAssumption, FilesAssumption
<1>1. record \in Records \cup {NoFile}
  <2>1. \A f \in Frozen : [version |-> 1, state |-> "unreviewed",
                         frozen |-> f, consumed |-> FALSE] \in Records
    BY DEF Records
  <2> QED
    BY <2>1 DEF Init
<1>2. TypeOK
  BY <1>1 DEF Init, TypeOK, PCs
<1>3. NeverTorn
  BY <1>1 DEF Init, NeverTorn
<1>4. LockInv
  BY DEF Init, LockInv, Critical
<1>5. VersionIdentifies
  BY DEF Init, VersionIdentifies, Version
<1>6. SaveInv
  BY DEF Init, SaveInv
<1> QED
  BY <1>2, <1>3, <1>4, <1>5, <1>6 DEF IInv

(* No step of any process, error and kill included, breaks IInv. *)
LEMMA NextIInv == IInv /\ [Next]_vars => IInv'
<1> SUFFICES ASSUME IInv, [Next]_vars PROVE IInv'
  OBVIOUS
<1> USE ProcsAssumption, StatesAssumption, FilesAssumption
<1>1. ASSUME NEW p \in Procs, LoadState(p) PROVE IInv'
  <2>1. TypeOK'
    BY <1>1 DEF IInv, TypeOK, PCs, Critical, Records, Version, LoadState, Goto
  <2>2. NeverTorn'
    BY <1>1 DEF IInv, TypeOK, NeverTorn, SaveInv, LoadState, Goto
  <2>3. LockInv'
    BY <1>1 DEF IInv, TypeOK, LockInv, Critical, LoadState, Goto
  <2>4. VersionIdentifies'
    BY <1>1 DEF IInv, TypeOK, NeverTorn, VersionIdentifies, SaveInv, Version,
       Records, LoadState, Goto
  <2>5. SaveInv'
    BY <1>1 DEF IInv, TypeOK, NeverTorn, LockInv, VersionIdentifies, SaveInv,
       Version, RespectsFreeze, Records, Critical, LoadState, Goto
  <2> QED
    BY <2>1, <2>2, <2>3, <2>4, <2>5 DEF IInv
<1>2. ASSUME NEW p \in Procs, CallSaveState(p) PROVE IInv'
  <2>1. TypeOK'
    BY <1>2 DEF IInv, TypeOK, PCs, Critical, Records, Version, CallSaveState, Goto
  <2>2. NeverTorn'
    BY <1>2 DEF IInv, TypeOK, NeverTorn, SaveInv, CallSaveState, Goto
  <2>3. LockInv'
    BY <1>2 DEF IInv, TypeOK, LockInv, Critical, CallSaveState, Goto
  <2>4. VersionIdentifies'
    BY <1>2 DEF IInv, TypeOK, NeverTorn, VersionIdentifies, SaveInv, Version,
       Records, CallSaveState, Goto
  <2>5. SaveInv'
    BY <1>2 DEF IInv, TypeOK, NeverTorn, LockInv, VersionIdentifies, SaveInv,
       Version, RespectsFreeze, Records, Critical, CallSaveState, Goto
  <2> QED
    BY <2>1, <2>2, <2>3, <2>4, <2>5 DEF IInv
<1>3. ASSUME NEW p \in Procs, CallWriteReceipt(p) PROVE IInv'
  <2>1. TypeOK'
    BY <1>3 DEF IInv, TypeOK, PCs, Critical, Records, Version, CallWriteReceipt, Goto
  <2>2. NeverTorn'
    BY <1>3 DEF IInv, TypeOK, NeverTorn, SaveInv, CallWriteReceipt, Goto
  <2>3. LockInv'
    BY <1>3 DEF IInv, TypeOK, LockInv, Critical, CallWriteReceipt, Goto
  <2>4. VersionIdentifies'
    BY <1>3 DEF IInv, TypeOK, NeverTorn, VersionIdentifies, SaveInv, Version,
       Records, CallWriteReceipt, Goto
  <2>5. SaveInv'
    BY <1>3 DEF IInv, TypeOK, NeverTorn, LockInv, VersionIdentifies, SaveInv,
       Version, RespectsFreeze, Records, Critical, CallWriteReceipt, Goto
  <2> QED
    BY <2>1, <2>2, <2>3, <2>4, <2>5 DEF IInv
<1>4. ASSUME NEW p \in Procs, Acquire(p) PROVE IInv'
  <2>1. TypeOK'
    BY <1>4 DEF IInv, TypeOK, PCs, Critical, Records, Version, Acquire, Goto
  <2>2. NeverTorn'
    BY <1>4 DEF IInv, TypeOK, NeverTorn, SaveInv, Acquire, Goto
  <2>3. LockInv'
    BY <1>4 DEF IInv, TypeOK, LockInv, Critical, Acquire, Goto
  <2>4. VersionIdentifies'
    BY <1>4 DEF IInv, TypeOK, NeverTorn, VersionIdentifies, SaveInv, Version,
       Records, Acquire, Goto
  <2>5. SaveInv'
    BY <1>4 DEF IInv, TypeOK, NeverTorn, LockInv, VersionIdentifies, SaveInv,
       Version, RespectsFreeze, Records, Critical, Acquire, Goto
  <2> QED
    BY <2>1, <2>2, <2>3, <2>4, <2>5 DEF IInv
<1>5. ASSUME NEW p \in Procs, CheckState(p) PROVE IInv'
  <2>1. TypeOK'
    <3>1. new[p] \in Records
      BY <1>5 DEF IInv, SaveInv, CheckState, Goto
    <3>2. [new[p] EXCEPT !.version = @ + 1] \in Records
      BY <3>1 DEF Records
    <3>3. new' \in [Procs -> Records \cup Outcomes \cup {NoFile}]
      BY <1>5, <3>2 DEF IInv, TypeOK, CheckState
    <3> QED
      BY <1>5, <3>3 DEF IInv, TypeOK, PCs, Critical, CheckState, Goto
  <2>2. NeverTorn'
    BY <1>5 DEF IInv, TypeOK, NeverTorn, SaveInv, CheckState, Goto, Admits
  <2>3. LockInv'
    BY <1>5 DEF IInv, TypeOK, LockInv, Critical, CheckState, Goto, Admits
  <2>4. VersionIdentifies'
    BY <1>5 DEF IInv, TypeOK, NeverTorn, VersionIdentifies, SaveInv, Version,
       Records, CheckState, Goto, Admits
  <2>5. SaveInv'
    BY <1>5 DEF IInv, TypeOK, NeverTorn, LockInv, VersionIdentifies, SaveInv,
       Version, RespectsFreeze, Records, Critical, CheckState, Goto, Admits
  <2> QED
    BY <2>1, <2>2, <2>3, <2>4, <2>5 DEF IInv
<1>6. ASSUME NEW p \in Procs, CheckReceipt(p) PROVE IInv'
  <2>1. TypeOK'
    BY <1>6 DEF IInv, TypeOK, PCs, Critical, Records, Version, CheckReceipt, Goto
  <2>2. NeverTorn'
    BY <1>6 DEF IInv, TypeOK, NeverTorn, SaveInv, CheckReceipt, Goto
  <2>3. LockInv'
    BY <1>6 DEF IInv, TypeOK, LockInv, Critical, CheckReceipt, Goto
  <2>4. VersionIdentifies'
    BY <1>6 DEF IInv, TypeOK, NeverTorn, VersionIdentifies, SaveInv, Version,
       Records, CheckReceipt, Goto
  <2>5. SaveInv'
    BY <1>6 DEF IInv, TypeOK, NeverTorn, LockInv, VersionIdentifies, SaveInv,
       Version, RespectsFreeze, Records, Critical, CheckReceipt, Goto
  <2> QED
    BY <2>1, <2>2, <2>3, <2>4, <2>5 DEF IInv
<1>7. ASSUME NEW p \in Procs, Truncate(p) PROVE IInv'
  <2>1. TypeOK'
    BY <1>7 DEF IInv, TypeOK, PCs, Critical, Records, Version, Truncate, Goto, SetTmp
  <2>2. NeverTorn'
    BY <1>7 DEF IInv, TypeOK, NeverTorn, SaveInv, Truncate, Goto, SetTmp
  <2>3. LockInv'
    BY <1>7 DEF IInv, TypeOK, LockInv, Critical, Truncate, Goto, SetTmp
  <2>4. VersionIdentifies'
    BY <1>7 DEF IInv, TypeOK, NeverTorn, VersionIdentifies, SaveInv, Version,
       Records, Truncate, Goto, SetTmp
  <2>5. SaveInv'
    BY <1>7 DEF IInv, TypeOK, NeverTorn, LockInv, VersionIdentifies, SaveInv,
       Version, RespectsFreeze, Records, Critical, Truncate, Goto, SetTmp
  <2> QED
    BY <2>1, <2>2, <2>3, <2>4, <2>5 DEF IInv
<1>8. ASSUME NEW p \in Procs, Fill(p) PROVE IInv'
  <2>1. TypeOK'
    <3>1. IF job[p] = "state" THEN new[p] \in Records ELSE new[p] \in Outcomes
      BY <1>8 DEF IInv, TypeOK, SaveInv, Fill, Goto
    <3> QED
      BY <1>8, <3>1 DEF IInv, TypeOK, PCs, Critical, Fill, Goto, SetTmp
  <2>2. NeverTorn'
    BY <1>8 DEF IInv, TypeOK, NeverTorn, SaveInv, Fill, Goto, SetTmp
  <2>3. LockInv'
    BY <1>8 DEF IInv, TypeOK, LockInv, Critical, Fill, Goto, SetTmp
  <2>4. VersionIdentifies'
    BY <1>8 DEF IInv, TypeOK, NeverTorn, VersionIdentifies, SaveInv, Version,
       Records, Fill, Goto, SetTmp
  <2>5. SaveInv'
    BY <1>8 DEF IInv, TypeOK, NeverTorn, LockInv, VersionIdentifies, SaveInv,
       Version, RespectsFreeze, Records, Critical, Fill, Goto, SetTmp
  <2> QED
    BY <2>1, <2>2, <2>3, <2>4, <2>5 DEF IInv
<1>9. ASSUME NEW p \in Procs, RenameState(p) PROVE IInv'
  <2>1. TypeOK'
    <3>1. new[p] \in Records
      BY <1>9 DEF IInv, SaveInv, RenameState, Goto
    <3> QED
      BY <1>9, <3>1 DEF IInv, TypeOK, PCs, Critical, RenameState, Goto
  <2>2. NeverTorn'
    BY <1>9 DEF IInv, TypeOK, NeverTorn, SaveInv, RenameState, Goto
  <2>3. LockInv'
    BY <1>9 DEF IInv, TypeOK, LockInv, Critical, RenameState, Goto
  <2>4. VersionIdentifies'
    BY <1>9 DEF IInv, TypeOK, NeverTorn, VersionIdentifies, SaveInv, Version,
       Records, RenameState, Goto
  <2>5. SaveInv'
    BY <1>9 DEF IInv, TypeOK, NeverTorn, LockInv, VersionIdentifies, SaveInv,
       Version, RespectsFreeze, Records, Critical, RenameState, Goto
  <2> QED
    BY <2>1, <2>2, <2>3, <2>4, <2>5 DEF IInv
<1>10. ASSUME NEW p \in Procs, RenameReceipt(p) PROVE IInv'
  <2>1. TypeOK'
    BY <1>10 DEF IInv, TypeOK, PCs, Critical, Records, Version, RenameReceipt, Goto
  <2>2. NeverTorn'
    BY <1>10 DEF IInv, TypeOK, NeverTorn, SaveInv, RenameReceipt, Goto
  <2>3. LockInv'
    BY <1>10 DEF IInv, TypeOK, LockInv, Critical, RenameReceipt, Goto
  <2>4. VersionIdentifies'
    BY <1>10 DEF IInv, TypeOK, NeverTorn, VersionIdentifies, SaveInv, Version,
       Records, RenameReceipt, Goto
  <2>5. SaveInv'
    BY <1>10 DEF IInv, TypeOK, NeverTorn, LockInv, VersionIdentifies, SaveInv,
       Version, RespectsFreeze, Records, Critical, RenameReceipt, Goto
  <2> QED
    BY <2>1, <2>2, <2>3, <2>4, <2>5 DEF IInv
<1>11. ASSUME NEW p \in Procs, IOError(p) PROVE IInv'
  <2>1. TypeOK'
    BY <1>11 DEF IInv, TypeOK, PCs, Critical, Records, Version, IOError, Goto
  <2>2. NeverTorn'
    BY <1>11 DEF IInv, TypeOK, NeverTorn, SaveInv, IOError, Goto
  <2>3. LockInv'
    BY <1>11 DEF IInv, TypeOK, LockInv, Critical, IOError, Goto
  <2>4. VersionIdentifies'
    BY <1>11 DEF IInv, TypeOK, NeverTorn, VersionIdentifies, SaveInv, Version,
       Records, IOError, Goto
  <2>5. SaveInv'
    BY <1>11 DEF IInv, TypeOK, NeverTorn, LockInv, VersionIdentifies, SaveInv,
       Version, RespectsFreeze, Records, Critical, IOError, Goto
  <2> QED
    BY <2>1, <2>2, <2>3, <2>4, <2>5 DEF IInv
<1>12. ASSUME NEW p \in Procs, Unlock(p) PROVE IInv'
  <2>1. TypeOK'
    BY <1>12 DEF IInv, TypeOK, PCs, Critical, Records, Version, Unlock, Goto
  <2>2. NeverTorn'
    BY <1>12 DEF IInv, TypeOK, NeverTorn, SaveInv, Unlock, Goto
  <2>3. LockInv'
    BY <1>12 DEF IInv, TypeOK, LockInv, Critical, Unlock, Goto
  <2>4. VersionIdentifies'
    BY <1>12 DEF IInv, TypeOK, NeverTorn, VersionIdentifies, SaveInv, Version,
       Records, Unlock, Goto
  <2>5. SaveInv'
    BY <1>12 DEF IInv, TypeOK, NeverTorn, LockInv, VersionIdentifies, SaveInv,
       Version, RespectsFreeze, Records, Critical, Unlock, Goto
  <2> QED
    BY <2>1, <2>2, <2>3, <2>4, <2>5 DEF IInv
<1>13. ASSUME NEW p \in Procs, UnlockFailed(p) PROVE IInv'
  <2>1. TypeOK'
    BY <1>13 DEF IInv, TypeOK, PCs, Critical, Records, Version, UnlockFailed, Goto,
       Forget
  <2>2. NeverTorn'
    BY <1>13 DEF IInv, TypeOK, NeverTorn, SaveInv, UnlockFailed, Goto, Forget
  <2>3. LockInv'
    BY <1>13 DEF IInv, TypeOK, LockInv, Critical, UnlockFailed, Goto, Forget
  <2>4. VersionIdentifies'
    BY <1>13 DEF IInv, TypeOK, NeverTorn, VersionIdentifies, SaveInv, Version,
       Records, UnlockFailed, Goto, Forget
  <2>5. SaveInv'
    BY <1>13 DEF IInv, TypeOK, NeverTorn, LockInv, VersionIdentifies, SaveInv,
       Version, RespectsFreeze, Records, Critical, UnlockFailed, Goto, Forget
  <2> QED
    BY <2>1, <2>2, <2>3, <2>4, <2>5 DEF IInv
<1>14. ASSUME NEW p \in Procs, Exit(p) PROVE IInv'
  <2>1. TypeOK'
    BY <1>14 DEF IInv, TypeOK, PCs, Critical, Records, Version, Exit, Goto, Forget
  <2>2. NeverTorn'
    BY <1>14 DEF IInv, TypeOK, NeverTorn, SaveInv, Exit, Goto, Forget
  <2>3. LockInv'
    BY <1>14 DEF IInv, TypeOK, LockInv, Critical, Exit, Goto, Forget
  <2>4. VersionIdentifies'
    BY <1>14 DEF IInv, TypeOK, NeverTorn, VersionIdentifies, SaveInv, Version,
       Records, Exit, Goto, Forget
  <2>5. SaveInv'
    BY <1>14 DEF IInv, TypeOK, NeverTorn, LockInv, VersionIdentifies, SaveInv,
       Version, RespectsFreeze, Records, Critical, Exit, Goto, Forget
  <2> QED
    BY <2>1, <2>2, <2>3, <2>4, <2>5 DEF IInv
<1>15. CASE UNCHANGED vars
  BY <1>15 DEF IInv, vars, TypeOK, NeverTorn, LockInv, VersionIdentifies, SaveInv,
     Critical
<1> QED
  BY <1>1, <1>2, <1>3, <1>4, <1>5, <1>6, <1>7, <1>8, <1>9, <1>10, <1>11, <1>12,
     <1>13, <1>14, <1>15 DEF Next, Save

(* IInv holds in every state of every run of the protocol: SaveState and   *)
(* WriteReceipt of store.go, interleaved by any number of processes.       *)
THEOREM Invariance == Spec => []IInv
BY InitIInv, NextIInv, PTL DEF Spec

(* The files and the processes' memory always hold what their types say.   *)
THEOREM TypeCorrect == Spec => []TypeOK
<1>1. IInv => TypeOK
  BY DEF IInv
<1> QED
  BY <1>1, Invariance, PTL

(* A process killed, or an error, between the truncation of a temporary    *)
(* file and its rename never damages review-state.json or the receipt.     *)
THEOREM NeverTornAlways == Spec => []NeverTorn
<1>1. IInv => NeverTorn
  BY DEF IInv
<1> QED
  BY <1>1, Invariance, PTL

(* Only a rename changes the record, and under the flock the record it     *)
(* replaces is the one its process read: SaveState loses no update.        *)
LEMMA RecordSteps ==
  IInv /\ [Next]_vars =>
    \/ UNCHANGED <<record, receipt>>
    \/ \E p \in Procs :
         /\ RenameState(p)
         /\ base[p] = record /\ base'[p] = record'
         /\ record' \in Records
         /\ record'.version = Version(record) + 1
         /\ RespectsFreeze(record, record')
    \/ \E p \in Procs :
         RenameReceipt(p) /\ receipt = NoFile /\ receipt' \in Outcomes
<1> SUFFICES ASSUME IInv, [Next]_vars
             PROVE  \/ UNCHANGED <<record, receipt>>
                    \/ \E p \in Procs :
                         /\ RenameState(p)
                         /\ base[p] = record /\ base'[p] = record'
                         /\ record' \in Records
                         /\ record'.version = Version(record) + 1
                         /\ RespectsFreeze(record, record')
                    \/ \E p \in Procs :
                         RenameReceipt(p) /\ receipt = NoFile /\ receipt' \in Outcomes
  OBVIOUS
<1>1. ASSUME NEW p \in Procs, RenameState(p)
      PROVE  /\ base[p] = record /\ base'[p] = record'
             /\ record' \in Records
             /\ record'.version = Version(record) + 1
             /\ RespectsFreeze(record, record')
  BY <1>1 DEF IInv, TypeOK, SaveInv, RenameState, Goto
<1>2. ASSUME NEW p \in Procs, RenameReceipt(p)
      PROVE  receipt = NoFile /\ receipt' \in Outcomes
  BY <1>2 DEF IInv, SaveInv, RenameReceipt, Goto
<1>3. ASSUME NEW p \in Procs,
             \/ LoadState(p) \/ CallSaveState(p) \/ CallWriteReceipt(p)
             \/ Acquire(p) \/ CheckState(p) \/ CheckReceipt(p)
             \/ Truncate(p) \/ Fill(p) \/ IOError(p)
             \/ Unlock(p) \/ UnlockFailed(p) \/ Exit(p)
      PROVE  UNCHANGED <<record, receipt>>
  BY <1>3 DEF LoadState, CallSaveState, CallWriteReceipt, Acquire, CheckState,
     CheckReceipt, Truncate, Fill, IOError, Unlock, UnlockFailed, Exit
<1>4. CASE UNCHANGED vars
  BY <1>4 DEF vars
<1> QED
  BY <1>1, <1>2, <1>3, <1>4 DEF Next, Save

(* No lost update, for every run. *)
THEOREM NoLostUpdateAlways == Spec => NoLostUpdate
<1>1. IInv /\ [Next]_vars =>
        [record' # record =>
           \E p \in Procs : base[p] = record /\ base'[p] = record']_vars
  BY RecordSteps DEF RenameReceipt
<1> QED
  BY <1>1, Invariance, PTL DEF Spec, NoLostUpdate

(* The protocol implements the atomic, versioned record and the receipt    *)
(* written once that ReviewAuthority.tla promises, which is what lets      *)
(* Review.tla take SaveState and WriteReceipt as single steps.             *)
THEOREM ImplementsAuthorityAlways == Spec => ImplementsAuthority
<1>1. Init => Authority!Init
  BY InitIInv DEF Init, IInv, TypeOK, NeverTorn, Authority!Init, Authority!Records,
     Records
<1>2. IInv /\ [Next]_vars => [Authority!Next]_(Authority!vars)
  BY RecordSteps DEF Authority!Next, Authority!Commit, Authority!IssueReceipt,
     Authority!vars, Authority!Records, Records, Authority!Version, Version,
     Authority!RespectsFreeze, RespectsFreeze, RenameState, RenameReceipt
<1> QED
  BY <1>1, <1>2, Invariance, PTL DEF Spec, ImplementsAuthority, Authority!Spec
===============================================================================
