--------------------- MODULE GoControlTransactionProofs ---------------------
(***************************************************************************)
(* Machine-checked proofs about GoControlTransaction: for any number of    *)
(* processes and any selections, the controls and the approval belong      *)
(* together whenever no backup directory exists, nothing is ever lost      *)
(* while one does, and the transaction implements the atomic update of     *)
(* ApprovedProject.                                                        *)
(***************************************************************************)
EXTENDS GoControlTransaction, TLAPS

-----------------------------------------------------------------------------
(* The inductive invariant                                                 *)

\* The labels at which the backup directory is the process's own.
InTransaction ==
    {"prepare", "verify", "backupMeta", "check", "move", "publish", "unlink",
     "publishMeta", "approve", "sync", "boundary", "rbMeta", "rbRestoreMeta",
     "rbDropMeta", "rbCheck", "rbRemove", "rbRestore", "rbUnlink", "rbSync",
     "inventory", "purge"}

\* The labels at which no backup directory exists.
Outside == {"resolve", "begin", "lastSync"}

\* Who owns what: only the lock holder acts, and a backup directory belongs to
\* the acting process or closes the project.
Ownership ==
    \A s \in Sessions :
        /\ pc[s] \notin Idle => lock = s
        /\ pc[s] \in InTransaction => dir = s
        /\ pc[s] \in Outside => dir = Nobody

\* A pair of controls and approval a guard may start from.
Together(fs, doc) ==
    IF doc = NoDoc THEN Contents(fs) \in DependencyFree
                   ELSE Contents(fs) = doc

\* How far one control is before any rollback of it.
Forward(s, n) ==
    /\ project[n] = IF n \in published THEN Replacement(s, n)
                    ELSE IF n \in moved THEN NoFile ELSE plan[n]
    /\ backup[n] = IF n \in moved THEN plan[n] ELSE NoFile
    /\ n \in published /\ n \notin moved => plan[n] = NoFile

\* The original is under its name or in the backup.
Kept(n) == plan[n] # NoFile => plan[n] \in {project[n], backup[n]}

Updated(s) ==
    Contents(project) = target /\ approval = target /\ meta = s

Advancing == {"prepare", "verify", "backupMeta", "check", "move", "publish",
              "unlink", "publishMeta", "approve", "sync", "boundary"}
Undoing   == {"rbMeta", "rbRestoreMeta", "rbDropMeta", "rbCheck", "rbRemove",
              "rbRestore", "rbUnlink", "rbSync"}
UndoLoop  == {"rbCheck", "rbRemove", "rbRestore", "rbUnlink"}

\* Where each local and file is, label by label.
AtAdvance(s) ==
    pc[s] \in Advancing =>
        /\ \A n \in Names : Forward(s, n)
        /\ approval = IF "approval" \in published THEN target ELSE oldDoc
        /\ mode = "certain"

AtPrepare(s) ==
    pc[s] = "prepare" => project = plan /\ approval = oldDoc

AtPublish(s) ==
    /\ pc[s] \in {"prepare", "verify", "backupMeta", "check", "move"} =>
           published = {}
    /\ pc[s] = "unlink" => cur \in published
    /\ pc[s] \in {"publish", "unlink"} /\ cur = "go.sum" => "go.mod" \in published
    /\ pc[s] \in {"publishMeta", "approve", "sync"} => Names \subseteq published
    /\ pc[s] \in {"approve", "sync"} => meta = s
    /\ pc[s] = "sync" => "approval" \in published

\* The rollback: the approval first, ...
AtUndo(s) ==
    pc[s] \in Undoing =>
        mode # "committed" /\ (mode # "uncertain" => approval = oldDoc)

\* ... controls its loop has not reached are as the commit left them, ...
UndoPending(s) ==
    /\ pc[s] \in {"rbMeta", "rbRestoreMeta", "rbDropMeta"} =>
           \A n \in Names : Forward(s, n)
    /\ pc[s] = "rbDropMeta" => cur = "go.sum"
    /\ pc[s] \in UndoLoop /\ cur = "go.sum" => Forward(s, "go.mod")

\* ... the one it is at is on its way back, ...
UndoCurrent(s) ==
    /\ pc[s] \in {"rbCheck", "rbRemove"} => Forward(s, cur)
    /\ pc[s] = "rbRemove" => cur \in published
    /\ pc[s] = "rbRestore" =>
           /\ cur \in moved => backup[cur] = plan[cur]
           /\ cur \notin moved /\ (mode # "uncertain" \/ plan[cur] # NoFile) =>
                  project[cur] = plan[cur]
    /\ pc[s] = "rbUnlink" => project[cur] = plan[cur]

\* ... and those behind it are back, or the rollback knows they are not.
UndoDone(s) ==
    /\ (pc[s] \in UndoLoop /\ cur = "go.mod") \/ pc[s] = "rbSync" =>
           Kept("go.sum") /\ (mode # "uncertain" => project["go.sum"] = plan["go.sum"])
    /\ pc[s] = "rbSync" =>
           Kept("go.mod") /\ (mode # "uncertain" => project["go.mod"] = plan["go.mod"])

AtCleanup(s) ==
    /\ pc[s] \in {"inventory", "purge"} =>
           IF mode = "committed" THEN Updated(s) ELSE project = plan /\ approval = oldDoc
    /\ pc[s] = "purge" =>
           /\ \A n \in Names : /\ n \notin RecordedOriginals => backup[n] = NoFile
                               /\ n \notin RecordedSelected => selected[n] = NoFile
           /\ ~RecordedMeta => metaBackup = NoFile
    /\ pc[s] = "lastSync" => Updated(s)

Progress(s) ==
    /\ AtAdvance(s) /\ AtPrepare(s) /\ AtPublish(s)
    /\ AtUndo(s) /\ UndoPending(s) /\ UndoCurrent(s) /\ UndoDone(s)
    /\ AtCleanup(s)

Untouched ==
    /\ dir = Nobody =>
        /\ Together(project, approval)
        /\ backup = Empty /\ selected = Empty /\ metaBackup = NoFile
    /\ dir # Nobody =>
        /\ Together(plan, oldDoc)
        /\ \A n \in Names : selected[n] \in {NoFile, Replacement(dir, n)}
        /\ Recoverable
    /\ \A s \in Sessions : Progress(s)

IInv == TypeOK /\ Ownership /\ (edits = 0 => Untouched)

-----------------------------------------------------------------------------
(* Typing                                                                  *)

\* The initial project, unmanaged or approved, is well typed.
LEMMA TypeInit == Init => TypeOK
  BY ConstantsAssumption
     DEF Init, TypeOK, Files, Creators, DependencyFree, Names, Empty, Labels

\* Each step of a process, and its death, keeps the types.
LEMMA TypeStep ==
    ASSUME TypeOK, NEW s \in Sessions, Step(s) \/ Kill(s)
    PROVE  TypeOK'
  <1>1. CASE Acquire(s)
    BY <1>1, ConstantsAssumption DEF Acquire, TypeOK, Goto, Labels, Names,
       Files, Creators, fsvars, locals
  <1>2. CASE Admit(s)
    BY <1>2, ConstantsAssumption DEF Admit, Abort, TypeOK, Goto, Labels,
       Names, Files, Creators, fsvars, locals
  <1>3. CASE Resolve(s)
    BY <1>3, ConstantsAssumption DEF Resolve, Abort, TypeOK, Goto, Labels,
       Names, Files, Creators, fsvars, locals
  <1>4. CASE BeginTransaction(s)
    BY <1>4, ConstantsAssumption DEF BeginTransaction, Abort, TypeOK,
       Goto, Labels, Names, Files, Creators, fsvars, locals
  <1>5. CASE Prepare(s)
    BY <1>5, ConstantsAssumption DEF Prepare, Replacement, TypeOK, Goto,
       Labels, Names, Files, Creators, fsvars, locals
  <1>6. CASE Verify(s)
    BY <1>6, ConstantsAssumption DEF Verify, CallFails, RollBack, TypeOK,
       Goto, Labels, Names, Files, Creators, fsvars, locals
  <1>7. CASE BackupMeta(s)
    BY <1>7, ConstantsAssumption DEF BackupMeta, CallFails, RollBack,
       TypeOK, Goto, Labels, Names, Files, Creators, fsvars, locals
  <1>8. CASE CheckMember(s)
    BY <1>8, ConstantsAssumption DEF CheckMember, CallFails, RollBack,
       NextMember, TypeOK, Goto, Labels, Names, Files, Creators, fsvars,
       locals
  <1>9. CASE MoveMember(s)
    BY <1>9, ConstantsAssumption DEF MoveMember, CallFails, RollBack,
       NextMember, TypeOK, Goto, Labels, Names, Files, Creators, fsvars,
       locals
  <1>10. CASE PublishMember(s)
    BY <1>10, ConstantsAssumption DEF PublishMember, CallFails, RollBack,
       TypeOK, Goto, Labels, Names, Files, Creators, fsvars, locals
  <1>11. CASE UnlinkSelected(s)
    BY <1>11, ConstantsAssumption DEF UnlinkSelected, CallFails, RollBack,
       TypeOK, Goto, Labels, Names, Files, Creators, fsvars, locals
  <1>12. CASE PublishMeta(s)
    BY <1>12, ConstantsAssumption DEF PublishMeta, CallFails, RollBack,
       TypeOK, Goto, Labels, Names, Files, Creators, fsvars, locals
  <1>13. CASE PublishApproval(s)
    BY <1>13, ConstantsAssumption DEF PublishApproval, CallFails,
       RollBack, TypeOK, Goto, Labels, Names, Files, Creators, fsvars,
       locals
  <1>14. CASE SyncRoot(s)
    BY <1>14, ConstantsAssumption DEF SyncRoot, CallFails, RollBack,
       TypeOK, Goto, Labels, Names, Files, Creators, fsvars, locals
  <1>15. CASE RollBackApproval(s)
    BY <1>15, ConstantsAssumption DEF RollBackApproval, Abort, TypeOK,
       Goto, Labels, Names, Files, Creators, fsvars, locals
  <1>16. CASE RollBackMeta(s)
    BY <1>16, ConstantsAssumption DEF RollBackMeta, TypeOK, Goto, Labels,
       Names, Files, Creators, fsvars, locals
  <1>17. CASE RestoreMeta(s)
    BY <1>17, ConstantsAssumption DEF RestoreMeta, TypeOK, Goto, Labels,
       Names, Files, Creators, fsvars, locals
  <1>18. CASE DropMetaBackup(s)
    BY <1>18, ConstantsAssumption DEF DropMetaBackup, TypeOK, Goto,
       Labels, Names, Files, Creators, fsvars, locals
  <1>19. CASE RollBackCheck(s)
    BY <1>19, ConstantsAssumption DEF RollBackCheck, PreviousMember,
       TypeOK, Goto, Labels, Names, Files, Creators, fsvars, locals
  <1>20. CASE RollBackRemove(s)
    BY <1>20, ConstantsAssumption DEF RollBackRemove, TypeOK, Goto,
       Labels, Names, Files, Creators, fsvars, locals
  <1>21. CASE RestoreMember(s)
    BY <1>21, ConstantsAssumption DEF RestoreMember, PreviousMember,
       TypeOK, Goto, Labels, Names, Files, Creators, fsvars, locals
  <1>22. CASE UnlinkBackup(s)
    BY <1>22, ConstantsAssumption DEF UnlinkBackup, PreviousMember,
       TypeOK, Goto, Labels, Names, Files, Creators, fsvars, locals
  <1>23. CASE RollBackSync(s)
    BY <1>23, ConstantsAssumption DEF RollBackSync, Abort, TypeOK, Goto,
       Labels, Names, Files, Creators, fsvars, locals
  <1>24. CASE CheckInventory(s)
    BY <1>24, ConstantsAssumption DEF CheckInventory, Abort, TypeOK, Goto,
       Labels, Names, Files, Creators, fsvars, locals
  <1>25. CASE PurgeMember(s)
    BY <1>25, ConstantsAssumption DEF PurgeMember, TypeOK, Goto, Labels,
       Names, Files, Creators, fsvars, locals
  <1>26. CASE RemoveDirectory(s)
    BY <1>26, ConstantsAssumption DEF RemoveDirectory, Abort, TypeOK,
       Goto, Labels, Names, Files, Creators, fsvars, locals
  <1>27. CASE PurgeFails(s)
    BY <1>27, ConstantsAssumption DEF PurgeFails, Abort, TypeOK, Goto,
       Labels, Names, Files, Creators, fsvars, locals
  <1>28. CASE LastSync(s)
    BY <1>28, ConstantsAssumption DEF LastSync, Abort, TypeOK, Goto,
       Labels, Names, Files, Creators, fsvars, locals
  <1>29. CASE Close(s)
    BY <1>29, ConstantsAssumption DEF Close, TypeOK, Goto, Labels, Names,
       Files, Creators, fsvars, locals
  <1>30. CASE Kill(s)
    BY <1>30, ConstantsAssumption DEF Kill, TypeOK, Goto, Labels, Names,
       Files, Creators, fsvars, locals
  <1> QED BY <1>1, <1>2, <1>3, <1>4, <1>5, <1>6, <1>7, <1>8, <1>9, <1>10,
       <1>11, <1>12, <1>13, <1>14, <1>15, <1>16, <1>17, <1>18, <1>19, <1>20,
       <1>21, <1>22, <1>23, <1>24, <1>25, <1>26, <1>27, <1>28, <1>29, <1>30
       DEF Step

\* The other steps keep the types.
LEMMA TypeOther ==
    ASSUME TypeOK,
           ClearStaleLock \/ (\E n \in Names : SaveControl(n)) \/ DropStray
               \/ UNCHANGED vars
    PROVE  TypeOK'
  <1>1. CASE ClearStaleLock
    BY <1>1 DEF ClearStaleLock, TypeOK, locals
  <1>2. CASE \E n \in Names : SaveControl(n)
    BY <1>2, ConstantsAssumption
       DEF SaveControl, TypeOK, Files, Creators, locals
  <1>3. CASE DropStray
    BY <1>3, ConstantsAssumption DEF DropStray, TypeOK, locals
  <1>4. CASE UNCHANGED vars
    BY <1>4 DEF vars, fsvars, locals, TypeOK
  <1> QED BY <1>1, <1>2, <1>3, <1>4

-----------------------------------------------------------------------------
(* Ownership of the lock and of the backup directory                       *)

\* Each step of a process, and its death, keeps the ownership.
LEMMA OwnershipStep ==
    ASSUME TypeOK, Ownership, NEW s \in Sessions, Step(s) \/ Kill(s)
    PROVE  Ownership'
  <1>1. CASE Acquire(s)
    BY <1>1, ConstantsAssumption DEF Acquire, TypeOK, Ownership, Goto,
       Labels, InTransaction, Outside, Idle, fsvars
  <1>2. CASE Admit(s)
    BY <1>2, ConstantsAssumption DEF Admit, Abort, Admissible, TypeOK,
       Ownership, Goto, Labels, InTransaction, Outside, Idle, fsvars
  <1>3. CASE Resolve(s)
    BY <1>3, ConstantsAssumption DEF Resolve, Abort, TypeOK, Ownership,
       Goto, Labels, InTransaction, Outside, Idle, fsvars
  <1>4. CASE BeginTransaction(s)
    BY <1>4, ConstantsAssumption DEF BeginTransaction, Abort, TypeOK,
       Ownership, Goto, Labels, InTransaction, Outside, Idle, fsvars
  <1>5. CASE Prepare(s)
    BY <1>5, ConstantsAssumption DEF Prepare, Replacement, TypeOK,
       Ownership, Goto, Labels, InTransaction, Outside, Idle, fsvars
  <1>6. CASE Verify(s)
    BY <1>6, ConstantsAssumption DEF Verify, CallFails, RollBack, TypeOK,
       Ownership, Goto, Labels, InTransaction, Outside, Idle, fsvars
  <1>7. CASE BackupMeta(s)
    BY <1>7, ConstantsAssumption DEF BackupMeta, CallFails, RollBack,
       TypeOK, Ownership, Goto, Labels, InTransaction, Outside, Idle,
       fsvars
  <1>8. CASE CheckMember(s)
    BY <1>8, ConstantsAssumption DEF CheckMember, CallFails, RollBack,
       NextMember, TypeOK, Ownership, Goto, Labels, InTransaction,
       Outside, Idle, fsvars
  <1>9. CASE MoveMember(s)
    BY <1>9, ConstantsAssumption DEF MoveMember, CallFails, RollBack,
       NextMember, TypeOK, Ownership, Goto, Labels, InTransaction,
       Outside, Idle, fsvars
  <1>10. CASE PublishMember(s)
    BY <1>10, ConstantsAssumption DEF PublishMember, CallFails, RollBack,
       TypeOK, Ownership, Goto, Labels, InTransaction, Outside, Idle,
       fsvars
  <1>11. CASE UnlinkSelected(s)
    BY <1>11, ConstantsAssumption DEF UnlinkSelected, CallFails, RollBack,
       TypeOK, Ownership, Goto, Labels, InTransaction, Outside, Idle,
       fsvars
  <1>12. CASE PublishMeta(s)
    BY <1>12, ConstantsAssumption DEF PublishMeta, CallFails, RollBack,
       TypeOK, Ownership, Goto, Labels, InTransaction, Outside, Idle,
       fsvars
  <1>13. CASE PublishApproval(s)
    BY <1>13, ConstantsAssumption DEF PublishApproval, CallFails,
       RollBack, TypeOK, Ownership, Goto, Labels, InTransaction, Outside,
       Idle, fsvars
  <1>14. CASE SyncRoot(s)
    BY <1>14, ConstantsAssumption DEF SyncRoot, CallFails, RollBack,
       TypeOK, Ownership, Goto, Labels, InTransaction, Outside, Idle,
       fsvars
  <1>15. CASE RollBackApproval(s)
    BY <1>15, ConstantsAssumption DEF RollBackApproval, Abort, TypeOK,
       Ownership, Goto, Labels, InTransaction, Outside, Idle, fsvars
  <1>16. CASE RollBackMeta(s)
    BY <1>16, ConstantsAssumption DEF RollBackMeta, TypeOK, Ownership,
       Goto, Labels, InTransaction, Outside, Idle, fsvars
  <1>17. CASE RestoreMeta(s)
    BY <1>17, ConstantsAssumption DEF RestoreMeta, TypeOK, Ownership,
       Goto, Labels, InTransaction, Outside, Idle, fsvars
  <1>18. CASE DropMetaBackup(s)
    BY <1>18, ConstantsAssumption DEF DropMetaBackup, TypeOK, Ownership,
       Goto, Labels, InTransaction, Outside, Idle, fsvars
  <1>19. CASE RollBackCheck(s)
    BY <1>19, ConstantsAssumption DEF RollBackCheck, PreviousMember,
       TypeOK, Ownership, Goto, Labels, InTransaction, Outside, Idle,
       fsvars
  <1>20. CASE RollBackRemove(s)
    BY <1>20, ConstantsAssumption DEF RollBackRemove, TypeOK, Ownership,
       Goto, Labels, InTransaction, Outside, Idle, fsvars
  <1>21. CASE RestoreMember(s)
    BY <1>21, ConstantsAssumption DEF RestoreMember, PreviousMember,
       TypeOK, Ownership, Goto, Labels, InTransaction, Outside, Idle,
       fsvars
  <1>22. CASE UnlinkBackup(s)
    BY <1>22, ConstantsAssumption DEF UnlinkBackup, PreviousMember,
       TypeOK, Ownership, Goto, Labels, InTransaction, Outside, Idle,
       fsvars
  <1>23. CASE RollBackSync(s)
    BY <1>23, ConstantsAssumption DEF RollBackSync, Abort, TypeOK,
       Ownership, Goto, Labels, InTransaction, Outside, Idle, fsvars
  <1>24. CASE CheckInventory(s)
    BY <1>24, ConstantsAssumption DEF CheckInventory, Abort, TypeOK,
       Ownership, Goto, Labels, InTransaction, Outside, Idle, fsvars
  <1>25. CASE PurgeMember(s)
    BY <1>25, ConstantsAssumption DEF PurgeMember, TypeOK, Ownership,
       Goto, Labels, InTransaction, Outside, Idle, fsvars
  <1>26. CASE RemoveDirectory(s)
    BY <1>26, ConstantsAssumption DEF RemoveDirectory, Abort, TypeOK,
       Ownership, Goto, Labels, InTransaction, Outside, Idle, fsvars
  <1>27. CASE PurgeFails(s)
    BY <1>27, ConstantsAssumption DEF PurgeFails, Abort, TypeOK,
       Ownership, Goto, Labels, InTransaction, Outside, Idle, fsvars
  <1>28. CASE LastSync(s)
    BY <1>28, ConstantsAssumption DEF LastSync, Abort, TypeOK, Ownership,
       Goto, Labels, InTransaction, Outside, Idle, fsvars
  <1>29. CASE Close(s)
    BY <1>29, ConstantsAssumption DEF Close, TypeOK, Ownership, Goto,
       Labels, InTransaction, Outside, Idle, fsvars
  <1>30. CASE Kill(s)
    BY <1>30, ConstantsAssumption DEF Kill, TypeOK, Ownership, Goto,
       Labels, InTransaction, Outside, Idle, fsvars
  <1> QED BY <1>1, <1>2, <1>3, <1>4, <1>5, <1>6, <1>7, <1>8, <1>9, <1>10,
       <1>11, <1>12, <1>13, <1>14, <1>15, <1>16, <1>17, <1>18, <1>19, <1>20,
       <1>21, <1>22, <1>23, <1>24, <1>25, <1>26, <1>27, <1>28, <1>29, <1>30
       DEF Step

\* The other steps keep the ownership: a lock is cleared only after its
\* process has gone.
LEMMA OwnershipOther ==
    ASSUME TypeOK, Ownership,
           ClearStaleLock \/ (\E n \in Names : SaveControl(n)) \/ DropStray
               \/ UNCHANGED vars
    PROVE  Ownership'
  BY DEF ClearStaleLock, SaveControl, DropStray, vars, fsvars, TypeOK,
         Ownership, InTransaction, Outside, Idle

-----------------------------------------------------------------------------
(* The untouched project                                                   *)

\* The two halves of Untouched that do not look at the processes.
OpenPart ==
    dir = Nobody =>
        /\ Together(project, approval)
        /\ backup = Empty /\ selected = Empty /\ metaBackup = NoFile
ClosedPart ==
    dir # Nobody =>
        /\ Together(plan, oldDoc)
        /\ \A n \in Names : selected[n] \in {NoFile, Replacement(dir, n)}
        /\ Recoverable

\* While one process acts the others are idle, and stay so.
LEMMA OthersIdle ==
    ASSUME TypeOK, Ownership, NEW s \in Sessions, pc[s] \notin Idle,
           NEW l \in Labels, pc' = [pc EXCEPT ![s] = l],
           NEW t \in Sessions \ {s}
    PROVE  Progress(t)'
  <1>1. pc[t] \in Idle
    BY DEF Ownership
  <1>2. pc'[t] \in Idle
    BY <1>1 DEF TypeOK
  <1> QED
    BY <1>2 DEF Idle, Progress, AtAdvance, AtPrepare, AtPublish, AtUndo,
       UndoPending, UndoCurrent, UndoDone, AtCleanup, Advancing, Undoing,
       UndoLoop

\* What is known while a process works on its own backup directory.
LEMMA InOwnDirectory ==
    ASSUME TypeOK, Ownership, Untouched, NEW s \in Sessions,
           pc[s] \in InTransaction
    PROVE  /\ dir = s /\ s # Nobody /\ pc[s] \notin Idle
           /\ Together(plan, oldDoc)
           /\ \A n \in Names : selected[n] \in {NoFile, Replacement(s, n)}
           /\ Progress(s)
  BY ConstantsAssumption DEF Ownership, Untouched, InTransaction, Idle

\* A failed call of commit changes nothing and leads into the rollback.
LEMMA CallFailsStep ==
    ASSUME TypeOK, Ownership, edits = 0, Untouched, NEW s \in Sessions,
           NEW from \in Advancing, CallFails(s, from)
    PROVE  OpenPart' /\ ClosedPart' /\ Progress(s)'
  <1>1. /\ pc[s] = from /\ pc'[s] = "boundary"
        /\ UNCHANGED <<fsvars, locals, cur, mode, edits>>
    BY DEF CallFails, RollBack, Goto, TypeOK
  <1>2. Progress(s)
    BY DEF Untouched
  <1>3. Progress(s)'
    BY <1>1, <1>2 DEF Progress, AtAdvance, AtPrepare, AtPublish, AtUndo,
       UndoPending, UndoCurrent, UndoDone, AtCleanup, Advancing, Undoing,
       UndoLoop, Forward, Replacement, fsvars, locals
  <1>4. OpenPart' /\ ClosedPart'
    BY <1>1 DEF Untouched, OpenPart, ClosedPart, Together, Contents,
       Recoverable, Replacement, fsvars, locals
  <1> QED BY <1>3, <1>4

\* The checks before anything is moved, and the backup of the metadata, leave
\* the controls alone.
LEMMA CheckStep ==
    ASSUME TypeOK, Ownership, edits = 0, Untouched, NEW s \in Sessions,
           Verify(s) \/ BackupMeta(s) \/ CheckMember(s)
    PROVE  OpenPart' /\ ClosedPart' /\ Progress(s)'
  <1>1. CASE \E from \in {"verify", "backupMeta", "check"} : CallFails(s, from)
    BY <1>1, CallFailsStep DEF Advancing
  <1>2. CASE ~ \E from \in {"verify", "backupMeta", "check"} : CallFails(s, from)
    <2>1. /\ pc[s] \in {"verify", "backupMeta", "check"}
          /\ \/ pc'[s] \in {"backupMeta", "check", "move"}
             \/ pc'[s] = "publish" /\ cur' = "go.mod"
          /\ moved' \in {moved, moved \cup {"metadata"}}
          /\ UNCHANGED <<project, approval, dir, backup, selected, plan,
                         oldDoc, target, published, mode, edits>>
      BY <1>2 DEF Verify, BackupMeta, CheckMember, NextMember, Goto, TypeOK,
         fsvars, locals
    <2>2. /\ dir = s /\ s # Nobody /\ Together(plan, oldDoc)
          /\ \A n \in Names : selected[n] \in {NoFile, Replacement(s, n)}
          /\ Progress(s)
      BY <2>1, InOwnDirectory DEF InTransaction
    <2>3. /\ \A n \in Names : Forward(s, n)
          /\ published = {} /\ mode = "certain"
          /\ approval = IF "approval" \in published THEN target ELSE oldDoc
      BY <2>1, <2>2 DEF Progress, AtAdvance, AtPublish, Advancing
    <2>4. \A n \in Names : Forward(s, n)'
      BY <2>1, <2>3 DEF Forward, Replacement, Names
    <2>5. \A n \in Names : Kept(n)'
      BY <2>4 DEF Forward, Kept
    <2>6. Progress(s)'
      BY <2>1, <2>3, <2>4 DEF Progress, AtAdvance, AtPrepare, AtPublish,
         AtUndo, UndoPending, UndoCurrent, UndoDone, AtCleanup, Advancing,
         Undoing, UndoLoop
    <2>7. OpenPart' /\ ClosedPart'
      BY <2>1, <2>2, <2>5 DEF OpenPart, ClosedPart, Together, Contents,
         Replacement, Recoverable, Kept
    <2> QED BY <2>6, <2>7
  <1> QED BY <1>1, <1>2

\* Moving an original: its only name becomes the one in the backup.
LEMMA MoveMemberStep ==
    ASSUME TypeOK, Ownership, edits = 0, Untouched, NEW s \in Sessions,
           MoveMember(s)
    PROVE  OpenPart' /\ ClosedPart' /\ Progress(s)'
  <1>1. CASE CallFails(s, "move")
    BY <1>1, CallFailsStep DEF Advancing
  <1>2. CASE ~CallFails(s, "move")
    <2>1. /\ project[cur] # NoFile
          /\ NextMember(s, "move")
          /\ backup' = [backup EXCEPT ![cur] = project[cur]]
          /\ project' = [project EXCEPT ![cur] = NoFile]
          /\ moved' = moved \cup {cur}
          /\ UNCHANGED <<meta, approval, dir, selected, plan, oldDoc, target,
                         published, mode, edits, metaBackup>>
      BY <1>2 DEF MoveMember
    <2>2. pc[s] = "move" /\ pc' = [pc EXCEPT ![s] = pc'[s]]
      BY <2>1 DEF NextMember, Goto, TypeOK
    <2>3. \/ pc'[s] = "check" /\ cur' = "go.sum"
          \/ pc'[s] = "publish" /\ cur' = "go.mod"
      BY <2>1 DEF NextMember, Goto, TypeOK
    <2>4. /\ dir = s /\ s # Nobody /\ Together(plan, oldDoc)
          /\ \A n \in Names : selected[n] \in {NoFile, Replacement(s, n)}
          /\ Progress(s)
      BY <2>2, InOwnDirectory DEF InTransaction
    <2>5. /\ \A n \in Names : Forward(s, n)
          /\ published = {} /\ mode = "certain"
          /\ approval = IF "approval" \in published THEN target ELSE oldDoc
      BY <2>2, <2>4 DEF Progress, AtAdvance, AtPublish, Advancing
    <2>6. \A n \in Names : Forward(s, n)'
      BY <2>1, <2>5 DEF Forward, Replacement, TypeOK, Names
    <2>7. \A n \in Names : Kept(n)'
      BY <2>6 DEF Forward, Kept
    <2>8. Progress(s)'
      BY <2>1, <2>3, <2>5, <2>6 DEF Progress, AtAdvance, AtPrepare,
         AtPublish, AtUndo, UndoPending, UndoCurrent, UndoDone, AtCleanup,
         Advancing, Undoing, UndoLoop
    <2>9. OpenPart' /\ ClosedPart'
      BY <2>1, <2>4, <2>7 DEF OpenPart, ClosedPart, Together, Contents,
         Replacement, Recoverable, Kept
    <2> QED BY <2>8, <2>9
  <1> QED BY <1>1, <1>2

\* Publishing a control: the destination was free, so its original is in the
\* backup or there was none.
LEMMA PublishMemberStep ==
    ASSUME TypeOK, Ownership, edits = 0, Untouched, NEW s \in Sessions,
           PublishMember(s)
    PROVE  OpenPart' /\ ClosedPart' /\ Progress(s)'
  <1>1. CASE CallFails(s, "publish")
    BY <1>1, CallFailsStep DEF Advancing
  <1>2. CASE ~CallFails(s, "publish")
    <2>1. /\ project[cur] = NoFile /\ selected[cur] # NoFile
          /\ pc[s] = "publish" /\ pc'[s] = "unlink"
          /\ project' = [project EXCEPT ![cur] = selected[cur]]
          /\ published' = published \cup {cur}
          /\ UNCHANGED <<meta, approval, dir, backup, metaBackup, selected,
                         plan, oldDoc, target, moved, mode, edits, cur>>
      BY <1>2 DEF PublishMember, Goto, TypeOK
    <2>2. /\ dir = s /\ s # Nobody /\ Together(plan, oldDoc)
          /\ \A n \in Names : selected[n] \in {NoFile, Replacement(s, n)}
          /\ Progress(s)
      BY <2>1, InOwnDirectory DEF InTransaction
    <2>3. /\ \A n \in Names : Forward(s, n)
          /\ mode = "certain"
          /\ approval = IF "approval" \in published THEN target ELSE oldDoc
          /\ cur = "go.sum" => "go.mod" \in published
      BY <2>1, <2>2 DEF Progress, AtAdvance, AtPublish, Advancing
    <2>4. \A n \in Names : Forward(s, n)'
      BY <2>1, <2>2, <2>3 DEF Forward, Replacement, TypeOK, Names
    <2>5. \A n \in Names : Kept(n)'
      BY <2>4 DEF Forward, Kept
    <2>6. Progress(s)'
      BY <2>1, <2>3, <2>4 DEF Progress, AtAdvance, AtPrepare,
         AtPublish, AtUndo, UndoPending, UndoCurrent, UndoDone, AtCleanup,
         Advancing, Undoing, UndoLoop, TypeOK, Names
    <2>7. OpenPart' /\ ClosedPart'
      BY <2>1, <2>2, <2>5 DEF OpenPart, ClosedPart, Together, Contents,
         Replacement, Recoverable, Kept
    <2> QED BY <2>6, <2>7
  <1> QED BY <1>1, <1>2

\* The commit point: both controls are published, so the update is complete.
LEMMA SyncRootStep ==
    ASSUME TypeOK, Ownership, edits = 0, Untouched, NEW s \in Sessions,
           SyncRoot(s)
    PROVE  OpenPart' /\ ClosedPart' /\ Progress(s)'
  <1>1. CASE CallFails(s, "sync")
    BY <1>1, CallFailsStep DEF Advancing
  <1>2. CASE ~CallFails(s, "sync")
    <2>1. /\ pc[s] = "sync" /\ pc'[s] = "inventory"
          /\ mode' = "committed"
          /\ UNCHANGED <<meta, approval, dir, backup, metaBackup, selected,
                         project, plan, oldDoc, target, edits>>
      BY <1>2 DEF SyncRoot, Goto, TypeOK, fsvars
    <2>2. /\ dir = s /\ s # Nobody /\ Together(plan, oldDoc)
          /\ \A n \in Names : selected[n] \in {NoFile, Replacement(s, n)}
          /\ Progress(s)
      BY <2>1, InOwnDirectory DEF InTransaction
    <2>3. /\ \A n \in Names : Forward(s, n)
          /\ Names \subseteq published /\ "approval" \in published /\ meta = s
          /\ approval = IF "approval" \in published THEN target ELSE oldDoc
      BY <2>1, <2>2 DEF Progress, AtAdvance, AtPublish, Advancing
    <2>4. target \in [Names -> Bodies]
      BY ConstantsAssumption DEF TypeOK
    <2>5. \A n \in Names : project[n] = Replacement(s, n)
      BY <2>3 DEF Forward
    <2>6. \A n \in Names : Replacement(s, n) # NoFile
      BY <2>4, ConstantsAssumption DEF Replacement, Files, Creators
    <2>7. Contents(project) = target
      <3>1. \A n \in Names : project[n] # NoFile
        BY <2>5, <2>6
      <3>2. \A n \in Names : project[n].body = target[n]
        <4>1. \A n \in Names : Replacement(s, n).body = target[n]
          BY DEF Replacement
        <4> QED BY <2>5, <4>1
      <3> QED BY <2>4, <3>1, <3>2 DEF Contents
    <2>8. Progress(s)'
      BY <2>1, <2>3, <2>7 DEF Progress, AtAdvance, AtPrepare,
         AtPublish, AtUndo, UndoPending, UndoCurrent, UndoDone, AtCleanup,
         Advancing, Undoing, UndoLoop, Updated, Contents
    <2>9. OpenPart' /\ ClosedPart'
      BY <2>1, <2>2, <2>3, <2>7 DEF OpenPart, ClosedPart, Together, Contents,
         Replacement, Recoverable
    <2> QED BY <2>8, <2>9
  <1> QED BY <1>1, <1>2

\* Taking the approval back: afterwards it is the frozen one, or the rollback
\* is uncertain.
LEMMA RollBackApprovalStep ==
    ASSUME TypeOK, Ownership, edits = 0, Untouched, NEW s \in Sessions,
           RollBackApproval(s)
    PROVE  OpenPart' /\ ClosedPart' /\ Progress(s)'
  <1>1. /\ pc[s] = "boundary" /\ pc'[s] \in {"rbMeta", "close"}
        /\ UNCHANGED <<dir, backup, metaBackup, selected, project, plan,
                       oldDoc, target, moved, published, edits>>
    BY DEF RollBackApproval, Abort, Goto, TypeOK, fsvars, locals
  <1>2. /\ dir = s /\ s # Nobody /\ Together(plan, oldDoc)
        /\ \A n \in Names : selected[n] \in {NoFile, Replacement(s, n)}
        /\ Progress(s)
    BY <1>1, InOwnDirectory DEF InTransaction
  <1>3. /\ \A n \in Names : Forward(s, n)
        /\ mode = "certain"
        /\ approval = IF "approval" \in published THEN target ELSE oldDoc
    BY <1>1, <1>2 DEF Progress, AtAdvance, Advancing
  <1>4. pc'[s] = "rbMeta" =>
            mode' \in {"certain", "uncertain"}
            /\ (mode' # "uncertain" => approval' = oldDoc)
    BY <1>1, <1>3 DEF RollBackApproval, Abort, Goto, TypeOK
  <1>5. \A n \in Names : Forward(s, n)'
    BY <1>1, <1>3 DEF Forward, Replacement
  <1>6. \A n \in Names : Kept(n)'
    BY <1>5 DEF Forward, Kept
  <1>7. Progress(s)'
    BY <1>1, <1>4, <1>5 DEF Progress, AtAdvance, AtPrepare, AtPublish, AtUndo,
       UndoPending, UndoCurrent, UndoDone, AtCleanup, Advancing, Undoing,
       UndoLoop
  <1>8. OpenPart' /\ ClosedPart'
    BY <1>1, <1>2, <1>6 DEF OpenPart, ClosedPart, Together, Contents,
       Replacement, Recoverable, Kept
  <1> QED BY <1>7, <1>8

\* The metadata steps of the rollback leave the controls alone.
LEMMA RollBackMetaStep ==
    ASSUME TypeOK, Ownership, edits = 0, Untouched, NEW s \in Sessions,
           RollBackMeta(s)
    PROVE  OpenPart' /\ ClosedPart' /\ Progress(s)'
  <1>1. /\ pc[s] = "rbMeta" /\ pc'[s] = "rbRestoreMeta"
        /\ mode' \in {mode, "uncertain"}
        /\ UNCHANGED <<dir, backup, metaBackup, selected, project, plan,
                       approval, oldDoc, target, moved, published, edits>>
    BY DEF RollBackMeta, Goto, TypeOK, locals
  <1>2. /\ dir = s /\ s # Nobody /\ Together(plan, oldDoc)
        /\ \A n \in Names : selected[n] \in {NoFile, Replacement(s, n)}
        /\ Progress(s)
    BY <1>1, InOwnDirectory DEF InTransaction
  <1>3. /\ \A n \in Names : Forward(s, n)
        /\ mode # "committed" /\ (mode # "uncertain" => approval = oldDoc)
    BY <1>1, <1>2 DEF Progress, UndoPending, AtUndo, Undoing
  <1>4. \A n \in Names : Forward(s, n)'
    BY <1>1, <1>3 DEF Forward, Replacement
  <1>5. \A n \in Names : Kept(n)'
    BY <1>4 DEF Forward, Kept
  <1>6. Progress(s)'
    BY <1>1, <1>3, <1>4 DEF Progress, AtAdvance, AtPrepare, AtPublish, AtUndo,
       UndoPending, UndoCurrent, UndoDone, AtCleanup, Advancing, Undoing,
       UndoLoop
  <1>7. OpenPart' /\ ClosedPart'
    BY <1>1, <1>2, <1>5 DEF OpenPart, ClosedPart, Together, Contents,
       Replacement, Recoverable, Kept
  <1> QED BY <1>6, <1>7

LEMMA RestoreMetaStep ==
    ASSUME TypeOK, Ownership, edits = 0, Untouched, NEW s \in Sessions,
           RestoreMeta(s)
    PROVE  OpenPart' /\ ClosedPart' /\ Progress(s)'
  <1>1. /\ pc[s] = "rbRestoreMeta" /\ pc'[s] \in {"rbDropMeta", "rbCheck"}
        /\ mode' \in {mode, "uncertain"} /\ cur' = "go.sum"
        /\ UNCHANGED <<dir, backup, metaBackup, selected, project, plan,
                       approval, oldDoc, target, moved, published, edits>>
    BY DEF RestoreMeta, Goto, TypeOK, locals
  <1>2. /\ dir = s /\ s # Nobody /\ Together(plan, oldDoc)
        /\ \A n \in Names : selected[n] \in {NoFile, Replacement(s, n)}
        /\ Progress(s)
    BY <1>1, InOwnDirectory DEF InTransaction
  <1>3. /\ \A n \in Names : Forward(s, n)
        /\ mode # "committed" /\ (mode # "uncertain" => approval = oldDoc)
    BY <1>1, <1>2 DEF Progress, UndoPending, AtUndo, Undoing
  <1>4. \A n \in Names : Forward(s, n)'
    BY <1>1, <1>3 DEF Forward, Replacement
  <1>5. \A n \in Names : Kept(n)'
    BY <1>4 DEF Forward, Kept
  <1>6. Progress(s)'
    BY <1>1, <1>3, <1>4 DEF Progress, AtAdvance, AtPrepare, AtPublish, AtUndo,
       UndoPending, UndoCurrent, UndoDone, AtCleanup, Advancing, Undoing,
       UndoLoop, Names
  <1>7. OpenPart' /\ ClosedPart'
    BY <1>1, <1>2, <1>5 DEF OpenPart, ClosedPart, Together, Contents,
       Replacement, Recoverable, Kept
  <1> QED BY <1>6, <1>7

\* Removing a published control: its original is in the backup, or there was
\* none.
LEMMA RollBackRemoveStep ==
    ASSUME TypeOK, Ownership, edits = 0, Untouched, NEW s \in Sessions,
           RollBackRemove(s)
    PROVE  OpenPart' /\ ClosedPart' /\ Progress(s)'
  <1>1. /\ pc[s] = "rbRemove" /\ pc'[s] = "rbRestore"
        /\ \/ project' = [project EXCEPT ![cur] = NoFile] /\ mode' = mode
           \/ project' = project /\ mode' = "uncertain"
        /\ UNCHANGED <<dir, backup, metaBackup, selected, plan, approval,
                       oldDoc, target, moved, published, edits, cur>>
    BY DEF RollBackRemove, Goto, TypeOK, locals
  <1>2. /\ dir = s /\ s # Nobody /\ Together(plan, oldDoc)
        /\ \A n \in Names : selected[n] \in {NoFile, Replacement(s, n)}
        /\ Progress(s)
    BY <1>1, InOwnDirectory DEF InTransaction
  <1>3. /\ Forward(s, cur) /\ cur \in published
        /\ cur = "go.sum" => Forward(s, "go.mod")
        /\ cur = "go.mod" => Kept("go.sum")
               /\ (mode # "uncertain" => project["go.sum"] = plan["go.sum"])
        /\ mode # "committed" /\ (mode # "uncertain" => approval = oldDoc)
    BY <1>1, <1>2 DEF Progress, UndoPending, UndoCurrent, UndoDone, AtUndo,
       Undoing, UndoLoop
  <1>4. /\ cur \in moved => backup'[cur] = plan'[cur]
        /\ cur \notin moved => plan'[cur] = NoFile
        /\ cur \notin moved /\ mode' # "uncertain" => project'[cur] = plan'[cur]
    BY <1>1, <1>3 DEF Forward, TypeOK, Names
  <1>5. /\ cur = "go.sum" => Forward(s, "go.mod")'
        /\ cur = "go.mod" => Kept("go.sum")'
               /\ (mode' # "uncertain" => project'["go.sum"] = plan'["go.sum"])
    BY <1>1, <1>3 DEF Forward, Kept, Replacement, TypeOK, Names
  <1>6. \A n \in Names : Kept(n)'
    BY <1>1, <1>4, <1>5 DEF Forward, Kept, TypeOK, Names
  <1>7. Progress(s)'
    BY <1>1, <1>3, <1>4, <1>5 DEF Progress, AtAdvance, AtPrepare, AtPublish,
       AtUndo, UndoPending, UndoCurrent, UndoDone, AtCleanup, Advancing,
       Undoing, UndoLoop, TypeOK, Names
  <1>8. OpenPart' /\ ClosedPart'
    BY <1>1, <1>2, <1>6 DEF OpenPart, ClosedPart, Together, Contents,
       Replacement, Recoverable, Kept
  <1> QED BY <1>7, <1>8

\* Dropping a backup name: the original is under its own name again.
LEMMA UnlinkBackupStep ==
    ASSUME TypeOK, Ownership, edits = 0, Untouched, NEW s \in Sessions,
           UnlinkBackup(s)
    PROVE  OpenPart' /\ ClosedPart' /\ Progress(s)'
  <1>1. /\ pc[s] = "rbUnlink"
        /\ \/ cur = "go.sum" /\ pc'[s] = "rbCheck" /\ cur' = "go.mod"
           \/ cur = "go.mod" /\ pc'[s] = "rbSync" /\ cur' = "go.mod"
        /\ \/ backup' = [backup EXCEPT ![cur] = NoFile] /\ mode' = mode
           \/ backup' = backup /\ mode' = "uncertain"
        /\ UNCHANGED <<dir, project, metaBackup, selected, plan, approval,
                       oldDoc, target, moved, published, edits>>
    BY DEF UnlinkBackup, PreviousMember, Goto, TypeOK, locals, Names
  <1>2. /\ dir = s /\ s # Nobody /\ Together(plan, oldDoc)
        /\ \A n \in Names : selected[n] \in {NoFile, Replacement(s, n)}
        /\ Progress(s)
    BY <1>1, InOwnDirectory DEF InTransaction
  <1>3. /\ project[cur] = plan[cur]
        /\ cur = "go.sum" => Forward(s, "go.mod")
        /\ cur = "go.mod" => Kept("go.sum")
               /\ (mode # "uncertain" => project["go.sum"] = plan["go.sum"])
        /\ mode # "committed" /\ (mode # "uncertain" => approval = oldDoc)
    BY <1>1, <1>2 DEF Progress, UndoPending, UndoCurrent, UndoDone, AtUndo,
       Undoing, UndoLoop
  <1>4. /\ project'[cur] = plan'[cur] /\ Kept(cur)'
        /\ cur = "go.sum" => Forward(s, "go.mod")' /\ Kept("go.mod")'
        /\ cur = "go.mod" => Kept("go.sum")'
               /\ (mode' # "uncertain" => project'["go.sum"] = plan'["go.sum"])
    BY <1>1, <1>3 DEF Forward, Kept, Replacement, TypeOK, Names
  <1>5. \A n \in Names : Kept(n)'
    BY <1>4 DEF TypeOK, Names, Kept
  <1>6. Progress(s)'
    BY <1>1, <1>3, <1>4, <1>5 DEF Progress, AtAdvance, AtPrepare, AtPublish,
       AtUndo, UndoPending, UndoCurrent, UndoDone, AtCleanup, Advancing,
       Undoing, UndoLoop, TypeOK, Names
  <1>7. OpenPart' /\ ClosedPart'
    BY <1>1, <1>2, <1>5 DEF OpenPart, ClosedPart, Together, Contents,
       Replacement, Recoverable, Kept
  <1> QED BY <1>6, <1>7

\* Emptying the directory: after a commit the update is complete, after a
\* rollback no original is in it.
LEMMA PurgeMemberStep ==
    ASSUME TypeOK, Ownership, edits = 0, Untouched, NEW s \in Sessions,
           PurgeMember(s)
    PROVE  OpenPart' /\ ClosedPart' /\ Progress(s)'
  <1>1. /\ pc[s] = "purge" /\ pc'[s] = "purge"
        /\ UNCHANGED <<dir, project, plan, approval, meta, prepared,
                       oldDoc, target, moved, published, edits, mode>>
    BY DEF PurgeMember, Goto, TypeOK, locals
  <1>2. /\ \A n \in Names : /\ backup'[n] \in {backup[n], NoFile}
                            /\ selected'[n] \in {selected[n], NoFile}
        /\ metaBackup' \in {metaBackup, NoFile}
        /\ mode # "committed" => backup' = backup
    BY DEF PurgeMember, TypeOK, RecordedOriginals
  <1>3. /\ dir = s /\ s # Nobody /\ Together(plan, oldDoc)
        /\ \A n \in Names : selected[n] \in {NoFile, Replacement(s, n)}
        /\ Progress(s)
    BY <1>1, InOwnDirectory DEF InTransaction
  <1>4. AtCleanup(s)
    BY <1>3 DEF Progress
  <1>5. AtCleanup(s)'
    BY <1>1, <1>2, <1>4 DEF AtCleanup, RecordedOriginals, RecordedSelected,
       RecordedMeta, Updated, Contents
  <1>6. Progress(s)'
    BY <1>1, <1>5 DEF Progress, AtAdvance, AtPrepare, AtPublish, AtUndo,
       UndoPending, UndoCurrent, UndoDone, Advancing, Undoing, UndoLoop
  <1>7. Recoverable'
    <2>1. CASE mode = "committed"
      BY <2>1, <1>1, <1>4 DEF AtCleanup, Updated, Recoverable, Contents
    <2>2. CASE mode # "committed"
      BY <2>2, <1>1, <1>4 DEF AtCleanup, Recoverable
    <2> QED BY <2>1, <2>2
  <1>8. OpenPart' /\ ClosedPart'
    BY <1>1, <1>2, <1>3, <1>7 DEF OpenPart, ClosedPart, Together, Contents,
       Replacement
  <1> QED BY <1>6, <1>8

\* Removing the directory opens the project on a coherent pair.
LEMMA RemoveDirectoryStep ==
    ASSUME TypeOK, Ownership, edits = 0, Untouched, NEW s \in Sessions,
           RemoveDirectory(s)
    PROVE  OpenPart' /\ ClosedPart' /\ Progress(s)'
  <1>1. /\ pc[s] = "purge" /\ dir' = Nobody /\ Purged
        /\ pc'[s] = IF mode = "committed" THEN "lastSync" ELSE "close"
        /\ UNCHANGED <<project, approval, meta, target, backup, metaBackup,
                       selected, mode, edits>>
    BY DEF RemoveDirectory, Abort, Goto, TypeOK, locals
  <1>2. /\ Together(plan, oldDoc) /\ Progress(s)
    BY <1>1, InOwnDirectory DEF InTransaction
  <1>3. /\ IF mode = "committed" THEN Updated(s)
                                 ELSE project = plan /\ approval = oldDoc
        /\ \A n \in Names : backup[n] = NoFile /\ selected[n] = NoFile
        /\ metaBackup = NoFile
    BY <1>1, <1>2 DEF Progress, AtCleanup, Purged
  <1>4. Together(project, approval)
    BY <1>2, <1>3, ConstantsAssumption DEF Together, Updated, TypeOK
  <1>5. backup = Empty /\ selected = Empty
    BY <1>3 DEF TypeOK, Empty
  <1>6. OpenPart' /\ ClosedPart'
    BY <1>1, <1>3, <1>4, <1>5 DEF OpenPart, ClosedPart, Together, Contents,
       Empty
  <1>7. Progress(s)'
    BY <1>1, <1>3 DEF Progress, AtAdvance, AtPrepare, AtPublish, AtUndo,
       UndoPending, UndoCurrent, UndoDone, AtCleanup, Advancing, Undoing,
       UndoLoop, Updated, Contents
  <1> QED BY <1>6, <1>7

\* Each step of a process, and its death, keeps an untouched project in order.
LEMMA UntouchedStep ==
    ASSUME TypeOK, Ownership, edits = 0, Untouched,
           NEW s \in Sessions, Step(s) \/ Kill(s)
    PROVE  OpenPart' /\ ClosedPart' /\ Progress(s)'
  <1> USE ConstantsAssumption
      DEF Goto, Labels, Names, fsvars, locals, TypeOK, Ownership,
          InTransaction, Outside, Idle, Untouched, Together, Contents,
          Recoverable, Forward, Kept, Updated, Replacement, Progress,
          AtAdvance, AtPrepare, AtPublish, AtUndo, UndoPending, UndoCurrent,
          UndoDone, AtCleanup, Advancing, Undoing, UndoLoop
  <1>1. CASE Acquire(s)
    <2>1. OpenPart'
      BY <1>1 DEF OpenPart, Acquire
    <2>2. ClosedPart'
      BY <1>1 DEF ClosedPart, Acquire
    <2>3. Progress(s)'
      BY <1>1 DEF Acquire
    <2> QED BY <2>1, <2>2, <2>3
  <1>2. CASE Admit(s)
    <2>1. OpenPart'
      BY <1>2 DEF OpenPart, Admit, Abort, Admissible
    <2>2. ClosedPart'
      BY <1>2 DEF ClosedPart, Admit, Abort, Admissible
    <2>3. Progress(s)'
      BY <1>2 DEF Admit, Abort, Admissible
    <2> QED BY <2>1, <2>2, <2>3
  <1>3. CASE Resolve(s)
    <2>1. OpenPart'
      BY <1>3 DEF OpenPart, Resolve, Abort, Unchanged
    <2>2. ClosedPart'
      BY <1>3 DEF ClosedPart, Resolve, Abort, Unchanged
    <2>3. Progress(s)'
      BY <1>3 DEF Resolve, Abort, Unchanged
    <2> QED BY <2>1, <2>2, <2>3
  <1>4. CASE BeginTransaction(s)
    <2>1. OpenPart'
      BY <1>4 DEF OpenPart, BeginTransaction, Abort, Unchanged, Empty
    <2>2. ClosedPart'
      BY <1>4 DEF ClosedPart, BeginTransaction, Abort, Unchanged, Empty
    <2>3. Progress(s)'
      BY <1>4 DEF BeginTransaction, Abort, Unchanged, Empty
    <2> QED BY <2>1, <2>2, <2>3
  <1>5. CASE Prepare(s)
    <2>1. OpenPart'
      BY <1>5 DEF OpenPart, Prepare
    <2>2. ClosedPart'
      BY <1>5 DEF ClosedPart, Prepare
    <2>3. Progress(s)'
      BY <1>5 DEF Prepare
    <2> QED BY <2>1, <2>2, <2>3
  <1>6. CASE Verify(s)
    BY <1>6, CheckStep
  <1>7. CASE BackupMeta(s)
    BY <1>7, CheckStep
  <1>8. CASE CheckMember(s)
    BY <1>8, CheckStep
  <1>9. CASE MoveMember(s)
    BY <1>9, MoveMemberStep
  <1>10. CASE PublishMember(s)
    BY <1>10, PublishMemberStep
  <1>11. CASE UnlinkSelected(s)
    <2>1. OpenPart'
      BY <1>11 DEF OpenPart, UnlinkSelected, CallFails, RollBack
    <2>2. ClosedPart'
      BY <1>11 DEF ClosedPart, UnlinkSelected, CallFails, RollBack
    <2>3. Progress(s)'
      BY <1>11 DEF UnlinkSelected, CallFails, RollBack
    <2> QED BY <2>1, <2>2, <2>3
  <1>12. CASE PublishMeta(s)
    <2>1. OpenPart'
      BY <1>12 DEF OpenPart, PublishMeta, CallFails, RollBack
    <2>2. ClosedPart'
      BY <1>12 DEF ClosedPart, PublishMeta, CallFails, RollBack
    <2>3. Progress(s)'
      BY <1>12 DEF PublishMeta, CallFails, RollBack
    <2> QED BY <2>1, <2>2, <2>3
  <1>13. CASE PublishApproval(s)
    <2>1. OpenPart'
      BY <1>13 DEF OpenPart, PublishApproval, CallFails, RollBack
    <2>2. ClosedPart'
      BY <1>13 DEF ClosedPart, PublishApproval, CallFails, RollBack
    <2>3. Progress(s)'
      BY <1>13 DEF PublishApproval, CallFails, RollBack
    <2> QED BY <2>1, <2>2, <2>3
  <1>14. CASE SyncRoot(s)
    BY <1>14, SyncRootStep
  <1>15. CASE RollBackApproval(s)
    BY <1>15, RollBackApprovalStep
  <1>16. CASE RollBackMeta(s)
    BY <1>16, RollBackMetaStep
  <1>17. CASE RestoreMeta(s)
    BY <1>17, RestoreMetaStep
  <1>18. CASE DropMetaBackup(s)
    <2>1. OpenPart'
      BY <1>18 DEF OpenPart, DropMetaBackup
    <2>2. ClosedPart'
      BY <1>18 DEF ClosedPart, DropMetaBackup
    <2>3. Progress(s)'
      BY <1>18 DEF DropMetaBackup
    <2> QED BY <2>1, <2>2, <2>3
  <1>19. CASE RollBackCheck(s)
    <2>1. OpenPart'
      BY <1>19 DEF OpenPart, RollBackCheck, PreviousMember, StillPublished
    <2>2. ClosedPart'
      BY <1>19 DEF ClosedPart, RollBackCheck, PreviousMember, StillPublished
    <2>3. Progress(s)'
      BY <1>19 DEF RollBackCheck, PreviousMember, StillPublished
    <2> QED BY <2>1, <2>2, <2>3
  <1>20. CASE RollBackRemove(s)
    BY <1>20, RollBackRemoveStep
  <1>21. CASE RestoreMember(s)
    <2>1. OpenPart'
      BY <1>21 DEF OpenPart, RestoreMember, PreviousMember
    <2>2. ClosedPart'
      BY <1>21 DEF ClosedPart, RestoreMember, PreviousMember
    <2>3. Progress(s)'
      BY <1>21 DEF RestoreMember, PreviousMember
    <2> QED BY <2>1, <2>2, <2>3
  <1>22. CASE UnlinkBackup(s)
    BY <1>22, UnlinkBackupStep
  <1>23. CASE RollBackSync(s)
    <2>1. OpenPart'
      BY <1>23 DEF OpenPart, RollBackSync, Abort
    <2>2. ClosedPart'
      BY <1>23 DEF ClosedPart, RollBackSync, Abort
    <2>3. Progress(s)'
      BY <1>23 DEF RollBackSync, Abort
    <2> QED BY <2>1, <2>2, <2>3
  <1>24. CASE CheckInventory(s)
    <2>1. OpenPart'
      BY <1>24 DEF OpenPart, CheckInventory, Abort, InventoryMatches,
         OriginalIntact, SelectedIntact, RecordedOriginals,
         RecordedSelected, RecordedMeta
    <2>2. ClosedPart'
      BY <1>24 DEF ClosedPart, CheckInventory, Abort, InventoryMatches,
         OriginalIntact, SelectedIntact, RecordedOriginals,
         RecordedSelected, RecordedMeta
    <2>3. Progress(s)'
      BY <1>24 DEF CheckInventory, Abort, InventoryMatches, OriginalIntact,
         SelectedIntact, RecordedOriginals, RecordedSelected, RecordedMeta
    <2> QED BY <2>1, <2>2, <2>3
  <1>25. CASE PurgeMember(s)
    BY <1>25, PurgeMemberStep
  <1>26. CASE RemoveDirectory(s)
    BY <1>26, RemoveDirectoryStep
  <1>27. CASE PurgeFails(s)
    <2>1. OpenPart'
      BY <1>27 DEF OpenPart, PurgeFails, Abort
    <2>2. ClosedPart'
      BY <1>27 DEF ClosedPart, PurgeFails, Abort
    <2>3. Progress(s)'
      BY <1>27 DEF PurgeFails, Abort
    <2> QED BY <2>1, <2>2, <2>3
  <1>28. CASE LastSync(s)
    <2>1. OpenPart'
      BY <1>28 DEF OpenPart, LastSync, Abort
    <2>2. ClosedPart'
      BY <1>28 DEF ClosedPart, LastSync, Abort
    <2>3. Progress(s)'
      BY <1>28 DEF LastSync, Abort
    <2> QED BY <2>1, <2>2, <2>3
  <1>29. CASE Close(s)
    <2>1. OpenPart'
      BY <1>29 DEF OpenPart, Close
    <2>2. ClosedPart'
      BY <1>29 DEF ClosedPart, Close
    <2>3. Progress(s)'
      BY <1>29 DEF Close
    <2> QED BY <2>1, <2>2, <2>3
  <1>30. CASE Kill(s)
    <2>1. OpenPart'
      BY <1>30 DEF OpenPart, Kill
    <2>2. ClosedPart'
      BY <1>30 DEF ClosedPart, Kill
    <2>3. Progress(s)'
      BY <1>30 DEF Kill
    <2> QED BY <2>1, <2>2, <2>3
  <1> QED BY <1>1, <1>2, <1>3, <1>4, <1>5, <1>6, <1>7, <1>8, <1>9, <1>10,
       <1>11, <1>12, <1>13, <1>14, <1>15, <1>16, <1>17, <1>18, <1>19, <1>20,
       <1>21, <1>22, <1>23, <1>24, <1>25, <1>26, <1>27, <1>28, <1>29, <1>30
       DEF Step

\* A process that loses the race for the lock changes nothing.
LEMMA LostRace ==
    ASSUME TypeOK, Ownership, edits = 0, Untouched, NEW s \in Sessions,
           pc[s] = "idle", UNCHANGED <<fsvars, locals, cur, mode, edits>>,
           NEW l \in Labels, pc' = [pc EXCEPT ![s] = l], NEW t \in Sessions \ {s}
    PROVE  Progress(t)'
  <1>1. Progress(t) /\ pc'[t] = pc[t]
    BY DEF Untouched, TypeOK
  <1> QED
    BY <1>1 DEF fsvars, locals, Progress, AtAdvance, AtPrepare, AtPublish,
       AtUndo, UndoPending, UndoCurrent, UndoDone, AtCleanup, Forward, Kept,
       Updated, Contents, Replacement, RecordedOriginals, RecordedSelected,
       RecordedMeta

\* The invariant is inductive: its three parts, for every step.
LEMMA InvStep == IInv /\ [Next]_vars => IInv'
  <1> SUFFICES ASSUME IInv, [Next]_vars PROVE IInv'
    OBVIOUS
  <1>0. TypeOK /\ Ownership /\ (edits = 0 => Untouched)
    BY DEF IInv
  <1>1. ASSUME NEW s \in Sessions, Step(s) \/ Kill(s)
        PROVE  IInv'
    <2>1. TypeOK' /\ Ownership'
      BY <1>0, <1>1, TypeStep, OwnershipStep
    <2>2. edits' = edits
      BY <1>1 DEF Step, Acquire, Admit, Resolve, BeginTransaction, Prepare,
         Verify, BackupMeta, CheckMember, MoveMember, PublishMember,
         UnlinkSelected, PublishMeta, PublishApproval, SyncRoot,
         RollBackApproval, RollBackMeta, RestoreMeta, DropMetaBackup,
         RollBackCheck, RollBackRemove, RestoreMember, UnlinkBackup,
         RollBackSync, CheckInventory, PurgeMember, RemoveDirectory,
         PurgeFails, LastSync, Close, Kill, CallFails
    <2>3. ASSUME edits = 0 PROVE Untouched'
      <3>1. OpenPart' /\ ClosedPart' /\ Progress(s)'
        BY <1>0, <1>1, <2>3, UntouchedStep
      <3>2. PICK l \in Labels : pc' = [pc EXCEPT ![s] = l]
        BY <1>0, <1>1, <2>1 DEF Step, Acquire, Admit, Resolve,
           BeginTransaction, Prepare, Verify, BackupMeta, CheckMember,
           MoveMember, PublishMember, UnlinkSelected, PublishMeta,
           PublishApproval, SyncRoot, RollBackApproval, RollBackMeta,
           RestoreMeta, DropMetaBackup, RollBackCheck, RollBackRemove,
           RestoreMember, UnlinkBackup, RollBackSync, CheckInventory,
           PurgeMember, RemoveDirectory, PurgeFails, LastSync, Close, Kill,
           CallFails, RollBack, Abort, Goto, NextMember, PreviousMember, Labels
      <3>3. ASSUME NEW t \in Sessions \ {s} PROVE Progress(t)'
        <4>1. CASE pc[s] \notin Idle
          BY <1>0, <3>2, <4>1, OthersIdle
        <4>2. CASE pc[s] \in Idle
          <5>1. Acquire(s) /\ pc[s] = "idle"
            BY <1>1, <4>2 DEF Idle, Step, Acquire, Admit, Resolve,
               BeginTransaction, Prepare, Verify, BackupMeta, CheckMember,
               MoveMember, PublishMember, UnlinkSelected, PublishMeta,
               PublishApproval, SyncRoot, RollBackApproval, RollBackMeta,
               RestoreMeta, DropMetaBackup, RollBackCheck, RollBackRemove,
               RestoreMember, UnlinkBackup, RollBackSync, CheckInventory,
               PurgeMember, RemoveDirectory, PurgeFails, LastSync, Close,
               Kill, CallFails, RollBack, Abort, Goto, NextMember,
               PreviousMember
          <5>2. CASE lock = Nobody
            <6>1. pc'[t] \in Idle
              BY <1>0, <3>2, <5>2, ConstantsAssumption DEF Ownership, TypeOK
            <6> QED
              BY <6>1 DEF Idle, Progress, AtAdvance, AtPrepare, AtPublish,
                 AtUndo, UndoPending, UndoCurrent, UndoDone, AtCleanup,
                 Advancing, Undoing, UndoLoop
          <5>3. CASE lock # Nobody
            <6>1. UNCHANGED <<fsvars, locals, cur, mode, edits>>
              BY <5>1, <5>3 DEF Acquire
            <6> QED BY <1>0, <2>3, <3>2, <5>1, <6>1, LostRace
          <5> QED BY <5>2, <5>3
        <4> QED BY <4>1, <4>2
      <3> QED BY <3>1, <3>3 DEF Untouched, OpenPart, ClosedPart
    <2> QED BY <2>1, <2>2, <2>3 DEF IInv
  <1>2. ASSUME ClearStaleLock \/ (\E n \in Names : SaveControl(n)) \/ DropStray
                   \/ UNCHANGED vars
        PROVE  IInv'
    <2>1. TypeOK' /\ Ownership'
      BY <1>0, <1>2, TypeOther, OwnershipOther
    <2>2. ASSUME edits' = 0 PROVE Untouched'
      <3>1. /\ edits = 0
            /\ UNCHANGED <<project, meta, approval, dir, backup, metaBackup,
                           selected, pc, locals, cur, mode>>
        BY <1>0, <1>2, <2>2, ConstantsAssumption DEF ClearStaleLock,
           SaveControl, DropStray, vars, fsvars, TypeOK
      <3> QED
        BY <1>0, <3>1 DEF locals, Untouched, Together, Recoverable, Progress,
           AtAdvance, AtPrepare, AtPublish, AtUndo, UndoPending, UndoCurrent,
           UndoDone, AtCleanup, Forward, Kept, Updated, Contents, Replacement,
           RecordedOriginals, RecordedSelected, RecordedMeta
    <2> QED BY <2>1, <2>2 DEF IInv
  <1> QED BY <1>1, <1>2 DEF Next, Environment, Finished

\* The invariant holds initially: nothing has been moved yet.
LEMMA InvInit == Init => IInv
  <1> SUFFICES ASSUME Init PROVE IInv
    OBVIOUS
  <1>1. TypeOK
    BY TypeInit
  <1>2. Ownership
    BY DEF Init, Ownership, Idle, InTransaction, Outside
  <1>3. \A s \in Sessions : Progress(s)
    BY DEF Init, Progress, AtAdvance, AtPrepare, AtPublish, AtUndo,
       UndoPending, UndoCurrent, UndoDone, AtCleanup, Advancing, Undoing,
       UndoLoop
  <1>4. Together(project, approval)
    <2>1. PICK c \in DependencyFree \cup Selections :
            /\ project = [n \in Names |-> IF c[n] = NoFile THEN NoFile
                                          ELSE [by |-> Original, body |-> c[n]]]
            /\ \/ c \in DependencyFree /\ approval = NoDoc
               \/ c \in Selections /\ approval = c
      BY DEF Init
    <2>2. c \in [Names -> Bodies \cup {NoFile}]
      BY ConstantsAssumption DEF DependencyFree
    <2>3. \A n \in Names : c[n] # NoFile =>
              [by |-> Original, body |-> c[n]] # NoFile
      BY <2>2, ConstantsAssumption DEF Files, Creators
    <2>4. Contents(project) = c
      BY <2>1, <2>2, <2>3 DEF Contents
    <2> QED BY <2>1, <2>4, ConstantsAssumption DEF Together
  <1> QED BY <1>1, <1>2, <1>3, <1>4 DEF Init, IInv, Untouched

-----------------------------------------------------------------------------
(* The theorems                                                            *)

\* For any number of processes and any selections: in every reachable state
\* the variables have their types, only the lock holder acts, and a project no
\* user touched is in order.
THEOREM Invariant == Spec => []IInv
  BY InvInit, InvStep, PTL DEF Spec

\* Type correctness of the control transaction.
THEOREM TypeCorrect == Spec => []TypeOK
  <1>1. IInv => TypeOK
    BY DEF IInv
  <1> QED BY <1>1, Invariant, PTL

\* Whenever no backup directory exists the controls and the retained approval
\* belong together, whichever calls failed and wherever processes died.
THEOREM OpenProjectIsApproved == Spec => []OpenMeansApproved
  <1>1. IInv => OpenMeansApproved
    BY DEF IInv, Untouched, Together, OpenMeansApproved
  <1> QED BY <1>1, Invariant, PTL

\* While a backup directory exists every original can be put back, or the
\* update is complete.
THEOREM NothingLost == Spec => []Recoverable
  <1>1. IInv => Recoverable
    BY DEF IInv, Untouched, Recoverable
  <1> QED BY <1>1, Invariant, PTL

-----------------------------------------------------------------------------
(* The atomic update                                                       *)

\* Only a process at work on its directory changes the controls or the
\* approval, only admission changes what is frozen, and the directory comes
\* and goes in two steps.
LEMMA WhatChanges ==
    ASSUME TypeOK, NEW s \in Sessions, Step(s) \/ Kill(s)
    PROVE  /\ pc[s] \notin InTransaction => UNCHANGED <<project, approval>>
           /\ UNCHANGED <<plan, oldDoc>> \/ (dir = Nobody /\ dir' = Nobody)
           /\ dir' = dir \/ BeginTransaction(s) \/ RemoveDirectory(s)
           /\ edits' = edits
  <1> USE DEF fsvars, locals, Goto, Abort, CallFails, RollBack, NextMember,
              PreviousMember, InTransaction
  <1>1. CASE Acquire(s) \/ Admit(s) \/ Resolve(s) \/ BeginTransaction(s)
    BY <1>1 DEF Acquire, Admit, Admissible, Resolve, BeginTransaction
  <1>2. CASE \/ Prepare(s) \/ Verify(s) \/ BackupMeta(s) \/ CheckMember(s)
             \/ MoveMember(s) \/ PublishMember(s) \/ UnlinkSelected(s)
             \/ PublishMeta(s) \/ PublishApproval(s) \/ SyncRoot(s)
    BY <1>2 DEF Prepare, Verify, BackupMeta, CheckMember, MoveMember,
       PublishMember, UnlinkSelected, PublishMeta, PublishApproval, SyncRoot
  <1>3. CASE \/ RollBackApproval(s) \/ RollBackMeta(s) \/ RestoreMeta(s)
             \/ DropMetaBackup(s) \/ RollBackCheck(s) \/ RollBackRemove(s)
             \/ RestoreMember(s) \/ UnlinkBackup(s) \/ RollBackSync(s)
    BY <1>3 DEF RollBackApproval, RollBackMeta, RestoreMeta, DropMetaBackup,
       RollBackCheck, RollBackRemove, RestoreMember, UnlinkBackup, RollBackSync
  <1>4. CASE \/ CheckInventory(s) \/ PurgeMember(s) \/ RemoveDirectory(s)
             \/ PurgeFails(s) \/ LastSync(s) \/ Close(s) \/ Kill(s)
    BY <1>4 DEF CheckInventory, PurgeMember, RemoveDirectory, PurgeFails,
       LastSync, Close, Kill
  <1> QED BY <1>1, <1>2, <1>3, <1>4 DEF Step

\* The pair an observer sees: the frozen one as long as a directory exists.
SeenControls == Contents(IF dir = Nobody THEN project ELSE plan)
SeenApproval == IF dir = Nobody THEN approval ELSE oldDoc

\* A step on an untouched project leaves the pair alone or replaces it by one
\* approved selection.
LEMMA SeenStep ==
    ASSUME TypeOK, Ownership, edits = 0, Untouched,
           NEW s \in Sessions, Step(s) \/ Kill(s)
    PROVE  \/ UNCHANGED <<SeenControls, SeenApproval>>
           \/ \E t \in Selections : SeenControls' = t /\ SeenApproval' = t
  <1>1. CASE BeginTransaction(s) /\ dir' # dir
    <2>1. /\ project = plan /\ approval = oldDoc /\ dir' = s
          /\ UNCHANGED <<plan, oldDoc>> /\ pc[s] = "begin"
      BY <1>1 DEF BeginTransaction, Unchanged, Abort, Goto, fsvars
    <2>2. dir = Nobody /\ s # Nobody
      BY <2>1, ConstantsAssumption DEF Ownership, Outside
    <2> QED BY <2>1, <2>2 DEF SeenControls, SeenApproval
  <1>2. CASE RemoveDirectory(s)
    <2>1. /\ pc[s] = "purge" /\ dir' = Nobody /\ UNCHANGED <<project, approval>>
      BY <1>2 DEF RemoveDirectory, Goto, Abort
    <2>2. dir = s /\ s # Nobody /\ Progress(s)
      BY <2>1, InOwnDirectory DEF InTransaction
    <2>3. IF mode = "committed" THEN Updated(s)
                                ELSE project = plan /\ approval = oldDoc
      BY <2>1, <2>2 DEF Progress, AtCleanup
    <2>4. CASE mode = "committed"
      BY <2>1, <2>3, <2>4 DEF Updated, SeenControls, SeenApproval, TypeOK,
         Contents
    <2>5. CASE mode # "committed"
      BY <2>1, <2>2, <2>3, <2>5 DEF SeenControls, SeenApproval
    <2> QED BY <2>4, <2>5
  <1>3. CASE dir' = dir /\ dir = Nobody
    <2>1. pc[s] \notin InTransaction
      BY <1>3, ConstantsAssumption DEF Ownership
    <2>2. UNCHANGED <<project, approval>>
      BY <2>1, WhatChanges
    <2> QED BY <1>3, <2>2 DEF SeenControls, SeenApproval
  <1>4. CASE dir' = dir /\ dir # Nobody
    <2>1. UNCHANGED <<plan, oldDoc>>
      BY <1>4, WhatChanges
    <2> QED BY <1>4, <2>1 DEF SeenControls, SeenApproval
  <1> QED BY <1>1, <1>2, <1>3, <1>4, WhatChanges

\* The whole transaction, with its failures, rollbacks and deaths, implements
\* the atomic update of ApprovedProject.
THEOREM Refinement == Spec => ImplementsApprovedProject
  <1>1. Init => Abstract!AInit
    <2> SUFFICES ASSUME Init PROVE Abstract!AInit
      OBVIOUS
    <2>1. IInv /\ edits = 0 /\ dir = Nobody
      BY InvInit DEF Init
    <2>2. Together(project, approval)
      BY <2>1 DEF IInv, Untouched
    <2> QED BY <2>1, <2>2 DEF Abstract!AInit, Abstract!Coherent, Together
  <1>2. IInv /\ [Next]_vars => [Abstract!ANext]_(Abstract!avars)
    <2> SUFFICES ASSUME IInv, [Next]_vars
                 PROVE  [Abstract!ANext]_(Abstract!avars)
      OBVIOUS
    <2>0. TypeOK /\ TypeOK' /\ Ownership /\ (edits = 0 => Untouched)
      BY InvStep DEF IInv
    <2>1. CASE edits' # 0
      BY <2>1 DEF Abstract!ANext, Abstract!Drift
    <2>2. ASSUME edits' = 0, NEW s \in Sessions, Step(s) \/ Kill(s)
          PROVE  [Abstract!ANext]_(Abstract!avars)
      <3>1. edits = 0
        BY <2>0, <2>2, WhatChanges
      <3>2. \/ UNCHANGED <<SeenControls, SeenApproval>>
            \/ \E t \in Selections : SeenControls' = t /\ SeenApproval' = t
        BY <2>0, <2>2, <3>1, SeenStep
      <3> QED
        BY <2>2, <3>1, <3>2 DEF Abstract!ANext, Abstract!Approve,
           Abstract!avars, SeenControls, SeenApproval
    <2>3. ASSUME edits' = 0, ClearStaleLock \/ (\E n \in Names : SaveControl(n))
                                 \/ DropStray \/ UNCHANGED vars
          PROVE  [Abstract!ANext]_(Abstract!avars)
      <3>1. /\ edits = 0
            /\ UNCHANGED <<project, approval, dir, plan, oldDoc>>
        BY <2>0, <2>3, ConstantsAssumption DEF ClearStaleLock, SaveControl,
           DropStray, vars, fsvars, locals, TypeOK
      <3> QED BY <2>3, <3>1 DEF Abstract!avars, Contents
    <2> QED BY <2>1, <2>2, <2>3 DEF Next, Environment, Finished
  <1> QED
    BY <1>1, <1>2, Invariant, PTL
       DEF Spec, ImplementsApprovedProject, Abstract!ASpec

-----------------------------------------------------------------------------
(* What a step may never do                                                *)

\* What the two action properties need besides IInv, however much a user
\* edits: the frozen controls are approved or dependency-free contents, never
\* a user's, and somebody else's member lies in an existing directory.
PlanNotForeign ==
    /\ \A n \in Names : plan[n] # NoFile => plan[n].body # ForeignBody
    /\ strays > 0 => dir # Nobody

\* Everything Admit freezes has contents the workflow produced.
LEMMA AdmittedNotForeign ==
    ASSUME TypeOK, Admissible
    PROVE  \A n \in Names : project[n] # NoFile => project[n].body # ForeignBody
  <1>1. Contents(project) \in [Names -> Bodies \cup {NoFile}]
    BY ConstantsAssumption DEF Admissible, DependencyFree, TypeOK
  <1>2. \A n \in Names : project[n] # NoFile => Contents(project)[n] = project[n].body
    BY DEF Contents
  <1> QED BY <1>1, <1>2, ConstantsAssumption

\* No step breaks that.
LEMMA PlanStep ==
    ASSUME IInv, PlanNotForeign, [Next]_vars
    PROVE  PlanNotForeign'
  <1>0. TypeOK /\ Ownership
    BY DEF IInv
  <1>1. ASSUME NEW s \in Sessions, Step(s) \/ Kill(s)
        PROVE  PlanNotForeign'
    <2>1. CASE Admit(s)
      BY <1>0, <2>1, AdmittedNotForeign
         DEF Admit, Abort, Goto, PlanNotForeign, fsvars, locals
    <2>2. CASE RemoveDirectory(s)
      BY <1>0, <2>2 DEF RemoveDirectory, PlanNotForeign, locals
    <2>3. CASE BeginTransaction(s)
      BY <1>0, <2>3, ConstantsAssumption
         DEF BeginTransaction, Abort, Goto, PlanNotForeign, fsvars, locals
    <2>4. CASE ~Admit(s) /\ ~RemoveDirectory(s) /\ ~BeginTransaction(s)
      <3>1. UNCHANGED <<plan, strays, dir>>
        BY <1>1, <2>4 DEF Step, Acquire, Resolve, Prepare,
           Verify, BackupMeta, CheckMember, MoveMember, PublishMember,
           UnlinkSelected, PublishMeta, PublishApproval, SyncRoot,
           RollBackApproval, RollBackMeta, RestoreMeta, DropMetaBackup,
           RollBackCheck, RollBackRemove, RestoreMember, UnlinkBackup,
           RollBackSync, CheckInventory, PurgeMember, PurgeFails, LastSync,
           Close, Kill, CallFails, fsvars, locals
      <3> QED BY <3>1 DEF PlanNotForeign
    <2> QED BY <2>1, <2>2, <2>3, <2>4
  <1>2. ASSUME ClearStaleLock \/ (\E n \in Names : SaveControl(n)) \/ DropStray
                   \/ UNCHANGED vars
        PROVE  PlanNotForeign'
    BY <1>0, <1>2 DEF ClearStaleLock, SaveControl, DropStray, vars, fsvars,
       locals, PlanNotForeign, TypeOK
  <1> QED BY <1>1, <1>2 DEF Next, Environment, Finished

\* The part of KeepsUserFiles about controls and their backups, step by step.
LEMMA ControlsKept ==
    ASSUME IInv, PlanNotForeign, NEW s \in Sessions, Step(s) \/ Kill(s),
           NEW n \in Names
    PROVE  /\ UserSaved(project[n]) =>
                  project'[n] = NoFile \/ UserSaved(project'[n])
           /\ UserSaved(backup[n]) =>
                  \/ backup'[n] = backup[n]
                  \/ cur = n /\ pc[s] = "rbUnlink"
  <1>0. TypeOK
    BY DEF IInv
  <1>1. CASE MoveMember(s)
    BY <1>0, <1>1 DEF MoveMember, CallFails, UserSaved, TypeOK, fsvars
  <1>2. CASE PublishMember(s)
    BY <1>0, <1>2 DEF PublishMember, CallFails, UserSaved, TypeOK, fsvars
  <1>3. CASE RollBackRemove(s)
    BY <1>0, <1>3 DEF RollBackRemove, UserSaved, TypeOK
  <1>4. CASE RestoreMember(s)
    BY <1>0, <1>4 DEF RestoreMember, UserSaved, TypeOK
  <1>5. CASE UnlinkBackup(s)
    BY <1>0, <1>5 DEF UnlinkBackup, PreviousMember, Goto, UserSaved, TypeOK
  <1>6. CASE PurgeMember(s)
    BY <1>0, <1>6 DEF PurgeMember, OriginalIntact, PlanNotForeign, UserSaved,
       TypeOK
  <1>7. CASE /\ ~MoveMember(s) /\ ~PublishMember(s) /\ ~RollBackRemove(s)
             /\ ~RestoreMember(s) /\ ~UnlinkBackup(s) /\ ~PurgeMember(s)
    <2>1. UNCHANGED <<project, backup>>
      BY <1>7 DEF Step, Acquire, Admit, Resolve, BeginTransaction, Prepare,
         Verify, BackupMeta, CheckMember, UnlinkSelected, PublishMeta,
         PublishApproval, SyncRoot, RollBackApproval, RollBackMeta,
         RestoreMeta, DropMetaBackup, RollBackCheck, RollBackSync,
         CheckInventory, RemoveDirectory, PurgeFails, LastSync, Close, Kill,
         CallFails, fsvars
    <2> QED BY <2>1
  <1> QED BY <1>1, <1>2, <1>3, <1>4, <1>5, <1>6, <1>7

\* A step of a process leaves the directory with somebody else's member in it.
LEMMA StraysKept ==
    ASSUME IInv, PlanNotForeign, NEW s \in Sessions, Step(s) \/ Kill(s),
           strays > 0
    PROVE  strays' = strays /\ dir' = dir
  <1>1. TypeOK /\ Ownership /\ dir # Nobody
    BY DEF IInv, PlanNotForeign
  <1>2. ~RemoveDirectory(s)
    BY <1>1 DEF RemoveDirectory, TypeOK
  <1>3. dir' = dir \/ BeginTransaction(s)
    BY <1>1, <1>2, WhatChanges
  <1>4. pc[s] # "begin"
    BY <1>1 DEF Ownership, Outside
  <1>5. dir' = dir
    BY <1>3, <1>4 DEF BeginTransaction, Abort, Goto
  <1>6. strays' = strays
    BY DEF Step, Acquire, Admit, Resolve, BeginTransaction, Prepare, Verify,
       BackupMeta, CheckMember, MoveMember, PublishMember, UnlinkSelected,
       PublishMeta, PublishApproval, SyncRoot, RollBackApproval, RollBackMeta,
       RestoreMeta, DropMetaBackup, RollBackCheck, RollBackRemove,
       RestoreMember, UnlinkBackup, RollBackSync, CheckInventory, PurgeMember,
       RemoveDirectory, PurgeFails, LastSync, Close, Kill, CallFails, fsvars
  <1> QED BY <1>5, <1>6

\* For any number of processes and of edits: a control a user saves is never
\* replaced, one that was swept into the backup is never deleted there as if it
\* were the original, and a foreign member keeps the directory in place.
THEOREM UserFilesSurvive == Spec => UserFilesKept
  <1>1. Init => PlanNotForeign
    BY DEF Init, PlanNotForeign, Empty
  <1>2. IInv /\ PlanNotForeign /\ [Next]_vars => PlanNotForeign'
    BY PlanStep
  <1>3. IInv /\ PlanNotForeign /\ [Next]_vars => [KeepsUserFiles]_vars
    <2> SUFFICES ASSUME IInv, PlanNotForeign, Next
                 PROVE  KeepsUserFiles \/ UNCHANGED vars
      OBVIOUS
    <2>0. TypeOK
      BY DEF IInv
    <2>1. ASSUME NEW s \in Sessions, Step(s) \/ Kill(s)
          PROVE  KeepsUserFiles
      <3>1. strays > 0 => strays' >= strays /\ dir' = dir
        BY <2>0, <2>1, StraysKept DEF TypeOK
      <3> QED BY <2>1, <3>1, ControlsKept DEF KeepsUserFiles
    <2>2. ASSUME NEW n \in Names, SaveControl(n)
          PROVE  KeepsUserFiles
      <3>1. /\ UserSaved(project[n])' /\ UNCHANGED <<strays, dir>>
            /\ \A m \in Names \ {n} : /\ project'[m] = project[m]
                                      /\ backup'[m] = backup[m]
        BY <2>0, <2>2, ConstantsAssumption
           DEF SaveControl, UserSaved, TypeOK, Files, Creators
      <3>2. UserSaved(backup[n]) => backup'[n] = backup[n]
        BY <2>0, <2>2 DEF SaveControl, UserSaved, TypeOK, Files
      <3> QED BY <2>0, <3>1, <3>2 DEF KeepsUserFiles, UserSaved, TypeOK
    <2>3. CASE ClearStaleLock \/ DropStray
      BY <2>0, <2>3 DEF ClearStaleLock, DropStray, KeepsUserFiles, TypeOK
    <2> QED BY <2>1, <2>2, <2>3 DEF Next, Environment, Finished
  <1> QED BY <1>1, <1>2, <1>3, Invariant, PTL DEF Spec, UserFilesKept

\* For any number of processes: a directory whose process is gone closes the
\* project; no later command changes controls, approval or directory.
THEOREM ClosedForGood == Spec => ClosedStaysClosed
  <1>1. IInv /\ [Next]_vars => [LeavesOrphanAlone]_vars
    <2> SUFFICES ASSUME IInv, Next, Orphaned
                 PROVE  \/ UNCHANGED vars
                        \/ /\ UNCHANGED <<approval, dir, meta, metaBackup>>
                           /\ edits' = edits => UNCHANGED <<project, backup, selected>>
      BY DEF LeavesOrphanAlone
    <2>0. TypeOK /\ Ownership
      BY DEF IInv
    <2>1. ASSUME NEW s \in Sessions, Step(s) \/ Kill(s)
          PROVE  UNCHANGED <<approval, dir, meta, metaBackup, project, backup,
                             selected>>
      <3>1. pc[s] \notin InTransaction /\ pc[s] # "begin"
        BY <2>0 DEF Ownership, Orphaned, InTransaction, Outside
      <3>2. \/ Acquire(s) \/ Admit(s) \/ Resolve(s) \/ LastSync(s) \/ Close(s)
            \/ Kill(s)
        BY <2>1, <3>1 DEF Step, BeginTransaction, Prepare,
           Verify, BackupMeta, CheckMember, MoveMember, PublishMember,
           UnlinkSelected, PublishMeta, PublishApproval, SyncRoot,
           RollBackApproval, RollBackMeta, RestoreMeta, DropMetaBackup,
           RollBackCheck, RollBackRemove, RestoreMember, UnlinkBackup,
           RollBackSync, CheckInventory, PurgeMember, RemoveDirectory,
           PurgeFails, CallFails, RollBack, Abort, Goto, NextMember,
           PreviousMember, InTransaction
      <3> QED
        BY <3>2 DEF Acquire, Admit, Resolve, LastSync, Close, Kill, fsvars
    <2>2. CASE ClearStaleLock \/ (\E n \in Names : SaveControl(n)) \/ DropStray
      BY <2>0, <2>2 DEF ClearStaleLock, SaveControl, DropStray, TypeOK
    <2> QED BY <2>1, <2>2 DEF Next, Environment, Finished
  <1> QED BY <1>1, Invariant, PTL DEF Spec, ClosedStaysClosed
=============================================================================
