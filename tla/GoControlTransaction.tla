------------------------- MODULE GoControlTransaction -------------------------
(***************************************************************************)
(* The guarded update of a Go project (internal/promotion/go_transaction,  *)
(* go_approved_transaction, control_transaction_backup): a helox process   *)
(* takes the project lock, freezes go.mod and go.sum, has a selection      *)
(* inspected, and then replaces both files, the project's metadata record  *)
(* and the approval retained outside the project, through a backup         *)
(* directory inside the project that doubles as the recovery journal.      *)
(*                                                                         *)
(* Every file-system call is a step of its own where another party can     *)
(* come between; any call may fail; a process may be killed at any point;  *)
(* a user may save a control file or drop a file into the backup directory *)
(* at any point, at most MaxEdits times.                                   *)
(***************************************************************************)
EXTENDS Naturals

CONSTANTS
    Sessions,       \* helox processes; each runs one command
    Nobody,         \* not a session
    Bodies,         \* contents of control files the workflow can produce
    FreeMod,        \* a go.mod without dependencies
    EmptySum,       \* an empty go.sum
    ForeignBody,    \* contents nobody approved
    NoFile,         \* no file under a name
    NoDoc,          \* no retained approval
    Selections,     \* the pairs of contents an inspection may approve
    MaxEdits        \* bound on the foreign edits of a behaviour

Names == {"go.mod", "go.sum"}

\* A file is its identity (who created it: a session creates each name once,
\* so the creator names the inode) and its contents.
Original == "original"
Foreign  == "foreign"
Creators == Sessions \cup {Original, Foreign}
Files    == [by : Creators, body : Bodies \cup {ForeignBody}]

ASSUME ConstantsAssumption ==
    /\ Nobody \notin Sessions
    /\ Sessions \cap {Original, Foreign} = {}
    /\ {FreeMod, EmptySum} \subseteq Bodies
    /\ ForeignBody \notin Bodies
    /\ NoFile \notin Files \cup Bodies \cup {ForeignBody}
    /\ Selections \subseteq [Names -> Bodies]
    /\ NoDoc \notin Selections
    /\ MaxEdits \in Nat

Labels == {"idle", "admit", "resolve", "begin", "prepare", "verify",
           "backupMeta", "check", "move", "publish", "unlink", "publishMeta",
           "approve", "sync", "boundary", "rbMeta", "rbRestoreMeta",
           "rbDropMeta", "rbCheck", "rbRemove", "rbRestore", "rbUnlink",
           "rbSync", "inventory", "purge", "lastSync", "close",
           "done", "dead"}

VARIABLES
    \* --- the file system
    lock,           \* holder of .heliopause-go-transaction.lock
    project,        \* go.mod and go.sum
    meta,           \* creator of .heliopause/go-transaction.json, or NoFile
    approval,       \* retained approval in the state root: what it approves
    dir,            \* creator of the .heliopause-go-commit-* directory
    backup,         \* originals moved into it
    metaBackup,     \* original metadata moved into it
    selected,       \* verified replacements under its selected/
    strays,         \* number of somebody else's members inside it
    \* --- the processes
    pc, result,
    \* --- locals of the process that holds the lock
    plan, oldDoc,   \* controls and approval frozen at admission
    target,         \* selection to publish
    cur,            \* control file a loop is at
    prepared,       \* selectedInfo: replacements recorded as written
    moved,          \* originals moved into the backup, the metadata included
    oldMeta,        \* identity of the moved metadata
    published,      \* what was put in place: controls, metadata, approval
    mode,           \* "uncertain" once the rollback has met an error,
                    \* "committed" once nothing rolls back any more
    \* --- the user
    edits

fsvars  == <<lock, project, meta, approval, dir, backup, metaBackup, selected,
             strays>>
locals  == <<plan, oldDoc, target, prepared, moved, oldMeta, published>>
vars    == <<fsvars, pc, result, locals, cur, mode, edits>>

Contents(fs) == [n \in Names |-> IF fs[n] = NoFile THEN NoFile ELSE fs[n].body]

\* Contents a project may have without a retained approval.
DependencyFree ==
    {c \in [Names -> Bodies \cup {NoFile}] :
        c["go.mod"] = FreeMod /\ c["go.sum"] \in {NoFile, EmptySum}}

Empty == [n \in Names |-> NoFile]

TypeOK ==
    /\ lock \in Sessions \cup {Nobody}
    /\ project \in [Names -> Files \cup {NoFile}]
    /\ meta \in Creators \cup {NoFile}
    /\ approval \in Selections \cup {NoDoc}
    /\ dir \in Sessions \cup {Nobody}
    /\ backup \in [Names -> Files \cup {NoFile}]
    /\ metaBackup \in Creators \cup {NoFile}
    /\ selected \in [Names -> Files \cup {NoFile}]
    /\ strays \in Nat
    /\ pc \in [Sessions -> Labels]
    /\ result \in [Sessions -> {"none", "ok", "error"}]
    /\ plan \in [Names -> Files \cup {NoFile}]
    /\ oldDoc \in Selections \cup {NoDoc}
    /\ target \in Selections
    /\ cur \in Names
    /\ prepared \in SUBSET Names
    /\ moved \in SUBSET (Names \cup {"metadata"})
    /\ oldMeta \in Creators \cup {NoFile}
    /\ published \in SUBSET (Names \cup {"metadata", "approval"})
    /\ mode \in {"certain", "uncertain", "committed"}
    /\ edits \in 0..MaxEdits

\* A project nobody manages yet, or one a previous command left approved.
Init ==
    /\ \E c \in DependencyFree \cup Selections :
        /\ project = [n \in Names |-> IF c[n] = NoFile THEN NoFile
                                      ELSE [by |-> Original, body |-> c[n]]]
        /\ \/ c \in DependencyFree /\ approval = NoDoc /\ meta = NoFile
           \/ c \in Selections /\ approval = c /\ meta = Original
    /\ lock = Nobody /\ dir = Nobody
    /\ backup = Empty /\ metaBackup = NoFile /\ selected = Empty
    /\ strays = 0
    /\ pc = [s \in Sessions |-> "idle"]
    /\ result = [s \in Sessions |-> "none"]
    /\ plan = Empty /\ oldDoc = NoDoc /\ target \in Selections
    /\ cur = "go.mod" /\ prepared = {} /\ moved = {} /\ published = {}
    /\ oldMeta = NoFile /\ mode = "certain"
    /\ edits = 0

Goto(s, from, to) == pc[s] = from /\ pc' = [pc EXCEPT ![s] = to]

\* The command ends in an error; Close comes next.
Abort(s, from) ==
    /\ Goto(s, from, "close")
    /\ result' = [result EXCEPT ![s] = "error"]

-----------------------------------------------------------------------------
(* Admission: Begin                                                        *)

\* O_CREATE|O_EXCL on the lock file; a process that loses returns an error.
Acquire(s) ==
    \/ /\ lock = Nobody
       /\ Goto(s, "idle", "admit")
       /\ lock' = s
       /\ UNCHANGED <<project, meta, approval, dir, backup, metaBackup,
                      selected, strays, result, locals, cur, mode, edits>>
    \/ /\ lock # Nobody
       /\ Goto(s, "idle", "done")
       /\ result' = [result EXCEPT ![s] = "error"]
       /\ UNCHANGED <<fsvars, locals, cur, mode, edits>>

\* Mutant: a directory left behind is not looked for.
AdmissibleIgnoringJournal ==
    /\ project["go.mod"] # NoFile
    /\ IF approval = NoDoc
          THEN Contents(project) \in DependencyFree
          ELSE Contents(project) = approval

\* checkRecoveryState, freezeGoProject and verifyRetainedApproval pass.
Admissible ==
    /\ dir = Nobody
    /\ project["go.mod"] # NoFile
    /\ IF approval = NoDoc
          THEN Contents(project) \in DependencyFree
          ELSE Contents(project) = approval

\* Everything Begin reads is read again, unchanged, before it returns the
\* guard; a retained cache that no longer verifies is a plain failure.
Admit(s) ==
    \/ /\ Admissible
       /\ Goto(s, "admit", "resolve")
       /\ plan' = project /\ oldDoc' = approval
       /\ UNCHANGED <<fsvars, result, target, prepared, moved, oldMeta,
                      published, cur, mode, edits>>
    \/ /\ Abort(s, "admit")
       /\ UNCHANGED <<fsvars, locals, cur, mode, edits>>

\* VerifyUnchanged: the lock, both controls and the approval are the frozen
\* ones, by identity and contents.
Unchanged(s) == lock = s /\ project = plan /\ approval = oldDoc

\* Mutant: a snapshot selects an absent go.sum as it is.
ResolveAbsentSum(s) ==
    /\ Unchanged(s)
    /\ Goto(s, "resolve", "begin")
    /\ target' \in Selections \cup {Contents(plan)}
    /\ UNCHANGED <<fsvars, result, plan, oldDoc, prepared, moved, oldMeta,
                   published, cur, mode, edits>>

\* Resolve, inspect and stage a selection, with VerifyUnchanged in between.
\* A snapshot command selects the current contents again.
Resolve(s) ==
    \/ /\ Unchanged(s)
       /\ Goto(s, "resolve", "begin")
       /\ target' \in Selections
       /\ UNCHANGED <<fsvars, result, plan, oldDoc, prepared, moved, oldMeta,
                      published, cur, mode, edits>>
    \/ /\ Abort(s, "resolve")
       /\ UNCHANGED <<fsvars, locals, cur, mode, edits>>

-----------------------------------------------------------------------------
(* Commit: beginGoProjectTransaction and goProjectTransaction.commit       *)

\* commitSelection re-verifies, then the backup directory is created.
BeginTransaction(s) ==
    \/ /\ Unchanged(s)
       /\ Goto(s, "begin", "prepare")
       /\ dir' = s
       /\ cur' = "go.mod" /\ mode' = "certain"
       /\ prepared' = {} /\ moved' = {} /\ published' = {}
       /\ oldMeta' = NoFile
       /\ UNCHANGED <<lock, project, meta, approval, backup, metaBackup,
                      selected, strays, result, plan, oldDoc, target, edits>>
    \/ /\ Abort(s, "begin")
       /\ UNCHANGED <<fsvars, locals, cur, mode, edits>>

Replacement(s, n) == [by |-> s, body |-> target[n]]

\* prepareSelectedControls writes go.mod, then go.sum, under selected/.  When
\* the write or the fsync of a file it has created fails, the file stays and
\* is not recorded.
Prepare(s) ==
    /\ \/ /\ selected' = [selected EXCEPT ![cur] = Replacement(s, cur)]
          /\ prepared' = prepared \cup {cur}
          /\ IF cur = "go.mod"
                THEN Goto(s, "prepare", "prepare") /\ cur' = "go.sum"
                ELSE Goto(s, "prepare", "verify") /\ cur' = "go.mod"
       \/ /\ Goto(s, "prepare", "inventory")
          /\ selected' \in {selected,
                            [selected EXCEPT ![cur] = Replacement(s, cur)]}
          /\ UNCHANGED <<prepared, cur>>
    /\ UNCHANGED <<lock, project, meta, approval, dir, backup, metaBackup,
                   strays, result, plan, oldDoc, target, moved, oldMeta,
                   published, mode, edits>>

\* fail(): every error of commit up to the directory sync rolls back.
RollBack(s, from) == Goto(s, from, "boundary")

\* A call of commit that fails leaves the state as it is and rolls back.
CallFails(s, from) ==
    /\ RollBack(s, from)
    /\ UNCHANGED <<fsvars, result, locals, cur, mode, edits>>

Verify(s) ==
    \/ /\ project = plan
       /\ Goto(s, "verify", "backupMeta")
       /\ UNCHANGED <<fsvars, result, locals, cur, mode, edits>>
    \/ CallFails(s, "verify")

\* backupCurrent: the metadata record first.
BackupMeta(s) ==
    \/ /\ Goto(s, "backupMeta", "check")
       /\ metaBackup' = meta /\ oldMeta' = meta
       /\ meta' = NoFile
       /\ moved' = IF meta = NoFile THEN moved ELSE moved \cup {"metadata"}
       /\ UNCHANGED <<lock, project, approval, dir, backup, selected, strays,
                      result, plan, oldDoc, target, prepared,
                      published, cur, mode, edits>>
    \/ CallFails(s, "backupMeta")

\* Where the loop of backupCurrent goes after a member.
NextMember(s, from) ==
    IF cur = "go.mod"
       THEN Goto(s, from, "check") /\ cur' = "go.sum"
       ELSE Goto(s, from, "publish") /\ cur' = "go.mod"

\* backupCurrent: a go.sum that is absent now and was absent at admission is
\* skipped; otherwise the member must still be the frozen inode.
CheckMember(s) ==
    \/ /\ cur = "go.sum" /\ project[cur] = NoFile /\ plan[cur] = NoFile
       /\ NextMember(s, "check")
       /\ UNCHANGED <<fsvars, result, locals, mode, edits>>
    \/ /\ project[cur] # NoFile /\ plan[cur] # NoFile
       /\ project[cur].by = plan[cur].by
       /\ Goto(s, "check", "move")
       /\ UNCHANGED <<fsvars, result, locals, cur, mode, edits>>
    \/ CallFails(s, "check")

\* The rename moves whatever is under the name by now.
MoveMember(s) ==
    \/ /\ project[cur] # NoFile
       /\ backup[cur] = NoFile
       /\ NextMember(s, "move")
       /\ backup' = [backup EXCEPT ![cur] = project[cur]]
       /\ project' = [project EXCEPT ![cur] = NoFile]
       /\ moved' = moved \cup {cur}
       /\ UNCHANGED <<lock, meta, approval, dir, metaBackup, selected, strays,
                      result, plan, oldDoc, target, prepared, oldMeta,
                      published, mode, edits>>
    \/ CallFails(s, "move")

\* publishWorkspace: link(2) into the project never replaces a file.
PublishMember(s) ==
    \/ /\ project[cur] = NoFile
       /\ selected[cur] # NoFile
       /\ Goto(s, "publish", "unlink")
       /\ project' = [project EXCEPT ![cur] = selected[cur]]
       /\ published' = published \cup {cur}
       /\ UNCHANGED <<lock, meta, approval, dir, backup, metaBackup, selected,
                      strays, result, plan, oldDoc, target, prepared, moved,
                      oldMeta, cur, mode, edits>>
    \/ CallFails(s, "publish")

\* ... and the staged name goes away, leaving a single link.
UnlinkSelected(s) ==
    \/ /\ selected' = [selected EXCEPT ![cur] = NoFile]
       /\ IF cur = "go.mod"
             THEN Goto(s, "unlink", "publish") /\ cur' = "go.sum"
             ELSE Goto(s, "unlink", "publishMeta") /\ UNCHANGED cur
       /\ UNCHANGED <<lock, project, meta, approval, dir, backup, metaBackup,
                      strays, result, locals, mode, edits>>
    \/ CallFails(s, "unlink")

\* publishMetadata: rename(2) of a private file over the record; it needs a
\* readable go.mod.  The directory sync after the rename may fail too.
PublishMeta(s) ==
    \/ /\ project["go.mod"] # NoFile
       /\ \/ Goto(s, "publishMeta", "approve")
          \/ RollBack(s, "publishMeta")
       /\ meta' = s
       /\ published' = published \cup {"metadata"}
       /\ UNCHANGED <<lock, project, approval, dir, backup, metaBackup,
                      selected, strays, result, plan, oldDoc, target,
                      prepared, moved, oldMeta, cur, mode, edits>>
    \/ CallFails(s, "publishMeta")

\* publishApproval: the retained approval must still be the frozen one; then
\* writeState links or renames the new document into place and syncs.
PublishApproval(s) ==
    \/ /\ approval = oldDoc
       /\ \/ Goto(s, "approve", "sync")
          \/ RollBack(s, "approve")
       /\ approval' = target
       /\ published' = published \cup {"approval"}
       /\ UNCHANGED <<lock, project, meta, dir, backup, metaBackup, selected,
                      strays, result, plan, oldDoc, target, prepared, moved,
                      oldMeta, cur, mode, edits>>
    \/ CallFails(s, "approve")

\* The commit point: after this sync only the backup directory is left to
\* remove, and nothing rolls back any more.
SyncRoot(s) ==
    \/ /\ Goto(s, "sync", "inventory")
       /\ mode' = "committed"
       /\ UNCHANGED <<fsvars, result, plan, oldDoc, target, prepared, moved,
                      oldMeta, published, cur, edits>>
    \/ CallFails(s, "sync")

-----------------------------------------------------------------------------
(* Roll back                                                               *)

\* Mutant: the approval is left as it was published.
RollBackKeepingApproval(s) ==
    /\ dir = s
    /\ Goto(s, "boundary", "rbMeta")
    /\ UNCHANGED <<fsvars, result, locals, cur, mode, edits>>

\* verifyBackupBoundary: without the directory nothing is touched.  Then
\* rollbackApproval: only an approval that is still the one published is
\* taken back.
RollBackApproval(s) ==
    \/ /\ dir = s
       /\ Goto(s, "boundary", "rbMeta")
       /\ \/ "approval" \notin published /\ UNCHANGED <<approval, mode>>
          \/ /\ "approval" \in published /\ approval = target
             /\ approval' = oldDoc
             /\ mode' \in {mode, "uncertain"}
          \/ /\ "approval" \in published
             /\ UNCHANGED approval
             /\ mode' = "uncertain"
       /\ UNCHANGED <<lock, project, meta, dir, backup, metaBackup, selected,
                      strays, result, locals, cur, edits>>
    \/ /\ Abort(s, "boundary")
       /\ UNCHANGED <<fsvars, locals, cur, mode, edits>>

\* The published metadata record is removed when it is still ours.
RollBackMeta(s) ==
    /\ Goto(s, "rbMeta", "rbRestoreMeta")
    /\ \/ /\ "metadata" \notin published
          /\ UNCHANGED <<meta, mode>>
       \/ /\ "metadata" \in published /\ meta = s
          /\ meta' = NoFile /\ UNCHANGED mode
       \/ /\ "metadata" \in published
          /\ mode' = "uncertain" /\ UNCHANGED meta
    /\ UNCHANGED <<lock, project, approval, dir, backup, metaBackup, selected,
                   strays, result, locals, cur, edits>>

\* The original record is linked back, without replacing anything ...
RestoreMeta(s) ==
    /\ \/ /\ "metadata" \notin moved
          /\ Goto(s, "rbRestoreMeta", "rbCheck")
          /\ UNCHANGED <<meta, mode>>
       \/ /\ "metadata" \in moved /\ meta = NoFile /\ metaBackup = oldMeta
          /\ Goto(s, "rbRestoreMeta", "rbDropMeta")
          /\ meta' = metaBackup /\ UNCHANGED mode
       \/ /\ "metadata" \in moved
          /\ Goto(s, "rbRestoreMeta", "rbCheck")
          /\ mode' = "uncertain" /\ UNCHANGED meta
    /\ cur' = "go.sum"
    /\ UNCHANGED <<lock, project, approval, dir, backup, metaBackup, selected,
                   strays, result, locals, edits>>

\* ... and its backup name removed.
DropMetaBackup(s) ==
    /\ Goto(s, "rbDropMeta", "rbCheck")
    /\ \/ metaBackup' = NoFile /\ UNCHANGED mode
       \/ mode' = "uncertain" /\ UNCHANGED metaBackup
    /\ UNCHANGED <<lock, project, meta, approval, dir, backup, selected,
                   strays, result, locals, cur, edits>>

\* Mutant: the loop starts over after its last member.
PreviousMemberForever(s, from) ==
    /\ Goto(s, from, "rbCheck")
    /\ cur' = IF cur = "go.sum" THEN "go.mod" ELSE "go.sum"

\* Where the rollback loop (go.sum, then go.mod) goes after a member.
PreviousMember(s, from) ==
    IF cur = "go.sum"
       THEN Goto(s, from, "rbCheck") /\ cur' = "go.mod"
       ELSE Goto(s, from, "rbSync") /\ UNCHANGED cur

\* The name holds the published file, unchanged, under a single link.
StillPublished(s, n) ==
    /\ project[n] = Replacement(s, n)
    /\ selected[n] # project[n]

RollBackCheck(s) ==
    /\ \/ /\ cur \notin published
          /\ Goto(s, "rbCheck", "rbRestore")
          /\ UNCHANGED <<cur, mode>>
       \/ /\ cur \in published /\ StillPublished(s, cur)
          /\ Goto(s, "rbCheck", "rbRemove")
          /\ UNCHANGED <<cur, mode>>
       \/ /\ cur \in published
          /\ PreviousMember(s, "rbCheck")
          /\ mode' = "uncertain"
    /\ UNCHANGED <<fsvars, result, locals, edits>>

\* The remove takes whatever is under the name by now.
RollBackRemove(s) ==
    /\ Goto(s, "rbRemove", "rbRestore")
    /\ \/ /\ project[cur] # NoFile
          /\ project' = [project EXCEPT ![cur] = NoFile]
          /\ UNCHANGED mode
       \/ mode' = "uncertain" /\ UNCHANGED project
    /\ UNCHANGED <<lock, meta, approval, dir, backup, metaBackup, selected,
                   strays, result, locals, cur, edits>>

\* Mutant: the backup name is removed before the link is made.
RestoreUnlinkingFirst(s) ==
    /\ cur \in moved
    /\ Goto(s, "rbRestore", "rbUnlink")
    /\ backup' = [backup EXCEPT ![cur] = NoFile]
    /\ UNCHANGED <<lock, project, meta, approval, dir, metaBackup, selected,
                   strays, result, locals, cur, mode, edits>>

\* A moved member whose backup is still the frozen file is linked back;
\* link(2) does not replace what is under the name.
RestoreMember(s) ==
    /\ \/ /\ cur \notin moved
          /\ PreviousMember(s, "rbRestore")
          /\ UNCHANGED <<project, mode>>
       \/ /\ cur \in moved
          /\ backup[cur] = plan[cur]
          /\ project[cur] = NoFile
          /\ Goto(s, "rbRestore", "rbUnlink")
          /\ project' = [project EXCEPT ![cur] = backup[cur]]
          /\ UNCHANGED <<cur, mode>>
       \/ /\ cur \in moved
          /\ PreviousMember(s, "rbRestore")
          /\ mode' = "uncertain"
          /\ UNCHANGED project
    /\ UNCHANGED <<lock, meta, approval, dir, backup, metaBackup, selected,
                   strays, result, locals, edits>>

UnlinkBackup(s) ==
    /\ PreviousMember(s, "rbUnlink")
    /\ \/ backup' = [backup EXCEPT ![cur] = NoFile] /\ UNCHANGED mode
       \/ mode' = "uncertain" /\ UNCHANGED backup
    /\ UNCHANGED <<lock, project, meta, approval, dir, metaBackup, selected,
                   strays, result, locals, edits>>

\* Mutant: errors of the rollback are dropped.
RollBackSyncRegardless(s) ==
    /\ Goto(s, "rbSync", "inventory")
    /\ UNCHANGED <<fsvars, result, locals, cur, mode, edits>>

\* After an incomplete rollback the directory stays: the project is closed.
RollBackSync(s) ==
    \/ /\ mode = "certain"
       /\ Goto(s, "rbSync", "inventory")
       /\ UNCHANGED <<fsvars, result, locals, cur, mode, edits>>
    \/ /\ Abort(s, "rbSync")
       /\ UNCHANGED <<fsvars, locals, cur, mode, edits>>

-----------------------------------------------------------------------------
(* Removing the backup directory, and the end of the command               *)

\* backupRecords(originals): what the directory must hold, and nothing else.
RecordedOriginals == IF mode = "committed" THEN moved \cap Names ELSE {}
RecordedSelected  == prepared \ published
RecordedMeta      == mode = "committed" /\ "metadata" \in moved

\* Mutant: members are known by their names alone.
OriginalPresent(n) == project[n] # backup[n]

\* A recorded member is the recorded file, unchanged, under a single link.
OriginalIntact(n) == backup[n] = plan[n] /\ project[n] # backup[n]
SelectedIntact(s, n) ==
    /\ selected[n] = Replacement(s, n)
    /\ project[n] # selected[n]

\* checkControlBackup: exactly the recorded members, each of them intact.
InventoryMatches(s) ==
    /\ dir = s
    /\ strays = 0
    /\ \A n \in Names :
        /\ IF n \in RecordedOriginals THEN OriginalIntact(n)
                                      ELSE backup[n] = NoFile
        /\ IF n \in RecordedSelected THEN SelectedIntact(s, n)
                                     ELSE selected[n] = NoFile
    /\ metaBackup = IF RecordedMeta THEN oldMeta ELSE NoFile

CheckInventory(s) ==
    \/ /\ InventoryMatches(s)
       /\ Goto(s, "inventory", "purge")
       /\ UNCHANGED <<fsvars, result, locals, cur, mode, edits>>
    \/ /\ Abort(s, "inventory")
       /\ UNCHANGED <<fsvars, locals, cur, mode, edits>>

\* removeControlBackup removes the recorded members one by one, in any order
\* (it ranges over a map), each checked again first.
PurgeMember(s) ==
    /\ Goto(s, "purge", "purge")
    /\ \/ \E n \in RecordedOriginals :
            /\ backup[n] # NoFile /\ OriginalIntact(n)
            /\ backup' = [backup EXCEPT ![n] = NoFile]
            /\ UNCHANGED <<selected, metaBackup>>
       \/ \E n \in RecordedSelected :
            /\ selected[n] # NoFile /\ SelectedIntact(s, n)
            /\ selected' = [selected EXCEPT ![n] = NoFile]
            /\ UNCHANGED <<backup, metaBackup>>
       \/ /\ RecordedMeta /\ metaBackup # NoFile /\ metaBackup = oldMeta
          /\ metaBackup' = NoFile
          /\ UNCHANGED <<backup, selected>>
    /\ UNCHANGED <<lock, project, meta, approval, dir, strays, result, locals,
                   cur, mode, edits>>

Purged ==
    /\ \A n \in RecordedOriginals : backup[n] = NoFile
    /\ \A n \in RecordedSelected : selected[n] = NoFile
    /\ RecordedMeta => metaBackup = NoFile

\* rmdir(2) refuses a directory that is not empty.
RemoveDirectory(s) ==
    /\ Purged
    /\ strays = 0
    /\ dir' = Nobody
    /\ IF mode = "committed"
       THEN Goto(s, "purge", "lastSync") /\ UNCHANGED result
       ELSE Abort(s, "purge")
    /\ UNCHANGED <<lock, project, meta, approval, backup, metaBackup,
                   selected, strays, locals, cur, mode, edits>>

PurgeFails(s) ==
    /\ Abort(s, "purge")
    /\ UNCHANGED <<fsvars, locals, cur, mode, edits>>

\* commit returns the result of a last directory sync.
LastSync(s) ==
    /\ \/ /\ Goto(s, "lastSync", "close")
          /\ result' = [result EXCEPT ![s] = "ok"]
       \/ Abort(s, "lastSync")
    /\ UNCHANGED <<fsvars, locals, cur, mode, edits>>

\* Close releases the lock; an error of Close replaces a success.
Close(s) ==
    /\ Goto(s, "close", "done")
    /\ \/ lock = s /\ lock' = Nobody /\ UNCHANGED result
       \/ UNCHANGED lock /\ result' = [result EXCEPT ![s] = "error"]
    /\ UNCHANGED <<project, meta, approval, dir, backup, metaBackup, selected,
                   strays, locals, cur, mode, edits>>

-----------------------------------------------------------------------------
(* The environment                                                         *)

Idle == {"idle", "done", "dead"}

\* The process is killed; what it did to the file system stays.
Kill(s) ==
    /\ pc[s] \notin Idle
    /\ pc' = [pc EXCEPT ![s] = "dead"]
    /\ UNCHANGED <<fsvars, result, locals, cur, mode, edits>>

\* Somebody removes the lock file a process that is gone left behind.
ClearStaleLock ==
    /\ lock # Nobody /\ pc[lock] \in {"done", "dead"}
    /\ lock' = Nobody
    /\ UNCHANGED <<project, meta, approval, dir, backup, metaBackup, selected,
                   strays, pc, result, locals, cur, mode, edits>>

\* A user saves a control file: a new file takes the name, or the present
\* file is rewritten in place, under every name it is linked to.
SaveControl(n) ==
    /\ edits < MaxEdits
    /\ edits' = edits + 1
    /\ \/ /\ project' = [project EXCEPT ![n] = [by |-> Foreign,
                                               body |-> ForeignBody]]
          /\ UNCHANGED <<backup, selected>>
       \/ /\ project[n] # NoFile
          /\ LET Rewritten(fs) ==
                    [fs EXCEPT ![n] = IF @ = project[n]
                                        THEN [@ EXCEPT !.body = ForeignBody]
                                        ELSE @]
             IN  /\ project' = Rewritten(project)
                 /\ backup' = Rewritten(backup)
                 /\ selected' = Rewritten(selected)
    /\ UNCHANGED <<lock, meta, approval, dir, metaBackup, strays, pc, result,
                   locals, cur, mode>>

\* A user drops a file into the backup directory.
DropStray ==
    /\ edits < MaxEdits
    /\ edits' = edits + 1
    /\ dir # Nobody
    /\ strays' = strays + 1
    /\ UNCHANGED <<lock, project, meta, approval, dir, backup, metaBackup,
                   selected, pc, result, locals, cur, mode>>

Environment ==
    \/ \E s \in Sessions : Kill(s)
    \/ ClearStaleLock
    \/ \E n \in Names : SaveControl(n)
    \/ DropStray

Step(s) ==
    \/ Acquire(s) \/ Admit(s) \/ Resolve(s) \/ BeginTransaction(s)
    \/ Prepare(s) \/ Verify(s) \/ BackupMeta(s) \/ CheckMember(s)
    \/ MoveMember(s) \/ PublishMember(s) \/ UnlinkSelected(s)
    \/ PublishMeta(s) \/ PublishApproval(s) \/ SyncRoot(s)
    \/ RollBackApproval(s) \/ RollBackMeta(s) \/ RestoreMeta(s)
    \/ DropMetaBackup(s) \/ RollBackCheck(s) \/ RollBackRemove(s)
    \/ RestoreMember(s) \/ UnlinkBackup(s) \/ RollBackSync(s)
    \/ CheckInventory(s) \/ PurgeMember(s) \/ RemoveDirectory(s)
    \/ PurgeFails(s) \/ LastSync(s) \/ Close(s)

\* Every command over and no stale lock: nothing is left to do.
Finished ==
    /\ \A s \in Sessions : pc[s] \in {"done", "dead"}
    /\ UNCHANGED vars

Next == (\E s \in Sessions : Step(s)) \/ Environment \/ Finished

Spec == Init /\ [][Next]_vars

\* A process that is not killed keeps taking steps.
FairSpec == Spec /\ \A s \in Sessions : WF_vars(Step(s))

-----------------------------------------------------------------------------
(* Properties                                                              *)

\* Whenever no backup directory is in the project, whichever calls failed and
\* wherever processes were killed, the control files and the retained approval
\* belong together, so the next Begin admits the project again (unless a user
\* edited it): commit and fail() never remove the journal around a mixed state.
OpenMeansApproved ==
    edits = 0 /\ dir = Nobody =>
        IF approval = NoDoc THEN Contents(project) \in DependencyFree
                            ELSE Contents(project) = approval

\* While the directory exists, whatever happened, either every original control
\* is still under its name or in the backup, or the update is complete: rename
\* without replacement, link before unlink and the order of commit lose nothing.
Recoverable ==
    edits = 0 /\ dir # Nobody =>
        \/ \A n \in Names : plan[n] # NoFile => plan[n] \in {project[n], backup[n]}
        \/ Contents(project) = target /\ approval = target

UserSaved(f) == f # NoFile /\ f.body = ForeignBody

\* What a user writes while a command runs survives it: a control saved under
\* its name is not replaced (links are made without replacement); one that the
\* rename of backupCurrent swept into the backup is not deleted there as if it
\* were the original (unless it was just linked back); and "another writer's
\* member must survive even when it appears after the inventory check"
\* (control_transaction_backup.go).
KeepsUserFiles ==
    /\ \A n \in Names : UserSaved(project[n]) =>
           project'[n] = NoFile \/ UserSaved(project'[n])
    /\ \A n \in Names : UserSaved(backup[n]) =>
           \/ backup'[n] = backup[n]
           \/ cur = n /\ \E s \in Sessions : pc[s] = "rbUnlink"
    /\ strays > 0 => strays' >= strays /\ dir' = dir
UserFilesKept == [][KeepsUserFiles]_vars

\* A directory whose process is gone closes the project: no later command,
\* even after the lock file was cleared by hand, changes the controls, the
\* approval or the directory (checkRecoveryState).
Orphaned == dir # Nobody /\ pc[dir] \in {"done", "dead"}
LeavesOrphanAlone ==
    Orphaned =>
        /\ UNCHANGED <<approval, dir, meta, metaBackup>>
        /\ edits' = edits => UNCHANGED <<project, backup, selected>>
ClosedStaysClosed == [][LeavesOrphanAlone]_vars

\* A command that started is over at some point: no wait, no endless rollback.
CommandEnds ==
    \A s \in Sessions : pc[s] # "idle" ~> pc[s] \in {"done", "dead"}

\* The update is one atomic step for whoever looks at the project while no
\* backup directory exists; until then the frozen pair stands.
Abstract == INSTANCE ApprovedProject WITH
    Adoptable <- DependencyFree,
    controls  <- Contents(IF dir = Nobody THEN project ELSE plan),
    approved  <- IF dir = Nobody THEN approval ELSE oldDoc,
    drifted   <- edits # 0

\* The transaction implements the atomic update of ApprovedProject.
ImplementsApprovedProject == Abstract!ASpec
=============================================================================
