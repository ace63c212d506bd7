--------------------------- MODULE CargoTransaction ---------------------------
(***************************************************************************)
(* The guarded update of a Cargo project (internal/promotion/              *)
(* cargo_transaction, cargo_approved_transaction, with the shared guard    *)
(* and backup code).  Commands follow each other: the lock admits one at a *)
(* time, and a command that is killed leaves its lock and its journal      *)
(* directory behind.  Every call that changes the file system is a step    *)
(* and may fail; a user may save a control, or a source file, between two  *)
(* steps.  The check just before a call and the call are one step here;    *)
(* the window between the two is modelled in GoControlTransaction.         *)
(***************************************************************************)
EXTENDS Naturals, Sequences

CONSTANTS
    Bodies,         \* contents of Cargo.toml and Cargo.lock
    Selections,     \* the pairs of contents an inspection may approve
    NoFile, NoDoc,  \* no file under a name, no retained approval
    MaxCommands,    \* bound on the commands of a behaviour
    MaxEdits        \* bound on the user's edits of a behaviour

Controls == {"Cargo.toml", "Cargo.lock"}
Parts    == Controls \cup {"metadata"}

\* A file: who made it (0: before the first command, then the commands, then
\* the edits of the user) and what is in it.
Files == [by : 0..MaxCommands + MaxEdits, body : Bodies \cup {"record", "edited"}]
UserSaved(f) == f # NoFile /\ f.by > MaxCommands

\* A retained approval: the controls and the local manifests it covers.
Docs == [controls : Selections, manifests : 0..MaxEdits]

VARIABLES
    lock,       \* .heliopause-cargo-transaction.lock: "free", "held"
    project,    \* the controls, and .heliopause/cargo-transaction.json
    source,     \* the other source files, by the number of their edits
    approval,   \* the retained approval in the state root
    dir,        \* the command whose .heliopause-cargo-commit-* exists, or 0
    backup,     \* originals moved into it
    selected,   \* replacements under its selected/
    strays,     \* other members inside it
    cmd,        \* the current, or last, command
    pc, todo,   \* where it is, and what a loop has left
    tx,         \* its locals: approvedCargoProjectGuard, cargoProjectTransaction
    edits

disk == <<project, approval, dir, backup, selected>>
user == <<source, strays, edits>>
vars == <<disk, user, lock, cmd, pc, todo, tx>>

Nothing     == [p \in Parts |-> NoFile]
Contents(f) == [n \in Controls |-> IF f[n] = NoFile THEN NoFile ELSE f[n].body]

\* Any project without approval and without a marker is input.
Unmanaged == {c \in [Controls -> Bodies \cup {NoFile}] : c["Cargo.toml"] # NoFile}

NoTx == [plan |-> Nothing, source |-> 0, doc |-> NoDoc, target |-> NoDoc,
         prepared |-> {}, moved |-> {}, published |-> {}, mode |-> "certain"]

Init ==
    /\ \E c \in Unmanaged, d \in {NoDoc} \cup Docs :
        /\ d # NoDoc => d = [controls |-> c, manifests |-> 0]
        /\ approval = d
        /\ project = [p \in Parts |->
               CASE p = "metadata" -> IF d = NoDoc THEN NoFile ELSE [by |-> 0, body |-> "record"]
                 [] OTHER -> IF c[p] = NoFile THEN NoFile ELSE [by |-> 0, body |-> c[p]]]
    /\ lock = "free" /\ source = 0 /\ dir = 0 /\ strays = 0
    /\ backup = Nothing /\ selected = Nothing
    /\ cmd = 0 /\ pc = "idle" /\ todo = <<>> /\ tx = NoTx /\ edits = 0

Go(from, to) == pc = from /\ pc' = to

-----------------------------------------------------------------------------
(* Begin and the commands that lead to a commit                            *)

\* checkRecoveryState: no journal of an interrupted command.
NoJournal == dir = 0

\* freezeCargoProject reads both controls; the lock file may be absent.
Freezable == project["Cargo.toml"] # NoFile

\* verifyRetainedApproval: the approval is for these controls and for the
\* manifests captured with them.
Retained == approval = [controls |-> Contents(project), manifests |-> source]

\* What Begin asks for; a project without an approval has no marker.
Admissible ==
    /\ NoJournal /\ Freezable
    /\ IF approval = NoDoc THEN project["metadata"] = NoFile ELSE Retained

\* acquireProjectTransactionGuard, then Begin.
Begin ==
    /\ lock = "free" /\ cmd < MaxCommands
    /\ lock' = "held" /\ cmd' = cmd + 1
    /\ \/ /\ Admissible
          /\ Go("idle", "resolve")
          /\ tx' = [NoTx EXCEPT !.plan = project, !.source = source, !.doc = approval]
       \/ Go("idle", "close") /\ UNCHANGED tx
    /\ UNCHANGED <<disk, user, todo>>

\* VerifyUnchanged: the controls, every source member and the approval are
\* the frozen ones.
PlanUnchanged == \A n \in Controls : project[n] = tx.plan[n]
Unchanged == PlanUnchanged /\ source = tx.source /\ approval = tx.doc

GivesUp(from) == Go(from, "close") /\ UNCHANGED <<disk, user, lock, cmd, todo, tx>>

\* executeProjectUpdate: the resolver works on a copy of the frozen controls.
Resolve ==
    \/ /\ Go("resolve", "inspect")
       /\ \E s \in Selections : tx' = [tx EXCEPT !.target = s]
       /\ UNCHANGED <<disk, user, lock, cmd, todo>>
    \/ GivesUp("resolve")

\* resolveProjectSnapshot: the resolver reads the project itself, and its
\* controls must be the frozen ones.
ResolveSnapshot ==
    /\ Go("resolve", "inspect")
    /\ Contents(project) = Contents(tx.plan)
    /\ project["Cargo.lock"] # NoFile
    /\ tx' = [tx EXCEPT !.target = Contents(project)]
    /\ UNCHANGED <<disk, user, lock, cmd, todo>>

\* InspectProject: every dependency of the graph, then the policy of the set.
Inspect ==
    \/ /\ Unchanged
       /\ tx.target \in Selections
       /\ Go("inspect", "stage")
       /\ UNCHANGED <<disk, user, lock, cmd, todo, tx>>
    \/ GivesUp("inspect")

\* StageProject writes the cache; nothing of the project changes.
StageCache ==
    \/ /\ Unchanged
       /\ Go("stage", "select")
       /\ UNCHANGED <<disk, user, lock, cmd, todo, tx>>
    \/ GivesUp("stage")

\* The private directory is made beside the controls.
beginCargoProjectTransaction == dir' = cmd /\ todo' = <<"Cargo.toml", "Cargo.lock">>

\* Commit or CommitSnapshot compares the selection with the staged cache, and
\* the project once more with the frozen one.
Select ==
    \/ /\ Unchanged
       /\ Go("select", "prepare")
       /\ beginCargoProjectTransaction
       /\ UNCHANGED <<project, approval, backup, selected, user, lock, cmd, tx>>
    \/ GivesUp("select")

Replacement(n) == [by |-> cmd, body |-> tx.target[n]]

\* prepareSelectedControls; a file whose write fails stays unrecorded.
Prepare == pc = "prepare" /\
    LET n == Head(todo)
        written == [selected EXCEPT ![n] = Replacement(n)]
    IN  /\ \/ /\ selected' = written
              /\ tx' = [tx EXCEPT !.prepared = @ \cup {n}]
              /\ todo' = Tail(todo)
              /\ Go("prepare", IF todo' = <<>> THEN "verify" ELSE "prepare")
           \/ /\ selected' \in {selected, written}
              /\ Go("prepare", "inventory")
              /\ UNCHANGED <<tx, todo>>
        /\ UNCHANGED <<project, approval, dir, backup, user, lock, cmd>>

-----------------------------------------------------------------------------
(* commit                                                                  *)

\* fail(cause): an error before the root directory is synced rolls back.
Fails(from) ==
    /\ Go(from, "rbApproval")
    /\ UNCHANGED <<disk, user, lock, cmd, todo, tx>>

\* The checkpoint before-backup is VerifyUnchanged again.
VerifyPlan ==
    \/ /\ Unchanged
       /\ Go("verify", "backup")
       /\ todo' = <<"metadata", "Cargo.toml", "Cargo.lock">>
       /\ UNCHANGED <<disk, user, lock, cmd, tx>>
    \/ Fails("verify")

\* backupCurrent: the record and an absent Cargo.lock are skipped; a control
\* must still be the frozen file; renameat2(RENAME_NOREPLACE).
BackUp == pc = "backup" /\ LET p == Head(todo) IN
    \/ /\ p = "metadata" \/ project[p] = tx.plan[p]
       /\ backup[p] = NoFile
       /\ backup' = [backup EXCEPT ![p] = project[p]]
       /\ project' = [project EXCEPT ![p] = NoFile]
       /\ tx' = IF project[p] = NoFile THEN tx
                ELSE [tx EXCEPT !.moved = @ \cup {p}, !.plan[p] = project[p]]
       /\ IF Tail(todo) # <<>>
             THEN Go("backup", "backup") /\ todo' = Tail(todo)
             ELSE Go("backup", "publish") /\ todo' = <<"Cargo.toml", "Cargo.lock">>
       /\ UNCHANGED <<approval, dir, selected, user, lock, cmd>>
    \/ Fails("backup")

\* Mutant: a file that appeared under the name is replaced.
PublishOver == pc = "publish" /\ LET n == Head(todo) IN
    /\ project' = [project EXCEPT ![n] = selected[n]]
    /\ tx' = [tx EXCEPT !.published = @ \cup {n}]
    /\ Go("publish", "unlink")
    /\ UNCHANGED <<approval, dir, backup, selected, user, lock, cmd, todo>>

\* publishWorkspace: link(2) puts the replacement under a free name ...
Publish == pc = "publish" /\ LET n == Head(todo) IN
    \/ /\ project[n] = NoFile /\ selected[n] = Replacement(n)
       /\ project' = [project EXCEPT ![n] = selected[n]]
       /\ tx' = [tx EXCEPT !.published = @ \cup {n}]
       /\ Go("publish", "unlink")
       /\ UNCHANGED <<approval, dir, backup, selected, user, lock, cmd, todo>>
    \/ Fails("publish")

\* ... and its staging name goes.
Unlink ==
    \/ /\ pc = "unlink"
       /\ selected' = [selected EXCEPT ![Head(todo)] = NoFile]
       /\ todo' = Tail(todo)
       /\ Go("unlink", IF todo' = <<>> THEN "metadata" ELSE "publish")
       /\ UNCHANGED <<project, approval, dir, backup, user, lock, cmd, tx>>
    \/ Fails("unlink")

\* publishMetadata links a complete private file under the free name; the
\* calls after the link may fail too.
PublishMetadata ==
    \/ /\ project["metadata"] = NoFile /\ project["Cargo.toml"] # NoFile
       /\ project' = [project EXCEPT !["metadata"] = [by |-> cmd, body |-> "record"]]
       /\ tx' = [tx EXCEPT !.published = @ \cup {"metadata"}]
       /\ Go("metadata", "approve") \/ Go("metadata", "rbApproval")
       /\ UNCHANGED <<approval, dir, backup, selected, user, lock, cmd, todo>>
    \/ Fails("metadata")

NewDoc == [controls |-> tx.target, manifests |-> tx.source]

\* writeState: a private file, synced and renamed over the old document.
WriteState(doc) == approval' = doc

\* VerifyPublishedControls: the selected controls, by contents, and every
\* other source member as captured.
PublishedSource == Contents(project) = tx.target /\ source = tx.source

\* before-approval, then publishApproval: over the frozen approval only.  The
\* sync after the new document is in place may fail.
Approve ==
    \/ /\ PublishedSource /\ approval = tx.doc
       /\ WriteState(NewDoc)
       /\ tx' = [tx EXCEPT !.published = @ \cup {"approval"}]
       /\ Go("approve", "sync") \/ Go("approve", "rbApproval")
       /\ UNCHANGED <<project, dir, backup, selected, user, lock, cmd, todo>>
    \/ Fails("approve")

\* The last step that rolls back; after it a changed boundary only ends the
\* command, with the directory in place.
Sync ==
    \/ /\ Go("sync", "inventory") \/ Go("sync", "close")
       /\ tx' = [tx EXCEPT !.mode = "committed"]
       /\ UNCHANGED <<disk, user, lock, cmd, todo>>
    \/ Fails("sync")

-----------------------------------------------------------------------------
(* rollback                                                                *)

Uncertain == tx' = [tx EXCEPT !.mode = "uncertain"]

\* rollbackApproval: only the document this command published is taken back.
RollBackApproval ==
    /\ \/ Go("rbApproval", "rbRemove")
       \/ Go("rbApproval", "close")     \* the boundary cannot be verified
    /\ \/ "approval" \notin tx.published /\ UNCHANGED <<approval, tx>>
       \/ /\ pc' = "rbRemove"
          /\ "approval" \in tx.published /\ approval = NewDoc
          /\ WriteState(tx.doc)
          /\ UNCHANGED tx \/ Uncertain  \* written, but not known to be durable
       \/ "approval" \in tx.published /\ UNCHANGED approval /\ Uncertain
    /\ todo' = <<"metadata", "Cargo.lock", "Cargo.toml">>
    /\ UNCHANGED <<project, dir, backup, selected, user, lock, cmd>>

\* Where the rollback goes after a part: an error skips to the next one.
NextPart(from) ==
    /\ pc = from
    /\ todo' = Tail(todo)
    /\ Go(from, IF todo' = <<>> THEN "rbSync" ELSE "rbRemove")

Published(p) ==
    IF p = "metadata" THEN [by |-> cmd, body |-> "record"] ELSE Replacement(p)

\* A published part is removed when it is still the published file, under a
\* single link.  A control that is not is left, and not restored either.
RemovePublished == pc = "rbRemove" /\ LET p == Head(todo) IN
    /\ \/ /\ p \notin tx.published
          /\ Go("rbRemove", "rbRestore") /\ UNCHANGED <<project, tx, todo>>
       \/ /\ p \in tx.published /\ project[p] = Published(p) /\ selected[p] # project[p]
          /\ Go("rbRemove", "rbRestore") /\ UNCHANGED todo
          /\ \/ project' = [project EXCEPT ![p] = NoFile] /\ UNCHANGED tx
             \/ Uncertain /\ UNCHANGED project
       \/ /\ p \in tx.published /\ Uncertain /\ UNCHANGED project
          /\ IF p = "metadata" THEN Go("rbRemove", "rbRestore") /\ UNCHANGED todo
             ELSE NextPart("rbRemove")
    /\ UNCHANGED <<approval, dir, backup, selected, user, lock, cmd>>

\* A moved part that is intact in the backup is linked back under a free name.
Restore == pc = "rbRestore" /\ LET p == Head(todo) IN
    /\ \/ p \notin tx.moved /\ NextPart("rbRestore") /\ UNCHANGED <<project, tx>>
       \/ /\ p \in tx.moved /\ backup[p] = tx.plan[p] /\ project[p] = NoFile
          /\ project' = [project EXCEPT ![p] = backup[p]]
          /\ Go("rbRestore", "rbUnlink") /\ UNCHANGED <<todo, tx>>
       \/ p \in tx.moved /\ NextPart("rbRestore") /\ Uncertain /\ UNCHANGED project
    /\ UNCHANGED <<approval, dir, backup, selected, user, lock, cmd>>

UnlinkBackup ==
    /\ NextPart("rbUnlink")
    /\ \/ backup' = [backup EXCEPT ![Head(todo)] = NoFile] /\ UNCHANGED tx
       \/ Uncertain /\ UNCHANGED backup
    /\ UNCHANGED <<project, approval, dir, selected, user, lock, cmd>>

\* Mutant: an incomplete rollback removes its journal as a complete one does.
RolledBackRegardless ==
    /\ Go("rbSync", "inventory")
    /\ UNCHANGED <<disk, user, lock, cmd, todo, tx>>

\* A complete rollback removes the directory, an incomplete one keeps it.
RolledBack ==
    /\ \/ tx.mode = "certain" /\ Go("rbSync", "inventory")
       \/ Go("rbSync", "close")
    /\ UNCHANGED <<disk, user, lock, cmd, todo, tx>>

-----------------------------------------------------------------------------
(* removeBackup, release                                                   *)

\* backupRecords(originals): what must be in the directory, each part intact
\* under a single link.
Originals == IF tx.mode = "committed" THEN tx.moved ELSE {}
Staged    == tx.prepared \ tx.published

Intact ==
    /\ \A p \in Originals : backup[p] = tx.plan[p] /\ project[p] # backup[p]
    /\ \A n \in Staged : selected[n] = Replacement(n) /\ project[n] # selected[n]

Inventory ==
    /\ strays = 0 /\ Intact
    /\ \A p \in Parts \ Originals : backup[p] = NoFile
    /\ \A n \in Parts \ Staged : selected[n] = NoFile

\* checkControlBackup, then removeControlBackup: part by part, then rmdir(2),
\* which refuses a directory somebody put a file into.
CheckInventory ==
    /\ \/ Inventory /\ Go("inventory", "purge")
       \/ Go("inventory", "close")
    /\ UNCHANGED <<disk, user, lock, cmd, todo, tx>>

Purge ==
    /\ \/ \E p \in Parts :
            /\ Go("purge", "purge")
            /\ \/ /\ p \in Originals /\ backup[p] = tx.plan[p] /\ project[p] # backup[p]
                  /\ backup' = [backup EXCEPT ![p] = NoFile] /\ UNCHANGED <<selected, dir>>
               \/ /\ p \in Staged /\ selected[p] = Replacement(p) /\ project[p] # selected[p]
                  /\ selected' = [selected EXCEPT ![p] = NoFile] /\ UNCHANGED <<backup, dir>>
       \/ /\ backup = Nothing /\ selected = Nothing /\ strays = 0
          /\ dir' = 0 /\ Go("purge", "close") /\ UNCHANGED <<backup, selected>>
       \/ Go("purge", "close") /\ UNCHANGED <<backup, selected, dir>>
    /\ UNCHANGED <<project, approval, user, lock, cmd, todo, tx>>

\* Close: the guard releases the lock it still recognises.
Close ==
    /\ Go("close", "idle")
    /\ lock' \in {"free", lock}
    /\ UNCHANGED <<disk, user, cmd, todo, tx>>

-----------------------------------------------------------------------------
(* The environment                                                         *)

Kill ==
    /\ pc # "idle" /\ pc' = "idle"
    /\ UNCHANGED <<disk, user, lock, cmd, todo, tx>>

ClearStaleLock ==
    /\ pc = "idle" /\ lock = "held" /\ lock' = "free"
    /\ UNCHANGED <<disk, user, cmd, pc, todo, tx>>

\* A user saves a control or a source file, or drops a file in the directory.
Edit ==
    /\ edits < MaxEdits /\ edits' = edits + 1
    /\ \/ \E n \in Controls :
            project' = [project EXCEPT ![n] = [by |-> MaxCommands + edits', body |-> "edited"]]
            /\ UNCHANGED <<source, strays>>
       \/ source' = source + 1 /\ UNCHANGED <<project, strays>>
       \/ dir # 0 /\ strays' = strays + 1 /\ UNCHANGED <<project, source>>
    /\ UNCHANGED <<approval, dir, backup, selected, lock, cmd, pc, todo, tx>>

Next ==
    \/ Begin \/ Resolve \/ ResolveSnapshot \/ Inspect \/ StageCache \/ Select
    \/ Prepare \/ VerifyPlan \/ BackUp \/ Publish \/ Unlink
    \/ PublishMetadata \/ Approve \/ Sync \/ RollBackApproval \/ RemovePublished
    \/ Restore \/ UnlinkBackup \/ RolledBack \/ CheckInventory \/ Purge \/ Close
    \/ Kill \/ ClearStaleLock \/ Edit

Spec == Init /\ [][Next]_vars

-----------------------------------------------------------------------------
(* Properties                                                              *)

\* A project no directory is in is one the next Begin admits, whatever failed
\* or was killed before, until a user edits it: commit and fail() never remove
\* the journal around a mixed pair of controls, marker and approval.
OpenMeansAdmissible == edits = 0 /\ dir = 0 => Admissible

\* A step whose check finds a control a user saved after Begin froze the
\* project does not replace or remove it: backupCurrent and rollback recognise
\* the file they take away, publication finds a free name.  What a user drops
\* in the directory stays there.
KeepsSeenFile ==
    /\ \A n \in Controls :
          UserSaved(project[n]) /\ project[n] # tx.plan[n] =>
              project'[n] = project[n] \/ edits' # edits
    /\ strays' = strays \/ edits' # edits

\* The approval a commit leaves covers the source as it was inspected: a
\* source file saved before VerifyPublishedControls keeps the approval away.
ApprovesTheInspected ==
    approval' # approval /\ approval' = NewDoc /\ approval' # tx.doc =>
        source = tx.source /\ Contents(project) = tx.target

\* For whoever looks while no directory exists, controls and approval change
\* together in one step.
Visible == IF dir = 0 THEN project ELSE tx.plan
Abstract == INSTANCE ApprovedProject WITH
    Adoptable  <- Unmanaged,
    controls   <- Contents(Visible),
    approved   <- LET d == IF dir = 0 THEN approval ELSE tx.doc
                  IN  IF d = NoDoc THEN NoDoc ELSE d.controls,
    drifted    <- edits # 0
Coherent == Abstract!AInit
MovesTogether == [Abstract!ANext]_(Abstract!avars)
=============================================================================
