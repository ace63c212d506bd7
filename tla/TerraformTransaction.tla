------------------------- MODULE TerraformTransaction -------------------------
(***************************************************************************)
(* The guarded provider update of a Terraform project (internal/promotion/ *)
(* terraform_transaction, terraform_approved_transaction).  The lock file, *)
(* the provider tree .terraform and the marker are replaced around a       *)
(* journal directory, and the retained approval with them.  Unlike the     *)
(* Cargo transaction it moves with renameat2(RENAME_NOREPLACE), tries to   *)
(* restore a part even where the published one could not be removed,       *)
(* removes its directory recursively, and leaves the directory in place    *)
(* when the preparation fails.  Commands, kills and edits are those of     *)
(* CargoTransaction.                                                       *)
(***************************************************************************)
EXTENDS Naturals, Sequences

CONSTANTS
    Versions,       \* selections: a lock file with its provider tree
    NoFile, NoDoc,  \* nothing under a name, no retained approval
    MaxCommands,    \* bound on the commands of a behaviour
    MaxEdits        \* bound on the user's edits of a behaviour

Controls == {"lock", "providers"}       \* .terraform.lock.hcl, .terraform
Parts    == Controls \cup {"marker"}    \* terraform-transaction.json

\* A retained approval: the selection, and the configuration it is for.
Docs == [selection : Versions, source : 0..MaxEdits]

\* terraformApprovalMarker: the marker carries the hash of the approval.
Body(p, d) == IF p = "marker" THEN <<d.selection, d.source>> ELSE <<d.selection>>
UserSaved(f) == f # NoFile /\ f.by > MaxCommands

VARIABLES
    lock,       \* .heliopause-terraform-transaction.lock: "free", "held"
    project,    \* the parts, as [by, body] or NoFile
    source,     \* the configuration, by the number of its edits
    approval,   \* the retained approval in the state root
    dir,        \* the command whose .heliopause-terraform-commit-* exists, or 0
    backup,     \* originals moved into it
    selected,   \* replacements under its selected/
    strays,     \* foreign members inside it
    cmd, pc, todo,
    tx,         \* approvedTerraformProjectGuard, terraformProjectTransaction
    edits

disk == <<project, approval, dir, backup, selected>>
user == <<source, strays, edits>>
vars == <<disk, user, lock, cmd, pc, todo, tx>>

Nothing     == [p \in Parts |-> NoFile]
Contents(f) == [n \in Controls |-> IF f[n] = NoFile THEN NoFile ELSE f[n].body]

NoTx == [plan |-> Nothing, source |-> 0, doc |-> NoDoc, target |-> NoDoc,
         moved |-> {}, published |-> {}, mode |-> "certain"]

\* Without an approval a project has no marker and no provider tree.
Init ==
    /\ \/ /\ approval = NoDoc
          /\ \E l \in {NoFile} \cup [by : {0}, body : {<<v>> : v \in Versions}] :
                project = [Nothing EXCEPT !["lock"] = l]
       \/ /\ approval \in [selection : Versions, source : {0}]
          /\ project = [p \in Parts |-> [by |-> 0, body |-> Body(p, approval)]]
    /\ lock = "free" /\ source = 0 /\ dir = 0 /\ strays = 0
    /\ backup = Nothing /\ selected = Nothing
    /\ cmd = 0 /\ pc = "idle" /\ todo = <<>> /\ tx = NoTx /\ edits = 0

Go(from, to) == pc = from /\ pc' = to

-----------------------------------------------------------------------------
(* Begin, Commit up to the journal directory                               *)

\* No journal of an interrupted command.
NoJournal == dir = 0

\* inspectTerraformInstallation: no marker and no provider tree.
NoInstallation == project["marker"] = NoFile /\ project["providers"] = NoFile

\* verifyRetained: the marker, the lock, the providers and the configuration
\* are those of the approval.
Retained ==
    /\ approval.source = source
    /\ \A p \in Parts : project[p] # NoFile /\ project[p].body = Body(p, approval)

\* What Begin asks for.
Admissible == NoJournal /\ IF approval = NoDoc THEN NoInstallation ELSE Retained

Begin ==
    /\ lock = "free" /\ cmd < MaxCommands
    /\ lock' = "held" /\ cmd' = cmd + 1
    /\ \/ /\ Admissible
          /\ Go("idle", "resolve")
          /\ tx' = [NoTx EXCEPT !.plan = project, !.source = source, !.doc = approval]
       \/ Go("idle", "close") /\ UNCHANGED tx
    /\ UNCHANGED <<disk, user, todo>>

\* The configuration, the lock and the providers; verifyStateOriginal.
ProjectUnchanged == project = tx.plan /\ source = tx.source
StateOriginal == approval = tx.doc
VerifyUnchanged == ProjectUnchanged /\ StateOriginal

\* writeState: a private file, synced and renamed over the old document.
WriteState(doc) == approval' = doc

GivesUp(from) == Go(from, "close") /\ UNCHANGED <<disk, user, lock, cmd, todo, tx>>

\* TerraformInitService: selection for the frozen configuration ...
Resolve ==
    \/ /\ Go("resolve", "inspect")
       /\ \E v \in Versions :
             tx' = [tx EXCEPT !.target = [selection |-> v, source |-> tx.source]]
       /\ UNCHANGED <<disk, user, lock, cmd, todo>>
    \/ GivesUp("resolve")

\* ... inspection of every provider, the verified cache; the project is
\* compared with the frozen one before each.
Inspect ==
    \/ VerifyUnchanged /\ Go("inspect", "select") /\ UNCHANGED <<disk, user, lock, cmd, todo, tx>>
    \/ GivesUp("inspect")

\* The private directory is made beside the members it will hold.
beginTerraformProjectTransaction == dir' = cmd /\ todo' = <<"lock", "providers">>

\* Commit compares the update with the verified cache and verifies again.
Commit ==
    \/ /\ VerifyUnchanged
       /\ Go("select", "stage")
       /\ beginTerraformProjectTransaction
       /\ UNCHANGED <<project, approval, backup, selected, user, lock, cmd, tx>>
    \/ GivesUp("select")

Ours(p) == [by |-> cmd, body |-> Body(p, tx.target)]

\* The lock and copyTerraformProviders go under selected/; an error returns
\* and leaves the directory, so the project stays closed.
Stage == pc = "stage" /\
    LET written == [selected EXCEPT ![Head(todo)] = Ours(Head(todo))] IN
    /\ \/ /\ selected' = written
          /\ todo' = Tail(todo)
          /\ Go("stage", IF todo' = <<>> THEN "verify" ELSE "stage")
       \/ /\ selected' \in {selected, written}
          /\ Go("stage", "close") /\ UNCHANGED todo
    /\ UNCHANGED <<project, approval, dir, backup, user, lock, cmd, tx>>

-----------------------------------------------------------------------------
(* commit                                                                  *)

Fails(from) == Go(from, "rbApproval") /\ UNCHANGED <<disk, user, lock, cmd, todo, tx>>

\* plan.verifyUnchanged of the lock ends the command, with the directory; the
\* checkpoint before-backup rolls back.
VerifyPlan ==
    \/ /\ VerifyUnchanged
       /\ Go("verify", "backup")
       /\ todo' = <<"marker", "lock", "providers">>
       /\ UNCHANGED <<disk, user, lock, cmd, tx>>
    \/ Go("verify", "close") /\ UNCHANGED <<disk, user, lock, cmd, todo, tx>>
    \/ Fails("verify")

\* backupCurrent: a part that was absent at Begin is skipped; a marker must
\* still be absent then; the others must be the frozen ones.
BackUp == pc = "backup" /\ LET p == Head(todo) IN
    \/ /\ tx.plan[p] = NoFile => p # "marker" \/ project[p] = NoFile
       /\ tx.plan[p] # NoFile => project[p] = tx.plan[p] /\ backup[p] = NoFile
       /\ backup' = [backup EXCEPT ![p] = tx.plan[p]]
       /\ IF tx.plan[p] = NoFile THEN UNCHANGED <<project, tx>>
          ELSE /\ project' = [project EXCEPT ![p] = NoFile]
               /\ tx' = [tx EXCEPT !.moved = @ \cup {p}]
       /\ todo' = Tail(todo)
       /\ Go("backup", IF todo' = <<>> THEN "checkBackup" ELSE "backup")
       /\ UNCHANGED <<approval, dir, selected, user, lock, cmd>>
    \/ Fails("backup")

\* verifyBackupContents: exactly what is not yet published under selected/,
\* exactly the originals, all intact, and nothing else.
BackupContents(originals) ==
    /\ strays = 0
    /\ selected = [p \in Parts |->
           IF p \in Controls \ tx.published THEN Ours(p) ELSE NoFile]
    /\ backup = [p \in Parts |-> IF p \in originals THEN tx.plan[p] ELSE NoFile]

CheckBackup ==
    \/ /\ Go("checkBackup", "publish") /\ todo' = <<"lock", "providers">>
       /\ BackupContents(tx.moved)
       /\ UNCHANGED <<disk, user, lock, cmd, tx>>
    \/ Fails("checkBackup")

\* publishWorkspace: the selected part is moved under a free name.
Publish == pc = "publish" /\ LET p == Head(todo) IN
    \/ /\ project[p] = NoFile /\ selected[p] = Ours(p)
       /\ project' = [project EXCEPT ![p] = selected[p]]
       /\ selected' = [selected EXCEPT ![p] = NoFile]
       /\ tx' = [tx EXCEPT !.published = @ \cup {p}]
       /\ todo' = Tail(todo)
       /\ Go("publish", IF todo' = <<>> THEN "metadata" ELSE "publish")
       /\ UNCHANGED <<approval, dir, backup, user, lock, cmd>>
    \/ Fails("publish")

\* publishMetadata: .heliopause may have to be made; the marker is linked
\* under a free name, and the calls after the link may fail too.
PublishMetadata ==
    \/ /\ Go("metadata", "approve") \/ Go("metadata", "rbApproval")
       /\ \E made \in SUBSET {"directory"} :
            \/ /\ project["marker"] = NoFile
               /\ project' = [project EXCEPT !["marker"] = Ours("marker")]
               /\ tx' = [tx EXCEPT !.published = @ \cup made \cup {"marker"}]
            \/ /\ pc' = "rbApproval"
               /\ tx' = [tx EXCEPT !.published = @ \cup made] /\ UNCHANGED project
       /\ UNCHANGED <<approval, dir, backup, selected, user, lock, cmd, todo>>

\* verifyPublishedState
StatePublished == approval = tx.target

\* verifyPublished, with the configuration read again.
PublishedIntact == source = tx.source /\ \A p \in Parts : project[p] = Ours(p)

\* Mutant: the approval is written whatever the project now holds.
ApproveUnverified ==
    /\ approval = tx.doc /\ approval' = tx.target
    /\ tx' = [tx EXCEPT !.published = @ \cup {"approval"}]
    /\ Go("approve", "approved") \/ Go("approve", "rbApproval")
    /\ UNCHANGED <<project, dir, backup, selected, user, lock, cmd, todo>>

\* before-approval, then publishApproval over the frozen approval only; the
\* sync after the document is in place may fail.
Approve ==
    \/ /\ Go("approve", "approved") \/ Go("approve", "rbApproval")
       /\ PublishedIntact /\ StateOriginal
       /\ WriteState(tx.target)
       /\ tx' = [tx EXCEPT !.published = @ \cup {"approval"}]
       /\ UNCHANGED <<project, dir, backup, selected, user, lock, cmd, todo>>
    \/ Fails("approve")

\* after-approval, the sync of the root, the boundary (whose change ends the
\* command) and the last look into the directory, which still rolls back.
Approved ==
    \/ /\ Go("approved", "removeAll") \/ Go("approved", "close")
       /\ PublishedIntact /\ StatePublished
       /\ pc' = "removeAll" => BackupContents(tx.moved)
       /\ UNCHANGED <<disk, user, lock, cmd, todo, tx>>
    \/ Fails("approved")

-----------------------------------------------------------------------------
(* rollback, fail                                                          *)

Uncertain == tx' = [tx EXCEPT !.mode = "uncertain"]

\* rollbackApproval: only the document this command published is taken back.
RollBackApproval ==
    /\ \/ Go("rbApproval", "rbRemove")
       \/ Go("rbApproval", "close")     \* the boundary cannot be verified
    /\ \/ (pc' = "close" \/ "approval" \notin tx.published) /\ UNCHANGED <<approval, tx>>
       \/ /\ pc' = "rbRemove"
          /\ "approval" \in tx.published
          /\ \/ /\ StatePublished
                /\ WriteState(tx.doc)
                /\ UNCHANGED tx \/ Uncertain
             \/ UNCHANGED approval /\ Uncertain
    /\ todo' = <<"providers", "marker", "lock">>
    /\ UNCHANGED <<project, dir, backup, selected, user, lock, cmd>>

\* A published part is removed if it is still the published one.
RemovePublished == pc = "rbRemove" /\ LET p == Head(todo) IN
    /\ Go("rbRemove", "rbRestore")
    /\ \/ p \notin tx.published /\ UNCHANGED <<project, tx>>
       \/ /\ p \in tx.published /\ project[p] = Ours(p)
          /\ project' = [project EXCEPT ![p] = NoFile] /\ UNCHANGED tx
       \/ p \in tx.published /\ Uncertain /\ UNCHANGED project
    /\ UNCHANGED <<approval, dir, backup, selected, user, lock, cmd, todo>>

\* A moved part that is intact in the backup goes back under a free name.
Restore == pc = "rbRestore" /\ LET p == Head(todo) IN
    /\ todo' = Tail(todo)
    /\ Go("rbRestore", IF todo' = <<>> THEN "rbSync" ELSE "rbRemove")
    /\ \/ p \notin tx.moved /\ UNCHANGED <<project, backup, tx>>
       \/ /\ p \in tx.moved /\ backup[p] = tx.plan[p] /\ project[p] = NoFile
          /\ project' = [project EXCEPT ![p] = backup[p]]
          /\ backup' = [backup EXCEPT ![p] = NoFile] /\ UNCHANGED tx
       \/ p \in tx.moved /\ Uncertain /\ UNCHANGED <<project, backup>>
    /\ UNCHANGED <<approval, dir, selected, user, lock, cmd>>

\* The made .heliopause is removed, the root synced; without any error, and
\* with nothing but the unpublished parts left in it, the directory goes.
RolledBack ==
    /\ \/ /\ Go("rbSync", "removeAll")
          /\ tx.mode = "certain" /\ BackupContents({})
       \/ Go("rbSync", "close")
    /\ UNCHANGED <<disk, user, lock, cmd, todo, tx>>

\* boundary.RemoveAll: member by member, foreign ones too, the directory last.
RemoveAll ==
    /\ \/ \E p \in Parts :
            /\ Go("removeAll", "removeAll")
            /\ backup[p] # NoFile \/ selected[p] # NoFile
            /\ backup' = [backup EXCEPT ![p] = NoFile]
            /\ selected' = [selected EXCEPT ![p] = NoFile]
            /\ UNCHANGED <<dir, strays>>
       \/ /\ Go("removeAll", "close")
          /\ backup = Nothing /\ selected = Nothing
          /\ dir' = 0 /\ strays' = 0 /\ UNCHANGED <<backup, selected>>
       \/ Go("removeAll", "close") /\ UNCHANGED <<backup, selected, dir, strays>>
    /\ UNCHANGED <<project, approval, source, edits, lock, cmd, todo, tx>>

Close ==
    /\ Go("close", "idle")
    /\ lock' \in {"free", lock}
    /\ UNCHANGED <<disk, user, cmd, todo, tx>>

-----------------------------------------------------------------------------
(* The environment                                                         *)

Kill ==
    /\ pc # "idle" /\ pc' = "idle"
    /\ UNCHANGED <<disk, user, lock, cmd, todo, tx>>

ClearStaleLock ==
    /\ pc = "idle" /\ lock = "held" /\ lock' = "free"
    /\ UNCHANGED <<disk, user, cmd, pc, todo, tx>>

\* A user, or terraform itself, writes the lock, the providers or the
\* configuration; somebody drops a file in the directory.
Edit ==
    /\ edits < MaxEdits /\ edits' = edits + 1
    /\ \/ \E n \in Controls :
            project' = [project EXCEPT ![n] = [by |-> MaxCommands + edits', body |-> <<"edited">>]]
            /\ UNCHANGED <<source, strays>>
       \/ source' = source + 1 /\ UNCHANGED <<project, strays>>
       \/ dir # 0 /\ strays' = strays + 1 /\ UNCHANGED <<project, source>>
    /\ UNCHANGED <<approval, dir, backup, selected, lock, cmd, pc, todo, tx>>

Next ==
    \/ Begin \/ Resolve \/ Inspect \/ Commit \/ Stage \/ VerifyPlan \/ BackUp \/ CheckBackup \/ Publish
    \/ PublishMetadata \/ Approve \/ Approved \/ RollBackApproval \/ RemovePublished
    \/ Restore \/ RolledBack \/ RemoveAll \/ Close \/ Kill \/ ClearStaleLock \/ Edit

Spec == Init /\ [][Next]_vars

-----------------------------------------------------------------------------
(* Properties                                                              *)

\* A project without a journal directory is one the next Begin admits until
\* a user edits it: lock, providers, marker and approval belong together.
OpenMeansAdmissible == edits = 0 /\ dir = 0 => Admissible

\* A step whose check finds a lock file or a provider tree somebody wrote after
\* Begin froze the project does not replace or remove it.  What somebody drops
\* in the directory is another matter: see RemoveAll.
KeepsSeenFile ==
    \A n \in Controls :
        UserSaved(project[n]) /\ project[n] # tx.plan[n] =>
            project'[n] = project[n] \/ edits' # edits

\* The approval a commit writes is for the configuration, the lock and the
\* providers that are in the project when it is written.
ApprovesTheInspected ==
    approval' # approval /\ approval' = tx.target =>
        source = tx.source /\ \A p \in Parts : project[p] = Ours(p)

\* For whoever looks while no directory exists, lock, providers and approval
\* change together in one step.
Approves(d) == [n \in Controls |-> <<d.selection>>]
Abstract == INSTANCE ApprovedProject WITH
    Selections <- {Approves(d) : d \in Docs},
    Adoptable  <- {c \in [Controls -> {NoFile} \cup {<<v>> : v \in Versions}] :
                      c["providers"] = NoFile},
    controls   <- Contents(IF dir = 0 THEN project ELSE tx.plan),
    approved   <- LET d == IF dir = 0 THEN approval ELSE tx.doc
                  IN  IF d = NoDoc THEN NoDoc ELSE Approves(d),
    drifted    <- edits # 0
Coherent == Abstract!AInit
MovesTogether == [Abstract!ANext]_(Abstract!avars)
=============================================================================
