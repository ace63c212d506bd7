---------------------------- MODULE NpmTransaction ----------------------------
(***************************************************************************)
(* Promotion into an existing npm project (internal/promotion/             *)
(* npm_promotion, npm_transaction, npm_transaction_member).  Four members  *)
(* are moved aside and replaced: package.json, package-lock.json,          *)
(* node_modules and .heliopause ("haa"), which carries the marker that     *)
(* binds the controls; there is no approval outside the project.  What is  *)
(* moved aside is what is there at that moment, whoever wrote it.          *)
(***************************************************************************)
EXTENDS Naturals, Sequences

CONSTANTS
    Sets,           \* the verified package sets
    NoFile,         \* nothing under a name
    MaxCommands, MaxEdits

Controls == {"package.json", "package-lock.json"}
Members  == Controls \cup {"node_modules", "haa"}
Order    == <<"package.json", "package-lock.json", "node_modules", "haa">>
Reversed == <<"haa", "node_modules", "package-lock.json", "package.json">>

\* A member: who made it (0: before the first command, then commands, then
\* edits), which set it belongs to, and for haa the controls its marker binds.
Member(by, body) == [by |-> by, body |-> body, marker |-> <<>>]
UserSaved(m) == m # NoFile /\ m.by > MaxCommands

VARIABLES
    lock,       \* .heliopause-npm-transaction.lock: "free", "held"
    project,    \* the members in the project
    dir,        \* the command whose .heliopause-npm-commit-* exists, or 0
    backup,     \* members moved into it
    selected,   \* members of the private workspace
    strays,     \* foreign members of the directory
    cmd, pc, todo,
    tx,         \* npmProjectPlan, npmProjectTransaction
    edits

disk == <<project, dir, backup, selected>>
user == <<strays, edits>>
vars == <<disk, user, lock, cmd, pc, todo, tx>>

Nothing == [m \in Members |-> NoFile]
Bound(f) == <<f["package.json"].body, f["package-lock.json"].body>>

\* view is history: the project when the directory in it was made.
NoTx == [plan |-> Nothing, before |-> Nothing, out |-> Nothing, mode |-> "certain",
         view |-> Nothing]

\* A project with controls and no dependencies, or one a promotion left.
Init ==
    /\ \/ \E extra \in SUBSET {"node_modules", "haa"} :
            project = [m \in Members |-> IF m \in Controls \cup extra
                                         THEN Member(0, "none") ELSE NoFile]
       \/ \E s \in Sets : project = [m \in Members |->
            IF m = "haa" THEN [Member(0, s) EXCEPT !.marker = <<s, s>>] ELSE Member(0, s)]
    /\ lock = "free" /\ dir = 0 /\ strays = 0
    /\ backup = Nothing /\ selected = Nothing
    /\ cmd = 0 /\ pc = "idle" /\ todo = <<>> /\ tx = NoTx /\ edits = 0

Go(from, to) == pc = from /\ pc' = to

-----------------------------------------------------------------------------
(* Promote, up to the journal directory                                    *)

Marker == IF project["haa"] = NoFile THEN <<>> ELSE project["haa"].marker

\* freezeNPMProject reads both controls.
Freezable == \A n \in Controls : project[n] # NoFile

\* hasNPMDependencies
DependencyFree == Bound(project) = <<"none", "none">>

\* verifyManagedOrEmpty: the controls are those of the marker or, without one,
\* have no dependencies.
ManagedOrEmpty ==
    Freezable /\ IF Marker # <<>> THEN Marker = Bound(project) ELSE DependencyFree

Begin ==
    /\ lock = "free" /\ cmd < MaxCommands
    /\ lock' = "held" /\ cmd' = cmd + 1
    /\ selected' = Nothing
    /\ \/ /\ ManagedOrEmpty
          /\ Go("idle", "prepare")
          /\ tx' = [NoTx EXCEPT !.plan = project, !.view = tx.view]
       \/ Go("idle", "close") /\ UNCHANGED tx
    /\ UNCHANGED <<project, dir, backup, user, todo>>

\* preparePromotionProject, npm ci in the container, validatePromotionOutput.
Prepare ==
    /\ \/ /\ Go("prepare", "open")
          /\ \E s \in Sets : selected' = [m \in Members |-> Member(cmd, s)]
       \/ Go("prepare", "close") /\ UNCHANGED selected
    /\ UNCHANGED <<project, dir, backup, user, lock, cmd, todo, tx>>

\* verifyUnchanged
Unchanged == \A n \in Controls : project[n] = tx.plan[n]

\* rejectInterruptedNPMTransaction
NoJournal == dir = 0

\* beginNPMProjectTransaction: an error after the directory was made leaves it.
Open ==
    /\ \/ /\ Unchanged /\ NoJournal
          /\ Go("open", "verify") \/ Go("open", "close")
          /\ dir' = cmd /\ tx' = [tx EXCEPT !.view = project]
       \/ Go("open", "close") /\ UNCHANGED <<dir, tx>>
    /\ UNCHANGED <<project, backup, selected, user, lock, cmd, todo>>

-----------------------------------------------------------------------------
(* commit                                                                  *)

Fails(from) ==
    /\ Go(from, "rollback") \/ Go(from, "close")    \* boundaries not verified
    /\ todo' = Reversed
    /\ UNCHANGED <<disk, user, lock, cmd, tx>>

\* The first two errors of commit return, with the directory in place.
VerifyPlan ==
    /\ \/ Unchanged /\ Go("verify", "backup") /\ todo' = Order
       \/ Go("verify", "close") /\ UNCHANGED todo
    /\ UNCHANGED <<disk, user, lock, cmd, tx>>

\* backupCurrent: an absent control is an error, an absent tree is skipped.
\* The record is made of what is found, not compared with the plan.
BackUp == pc = "backup" /\ LET m == Head(todo) IN
    \/ /\ project[m] # NoFile \/ m \notin Controls
       /\ backup' = [backup EXCEPT ![m] = project[m]]
       /\ project' = [project EXCEPT ![m] = NoFile]
       /\ tx' = [tx EXCEPT !.before[m] = project[m]]
       /\ IF Tail(todo) = <<>> THEN Go("backup", "publish") /\ todo' = Order
          ELSE Go("backup", "backup") /\ todo' = Tail(todo)
       /\ UNCHANGED <<dir, selected, user, lock, cmd>>
    \/ Fails("backup")

\* publishWorkspace: each output is moved under a free name.
Publish == pc = "publish" /\ LET m == Head(todo) IN
    \/ /\ selected[m] # NoFile /\ project[m] = NoFile
       /\ project' = [project EXCEPT ![m] = selected[m]]
       /\ selected' = [selected EXCEPT ![m] = NoFile]
       /\ tx' = [tx EXCEPT !.out[m] = selected[m]]
       /\ todo' = Tail(todo)
       /\ Go("publish", IF todo' = <<>> THEN "metadata" ELSE "publish")
       /\ UNCHANGED <<dir, backup, user, lock, cmd>>
    \/ Fails("publish")

\* publishMetadata binds the controls that are there now; an error after the
\* marker is in place leaves it out of the record of the outputs.
PublishMetadata ==
    \/ /\ Go("metadata", "sync") \/ Go("metadata", "rollback")
       /\ \A m \in Controls \cup {"haa"} : project[m] # NoFile
       /\ project["haa"].marker = <<>>
       /\ project' = [project EXCEPT !["haa"].marker = Bound(project)]
       /\ tx' = IF pc' = "sync" THEN [tx EXCEPT !.out["haa"].marker = Bound(project)] ELSE tx
       /\ todo' = Reversed
       /\ UNCHANGED <<dir, backup, selected, user, lock, cmd>>
    \/ Fails("metadata")

\* The root is synced and every output verified once more.
VerifyOutputs ==
    \/ /\ Go("sync", "inventory") /\ project = tx.out
       /\ tx' = [tx EXCEPT !.mode = "committed"]
       /\ UNCHANGED <<disk, user, lock, cmd, todo>>
    \/ Fails("sync")

-----------------------------------------------------------------------------
(* rollback, removeBackup, release                                         *)

Uncertain == tx' = [tx EXCEPT !.mode = "uncertain"]

\* removeNPMMember of a published member: it is gone, or partly gone when the
\* removal stops half way.
RemovedPartly(m) ==
    /\ tx.out[m] # NoFile /\ project[m] = tx.out[m]
    /\ \E left \in {NoFile, Member(cmd, "partial")} :
            project' = [project EXCEPT ![m] = left]

\* rollback of one member: the original must be intact in the backup, the
\* published one is removed if it is the published one, then the original goes
\* back under the free name.  An error leaves the member.
RollBack == pc = "rollback" /\
    LET m == Head(todo)
        moved == tx.before[m] # NoFile
        published == tx.out[m] # NoFile
    IN
    /\ todo' = Tail(todo)
    /\ Go("rollback", IF todo' = <<>> THEN "rolledBack" ELSE "rollback")
    /\ \/ /\ moved => backup[m] = tx.before[m]
          /\ published => project[m] = tx.out[m]
          /\ moved /\ ~published => project[m] = NoFile
          /\ project' = IF moved \/ published THEN [project EXCEPT ![m] = backup[m]] ELSE project
          /\ backup' = [backup EXCEPT ![m] = NoFile]
          /\ UNCHANGED tx
       \/ /\ moved \/ published
          /\ Uncertain /\ UNCHANGED backup
          /\ UNCHANGED project \/ RemovedPartly(m)
    /\ UNCHANGED <<dir, selected, user, lock, cmd>>

\* Mutant: an incomplete rollback removes its directory as a complete one does.
RolledBackRegardless ==
    /\ dir' = 0 /\ backup' = Nothing /\ Go("rolledBack", "close")
    /\ UNCHANGED <<project, selected, user, lock, cmd, todo, tx>>

RolledBack ==
    /\ \/ tx.mode = "certain" /\ Go("rolledBack", "inventory")
       \/ Go("rolledBack", "close")
    /\ UNCHANGED <<disk, user, lock, cmd, todo, tx>>

\* removeBackup: exactly the originals (none after a rollback), each intact,
\* is the condition to start; members go one by one, then rmdir(2).
Wanted == IF tx.mode = "committed" THEN tx.before ELSE Nothing
Inventory ==
    /\ \/ Go("inventory", "purge") /\ strays = 0 /\ backup = Wanted
       \/ Go("inventory", "close")
    /\ UNCHANGED <<disk, user, lock, cmd, todo, tx>>

Purge ==
    /\ \/ \E m \in Members :
            /\ Go("purge", "purge")
            /\ backup[m] # NoFile /\ backup[m] = Wanted[m]
            /\ backup' = [backup EXCEPT ![m] = NoFile] /\ UNCHANGED dir
       \/ /\ Go("purge", "close")
          /\ backup = Nothing /\ strays = 0 /\ dir' = 0 /\ UNCHANGED backup
       \/ Go("purge", "close") /\ UNCHANGED <<backup, dir>>
    /\ UNCHANGED <<project, selected, user, lock, cmd, todo, tx>>

Close ==
    /\ Go("close", "idle")
    /\ lock' \in {"free", lock}
    /\ UNCHANGED <<disk, user, cmd, todo, tx>>

-----------------------------------------------------------------------------
(* The environment                                                         *)

Kill ==
    /\ pc # "idle" /\ pc' = "idle"
    /\ UNCHANGED <<disk, user, lock, cmd, todo, tx>>

ClearStaleLock ==
    /\ pc = "idle" /\ lock = "held" /\ lock' = "free"
    /\ UNCHANGED <<disk, user, cmd, pc, todo, tx>>

\* A user saves a control, or drops a file in the directory.
Edit ==
    /\ edits < MaxEdits /\ edits' = edits + 1
    /\ \/ \E n \in Controls :
            /\ project' = [project EXCEPT ![n] = Member(MaxCommands + edits', "edited")]
            /\ UNCHANGED strays
       \/ dir # 0 /\ strays' = strays + 1 /\ UNCHANGED project
    /\ UNCHANGED <<dir, backup, selected, lock, cmd, pc, todo, tx>>

Next ==
    \/ Begin \/ Prepare \/ Open \/ VerifyPlan \/ BackUp \/ Publish \/ PublishMetadata
    \/ VerifyOutputs \/ RollBack \/ RolledBack \/ Inventory \/ Purge \/ Close
    \/ Kill \/ ClearStaleLock \/ Edit

Spec == Init /\ [][Next]_vars

-----------------------------------------------------------------------------
(* Properties                                                              *)

\* A project without a journal directory is one the next promotion accepts
\* until a user edits it.
OpenMeansAdmissible == edits = 0 /\ dir = 0 => ManagedOrEmpty

\* A step whose check finds a control the user saved does not replace or remove
\* it.  backupCurrent makes no check: what it finds goes aside as an original,
\* whoever saved it, and comes back with a rollback; a commit drops it.  What
\* a user drops in the directory stays there.
KeepsSeenFile ==
    /\ \A n \in Controls :
          /\ UserSaved(project[n]) =>
                \/ project'[n] = project[n] \/ edits' # edits
                \/ pc = "backup" /\ backup'[n] = project[n]
          /\ UserSaved(backup[n]) =>
                \/ backup'[n] = backup[n] \/ project'[n] = backup[n]
                \/ tx.mode = "committed"
    /\ strays' = strays \/ edits' # edits

\* For whoever looks while no directory exists, the four members change
\* together, and the marker with them.
Visible == IF dir = 0 THEN project ELSE tx.view
Abstract == INSTANCE ApprovedProject WITH
    NoDoc      <- NoFile,
    Selections <- {[m \in Members |-> s] : s \in Sets},
    Adoptable  <- {c \in [Members -> {"none", NoFile}] : \A n \in Controls : c[n] = "none"},
    controls   <- [m \in Members |-> IF Visible[m] = NoFile THEN NoFile ELSE Visible[m].body],
    approved   <- IF Visible["haa"] = NoFile \/ Visible["haa"].marker = <<>> THEN NoFile
                  ELSE [m \in Members |-> Visible["haa"].marker[1]],
    drifted    <- edits # 0
Coherent == Abstract!AInit
MovesTogether == [Abstract!ANext]_(Abstract!avars)
=============================================================================
