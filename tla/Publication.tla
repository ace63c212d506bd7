----------------------------- MODULE Publication -----------------------------
(***************************************************************************)
(* How Heliopause publishes a tree: a verified bundle to the staging root, *)
(* a staged set to a new target, a project cache to the cache root and a   *)
(* batch of Evidence to the Evidence root.  Every publisher writes a       *)
(* private temporary tree beside the destination, completes and checks it, *)
(* syncs it and renames it into place; they differ in what they check, in  *)
(* whether the destination can be contended for, and in what a failed sync *)
(* of the parent does.                                                     *)
(*                                                                         *)
(* Publishers are processes that interleave at every file-system call, may *)
(* be killed between any two, and share the machine with a user who may    *)
(* put a tree at a destination or take one away, replace the parent of the *)
(* target or change the bytes a publisher is about to copy.  A removal     *)
(* works by path and entry by entry.  A power loss takes the file system   *)
(* back to what was synced, give or take the changes whose sync had not    *)
(* returned.                                                               *)
(***************************************************************************)
EXTENDS Naturals, Sequences, FiniteSets

CONSTANTS
    Publishers,     \* processes that publish
    Kinds,          \* the publishers of the instance, a subset of AllKinds
    Nothing,        \* no file, no tree
    User,           \* whoever is not a publisher
    Target, Staged, \* two contended paths: a new target, a staging entry
    MaxFaults,      \* bound: failing calls
    MaxTampers,     \* bound: actions of the user
    MaxCrashes      \* bound: kills and power losses

VARIABLES
    kind,       \* what each publisher publishes
    source,     \* the bytes it copies: as they were verified, or changed since
    temp,       \* what its temporary path names: its private tree
    visible,    \* the destinations as processes see them
    disk,       \* the destinations as a power loss leaves them
    parent,     \* which directory the parent path of the shared target names
    seen,       \* the parent a publisher found when it began
    pc,         \* the next call of a publisher
    result,     \* what it told its caller
    removing,   \* history: those that began to remove a published tree
    replaced,   \* history: where somebody else took a published tree away
    faults, tampers, crashes

AllKinds == {"staging", "npm", "pypi", "github",
             "goCache", "cargoCache", "terraformCache", "evidence"}

\* What a tree may hold: everything verified, a part of it, what an unfinished
\* removal has left of it, the inputs of an installer, or what an installer
\* left instead.
Data == {"whole", "part", "remnant", "inputs", "inputsChanged", "otherPackage", "link",
         "artifactChanged", "packageMissing", "fileNotAsRecorded",
         "pathOutside", "unrecordedFile"}

\* A private tree, and a published one with its publisher.
Temporaries == [data : Data, synced : {"yes", "no"}]
Trees == [by : Publishers \cup {User}, data : Data]

ASSUME KindsAssumption == Kinds \subseteq AllKinds
ASSUME NamesAssumption ==
    /\ User \notin Publishers
    /\ Target # Staged /\ Target \notin Publishers /\ Staged \notin Publishers
    /\ Nothing \notin Temporaries \cup Trees

vars == <<kind, source, temp, visible, disk, parent, seen, pc, result,
          removing, replaced, faults, tampers, crashes>>

-----------------------------------------------------------------------------
(* The publishers, each as the sequence of its calls.                      *)

\* LocalStaging.Stage
LocalStaging ==
    <<"begin", "makeTemporary", "copy", "seal", "rename", "syncParent", "takeBack">>

\* NPMPromotion.Promote and PyPIPromotion.Promote into a new target: an
\* installer in a container works on the temporary tree.
NPMPromotion ==
    <<"begin", "makeTemporary", "prepare", "install", "validate", "seal",
      "recheck", "rename", "syncParent", "takeBack">>
PyPIPromotion ==
    <<"begin", "makeTemporary", "prepare", "install", "validate", "seal",
      "recheck", "rename", "syncParent">>

\* GitHubReleasePromotion.Promote
GitHubReleasePromotion ==
    <<"begin", "makeTemporary", "copy", "seal", "recheck", "rename", "syncParent">>

\* StageProject of the three caches: Go reads the Evidence its receipt names
\* after it wrote the modules, Cargo and Terraform before they begin.
GoVerifiedCache ==
    <<"makeTemporary", "assemble", "approve", "seal", "rename", "syncParent", "takeBack">>
CargoVerifiedCache ==
    <<"approve", "makeTemporary", "assemble", "seal", "rename", "syncParent", "takeBack">>
TerraformVerifiedCache ==
    <<"approve", "makeTemporary", "assemble", "seal", "rename", "syncParent">>

\* Store.Record
EvidenceStore ==
    <<"begin", "makeTemporary", "write", "seal", "rename", "syncParent", "takeBack">>

Calls == [k \in AllKinds |->
    CASE k = "staging" -> LocalStaging
      [] k = "npm" -> NPMPromotion
      [] k = "pypi" -> PyPIPromotion
      [] k = "github" -> GitHubReleasePromotion
      [] k = "goCache" -> GoVerifiedCache
      [] k = "cargoCache" -> CargoVerifiedCache
      [] k = "terraformCache" -> TerraformVerifiedCache
      [] k = "evidence" -> EvidenceStore]

Makes(p, call) == \E i \in DOMAIN Calls[kind[p]] : Calls[kind[p]][i] = call

\* Caches and Evidence are stored under a run identifier made for the call;
\* two runs may aim at one target, or at the staging entry of one manifest.
Destination(p) ==
    CASE kind[p] = "staging" -> Staged
      [] kind[p] \in {"npm", "pypi", "github"} -> Target
      [] OTHER -> p
Destinations == Publishers \cup {Target, Staged}

\* A published tree: whose it is, and what it holds.
Tree(p, data) == [by |-> p, data |-> data]

-----------------------------------------------------------------------------

Init ==
    /\ kind \in [Publishers -> Kinds]
    /\ source = [p \in Publishers |-> "verified"]
    /\ temp = [p \in Publishers |-> Nothing]
    /\ visible = [d \in Destinations |-> Nothing]
    /\ disk = visible
    /\ parent = 0
    /\ seen = [p \in Publishers |-> 0]
    /\ pc = [p \in Publishers |-> Head(Calls[kind[p]])]
    /\ result = [p \in Publishers |-> "none"]
    /\ removing = {} /\ replaced = {}
    /\ faults = 0 /\ tampers = 0 /\ crashes = 0

\* The next call of p after this one.
After(p, call) ==
    LET i == CHOOSE i \in DOMAIN Calls[kind[p]] : Calls[kind[p]][i] = call
    IN  Calls[kind[p]][i + 1]

Goto(p, from, to) == pc[p] = from /\ pc' = [pc EXCEPT ![p] = to]
Passes(p, call) == pc[p] = call /\ pc' = [pc EXCEPT ![p] = After(p, call)]
Refuses(p, call) == Goto(p, call, "cleanUp")

Answers(p, r) == result' = [result EXCEPT ![p] = r]

Fault == faults < MaxFaults /\ faults' = faults + 1

\* A change of a destination, of which the disk may have heard or not.
Puts(d, tree) ==
    /\ visible' = [visible EXCEPT ![d] = tree]
    /\ disk' \in {disk, [disk EXCEPT ![d] = tree]}

Environment == <<kind, source, parent, replaced, tampers, crashes>>

\* The bundle is well formed and the records of the staged set are its own;
\* the destination is absent.
Begin(p) ==
    /\ Passes(p, "begin")
    /\ visible[Destination(p)] = Nothing
    /\ seen' = [seen EXCEPT ![p] = parent]
    /\ UNCHANGED <<temp, visible, disk, result, faults, removing, Environment>>

BeginRefused(p) ==
    /\ Refuses(p, "begin")
    /\ visible[Destination(p)] # Nothing
    /\ UNCHANGED <<temp, visible, disk, seen, result, faults, removing, Environment>>

MakeTemporary(p) ==
    /\ Passes(p, "makeTemporary")
    /\ temp' = [temp EXCEPT ![p] = [data |-> "part", synced |-> "no"]]
    /\ UNCHANGED <<visible, disk, seen, result, faults, removing, Environment>>

Fills(p, data) ==
    /\ temp[p] # Nothing
    /\ temp' = [temp EXCEPT ![p].data = data]
    /\ UNCHANGED <<visible, disk, seen, result, faults, removing, Environment>>

\* stageArtifact and copyDigestFile: the bytes of every artifact are hashed
\* while they are copied.
CopyArtifacts(p) ==
    /\ Passes(p, "copy")
    /\ source[p] = "verified"
    /\ Fills(p, "whole")

\* preparePromotionProject: the staged artifacts, copied by digest, and a
\* generated package.json and lock file that name exactly them.
PrepareProject(p) ==
    /\ kind[p] = "npm"
    /\ Passes(p, "prepare")
    /\ source[p] = "verified"
    /\ Fills(p, "inputs")

\* preparePyPIProject: the wheels, copied by digest, a requirements file with
\* their hashes, and the distributions the installation is to end with.
PreparePyPIProject(p) ==
    /\ kind[p] = "pypi"
    /\ Passes(p, "prepare")
    /\ source[p] = "verified"
    /\ Fills(p, "inputs")

\* ReadIntake checks each artifact again; its files are written out.
Assemble(p) ==
    /\ Passes(p, "assemble")
    /\ source[p] = "verified"
    /\ Fills(p, "whole")

\* projectCacheEvidence: the Evidence of every approved subject is read back.
ApproveCache(p) ==
    /\ Passes(p, "approve")
    /\ source[p] = "verified"
    /\ UNCHANGED <<temp, visible, disk, seen, result, faults, removing, Environment>>

\* Store.write: the records are in memory, nobody else can change them.
WriteRecords(p) ==
    /\ Passes(p, "write")
    /\ Fills(p, "whole")

\* A copy that is not what was verified is an error.
CopyRefused(p) ==
    /\ pc[p] \in {"copy", "prepare", "assemble", "approve"}
    /\ Refuses(p, pc[p])
    /\ source[p] # "verified"
    /\ UNCHANGED <<temp, visible, disk, seen, result, faults, removing, Environment>>

\* What an installer may leave instead of the packages it was given.  The
\* bytes of an npm package's files are the word of npm ci: only its identity
\* is compared.
Oddities(p) ==
    IF kind[p] = "npm" THEN {"inputsChanged", "otherPackage", "link", "artifactChanged"}
    ELSE {"packageMissing", "otherPackage", "link", "fileNotAsRecorded",
          "pathOutside", "unrecordedFile"}

\* npm ci or pip install runs offline in a container on the temporary tree;
\* pip's scheme directories are moved beside the site directory.
Install(p) ==
    /\ Passes(p, "install")
    /\ \E data \in {"whole"} \cup Oddities(p) : Fills(p, data)

\* validatePromotionOutput: the inputs and records are untouched, every
\* package of the lock is there with its name and version.
ValidNPMOutput(data) == data \notin {"inputsChanged", "otherPackage"}
\* verifyDigestFile
ArtifactsKept(data) == data # "artifactChanged"
\* installedPackagePaths: no symbolic link
NoLinks(data) == data # "link"
\* validatedPyPIDestinations: every expected distribution once, no links
ExpectedDistributions(data) == data \notin {"packageMissing", "link"}
\* parseInstalledMetadata: each has the name and version it is expected under
NamedDistributions(data) == data # "otherPackage"
\* validateInstalledRecord: every file hashes to what its RECORD says
AsRecorded(data) == data # "fileNotAsRecorded"
\* resolveInstalledRecordPath: no path leaves the scheme directories
WithinScheme(data) == data # "pathOutside"
\* validateRecordedOutputRoots: no file without a record
NothingUnrecorded(data) == data # "unrecordedFile"

ValidOutput(k, data) ==
    IF k = "npm" THEN ValidNPMOutput(data) /\ ArtifactsKept(data) /\ NoLinks(data)
    ELSE ExpectedDistributions(data) /\ NamedDistributions(data) /\ AsRecorded(data)
         /\ WithinScheme(data) /\ NothingUnrecorded(data)

Validate(p) ==
    /\ Passes(p, "validate")
    /\ temp[p] # Nothing
    /\ ValidOutput(kind[p], temp[p].data)
    /\ UNCHANGED <<temp, visible, disk, seen, result, faults, removing, Environment>>

ValidateRefused(p) ==
    /\ Refuses(p, "validate")
    /\ temp[p] # Nothing
    /\ ~ValidOutput(kind[p], temp[p].data)
    /\ UNCHANGED <<temp, visible, disk, seen, result, faults, removing, Environment>>

\* Mutant: the tree is renamed without waiting for its files.
SealUnsynced(p) ==
    /\ Passes(p, "seal")
    /\ temp[p] # Nothing
    /\ UNCHANGED <<temp, visible, disk, seen, result, faults, removing, Environment>>

\* syncTree: every file and every directory of the tree, the root last.
SyncTree(tree) == [tree EXCEPT !.synced = "yes"]

\* Records and receipt are written, files made read-only and the tree synced.
Seal(p) ==
    /\ Passes(p, "seal")
    /\ temp[p] # Nothing
    /\ temp' = [temp EXCEPT ![p] = SyncTree(temp[p])]
    /\ UNCHANGED <<visible, disk, seen, result, faults, removing, Environment>>

\* The target is still absent and its parent still the directory it was.
Recheck(p) ==
    /\ Passes(p, "recheck")
    /\ visible[Destination(p)] = Nothing
    /\ seen[p] = parent
    /\ UNCHANGED <<temp, visible, disk, seen, result, faults, removing, Environment>>

RecheckRefused(p) ==
    /\ Refuses(p, "recheck")
    /\ visible[Destination(p)] # Nothing \/ seen[p] # parent
    /\ UNCHANGED <<temp, visible, disk, seen, result, faults, removing, Environment>>

\* Mutant: rename(2) in place of renameat2: an existing tree is replaced.
RenameOver(p) ==
    /\ Passes(p, "rename")
    /\ temp[p] # Nothing
    /\ visible' = [visible EXCEPT ![Destination(p)] = Tree(p, temp[p].data)]
    /\ disk' = disk
    /\ temp' = [temp EXCEPT ![p] = Nothing]
    /\ UNCHANGED <<seen, result, faults, removing, Environment>>

\* renameat2 with RENAME_NOREPLACE: one step, and never over anything.
\* Evidence uses rename(2) to a name nobody else has.  The temporary tree is
\* gone from its path when the parent was replaced.
Rename(p) ==
    /\ Passes(p, "rename")
    /\ visible[Destination(p)] = Nothing
    /\ temp[p] # Nothing
    /\ visible' = [visible EXCEPT ![Destination(p)] = Tree(p, temp[p].data)]
    \* The new entry may reach the disk before the sync that waits for it,
    \* and without the data of a tree that was not synced.
    /\ \/ disk' = disk
       \/ disk' = [disk EXCEPT ![Destination(p)] =
                     Tree(p, IF temp[p].synced = "yes" THEN temp[p].data ELSE "part")]
    /\ temp' = [temp EXCEPT ![p] = Nothing]
    /\ UNCHANGED <<seen, result, faults, removing, Environment>>

RenameRefused(p) ==
    /\ Refuses(p, "rename")
    /\ visible[Destination(p)] # Nothing \/ temp[p] = Nothing
    /\ UNCHANGED <<temp, visible, disk, seen, result, faults, removing, Environment>>

\* Mutant: success is answered before the parent is synced.
SyncParentLazily(p) ==
    /\ Goto(p, "syncParent", "done")
    /\ Answers(p, "published")
    /\ UNCHANGED <<temp, visible, disk, seen, faults, removing, Environment>>

\* The parent is synced and the caller told.
SyncParent(p) ==
    /\ Goto(p, "syncParent", "done")
    /\ disk' = [disk EXCEPT ![Destination(p)] = visible[Destination(p)]]
    /\ Answers(p, "published")
    /\ UNCHANGED <<temp, visible, seen, faults, removing, Environment>>

\* Mutant: the flag that the tree was published is not set: the clean-up is of
\* the temporary path only.
SyncFailsKeeping(p) ==
    /\ Goto(p, "syncParent", "cleanUp")
    /\ Fault
    /\ UNCHANGED <<temp, visible, disk, seen, result, removing, Environment>>

\* The sync fails: some publishers take the tree back, others only report.
SyncFails(p) ==
    /\ Goto(p, "syncParent", IF Makes(p, "takeBack") THEN "takeBack" ELSE "done")
    /\ Fault
    /\ IF Makes(p, "takeBack") THEN UNCHANGED result ELSE Answers(p, "failed")
    /\ UNCHANGED <<temp, visible, disk, seen, removing, Environment>>

\* os.RemoveAll of the destination path unlinks entry after entry of whatever
\* tree is there.
Unlink(p) ==
    /\ pc[p] \in {"takeBack", "delete"}
    /\ visible[Destination(p)] # Nothing
    /\ Puts(Destination(p), Tree(visible[Destination(p)].by, "remnant"))
    /\ removing' = removing \cup {p}
    /\ UNCHANGED <<temp, seen, pc, result, faults, Environment>>

\* What is left when the root of the tree can be removed.
Emptied(d) == visible[d] # Nothing => visible[d].data = "remnant"

\* Whether the removal reaches the disk is not waited for.
TakeBack(p) ==
    /\ Goto(p, "takeBack", "done")
    /\ Emptied(Destination(p))
    /\ Puts(Destination(p), Nothing)
    /\ Answers(p, "failed")
    /\ UNCHANGED <<temp, seen, faults, removing, Environment>>

\* A tree somebody put at the path since stays: the root is not empty, or it is
\* another one than the one below the parent that RemoveAll opened.
TakeBackMissed(p) ==
    /\ Goto(p, "takeBack", "done")
    /\ p \in removing /\ ~Emptied(Destination(p))
    /\ \E r \in {"failed", "uncertain"} : Answers(p, r)
    /\ UNCHANGED <<temp, visible, disk, seen, faults, removing, Environment>>

\* It fails too, before or after some of the entries are gone, which the error
\* says ("remove uncertain ...").
TakeBackFails(p) ==
    /\ Goto(p, "takeBack", "done")
    /\ Fault
    /\ Answers(p, "uncertain")
    /\ UNCHANGED <<temp, visible, disk, seen, removing, Environment>>

\* Any call up to the rename may fail or find its context cancelled.
CallFails(p) ==
    /\ pc[p] \notin {"syncParent", "takeBack", "cleanUp", "done", "delete", "syncRoot"}
    /\ Refuses(p, pc[p])
    /\ Fault
    /\ UNCHANGED <<temp, visible, disk, seen, result, removing, Environment>>

\* The temporary path went away with the parent.
TemporaryGone(p) ==
    /\ pc[p] \in {"copy", "prepare", "install", "validate", "seal"}
    /\ temp[p] = Nothing
    /\ Refuses(p, pc[p])
    /\ UNCHANGED <<temp, visible, disk, seen, result, faults, removing, Environment>>

\* The deferred removal of the temporary tree, if there is one.
CleanUp(p) ==
    /\ Goto(p, "cleanUp", "done")
    /\ temp' = [temp EXCEPT ![p] = Nothing]
    /\ Answers(p, "failed")
    /\ UNCHANGED <<visible, disk, seen, faults, removing, Environment>>

CleanUpFails(p) ==
    /\ Goto(p, "cleanUp", "done")
    /\ temp[p] # Nothing
    /\ Fault
    /\ Answers(p, "uncertain")
    /\ UNCHANGED <<temp, visible, disk, seen, removing, Environment>>

\* DeleteRun: an explicit retention action on an Evidence run, by a later
\* command; the run is a directory.
DeleteRun(p) ==
    /\ kind[p] = "evidence"
    /\ Goto(p, "done", "delete")
    /\ visible[Destination(p)] # Nothing
    /\ Answers(p, "deleting")
    /\ UNCHANGED <<temp, visible, disk, seen, faults, removing, Environment>>

RemoveRun(p) ==
    /\ Goto(p, "delete", "syncRoot")
    /\ Emptied(Destination(p))
    /\ Puts(Destination(p), Nothing)
    /\ UNCHANGED <<temp, seen, result, faults, removing, Environment>>

\* The Evidence root is synced and the caller told.
SyncRoot(p) ==
    /\ Goto(p, "syncRoot", "done")
    /\ disk' = [disk EXCEPT ![Destination(p)] = visible[Destination(p)]]
    /\ Answers(p, "deleted")
    /\ UNCHANGED <<temp, visible, seen, faults, removing, Environment>>

\* The removal fails, at any of its entries, or the sync does.
DeleteFails(p) ==
    /\ pc[p] \in {"delete", "syncRoot"}
    /\ pc' = [pc EXCEPT ![p] = "done"]
    /\ Fault
    /\ Answers(p, "uncertain")
    /\ UNCHANGED <<temp, visible, disk, seen, removing, Environment>>

-----------------------------------------------------------------------------
(* The rest of the machine. *)

Tamper == tampers < MaxTampers /\ tampers' = tampers + 1

\* Intake or staged bytes change after they were verified.
ChangeSource(p) ==
    /\ Tamper
    /\ source[p] = "verified"
    /\ source' = [source EXCEPT ![p] = "changed"]
    /\ UNCHANGED <<kind, temp, visible, disk, parent, seen, pc, result, removing, replaced,
                   faults, crashes>>

\* Where the tree of a publisher is when somebody else changes d.
TakenAway(d) == IF visible[d] # Nothing /\ visible[d].by # User THEN {d} ELSE {}

\* Somebody else puts a tree of its own at a destination or takes away what is
\* there, at any time; the name of a run is known only from its tree.
CreateTarget(d) ==
    /\ Tamper
    /\ d \in Publishers => visible[d] # Nothing
    /\ \E tree \in {Nothing, Tree(User, "whole")} : Puts(d, tree)
    /\ replaced' = replaced \cup TakenAway(d)
    /\ UNCHANGED <<kind, source, temp, parent, seen, pc, result, removing, faults, crashes>>

\* Somebody moves the parent of the target away and makes a new one: the
\* temporary trees below it, and the target, go with it.
ReplaceParent ==
    /\ Tamper
    /\ parent' = parent + 1
    /\ temp' = [p \in Publishers |-> IF Makes(p, "recheck") THEN Nothing ELSE temp[p]]
    /\ Puts(Target, Nothing)
    /\ replaced' = replaced \cup TakenAway(Target)
    /\ UNCHANGED <<kind, source, seen, pc, result, removing, faults, crashes>>

\* A publisher is killed; the command is not run again in this behaviour.
Kill(p) ==
    /\ crashes < MaxCrashes /\ crashes' = crashes + 1
    /\ pc[p] # "done"
    /\ pc' = [pc EXCEPT ![p] = "done"]
    /\ Answers(p, "killed")
    /\ UNCHANGED <<kind, source, temp, visible, disk, parent, seen, removing, replaced,
                   faults, tampers>>

\* The machine stops: what was synced is what there is.
PowerLoss ==
    /\ crashes < MaxCrashes /\ crashes' = crashes + 1
    /\ visible' = disk
    /\ pc' = [p \in Publishers |-> "done"]
    /\ result' = [p \in Publishers |-> IF pc[p] = "done" THEN result[p] ELSE "killed"]
    /\ UNCHANGED <<kind, source, temp, disk, parent, seen, removing, replaced, faults, tampers>>

-----------------------------------------------------------------------------

Publish(p) ==
    \/ Begin(p) \/ BeginRefused(p) \/ MakeTemporary(p)
    \/ CopyArtifacts(p) \/ PrepareProject(p) \/ PreparePyPIProject(p) \/ Assemble(p) \/ ApproveCache(p)
    \/ WriteRecords(p) \/ CopyRefused(p)
    \/ Install(p) \/ Validate(p) \/ ValidateRefused(p)
    \/ Seal(p) \/ Recheck(p) \/ RecheckRefused(p) \/ Rename(p) \/ RenameRefused(p)
    \/ SyncParent(p) \/ SyncFails(p)
    \/ Unlink(p) \/ TakeBack(p) \/ TakeBackMissed(p) \/ TakeBackFails(p)
    \/ CallFails(p) \/ TemporaryGone(p) \/ CleanUp(p) \/ CleanUpFails(p)
    \/ DeleteRun(p) \/ RemoveRun(p) \/ SyncRoot(p) \/ DeleteFails(p)

Next ==
    \/ \E p \in Publishers : Publish(p) \/ ChangeSource(p) \/ Kill(p)
    \/ \E d \in Destinations : CreateTarget(d)
    \/ ReplaceParent \/ PowerLoss

Spec == Init /\ [][Next]_vars

-----------------------------------------------------------------------------
(* Properties. *)

Fails(p) == result[p] # "failed" /\ result'[p] = "failed"

Published(p) ==
    visible[Destination(p)] # Nothing /\ visible[Destination(p)].by = p

\* A removal has begun at d and has not reported success as a publication.
Removing(d) == \E p \in removing : Destination(p) = d /\ result[p] # "published"

\* What is visible or on disk at a destination is a whole tree at every moment,
\* whoever is killed and whatever the disk had seen when the power went: no
\* part of a copy, no unvalidated installer output, no bytes changed after they
\* were verified.  Only a removal exposes less: what it has left so far, of a
\* tree taken back, of which no caller was told, or of a run being deleted; a
\* kill in it, or a failing call, leaves it so.
VisibleIsWhole ==
    \A d \in Destinations :
        \A tree \in {visible[d], disk[d]} \ {Nothing} :
            tree.data = "whole" \/ (tree.data = "remnant" /\ Removing(d))

\* A success the caller was told of outlives a power loss, until somebody else
\* takes the tree away or deletes the run.
SuccessSurvives ==
    \A p \in Publishers :
        result[p] = "published" =>
            \/ /\ disk[Destination(p)] = Tree(p, "whole")
               /\ visible[Destination(p)] = disk[Destination(p)]
            \/ Destination(p) \in replaced

\* Every tree but its own, in every place, is as p found it, unless p removes
\* what somebody put in the place of a published tree.
KeepsForeignTrees(p) ==
    \A d \in Destinations :
        visible[d] # Nothing /\ visible[d].by # p =>
            \/ visible'[d] = visible[d]
            \/ d \in replaced /\ pc[p] \in {"takeBack", "delete"}

\* However they interleave, no publisher replaces a tree that is not its own,
\* the user's or a competing run's.  It removes one only where somebody else
\* took a published tree away, or put another in its place, after the rename:
\* a take-back and a deletion go by the path.
ForeignTreeKept == [][\A p \in Publishers : Publish(p) => KeepsForeignTrees(p)]_vars

\* Neither the temporary tree of p is left at its path, nor one p takes back.
LeavesNothing(p) == temp'[p] = Nothing /\ (Makes(p, "takeBack") => ~Published(p)')

\* When a call reports a failure, and not one of its own clean-up, neither its
\* temporary tree nor a tree it renamed is left at that moment where it put
\* them, for the publishers that take back what they renamed.
FailureLeavesNothing == [][\A p \in Publishers : Fails(p) => LeavesNothing(p)]_vars
=============================================================================
