---------------------------- MODULE ProjectBuild ----------------------------
(***************************************************************************)
(* The guarded build of a Go or Cargo project: haa takes the project guard,*)
(* freezes the source and the approved dependency cache as archives in its *)
(* intake, builds them offline in an observed container, records what it   *)
(* saw, asks the policy and publishes the compiled files below             *)
(* .heliopause/builds.                                                     *)
(*                                                                         *)
(* The guard keeps other haa commands out; it does not keep the user out.  *)
(* The build therefore reads the project, the cache and the approval again *)
(* and again, file by file, and this module interleaves those reads with   *)
(* changes of every one of them.  The program is a sequence of steps; a    *)
(* failing step jumps to the clean-up of the part it belongs to.           *)
(***************************************************************************)
EXTENDS Naturals, Sequences, FiniteSets

CONSTANTS
    Kinds,          \* the builds of the instance, a subset of {"go", "cargo"}
    Files,          \* the visible files of the project
    Control,        \* the one of them that stands for the control files
    Modules,        \* the files of the approved cache
    Nothing,
    MaxChanges,     \* bound: changes by anyone but the build
    MaxFaults       \* bound: failing calls, expired deadlines and kills

ASSUME ProjectAssumption == Control \in Files /\ "receipt" \notin Modules
ASSUME KindsAssumption == Kinds \subseteq {"go", "cargo"}
ASSUME NothingAssumption == Nothing \notin {"unknown", "build", "adopted", "user"}

VARIABLES
    kind,       \* which builder this is
    at,         \* index of the next step of Program(kind)
    left,       \* what a step that reads several files has still to read
    disk,       \* everything others can change, as a version: 0 is the original
    plan,       \* the control file as the guard first read it
    snapshot,   \* the source archive: the version of every file
    copied,     \* the cache archive: the version of every file
    moments,    \* the states the project was in until the source was frozen
    docker,     \* the two containers and the two volumes
    known,      \* those whose creation was answered
    trace,      \* the observation of each container
    material,   \* what the input volume holds
    behaviour,  \* what the build did
    output,     \* the captured output in the intake
    trees,      \* .heliopause/builds: whose directory has which of the two names
    stage,      \* what is in the directory the build created
    name,       \* which of the two names the build goes by
    condemned,  \* the rollback has looked at the name and not yet removed it
    since,      \* what changed since the last verification began
    failed,     \* whether the command fails, and whether its clean-up did too
    result,     \* what the command told its caller
    changes, faults

world == <<disk, moments, since, changes>>
guarded == <<kind, plan, snapshot, copied>>
sandbox == <<docker, known, trace, material, behaviour>>
place == <<trees, stage, name, condemned>>
vars == <<guarded, sandbox, world, at, left, output, place, failed, result, faults>>

Runtimes == {"preparation", "build"}
Volumes == {"inputVolume", "outputVolume"}
Archives == {"sourceArchive", "cacheArchive", "outputArchive"}

Names == {"private", "final"}

\* The retained approval of the project and the Evidence it names, the receipt
\* of the cache, the Evidence of this build, the directory .heliopause/builds.
Records == {"state", "evidence", "receipt", "facts", "parent"}
Items == Files \cup Modules \cup Archives \cup Records

-----------------------------------------------------------------------------
(* The program. *)

\* VerifyUnchanged compares the controls and the retained approval with what
\* the guard read; for Cargo it also captures the whole source again.
VerifyUnchanged(k) ==
    IF k = "go" THEN << <<"check", "controls">> >>
                ELSE << <<"check", "controls">>, <<"scan", "compare">> >>

\* OpenProjectCache: every file of the cache is inventoried and the inventory
\* compared with the receipt.
OpenProjectCache == << <<"scan", "inventory">> >>

\* verifyRecordedApproval reads the Evidence of every entry of the approval.
verifyRetainedApproval == << <<"check", "evidence">> >> \o OpenProjectCache

GoOpenBuildInputs ==
    VerifyUnchanged("go") \o verifyRetainedApproval \o OpenProjectCache
    \o VerifyUnchanged("go")
CargoOpenBuildInputs ==
    VerifyUnchanged("cargo") \o verifyRetainedApproval \o OpenProjectCache
    \o VerifyUnchanged("cargo")
OpenBuildInputs(k) == IF k = "go" THEN GoOpenBuildInputs ELSE CargoOpenBuildInputs

\* Mutated: the controls stand for the source.
VerifyControlsOnly(k) == VerifyUnchanged(k)

VerifyBuildSource(k) ==
    IF k = "go" THEN VerifyUnchanged(k) \o VerifyUnchanged(k)
                     \o << <<"scan", "compare">> >> \o VerifyUnchanged(k)
                ELSE VerifyUnchanged(k)

\* Cargo captures the source when it begins, Go when it freezes its inputs.
BeginApproved(k) ==
    << <<"take", "guard">> >>
    \o (IF k = "cargo" THEN << <<"scan", "capture">> >> ELSE <<>>)
    \o << <<"plan", "controls">> >> \o verifyRetainedApproval \o VerifyUnchanged(k)

GoSnapshotBuildSource ==
    OpenBuildInputs("go") \o VerifyUnchanged("go")
    \o << <<"scan", "capture">> >> \o VerifyUnchanged("go")
    \o << <<"freeze", "source">> >> \o VerifyBuildSource("go")

\* BuildArchive: what was captured when the guard was taken.
CargoBuildArchive == << <<"freeze", "source">> >>

copyBuildCache == << <<"check", "receipt">>, <<"scan", "copy">>, <<"freeze", "cache">> >>

GoSnapshotBuildCache ==
    OpenBuildInputs("go") \o copyBuildCache \o VerifyUnchanged("go") \o OpenBuildInputs("go")

CargoSnapshotBuildCache ==
    copyBuildCache \o VerifyUnchanged("cargo") \o OpenBuildInputs("cargo")

GoFreezeBuildInputs ==
    OpenBuildInputs("go") \o GoSnapshotBuildSource \o GoSnapshotBuildCache
CargoFreezeBuildInputs ==
    OpenBuildInputs("cargo") \o CargoBuildArchive \o CargoSnapshotBuildCache
FreezeBuildInputs(k) ==
    (IF k = "go" THEN GoFreezeBuildInputs ELSE CargoFreezeBuildInputs)
    \o << <<"bind", "inputs">> >>

start(r) == << <<"create", r>>, <<"trace", r>>, <<"start", r>> >>

\* Up to the moment the build container alone is left.
prepare ==
    << <<"prepare", "inputs">>,
       <<"make", "inputVolume">>, <<"make", "outputVolume">> >>
    \o start("preparation")
    \o << <<"introduce", "inputs">> >>
    \o start("build")
    \o << <<"remove", "preparation">> >>

\* RunGo: everything is compiled to nowhere, the packages are asked for their
\* roles, and only main packages are compiled to the output.
RunGo == << <<"run", "validation">>, <<"ask", "roles">>, <<"run", "build">> >>

GoObserve ==
    prepare
    \o << <<"verify", "before">>, <<"configure", "runtime">>, <<"check", "graph">> >>
    \o RunGo
    \o << <<"verify", "after">>, <<"check", "graph">>,
          <<"capture", "output">>, <<"verify", "captured">> >>
CargoObserve ==
    prepare
    \o << <<"verify", "before">>, <<"check", "graph">>,
          <<"run", "build">>, <<"verify", "after">>, <<"check", "graph">>,
          <<"capture", "output">>, <<"verify", "captured">> >>
observe(k) == IF k = "go" THEN GoObserve ELSE CargoObserve

dispose ==
    << <<"dispose", "build">>, <<"dispose", "preparation">>,
       <<"drop", "outputVolume">>, <<"drop", "inputVolume">>,
       <<"settle", "output">> >>

\* Mutated: the source is looked at again and the approval is not.
verifySourceOnly(k) ==
    << <<"begin", "verification">> >> \o VerifyBuildSource(k) \o << <<"check", "facts">> >>

\* The source, the cache with its approval, and the facts recorded about the
\* build, read again; the two guards have a function each.
CargoVerifyBuildApproval ==
    << <<"begin", "verification">> >> \o VerifyBuildSource("cargo")
    \o OpenBuildInputs("cargo") \o << <<"check", "facts">> >>
GoVerifyBuildApproval ==
    << <<"begin", "verification">> >> \o VerifyBuildSource("go")
    \o OpenBuildInputs("go") \o << <<"check", "facts">> >>
verifyBuildApproval(k) ==
    IF k = "go" THEN GoVerifyBuildApproval ELSE CargoVerifyBuildApproval

PublishBuild(k) ==
    verifyBuildApproval(k)
    \o << <<"make", "tree">>, <<"fill", "tree">>, <<"check", "tree">> >>
    \o verifyBuildApproval(k)
    \o << <<"rename", "tree">>, <<"confirm", "tree">> >>
    \o verifyBuildApproval(k)
    \o << <<"answer", "success">>, <<"roll", "back">> >>

ProgramOf(k) ==
    BeginApproved(k) \o FreezeBuildInputs(k)
    \o << <<"verify", "source">> >> \o observe(k) \o dispose
    \o << <<"record", "facts">>, <<"decide", "policy">> >>
    \o VerifyBuildSource(k) \o PublishBuild(k) \o << <<"close", "guard">> >>

Program == [k \in {"go", "cargo"} |-> ProgramOf(k)]

Position == [k \in {"go", "cargo"} |->
    [s \in {Program[k][i] : i \in DOMAIN Program[k]} |->
        CHOOSE i \in DOMAIN Program[k] : Program[k][i] = s]]

End == Len(Program[kind]) + 1
Pos(verb, object) == Position[kind][<<verb, object>>]

Doing(verb, object) == at < End /\ Program[kind][at] = <<verb, object>>

Goes(there) == at' = there
Continues == Goes(at + 1)

\* Mutated: once the tree has its final name it is no longer taken back.
LandingUnlessRenamed ==
    CASE at >= Pos("prepare", "inputs") /\ at < Pos("dispose", "build") ->
             Pos("dispose", "build")
      [] at > Pos("make", "tree") /\ at <= Pos("rename", "tree") -> Pos("roll", "back")
      [] OTHER -> Pos("close", "guard")

\* Where a failing step goes: the deferred clean-ups that are in force.
Landing ==
    CASE at >= Pos("prepare", "inputs") /\ at < Pos("dispose", "build") ->
             Pos("dispose", "build")
      [] at > Pos("make", "tree") /\ at < Pos("roll", "back") -> Pos("roll", "back")
      [] OTHER -> Pos("close", "guard")

Fails == Goes(Landing) /\ failed' = "yes"

Refuses == Fails /\ left' = {}

-----------------------------------------------------------------------------

Init ==
    /\ kind \in Kinds
    /\ at = 1
    /\ left = {}
    /\ disk = [i \in Items |-> 0]
    /\ plan = 0
    /\ snapshot = [f \in Files |-> 0]
    /\ copied = [m \in Modules |-> 0]
    /\ moments = {[f \in Files |-> 0]}
    /\ docker = [d \in Runtimes \cup Volumes |-> "none"]
    /\ known = {}
    /\ trace = [r \in Runtimes |-> "none"]
    /\ material = Nothing
    /\ behaviour = "none"
    /\ output = "none"
    /\ trees = [n \in Names |-> Nothing]
    /\ stage = "none"
    /\ name = "private"
    /\ condemned = FALSE
    /\ since = {}
    /\ failed = "no"
    /\ result = "none"
    /\ changes = 0 /\ faults = 0

Fault == faults < MaxFaults /\ faults' = faults + 1

-----------------------------------------------------------------------------
(* Reads of what others can change. *)

\* Steps that read several files and what they read.
ScanSet(object) ==
    CASE object = "capture" -> Files
      [] object = "compare" -> Files
      [] object = "inventory" -> Modules \cup {"receipt"}
      [] object = "copy" -> Modules

\* A file is still what was captured.
SourceUnchanged(i) == disk[i] = snapshot[i]

\* Any file may be captured, but a Go snapshot holds the planned controls.
Capturable(i) == kind = "go" /\ i = Control => disk[i] = plan

\* A file of the cache is what the receipt and the approval list.
Inventoried(i) == disk[i] = 0

\* It is, also while it is copied into the archive.
CopiedAsListed(i) == disk[i] = 0

Expected(object, i) ==
    CASE object = "compare" -> SourceUnchanged(i)
      [] object = "capture" -> Capturable(i)
      [] object = "inventory" -> Inventoried(i)
      [] object = "copy" -> CopiedAsListed(i)

BeginScan(object) ==
    /\ Doing("scan", object)
    /\ left = {}
    /\ left' = ScanSet(object)
    /\ UNCHANGED <<guarded, sandbox, world, at, output, place, failed, result, faults>>

\* One file is opened, read and checked to be the one that was listed.  A
\* change while it is read shows in its size or time and is refused.
Read(object, i) ==
    /\ Doing("scan", object)
    /\ i \in left
    /\ Expected(object, i)
    /\ left' = left \ {i}
    /\ snapshot' = IF object = "capture" THEN [snapshot EXCEPT ![i] = disk[i]] ELSE snapshot
    /\ copied' = IF object = "copy" THEN [copied EXCEPT ![i] = disk[i]] ELSE copied
    /\ IF left = {i} THEN Continues ELSE UNCHANGED at
    /\ UNCHANGED <<kind, plan, sandbox, world, output, place, failed, result, faults>>

ReadRefused(object, i) ==
    /\ Doing("scan", object)
    /\ i \in left
    /\ ~Expected(object, i)
    /\ Refuses
    /\ UNCHANGED <<guarded, sandbox, world, output, place, result, faults>>

\* The controls are the planned ones, the retained approval is the one read.
ControlsUnchanged == disk[Control] = plan /\ disk["state"] = 0

\* The planned controls are the approved ones, their Evidence is there.
EvidenceRecorded == plan = 0 /\ disk["evidence"] = 0

\* The receipt has the digest the approval names.
ReceiptIntact == disk["receipt"] = 0

\* ReadReference of every fact recorded about this build.
FactsRecorded == disk["facts"] = 0

\* The directories are the ones opened, the tree holds exactly the output.
TreeIntact == disk["parent"] = 0 /\ stage = "whole"

\* The module graph, asked for offline in the container, is the approved one.
GraphApproved ==
    material.source[Control] = 0 /\ material.cache = [m \in Modules |-> 0]

\* What a single check compares.
Holds(object) ==
    CASE object = "controls" -> ControlsUnchanged
      [] object = "evidence" -> EvidenceRecorded
      [] object = "receipt" -> ReceiptIntact
      [] object = "facts" -> FactsRecorded
      [] object = "tree" -> TreeIntact
      [] object = "graph" -> GraphApproved

Checks == {"controls", "evidence", "receipt", "facts", "tree", "graph"}

Check(object) ==
    /\ Doing("check", object)
    /\ Holds(object)
    /\ Continues
    /\ UNCHANGED <<guarded, sandbox, world, left, output, place, failed, result, faults>>

CheckRefused(object) ==
    /\ Doing("check", object)
    /\ ~Holds(object)
    /\ Refuses
    /\ UNCHANGED <<guarded, sandbox, world, output, place, result, faults>>

\* The guard is taken; the controls are read and parsed.
TakeGuard ==
    /\ Doing("take", "guard")
    /\ Continues
    /\ UNCHANGED <<guarded, sandbox, world, left, output, place, failed, result, faults>>

PlanControls ==
    /\ Doing("plan", "controls")
    /\ plan' = disk[Control]
    /\ Continues
    /\ UNCHANGED <<kind, snapshot, copied, sandbox, world, left, output, place,
                   failed, result, faults>>

\* The archives are written to the intake and synced.
FreezeArchive(object) ==
    /\ Doing("freeze", object)
    /\ Continues
    /\ UNCHANGED <<guarded, sandbox, world, left, output, place, failed, result, faults>>

\* NewProjectBuildInputs: from here on the inputs are the archives.
BindInputs ==
    /\ Doing("bind", "inputs")
    /\ Continues
    /\ UNCHANGED <<guarded, sandbox, world, left, output, place, failed, result, faults>>

\* Verification reads the source archive through its digest.
VerifySource ==
    /\ Doing("verify", "source")
    /\ IF disk["sourceArchive"] = 0 THEN Continues /\ UNCHANGED <<left, failed>> ELSE Refuses
    /\ UNCHANGED <<guarded, sandbox, world, output, place, result, faults>>

-----------------------------------------------------------------------------
(* The observed build. *)

\* An archive of the intake has the size and the digest of the inputs.
InputsIntact == disk["sourceArchive"] = 0 /\ disk["cacheArchive"] = 0

\* Both archives are opened, and read in full against their digests.
PrepareInputs ==
    /\ Doing("prepare", "inputs")
    /\ IF InputsIntact THEN Continues /\ UNCHANGED <<left, failed>> ELSE Refuses
    /\ UNCHANGED <<guarded, sandbox, world, output, place, result, faults>>

MakeVolume(v) ==
    /\ Doing("make", v)
    /\ docker' = [docker EXCEPT ![v] = "created"]
    /\ known' = known \cup {v}
    /\ Continues
    /\ UNCHANGED <<guarded, trace, material, behaviour, world, left, output, place,
                   failed, result, faults>>

Create(r) ==
    /\ Doing("create", r)
    /\ docker' = [docker EXCEPT ![r] = "created"]
    /\ known' = known \cup {r}
    /\ Continues
    /\ UNCHANGED <<guarded, trace, material, behaviour, world, left, output, place,
                   failed, result, faults>>

\* docker does what it was asked and the answer is lost: the caller has no
\* name to remove.
CreateLost(d) ==
    /\ Doing("make", d) \/ Doing("create", d)
    /\ Fault
    /\ docker' = [docker EXCEPT ![d] = "created"]
    /\ Refuses
    /\ UNCHANGED <<guarded, known, trace, material, behaviour, world, output, place, result>>

\* The mounts are compared and the observer armed before the container runs.
StartTrace(r) ==
    /\ Doing("trace", r)
    /\ trace' = [trace EXCEPT ![r] = "live"]
    /\ Continues
    /\ UNCHANGED <<guarded, docker, known, material, behaviour, world, left, output,
                   place, failed, result, faults>>

Start(r) ==
    /\ Doing("start", r)
    /\ docker' = [docker EXCEPT ![r] = "running"]
    /\ Continues
    /\ UNCHANGED <<guarded, known, trace, material, behaviour, world, left, output,
                   place, failed, result, faults>>

\* The intake may have changed since it was prepared: the archives are hashed
\* again while they stream into the volume, and the volume is read back.
Materialised ==
    [source |-> IF disk["sourceArchive"] = 0 THEN snapshot ELSE [f \in Files |-> 2],
     cache |-> IF disk["cacheArchive"] = 0 THEN copied ELSE [m \in Modules |-> 2]]

Introduce ==
    /\ Doing("introduce", "inputs")
    /\ InputsIntact
    /\ material' = Materialised
    /\ Continues
    /\ UNCHANGED <<guarded, docker, known, trace, behaviour, world, left, output,
                   place, failed, result, faults>>

IntroduceRefused ==
    /\ Doing("introduce", "inputs")
    /\ ~InputsIntact
    /\ Refuses
    /\ UNCHANGED <<guarded, sandbox, world, output, place, result, faults>>

\* The trace is read to its end, or it was cut short.
Collected(r) ==
    IF trace[r] = "live" THEN {"complete", "limited"} ELSE {trace[r]}

\* remove: docker rm, then the trace; both are attempted.  An incomplete trace
\* or a container that may still run is an error.
RemoveRuntime(r) ==
    /\ docker' = [docker EXCEPT ![r] = "gone"]
    /\ \E t \in Collected(r) :
        /\ trace' = [trace EXCEPT ![r] = t]
        /\ IF t = "limited" /\ trace[r] = "live" THEN Fault ELSE UNCHANGED faults
    /\ UNCHANGED <<guarded, known, material, behaviour, world, output, place, result>>

Incomplete(r) == trace'[r] = "limited"

RemovePreparation ==
    /\ Doing("remove", "preparation")
    /\ RemoveRuntime("preparation")
    /\ IF Incomplete("preparation") THEN Refuses ELSE Continues /\ UNCHANGED <<left, failed>>

RemoveFails ==
    /\ Doing("remove", "preparation")
    /\ Fault
    /\ \E t \in Collected("preparation") : trace' = [trace EXCEPT !["preparation"] = t]
    /\ Refuses
    /\ UNCHANGED <<guarded, docker, known, material, behaviour, world, output, place, result>>

\* The build container is alive, it alone holds the volumes, the inputs are
\* still what was introduced, and the offline graph is the approved one.
Verified ==
    /\ docker["build"] = "running"
    /\ docker["preparation"] = "gone"

VerifyRuntime(object) ==
    /\ Doing("verify", object)
    /\ object \in {"before", "after", "captured"}
    /\ IF Verified THEN Continues /\ UNCHANGED <<left, failed>> ELSE Refuses
    /\ UNCHANGED <<guarded, sandbox, world, output, place, result, faults>>

\* A Go runtime is told to keep its telemetry off.
Configure ==
    /\ Doing("configure", "runtime")
    /\ Continues
    /\ UNCHANGED <<guarded, sandbox, world, left, output, place, failed, result, faults>>

\* The tool chain runs on the project's files, offline: it may do what it
\* should not, and its container may end.
RunBuild(object) ==
    /\ Doing("run", object)
    /\ docker["build"] = "running"
    /\ behaviour' \in {"suspicious"} \cup (IF behaviour = "suspicious" THEN {} ELSE {"clean"})
    /\ docker' \in {docker, [docker EXCEPT !["build"] = "created"]}
    /\ Continues
    /\ UNCHANGED <<guarded, known, trace, material, world, left, output, place,
                   failed, result, faults>>

\* A selection without a main package has no output to compile.
AskRoles ==
    /\ Doing("ask", "roles")
    /\ docker["build"] = "running"
    /\ Goes(at + 1) \/ Goes(at + 2)
    /\ UNCHANGED <<guarded, sandbox, world, left, output, place, failed, result, faults>>

\* docker exec in a container that ended.
ExecRefused ==
    /\ at < End /\ Program[kind][at][1] \in {"run", "ask"}
    /\ docker["build"] # "running"
    /\ Refuses
    /\ UNCHANGED <<guarded, sandbox, world, output, place, result, faults>>

\* Compiler output is reconstructed as flat bounded data under the run's name.
Capture ==
    /\ kind = "go"
    /\ Doing("capture", "output")
    /\ output' = "captured"
    /\ Continues
    /\ UNCHANGED <<guarded, sandbox, world, left, place, failed, result, faults>>

\* Cargo's target directory is filtered to the products first.
CaptureFiltered ==
    /\ kind = "cargo"
    /\ Doing("capture", "output")
    /\ output' = "captured"
    /\ Continues
    /\ UNCHANGED <<guarded, sandbox, world, left, place, failed, result, faults>>

\* The stream is refused or the directory cannot be identified, and what was
\* written stays in the intake: the error of its removal is dropped.
CaptureLeaves ==
    /\ Doing("capture", "output")
    /\ Fault
    /\ output' = "left"
    /\ Refuses
    /\ UNCHANGED <<guarded, sandbox, world, place, result>>

Worsens == failed' = "uncertain"

\* The deferred dispose, whatever happened before it.
DisposeRuntime(r) ==
    /\ Doing("dispose", r)
    /\ r \in known /\ docker[r] # "gone"
    /\ RemoveRuntime(r)
    /\ failed' = IF Incomplete(r) /\ failed = "no" THEN "yes" ELSE failed
    /\ Continues
    /\ UNCHANGED left

DisposeNothing(r) ==
    /\ Doing("dispose", r)
    /\ ~(r \in known /\ docker[r] # "gone")
    /\ Continues
    /\ UNCHANGED <<guarded, sandbox, world, left, output, place, failed, result, faults>>

DisposeFails(r) ==
    /\ Doing("dispose", r)
    /\ r \in known /\ docker[r] # "gone"
    /\ Fault
    /\ \E t \in Collected(r) : trace' = [trace EXCEPT ![r] = t]
    /\ Worsens
    /\ Continues
    /\ UNCHANGED <<guarded, docker, known, material, behaviour, world, left, output,
                   place, result>>

InUse == \E r \in Runtimes : docker[r] \notin {"none", "gone"}

\* docker refuses to remove a volume a container refers to.
DropVolume(v) ==
    /\ Doing("drop", v)
    /\ IF v \notin known THEN UNCHANGED <<docker, failed>>
       ELSE IF InUse THEN Worsens /\ UNCHANGED docker
       ELSE docker' = [docker EXCEPT ![v] = "gone"] /\ UNCHANGED failed
    /\ Continues
    /\ UNCHANGED <<guarded, known, trace, material, behaviour, world, left, output,
                   place, result, faults>>

DropFails(v) ==
    /\ Doing("drop", v)
    /\ v \in known
    /\ Fault
    /\ Worsens
    /\ Continues
    /\ UNCHANGED <<guarded, sandbox, world, left, output, place, result>>

\* Mutated: what was captured is kept although the clean-up failed.
SettleRegardless ==
    /\ Doing("settle", "output")
    /\ output' = IF output = "captured" THEN "kept" ELSE output
    /\ IF output = "captured" THEN Continues ELSE Goes(Pos("close", "guard"))
    /\ UNCHANGED <<guarded, sandbox, world, left, place, failed, result, faults>>

\* The output outlives the sandbox only when nothing failed, clean-up included.
Settle ==
    /\ Doing("settle", "output")
    /\ IF failed = "no"
       THEN output' = "kept" /\ Continues
       ELSE /\ output' = IF output = "captured" THEN "dropped" ELSE output
            /\ Goes(Pos("close", "guard"))
    /\ UNCHANGED <<guarded, sandbox, world, left, place, failed, result, faults>>

\* Closing what was captured fails: the build fails with it, and the archive
\* may stay in the intake for nobody.
SettleFails ==
    /\ Doing("settle", "output")
    /\ output = "captured"
    /\ Fault
    /\ output' \in {"captured", "dropped"}
    /\ Worsens
    /\ Goes(Pos("close", "guard"))
    /\ UNCHANGED <<guarded, sandbox, world, left, place, result>>

-----------------------------------------------------------------------------
(* Evidence, policy and publication. *)

RecordFacts ==
    /\ Doing("record", "facts")
    /\ Continues
    /\ UNCHANGED <<guarded, sandbox, world, left, output, place, failed, result, faults>>

\* A finding blocks; the command completes without publishing.
Decide ==
    /\ Doing("decide", "policy")
    /\ IF behaviour = "clean" THEN Continues ELSE Goes(Pos("close", "guard"))
    /\ UNCHANGED <<guarded, sandbox, world, left, output, place, failed, result, faults>>

\* The point a verification starts from; nothing of the code, the properties
\* speak of it.
BeginVerification ==
    /\ Doing("begin", "verification")
    /\ since' = {}
    /\ Continues
    /\ UNCHANGED <<guarded, sandbox, disk, moments, changes, left, output, place,
                   failed, result, faults>>

\* os.Mkdir of the private name, which nobody else has.  Only the Lstat that
\* follows tells whose directory it is.
MakeTree ==
    /\ Doing("make", "tree")
    /\ stage = "none"
    /\ trees["private"] = Nothing
    /\ trees' = [trees EXCEPT !["private"] = "unknown"]
    /\ stage' = "part"
    /\ UNCHANGED <<guarded, sandbox, world, at, left, output, name, condemned, failed,
                   result, faults>>

MakeTreeRefused ==
    /\ Doing("make", "tree")
    /\ stage = "none"
    /\ trees["private"] # Nothing
    /\ Refuses
    /\ UNCHANGED <<guarded, sandbox, world, output, place, result, faults>>

\* Lstat of the private name: what it finds, made by the build or put there
\* since, is the build's from here on, and is taken back when it fails.
IdentifyTree ==
    /\ Doing("make", "tree")
    /\ stage # "none"
    /\ trees["private"] # Nothing
    /\ trees' = [trees EXCEPT !["private"] = IF @ = "unknown" THEN "build" ELSE "adopted"]
    /\ stage' \in IF trees["private"] = "unknown" THEN {stage} ELSE {"part", "spoiled"}
    /\ Continues
    /\ UNCHANGED <<guarded, sandbox, world, left, output, name, condemned, failed,
                   result, faults>>

\* Nothing has the name any more.  (An Lstat that fails is CallFails, and
\* leaves the directory: the rollback is deferred only after it.)
IdentifyRefused ==
    /\ Doing("make", "tree")
    /\ stage # "none"
    /\ trees["private"] = Nothing
    /\ Refuses
    /\ UNCHANGED <<guarded, sandbox, world, output, place, result, faults>>

Own(n) == trees[n] \in {"build", "adopted"}

\* The directory is opened by its name; the captured archive is read against
\* its digest, its files and the receipt are written and synced in there.
\* In a directory put there in the meantime they are found by TreeIntact.
FillTree ==
    /\ Doing("fill", "tree")
    /\ disk["outputArchive"] = 0
    /\ trees["private"] # Nothing
    /\ stage' = IF stage = "part" /\ Own("private") THEN "whole" ELSE "spoiled"
    /\ Continues
    /\ UNCHANGED <<guarded, sandbox, world, left, output, trees, name, condemned, failed,
                   result, faults>>

FillRefused ==
    /\ Doing("fill", "tree")
    /\ disk["outputArchive"] # 0 \/ trees["private"] = Nothing
    /\ Refuses
    /\ UNCHANGED <<guarded, sandbox, world, output, place, result, faults>>

\* Mutated: rename(2), which replaces.
RenameOver ==
    /\ Doing("rename", "tree")
    /\ trees' = [private |-> Nothing, final |-> trees["private"]]
    /\ name' = "final"
    /\ Continues
    /\ UNCHANGED <<guarded, sandbox, world, left, output, stage, condemned, failed,
                   result, faults>>

\* renameat2 with RENAME_NOREPLACE, of whatever has the private name by now.
Rename ==
    /\ Doing("rename", "tree")
    /\ trees["final"] = Nothing
    /\ trees["private"] # Nothing
    /\ trees' = [private |-> Nothing, final |-> trees["private"]]
    /\ name' = "final"
    /\ Continues
    /\ UNCHANGED <<guarded, sandbox, world, left, output, stage, condemned, failed,
                   result, faults>>

RenameRefused ==
    /\ Doing("rename", "tree")
    /\ trees["final"] # Nothing \/ trees["private"] = Nothing
    /\ Refuses
    /\ UNCHANGED <<guarded, sandbox, world, output, place, result, faults>>

\* The final name is the directory that was created, its parents are the ones
\* that were opened, it is synced and its files are read once more.
Confirm ==
    /\ Doing("confirm", "tree")
    /\ IF disk["parent"] = 0 /\ stage = "whole" /\ Own("final")
       THEN Continues /\ UNCHANGED <<left, failed>> ELSE Refuses
    /\ UNCHANGED <<guarded, sandbox, world, output, place, result, faults>>

AnswerSuccess ==
    /\ Doing("answer", "success")
    /\ result' = "published"
    /\ Goes(Pos("close", "guard"))
    /\ UNCHANGED <<guarded, sandbox, world, left, output, place, failed, faults>>

\* A directory that was opened cannot be closed: the private one's close is
\* followed by the rollback, those of its parents come after it.
AnswerFails ==
    /\ Doing("answer", "success")
    /\ Fault
    /\ \/ Fails
       \/ Worsens /\ Goes(Pos("close", "guard"))
    /\ UNCHANGED <<guarded, sandbox, world, left, output, place, result>>

\* The rollback looks whether its name still is the directory it identified.
RollBack ==
    /\ Doing("roll", "back")
    /\ ~condemned
    /\ Own(name)
    /\ condemned' = TRUE
    /\ UNCHANGED <<guarded, sandbox, world, at, left, output, trees, stage, name, failed,
                   result, faults>>

RollBackRefused ==
    /\ Doing("roll", "back")
    /\ ~condemned
    /\ ~Own(name)
    /\ Worsens
    /\ Continues
    /\ UNCHANGED <<guarded, sandbox, world, left, output, place, result, faults>>

\* os.RemoveAll unlinks the files one by one.
RemoveFile ==
    /\ Doing("roll", "back")
    /\ condemned
    /\ Own(name)
    /\ stage # "spoiled"
    /\ stage' = "spoiled"
    /\ UNCHANGED <<guarded, sandbox, world, at, left, output, trees, name, condemned,
                   failed, result, faults>>

\* Then whatever has the name by now is gone.
RemoveTree ==
    /\ Doing("roll", "back")
    /\ condemned
    /\ trees' = [trees EXCEPT ![name] = Nothing]
    /\ condemned' = FALSE
    /\ Continues
    /\ UNCHANGED <<guarded, sandbox, world, left, output, stage, name, failed, result,
                   faults>>

\* The look fails, the removal, or the sync that follows it.
RollBackFails ==
    /\ Doing("roll", "back")
    /\ Fault
    /\ trees' = trees \/ (condemned /\ trees' = [trees EXCEPT ![name] = Nothing])
    /\ condemned' = FALSE
    /\ Worsens
    /\ Continues
    /\ UNCHANGED <<guarded, sandbox, world, left, output, stage, name, result>>

\* The guard is released and the caller answered; a failing release takes a
\* success back.
Outcome ==
    CASE failed = "uncertain" -> "uncertain"
      [] failed = "yes" -> "failed"
      [] result = "published" -> "published"
      [] OTHER -> "blocked"

CloseGuard ==
    /\ Doing("close", "guard")
    /\ result' = Outcome
    /\ Continues
    /\ UNCHANGED <<guarded, sandbox, world, left, output, place, failed, faults>>

CloseFails ==
    /\ Doing("close", "guard")
    /\ Fault
    /\ result' = "uncertain"
    /\ Continues
    /\ UNCHANGED <<guarded, sandbox, world, left, output, place, failed>>

-----------------------------------------------------------------------------
(* Everything else. *)

\* Steps that cannot fail by themselves, and the clean-ups, which have
\* actions of their own for it.
Steady == {<<"begin", "verification">>, <<"settle", "output">>,
           <<"answer", "success">>, <<"decide", "policy">>, <<"roll", "back">>,
           <<"close", "guard">>, <<"remove", "preparation">>}

\* A call fails without effect, or the deadline of the command has passed.
CallFails ==
    /\ at < End
    /\ Program[kind][at] \notin Steady
    /\ Program[kind][at][1] \notin {"dispose", "drop"}
    /\ Fault
    /\ Refuses
    /\ UNCHANGED <<guarded, sandbox, world, output, place, result>>

\* The command is killed: docker and the files stay as they are.
Kill ==
    /\ at < End
    /\ Fault
    /\ Goes(End)
    /\ result' = "killed"
    /\ left' = {}
    /\ UNCHANGED <<guarded, sandbox, world, output, place, failed>>

Change == changes < MaxChanges /\ changes' = changes + 1 /\ at < End

SourceFrozen ==
    at > (IF kind = "go" THEN Pos("check", "receipt") ELSE Pos("freeze", "source"))

\* What there is to change at this moment.
Exists(i) ==
    CASE i = "sourceArchive" -> at > Pos("freeze", "source")
      [] i = "cacheArchive" -> at > Pos("freeze", "cache")
      [] i = "outputArchive" -> output = "kept"
      [] i = "facts" -> at > Pos("record", "facts")
      [] OTHER -> TRUE

\* A file is changed, or changed back: an editor, another tool, an
\* administrator removing Evidence.
ChangeItem(i) ==
    /\ Change
    /\ Exists(i)
    /\ disk' = [disk EXCEPT ![i] = 1 - disk[i]]
    /\ since' = since \cup {i}
    /\ moments' = IF SourceFrozen THEN moments
                  ELSE moments \cup {[f \in Files |-> disk'[f]]}
    /\ UNCHANGED <<guarded, sandbox, at, left, output, place, failed, result, faults>>

\* Somebody takes away what has one of the two names, or puts a directory of
\* theirs there; the tree that was there is elsewhere.
PlaceTree(n) ==
    /\ Change
    /\ \E d \in {Nothing, "user"} \ {trees[n]} : trees' = [trees EXCEPT ![n] = d]
    /\ UNCHANGED <<guarded, sandbox, disk, moments, since, at, left, output, stage, name,
                   condemned, failed, result, faults>>

\* Somebody writes into the tree.
SpoilTree ==
    /\ Change
    /\ stage # "none"
    /\ stage' = "spoiled"
    /\ UNCHANGED <<guarded, sandbox, disk, moments, since, at, left, output, trees, name,
                   condemned, failed, result, faults>>

-----------------------------------------------------------------------------

Scans == {"capture", "compare", "inventory", "copy"}

Build ==
    \/ TakeGuard \/ PlanControls \/ BindInputs \/ VerifySource
    \/ \E o \in Scans : BeginScan(o)
    \/ \E o \in Scans, i \in Items : Read(o, i) \/ ReadRefused(o, i)
    \/ \E o \in Checks : Check(o) \/ CheckRefused(o)
    \/ \E o \in {"source", "cache"} : FreezeArchive(o)
    \/ PrepareInputs \/ Introduce \/ IntroduceRefused
    \/ \E v \in Volumes : MakeVolume(v) \/ DropVolume(v) \/ DropFails(v)
    \/ \E r \in Runtimes : \/ Create(r) \/ StartTrace(r) \/ Start(r)
                           \/ DisposeRuntime(r) \/ DisposeNothing(r) \/ DisposeFails(r)
    \/ \E d \in Runtimes \cup Volumes : CreateLost(d)
    \/ RemovePreparation \/ RemoveFails
    \/ \E o \in {"before", "after", "captured"} : VerifyRuntime(o)
    \/ Configure \/ AskRoles \/ ExecRefused
    \/ \E o \in {"validation", "build"} : RunBuild(o)
    \/ Capture \/ CaptureFiltered \/ CaptureLeaves \/ Settle \/ SettleFails
    \/ RecordFacts \/ Decide \/ BeginVerification
    \/ MakeTree \/ MakeTreeRefused \/ IdentifyTree \/ IdentifyRefused
    \/ FillTree \/ FillRefused
    \/ Rename \/ RenameRefused \/ Confirm \/ AnswerSuccess \/ AnswerFails
    \/ RollBack \/ RollBackRefused \/ RemoveFile \/ RemoveTree \/ RollBackFails
    \/ CloseGuard \/ CloseFails \/ CallFails \/ Kill

Next ==
    \/ Build
    \/ \E i \in Items : ChangeItem(i)
    \/ \E n \in Names : PlaceTree(n)
    \/ SpoilTree

Spec == Init /\ [][Next]_vars

-----------------------------------------------------------------------------
(* Properties. *)

\* The build runs on a project that existed: the files it was given, read one
\* by one while they were being edited, were together the project at some
\* moment before the inputs were bound; its controls are the approved ones and
\* its dependencies byte for byte the approved cache, whatever happened to the
\* cache or to the archives in between.  This is so of at most two changes: six
\* that undo one another between two reads make a Go build of files that never
\* were together.  That the controls and the dependencies are the approved ones
\* holds for any number (ProjectBuildProofs, KeptIsApproved).
BuiltFromApproved ==
    material # Nothing =>
        /\ material.source \in moments
        /\ material.source[Control] = 0
        /\ material.cache = [m \in Modules |-> 0]

\* No success is reported for inputs that were stale when the last
\* verification began: what has not been touched since is what was built, the
\* approval and the recorded Evidence included.
StaleBuildRefused ==
    result = "published" =>
        /\ \A f \in Files \ since : disk[f] = snapshot[f]
        /\ \A i \in (Modules \cup {"state", "evidence", "receipt", "facts"}) \ since :
               disk[i] = 0

\* Output leaves the sandbox only when both containers and both volumes are
\* gone and both traces were read to their end, and is published only when the
\* trace shows nothing: also when the command is killed, since nobody looks at
\* the tree again.
PublishedIsObserved ==
    /\ output = "kept" =>
           /\ \A d \in Runtimes \cup Volumes : docker[d] = "gone"
           /\ \A r \in Runtimes : trace[r] = "complete"
    /\ Own("final") => output = "kept" /\ behaviour = "clean"

\* A build that reports a failure whose clean-up succeeded leaves nothing it
\* knows of: no container, no volume, no captured output of a failed sandbox,
\* no directory it had identified below .heliopause/builds.  Two things it may
\* leave: a directory it made and could not look at ("unknown"), and the output
\* of a capture whose own removal failed ("left").
FailedBuildLeavesNothing ==
    result = "failed" =>
        /\ \A d \in known : docker[d] = "gone"
        /\ output # "captured"
        /\ \A n \in Names : ~Own(n)

\* A directory of somebody else's keeps its name; one at the private name may
\* be renamed, or be taken for the build's own between Mkdir and Lstat.
Preserved(n) ==
    \/ trees'[n] = "user"
    \/ n = "private" /\ (trees'["private"] = "adopted" \/ trees'["final"] = "user")

\* No step of the build replaces a directory of somebody else's, and a rollback
\* begins to remove only what the build had identified.  The one foreign
\* directory it removes is put at the name between its look and os.RemoveAll.
ForeignOutputKept ==
    [][Build =>
        /\ condemned' /\ ~condemned => Own(name)
        /\ \A n \in Names :
               trees[n] = "user" => Preserved(n) \/ (condemned /\ name = n)]_vars
=============================================================================
