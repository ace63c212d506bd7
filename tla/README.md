# Heliopause Artifact Airlock: verification project

TLA+ models of `helox` (the Go command line of the Heliopause Artifact Airlock, HAA), checked with TLC;
the safety properties of all eight groups of modules are also proved with TLAPS, for every value of the
constants; section 4 names the one that is not.

`helox` puts an airlock between package registries and a project: it resolves a dependency set to
exact artifacts, fetches and verifies their bytes, inspects them statically and by running them in an
observed gVisor container, decides, and only then promotes them into the project or onto the host.
Every part is written to *fail closed*. The properties below say what that has to mean when calls
fail, processes die, users interfere and threads interleave.

## 1. Inventory

| Component | State it keeps | Operations | What is hard | What makes it correct |
|---|---|---|---|---|
| **Go control transaction** (`internal/promotion/go_transaction.go`, `go_approved_transaction.go`, `control_transaction_backup.go`) | lock file, `go.mod`/`go.sum`, metadata record, retained approval, backup directory which is also the recovery journal | acquire, admit, resolve, begin, prepare, verify, back up, publish, approve, roll back, clean up, close | a dozen file-system calls, each may fail; kill at any point; a user saving files meanwhile; a second command | controls and approval belong together whenever the project is open; nothing is lost; nobody's file is clobbered |
| **Observer authority** (`internal/sandbox` direct-exec admission, `shared_observer.go`, `observer_supervisor.go`) | registry of sessions, lifecycle gates, helper process, admissions, lock | register, arm, run, poll, resolve, tear down, fail-stop, close | callers, registrars, receiver, watcher and closer interleave; a command may be ambiguous; fail-stop tears down all sessions while holding one | an admission is never erased under a running command; reports are true; nobody waits for ever |
| **Resolver network policy and the four resolvers** (`resolver_network_policy.go`, `npm_resolver.go`, `pypi_resolver.go`, the Go and Cargo runners, `internal/networkpolicy`, `internal/hosttool/policy_engine.go`) | Docker networks and subnets, firewall chains, the service's table, the trace of each container | prepare, create/verify/remove policy, run the tool's commands, read back, remove, close, store the controls | timeouts racing late answers, subnet reuse, partial firewall updates, service restarts | a resolver container is confined by its own complete policy |
| **Inspect and install workflows** (`internal/application`, `internal/core/domain`, `internal/policy`, `internal/inspection`) | Inspection Runs, reports, decisions, evidence, staging | resolve, acquire, verify, inspect, record, decide, derive, stage, promote | many runs open at once, any port call fails, three ecosystems with different modes | what is promoted was inspected and allowed; what is clean is promoted; no run is left open |
| **PyPI observation transaction** (`internal/sandbox/pypi_trusted_transaction.go`, `pypi_observation_*.go`, `internal/hosttool/observation_resource_linux.go`) | containers, closure volume, CPU ledger, watcher, the privileged engine's session | prepare, anchor, run units, account, terminate, abort, clean up, finalize | watcher thread racing the executor, CPU exhaustion, cancellation, lost answers, cleanup errors | a completed result is proven complete; a clean run completes; everything is released |
| **Cargo, Terraform and npm project transactions** (`internal/promotion/*_transaction.go`, `*_approved_transaction.go`, `internal/application/project_*.go`) | lock, controls or members, marker, retained approval, commit directory | admit, snapshot, resolve, verify unchanged, begin, prepare, back up, publish, approve, roll back, clean up | kill at any call, user saving meanwhile, a rollback that goes on after an error | controls and approval belong together whenever the project is open; an approval covers what was inspected |
| **Python venv transaction** (`pypi_promotion.go`, `pypi_venv_transaction.go`, `pypi_venv_backup.go`) | environment files, ownership ledger, recovery directory with its journal | compatible owners, prepare, intend, move aside, publish, reconcile, roll back, clean up | one file after the other, files with several owners, a kill between a move and its record | an environment is whole or its journal leads back to it |
| **Staging, caches, new-target promotion, Evidence** (`internal/promotion/staging.go`, `*_promotion.go`, `*_cache.go`, `internal/evidence`) | temporary trees, published trees, parents | copy, install, validate, sync, rename, sync the parent, take back | two publishers of one entry, a replaced parent, kill, power loss | what is visible is whole; what was reported done survives; a foreign tree is kept |
| **Guarded project build** (`internal/application/*build*.go`, `internal/promotion/*build*.go`, `internal/sandbox/*observed_build*.go`) | archives in the intake, two volumes, two containers, the output directory | open inputs, freeze source, freeze cache, verify, prepare, build, capture, record, decide, publish | the project, cache, approval and archives change between two reads | what is published was built from what is approved, and observed |
| Trace stream and collector (`shared_observer.go`, `collector.go`) | bounded channel of records, ledger of events and bytes | receive, start, await, next, collect | bounded queue, lost end of stream | a missing event is never a complete session |
| Sandbox backends (npm, GitHub ELF, sdist build) | one container per session | create, trace, start, introduce, run, remove | order of observation and start, failed removal | artifact code never runs unobserved |
| Host tools, registry clients, signatures, command line, self-update, scripts, C++ helper | see `PROJECT.json` | | mostly parsing, I/O and cryptography | |

Interaction. The command line builds one workflow per command (`internal/bootstrap`). A workflow
calls *ports*; the adapters behind them are the registry clients, the inspectors and the promotion
packages. Dynamic inspection runs containers through the sandbox backends, all of which take their
authority to execute from one `SharedObserver` and its supervised helper process. Resolvers
need a confined network, which the root policy service provides over a socket; the
PyPI observation needs CPU accounting, which the root resource service provides over another. Only
the observer helper, the two services, Docker and the project directory are shared between commands.

## 2. Modules

| Module | Models | Runs |
|---|---|---|
| `ApprovedProject` | abstract specification: controls and approval change together in one step | (refinement target) |
| `GoControlTransaction` | the guarded update of a Go project, one action per file-system call | `go_control_crash`, `go_control_edits` |
| `GoControlTransactionProofs` | the theorems about it | TLAPS |
| `ObserverAuthority` | sessions, admissions, teardown, fail-stop, supervisor | `observer_*` |
| `ObserverAuthorityProofs` | the theorems about it | TLAPS |
| `ResolverNetwork` | the four resolvers, policy client and service, firewall, Docker networks | `resolver_network` |
| `ResolverNetworkProofs` | the theorems about it | TLAPS |
| `InstallWorkflow` | inspect and install from the locked graph to promotion, policies M3 to M6 | `install_*` |
| `InstallWorkflowProofs` | the theorems about it | TLAPS |
| `PythonObservation` | the trusted transaction, its watcher and the engine's session | `python_observation` |
| `PythonObservationProofs` | the theorems about it | TLAPS |
| `CargoTransaction`, `TerraformTransaction`, `NpmTransaction` | the guarded updates of the other three kinds of project | `project_transactions` |
| `VenvTransaction` | the update of a live Python environment | `project_transactions` |
| `ProjectTransactions` | composes the last four: one of them per behaviour, with the properties they share | `project_transactions` |
| `ProjectTransactionsProofs` | the theorems about it | TLAPS |
| `Publication` | eight publishers of a tree: staging, three new-target promotions, three caches, Evidence | `publication` |
| `PublicationProofs` | the theorems about it | TLAPS |
| `ProjectBuild` | the guarded build of a Go or Cargo project | `project_build` |
| `ProjectBuildProofs` | the theorems about it | TLAPS |
| `MC...` | instances for TLC: small sets, graphs, symmetry | |

Definitions keep the names of the code. Each definition marked `\* Mutant:` or `\* Mutated:` is a
plausible bug in a definition below it; substituted for it, it must violate the property `PROJECT.json` names.

### GoControlTransaction

State: the file system (lock, control files, metadata, approval, the `.heliopause-go-commit-*`
directory with backups, replacements and strays), one program counter and result per process, and the
locals of the process that holds the lock. A file is who created it and its contents, which is what
`os.SameFile` and digest comparisons tell apart. Actions are file-system calls in the order of the
code; `CallFails` is the error return of each, `Kill` the death of a process, `ClearStaleLock` the
manual removal of its lock file, `SaveControl` and `DropStray` a user's edits.

Residuals of the code that the model does not have or that the properties allow: `publishMetadata`
renames over a competing metadata record; there is a window between check and remove in the rollback
(`go_transaction.go:508`, model steps `RollBackCheck`, `RollBackRemove`); an error of the last sync
reports failure for an update that is complete; durability is modelled in `Publication` only.

### ObserverAuthority

State: the registry and the flags of each session, the lifecycle gate, the observer's and the
supervisor's flags, the lock file, the helper with its admissions, both directions of every control
peer, the streams and records. Threads are callers (one `docker exec` each), registrars, the receiver,
the watcher of the helper process and the closing supervisor. Mutex-protected sections are atomic
steps. The helper is C++ and is modelled from the protocol the Go side speaks with it.

### ResolverNetwork

State: Docker's networks, subnets and containers, the firewall (chain contents and the order of jumps),
the service's table and the handler at work, requests and replies, the trace of every container and the
controls a run has stored. A resolver is the sequence of its steps after the start of the container
(`NPMResolver`, `PyPIResolver`, `IsolatedGoModuleRunner`, `IsolatedCargoRunner`); the first failure leads
to the removal of the container, and removal and `Close` always happen because they are deferred. Each
firewall command of `apply` and `remove` is a step; a client stops waiting while its request is served.
Firewall commands fail without effect, Docker commands also after their effect. What a tool prints, and
the traversal of a PyTorch graph inside one resolver command, is data: the command succeeds or fails.

### InstallWorkflow

One step is one port call; every port call may fail. The inspectors, the derivation of wheels from
sdists and the policies are operators, so that verdicts are computed, not chosen. Archive parsing is a
nondeterministic static result; a container is a nondeterministic trace (each kind of observation once,
in the order of first occurrence, as the collector emits them) that completes or not. Adapters return
the artifact they were asked for, so the set-binding checks hold. Node order is nondeterministic (the
code sorts by an identifier). The PEP 517 build is the Linux configuration.

### PythonObservation

State: the executor with its runtimes (0 prepares, 1 anchors, unit *i* runs in *i*+1), the watcher, the
ledger, the engine's session, Docker's containers and volume, and the CPU counter. The executor follows
`executeTrustedTransaction`, `startPhase`, `terminatePhase` and `cleanup` call by call. The engine's `read` is
two steps where it can overlap another read; a termination is one. Time is not modelled: a sample, a lifecycle
or an answer that comes too late is a fault that may happen to any of them, and CPU time is a counter that may
rise by any amount while a container runs. A fault is "soft" if it leaves nothing the executor does not know
of, "hard" if something stays that the executor cannot know of or remove. `fault` also records an "overlap":
`engine.read` releases its lock between the snapshot of the counter and its charge, so that a read of the
executor before `finishUnit` and one of the watcher may be charged out of order. That is scheduling and no
fault of anybody: the property about undisturbed transactions has it on its left side and says that it fails
the unit. The checks before `Create` return without effect and are part of `Init`; a container does not exit
by itself.

### CargoTransaction, TerraformTransaction, NpmTransaction

State and actions are those of the Go transaction with other members: Cargo has two controls, a metadata
record and an approval that covers the local manifests too; Terraform has the lock file, the provider
tree and a marker that carries the hash of the approval; npm has four members, and the marker inside
`.heliopause` binds the controls, without an approval outside the project. Commands follow each other
(the lock admits one at a time), so a second command meets what a failed or killed one left. The front of
an update (snapshot, resolve, inspect, `VerifyUnchanged` around each stage) is part of the module.

They differ where it matters: Cargo links and unlinks and removes its directory member by member,
Terraform renames without replacing and removes recursively; after a published control that is not the
published one any more, Cargo skips the restoration and Terraform tries it; Terraform keeps the directory
when the preparation fails; npm moves aside whatever is there at that moment. A check right before a call and
the call are one step in these three modules and in `VenvTransaction`: what a user saves between the two is
not in the model, and no property speaks of it. `SeenFileKept` is about what was saved any earlier. The
window is two steps in `GoControlTransaction`, for the one call the code itself leaves open there.

### VenvTransaction

State: the destinations by their writer, the ownership ledger, the recovery directory with what was moved
aside, the next ledger and the journal. `Updates` says which distributions own which destination; the
compatibility of owners, the obsolete files and the next ledger are computed. Every move follows a synced
intent; a move and the record of it are one step whose second half may be missing, which is also what a
kill leaves. The creation of the directory may fail before its ledger is there. `createParents` is left out:
the parents of a destination are there. An uncertain end keeps the directory and the lock.

### Publication

A publisher is the sequence of its calls (`LocalStaging`, `NPMPromotion`, `PyPIPromotion`, ...): begin,
temporary tree, copy, install, validate, seal, recheck, rename, sync the parent, and what happens when
that sync fails. Two of them interleave at every call. `visible` is what processes see and `disk` what
a power loss leaves: an entry whose sync has not returned is in either state. The user puts a
tree at a destination or takes one away, replaces the parent of the target, both at any time, or changes the
bytes that are about to be copied. A removal of a published tree (`TakeBack`, `DeleteRun`) works by path, as
`os.RemoveAll` does: `Unlink` takes an entry away and leaves a "remnant" under the final name, in which the
process may be killed, the call fail or the power go; `removing` and `replaced` are history and say which
removals have begun and where somebody took a published tree away. A temporary tree is removed in one step,
under a name nobody reads. The container in which npm and pip
install is one call with a nondeterministic result that `validate` has to judge.

### ProjectBuild

The build is one sequence of steps per kind, put together from the operators that stand for its functions
(`OpenBuildInputs`, `verifyBuildApproval`, `RunGo`, `AskRoles`, ...). A step that reads several files reads
them one by one, and everything others can change (sources, controls, cached modules, receipt, approval,
Evidence, archives in the intake, the parent of the output) may change between two reads. A failing step jumps
to the clean-up of its part. The private directory is made in two calls, `MakeTree` (Mkdir) and `IdentifyTree`
(Lstat), and taken back in several, `RollBack` (the identity), `RemoveFile` and `RemoveTree` (the removal by
name); somebody may put a directory at either name or take one away between any two. A directory of somebody
else's that the Lstat takes for the build's own is "adopted", one that was made and not identified is
"unknown". The capture of the output and its last `Close` may fail. `since` and `moments` are history: what
changed after the last verification began, and the states the project was in until its source was frozen.

## 3. Runs

All runs use two workers and end within five minutes. Runs whose commands or threads come to an end
set `CHECK_DEADLOCK FALSE`; there, the liveness properties show that the end is the intended one.

| Run | Instance | What it shows |
|---|---|---|
| `go_control_crash` | two processes, two selections, no edits; kills and failures everywhere; 367,000 states | `OpenMeansApproved`, `Recoverable`, `CommandEnds`, `ImplementsApprovedProject`, `TypeOK` |
| `go_control_edits` | two processes (symmetric), one selection, two foreign edits; 1.35 million | `UserFilesKept` (no user's file is overwritten, swept or removed with the directory), `ClosedStaysClosed` |
| `observer_calls` | one session, two callers, every disturbance; 1.37 million | `AdmissionNotErased`, `PeerServesOneCall`, `ReportIsTrue`, `NoSessionOutlivesObserver` |
| `observer_progress` | one session, one caller, every disturbance, fairness; 222,000 | `EveryCallReturns`, `TeardownCompletes` |
| `observer_two_sessions` | two sessions with a caller each; 2.64 million | `NoWaitingCircle` |
| `resolver_network` | two runs that get the same subnet one after the other, npm beside Go and PyPI beside Cargo; 627,000 | `ConfinedUntilRemoval`, `SuccessIsClean`, `EveryRunEnds` |
| `install_workflow` | nine graphs of one to three nodes, five traces; 86,000 | `NoRunLeftOpen`, `PromotedIsInspected`, `NoBlockedWheelExecuted`, `CleanInstallIsPromoted` |
| `install_sdist` | an sdist and the wheel its build needs | violated: `CleanSdistIsPromoted`, see findings |
| `python_observation` | two units, one required and one command; ceiling 3, reserve 1; 1.11 million | `CompletedIsProven`, `CodeIsObserved`, `UndisturbedEndsAsItRan`, `EverythingDisposed`, `TransactionEnds` |
| `project_transactions` | each of the four transactions, two commands, one edit, kills and failures everywhere; 1.77 million | `OpenMeansAdmissible`, `RecoverableFromJournal`, `SeenFileKept`, `ApprovalCoversSource`, `ImplementsApprovedProject` |
| `publication` | two publishers (symmetric) of any of the eight kinds, two faults, one act of the user, one kill or power loss; 1.13 million | `VisibleIsWhole`, `SuccessSurvives`, `ForeignTreeKept`, `FailureLeavesNothing` |
| `project_build` | a Go or a Cargo build of three files and one cached module, two changes, one fault; 255,000 | `BuiltFromApproved`, `StaleBuildRefused`, `PublishedIsObserved`, `FailedBuildLeavesNothing`, `ForeignOutputKept` |

What the properties except, each in its comment:

- `UndisturbedEndsAsItRan`: an overlap of two reads of the counter ends the transaction incomplete.
- `SeenFileKept`: the window between a check and its call, what Terraform removes with its directory, and
  a control npm moves aside unchecked and drops when it commits.
- `VisibleIsWhole`: what a removal has left so far of a tree that is taken back or deleted, also when the
  removal was killed or failed.
- `SuccessSurvives`: a tree somebody else takes away, or a run that is deleted.
- `ForeignTreeKept`: a tree somebody put in the place of a published one, which a take-back or a deletion
  removes by path.
- `FailedBuildLeavesNothing`: objects whose creation was answered too late, a directory that was made and
  not identified, and a capture whose own removal failed.
- `ForeignOutputKept`: a directory put at the name between the identity check of the rollback and the end
  of its removal.

Why the bounds are enough to be of interest:

- *Go.* Two processes are one that leaves a state behind and one that meets it; the lock admits no more.
  Both control files, their presence and absence, both kinds of project (adopted without and with an
  approval) occur. Two edits let a user interfere with a commit and with its rollback.
- *Observer.* Two callers share one gate; two sessions are needed for a fail-stop that waits for another
  session's holder. A third of either adds no new kind of wait.
- *Network.* The interaction is Docker giving a freed subnet to the next run, with a policy left for it.
- *Install.* Three nodes give a chain; graphs cover flat and graph mode, host actions, sdists and sdists
  that need sdists; traces cover benign, suspicious, blocking and mixed behaviour.
- *Python.* Two units show the reuse of the ledger after a unit; the counter has two values below the
  authorization, one in the reserve, the ceiling and one beyond it, which are the cases the code tells
  apart.
- *Project transactions.* Two commands are one that fails or dies and one that meets the result. Two
  selections with a common control let an update keep, replace, create or remove a member; the four
  ledgers of the environment have a destination with one owner, with two, and one that becomes obsolete.
- *Publication.* Two publishers contend for one entry; a failing call and the failure of its clean-up
  need two faults; one act of the user and one crash can fall between any two calls, and between two
  entries of a removal. An unfinished removal is one value: how much of the tree is left is not told apart.
- *Build.* With two source files besides the control, a snapshot can mix two versions; two changes
  include a change and its reversal between two reads. Go's second collection detects such a mixture
  unless at least six edits are timed between its reads, which is beyond this bound and stated as such.

### Fairness

- `GoControlTransaction`: weak fairness of every process's steps. Every call returns (possibly with an
  error); a killed process takes no step and is not required to.
- `ObserverAuthority`: weak fairness per thread. Reads from the helper have deadlines, which are steps
  of the thread; `PollExpires` needs strong fairness because a poll re-enables it at each round while the
  deadline of the code is absolute. Nothing is assumed of the closer's start, of crashes or of streams.
- `ResolverNetwork`: weak fairness of each run, none of the service: the client's deadline has to do.
- `PythonObservation`: weak fairness of the watcher, strong fairness of the executor, whose next step
  may wait for `sampleMu`; Go's mutex hands over to a waiter that has waited for a millisecond, and the
  watcher releases it between two ticks. A unit's command ends at the latest with the wall deadline.
- The transactions of the other ecosystems, `Publication` and `ProjectBuild` state safety only: they are
  sequential programs whose loops run over fixed lists.

## 4. Proofs

Eight modules hold the theorems. Each rests on one inductive invariant that TLC checked on the run's
instance before it was proved. The layout is the same everywhere: lemmas on the operators, a lemma per
action (or group of actions that disturb the same part) saying what it keeps, one lemma that every step
keeps the invariant, by cases on `Next`, and short theorems that draw the properties from it.

| Module | Theorem | Property of a run |
|---|---|---|
| `GoControlTransactionProofs` | `TypeCorrect`, `OpenProjectIsApproved`, `NothingLost` | `TypeOK`, `OpenMeansApproved`, `Recoverable` |
| | `UserFilesSurvive`, `ClosedForGood` | `UserFilesKept`, `ClosedStaysClosed` |
| | `Refinement` | `ImplementsApprovedProject` |
| `ProjectTransactionsProofs` | `OpenProjectsAreAdmissible`, `SeenFilesStay` | `OpenMeansAdmissible`, `SeenFileKept` |
| | `ApprovalsAreOfTheInspected`, `ProjectsMoveTogether` | `ApprovalCoversSource`, `ImplementsApprovedProject` |
| | `EnvironmentsAreRecoverable` | `RecoverableFromJournal` |
| `ObserverAuthorityProofs` | `ObserverInvariant` | (the inductive invariant) |
| | `AdmissionsAreKept`, `OneCallPerPeer`, `ReportsAreTrue` | `AdmissionNotErased`, `PeerServesOneCall`, `ReportIsTrue` |
| | `SessionsEndWithObserver`, `NobodyWaitsInACircle` | `NoSessionOutlivesObserver`, `NoWaitingCircle` |
| `ResolverNetworkProofs` | `NetworkInvariant` | (the inductive invariant) |
| | `ContainersAreConfined`, `SuccessesAreClean` | `ConfinedUntilRemoval`, `SuccessIsClean` |
| `InstallWorkflowProofs` | `RunsAreClosed`, `PromotedWasInspected` | `NoRunLeftOpen`, `PromotedIsInspected` |
| | `BlockedWheelsStayClosed`, `CleanIsPromoted` | `NoBlockedWheelExecuted`, `CleanInstallIsPromoted` |
| `PythonObservationProofs` | `CompletedResultsAreProven`, `CodeRunsObserved` | `CompletedIsProven`, `CodeIsObserved` |
| | `TransactionsDispose`, `UndisturbedTransactionsSucceed` | `EverythingDisposed`, `UndisturbedEndsAsItRan` |
| `PublicationProofs` | `PublishedIsWhole`, `SuccessIsDurable` | `VisibleIsWhole`, `SuccessSurvives` |
| | `ForeignTreesAreKept`, `FailuresLeaveNothing` | `ForeignTreeKept`, `FailureLeavesNothing` |
| `ProjectBuildProofs` | `TypeCorrect`, `KeptIsApproved` | (no run's property) |
| | `StaleRefused`, `PublishedObserved` | `StaleBuildRefused`, `PublishedIsObserved` |
| | `FailedLeavesNothing`, `ForeignKept` | `FailedBuildLeavesNothing`, `ForeignOutputKept` |

**The Go transaction.** Any set of processes, contents and selections, any number of foreign edits
(`ConstantsAssumption`). `IInv == TypeOK /\ Ownership /\ (edits = 0 => Untouched)`. Neither safety
property is inductive by itself: `OpenMeansApproved` says nothing while the directory exists, which is
when everything happens. `Ownership` says that only the lock's holder is between begin and close and that
the directory is its own. `Untouched` relates, label by label, what was moved, published and approved to
what lies under each name and in the backup; it holds until a user edits something, hence the
implication. `Refinement` needs it to show that the step that removes the directory is either a stutter
(rolled back) or the atomic `Approve` (committed). The two action properties about edits need
only the part of it that no edit disturbs, and that the frozen plan holds no foreign file.

**The other transactions.** Any selections, versions, package sets, destinations, updates and ledgers, any
number of commands and edits. `BoundsAssumption` says the bounds are numbers; `CargoAssumption`,
`TerraformAssumption` and `NpmAssumption` that contents and documents differ from their absence;
`VenvAssumption` that there are finitely many destinations and that the first ledger is of files that were
there. One invariant per kind, and `Inv` is the one of the behaviour's kind. For the three projects it is the
Go invariant's analogue: `...Types` whatever a user does and, without edits, `...Ground` (the open project is
coherent, or the plan in the transaction is) with one conjunct for each phase: what is behind a loop, in its
hand and before it, forward and in the rollback. The rollback of Cargo and Terraform goes on after an error,
so "restored" holds only while the mode is still certain. For the environment, whose lists have any length,
the invariant says that the loops run over destinations the update takes, that what is frozen, recorded and
disposable is no file of the user, that the moved files are as many as the members of the directory, and that
the journal outlives them. `EnvironmentsAreRecoverable` needs a second layer on top of it, `VenvJournaled`,
which holds until a user edits something: `VenvMoved` says of every destination of the plan that it is frozen,
moved aside or replaced, `VenvMembers` and `VenvJournal` that the n-th member of the directory is the original
of the n-th moved file and that the record after the first n names it, `VenvPhase` which of the two ledgers
lies where. The lists grow and shrink at their end, so every step that moves a file is one of four
(`VenvMoves`), and every other one leaves all of it alone or appends to the journal (`VenvGrows`). While a
command is at work the invariant gives the property; where it stops, the property itself is carried on, since
then only the clean-up touches the directory, and it starts from a whole environment.

**Observer authority.** Any sets of sessions, callers and registrars, any number of disturbances
(`ThreadAssumption`: a thread has one kind and a session one registrar).
`IInv == TypeOK /\ Failing /\ \A s : SessionInv(s)`: the sessions share the observer's and the supervisor's
flags only, so the invariant is one about a session, and most steps need a frame lemma for the other ones.
`SessionInv` says who holds the lease at which label, what is on each control peer in either direction,
and what the helper knows of the call; `Failing` that one agent at most stops the helper and that a
session registered meanwhile is told. `NobodyWaitsInACircle` holds because the one agent that
fail-stops is the only one that waits for a second lease.

**Resolver network.** Any sets of runs and subnets, any tool per run (`ToolAssumption`, `NoneAssumption`).
`IInv == TypeOK /\ turn \notin requests /\ Order /\ \A r : RunInv(r)`: `Order` is about the list of jumps,
`RunInv` relates the step of a run, the request it waits for or gave up, the table and the contents of its
chain. Removal of one jump of a list is `DropsJump`, a relation, because what `SelectSeq` computes is out of
the prover's reach.

**Install workflow.** Any graphs and any traces (`GraphsAssumption`, `TracesAssumption`). The conjuncts are
the stages' promises: where a node is (`Placement`), which runs are open, what a verification, an inspection,
a decision and a stored report are about. The properties at the end need all of them, since promotion looks at
decisions only.

**Python observation.** Any number of units, any choice of command units, any ceiling with a smaller reserve
and any bound of the counter above it (`PlanAssumption`, `CPUAssumption`). `IInv == TypeOK /\ Control /\
Registration /\ Launched /\ Behind /\ Disposal /\ Exact /\ Rejected`. `Control` gives each label its stage,
runtime, watcher and resources. `Registration` says that a registered runtime stays in the engine's session
until it is gone, `Launched` who else has the closure attached while artifact code runs; `CodeRunsObserved`
follows from the two. `Behind` says what a transaction that has not failed has behind it, unit by unit and
then in cleanup; a completed result is the end of that list. `Disposal` says, as long as nobody else left
something behind, that whatever exists is known to the executor and still on cleanup's list. `Exact` fixes,
for a transaction without fault or shortage of CPU time, the runtimes, the ledger and the session at every
label: from it follow the lemmas that a sample cannot be rejected and a termination cannot be refused
(`SampleSucceeds`, `TerminationSucceeds`), the reason why no interleaving of watcher and executor makes an
undisturbed transaction fail but the one the theorem excepts: where two reads overlapped, `Rejected` says
instead that the session, the watcher or the ledger has failed for good. A watcher's tick in `register` would
find a container the session does not know: what excludes it is that the transition bracket is open there, and
the proof needs exactly that.

**Publication.** Any number of publishers of any kind (`KindsAssumption`, `NamesAssumption`). The invariant
relates the call a publisher is at to its temporary tree, to the owner of the entry and to what the disk
holds of both; publishers meet in the entry and its parent only. `Owned` says that between
the rename and the answer the destination holds the publisher's own tree or is in `replaced`: from it follows
what a take-back by path can meet. `Removals` keeps those that remove a tree apart from those that reported it.

**Project build.** Any files, any cached modules, any number of changes and faults (`ProjectAssumption`;
`KindsAssumption`: a build is a Go or a Cargo build; `NothingAssumption`: the absence of a directory is
neither of the two owners'). The state is a position in a program of 112 or 97 steps, so the proof is in two
parts. `GoLayout` and `CargoLayout` compute the two concatenations and say where the sandbox is set up and
taken down, where the tree is made, renamed and reported, and what the stretches in between consist of;
`Located` reads the layout backwards (this call is made at that place only), and from there on both kinds are
one proof. The invariant then says, by the position alone, what a build has behind it: `Placed` (a failing
build is in a clean-up or at its end), `Standing` and `Removed` (what the sandbox holds while nothing failed,
what the clean-up has removed), `Kept` and `Graphed` (when output outlives the sandbox and of what), `Owned`
(the one name under which a tree of the build stands, and that a rollback condemns only what it identified).
Most steps are `Quiet` (they change none of this and move by one, past the compilation without a main package,
or to the clean-up in force), so each conjunct is shown for `Quiet` once and for the `Loud` steps one by one.
`Watched` goes through the last verification step by step and inside a step file by file: what was read has
not changed since the verification began, or is in `since`. None of it mentions the bounds.
`BuiltFromApproved` ends with the bound on changes; `KeptIsApproved` is the part of it that does not: whatever
is kept was compiled from the approved controls and cache, because the graph is asked for again after the
compiler ran.

What proving changed in the models: two `CASE` arms of the observer's answer overlapped, so that TLC took the
first and the formula said nothing definite; they are disjoint now. The first finding of a trace stands for
all of them (`dynamicFindingCodes`): a policy reads whether there is one and which is first.
`ProjectTransactions` was separated from its instance. `RecoverableFromJournal` finds the intent of the i-th
member by counting the intents before it, not by filtering the journal.

**Only model-checked.**

- All liveness: `CommandEnds`, `EveryCallReturns`, `TeardownCompletes`, `EveryRunEnds`, `TransactionEnds`.
  Fairness and ENABLED are out of the prover's reach.
- `BuiltFromApproved`: true within the bound on changes only, see above.
- `install_sdist` is a violation.


## 5. Findings

- **`install_sdist`** (bug): the static inspector returns nothing for a derived wheel, so an sdist can
  never be installed although contract and test expect it.

Observed while modelling, without a run; the properties above hold in spite of them or state their limit.

Windows in which the code does less than a comment or contract of the repository says; the models have
them, the properties name them as exceptions (section 3):
- a file added to Terraform's journal directory after its inventory is deleted with it, although the comment
  at `terraform_transaction.go:473` says it is preserved;
- npm's `backupCurrent` compares what it moves aside with a snapshot it has just taken of the same file, never
  with the plan, so a control saved after `verifyUnchanged` is replaced and goes with the backup when the
  promotion commits; `docs/planning/12-m9-product-install-ux-contract.md:60` wants drift refused;
- deletion and take-back unlink a published tree under its final name, so a kill in it leaves a part of the
  tree visible; `docs/planning/10-m7-mvp-qualification-contract.md:39` says partial output is never exposed;
- a directory put at the name of a build's output between the identity check of the rollback and `RemoveAll`
  (`go_build_output.go:194-197`) is removed;
  `docs/planning/16-m12-01-ecosystem-expansion-contract.md:965` wants foreign output kept.

Observer, network, policy:
- after a fail-stop whose end was not confirmed, `close` releases the lock although the helper may live
  (`observer_supervisor.go:161`; the comment at 147-148 wants the lock kept);
- if `docker rm --force` fails, the firewall policy is removed while the container may still run
  (`npm_resolver.go:139`); hence `ConfinedUntilRemoval` and not "until it is gone";
- a `Create` of a policy that timed out at the client leaves a policy nobody removes;
- the npm and PyPI resolvers only require a complete trace, the Go and Cargo runners also refuse
  forbidden kinds of event; Go and Cargo store their two controls one after the other in a private
  workspace, so a failure between the two leaves one of them there;
- `M3.Evaluate` decides by the first finding, so a suspicious behaviour before a blocking one yields
  `MANUAL_REVIEW` and not `BLOCK` (`policy/m3.go:24`).

Inspection and observation:
- the wheels an sdist build installs are inspected only statically (`composite.go:93`,
  `derivation.go:35`); the observations of a completed PEP 517 build are dropped (`derivation.go:55`);
- the engine's `register` admits a container before its last sample, so a lost answer strands the
  session (`observation_resource_linux.go:347`); the read before `finishUnit` may overlap a tick of the
  watcher and fail a healthy unit, on the safe side (the exception of `UndisturbedEndsAsItRan`);
- a lost answer of `docker volume create` or `docker create` leaves an object nobody removes.

Transactions:
- a control saved between the rollback check and the remove is removed (`go_transaction.go:508`);
- the checks of the other transactions and the calls after them leave the same kind of window, in which a
  file saved is lost (for instance `cargo_transaction.go:439`, `pypi_venv_transaction.go:1006`); there they
  are one step, and `SeenFileKept` does not speak of it.

Publication and build:
- PyPI, GitHub and the Terraform cache leave the renamed tree in place when the sync of the parent fails
  (`FailureLeavesNothing` is about the others); the removal of a tree after such a failure is not synced;
  the parents `.heliopause` and `builds` and the Evidence root are not synced in their own parents;
- a temporary tree that was moved away together with a replaced parent is orphaned; the npm promotion
  compares package identities only; Evidence is published with a replacing rename below its own root;
- take-back and deletion go by path without looking whose tree is there: one that somebody put in the place
  of the published tree is removed (`staging.go:125`, `npm_promotion.go:192`, `evidence/local/store.go:91`);
- a build whose Lstat fails right after Mkdir leaves its empty directory (`go_build_output.go:184`), and the
  capture drops the error of its own removal (`artifact/projectbuild/output.go:90`);
- a directory put at the private name between Mkdir and Lstat is taken for the build's own; verification
  then refuses what is in it, or the rollback removes it;
- source, cache and output archives stay in the intake after a later failure.

## 6. Not modelled

Parsing, formats, hashing and signatures (registry clients, lock files, archives, `observer.cc`):
data, covered by the repository's examples and fuzz tests. The command line and wiring: no state. The
traversal of PyTorch graphs: a resolver command. The receive loop of the trace stream and the three
sandbox backends: their outcome is nondeterministic where it is used, see the plan. The host tool
executor: a call that returns, fails or times out. Self-update. Real time: deadlines are
nondeterministic, so that the reserve of CPU seconds is *sufficient* is not shown, only that no completed
result exceeds the ceiling. Durability after power loss outside `Publication`. `PROJECT.json` lists every
component with the reason.

## 7. Plan

Modules, in this order; each gets its runs, hazards and mutants like the ones above.

1. `TraceStream`: receive loop, bounded channel, credit ledger, `Start`, `AwaitMountAnchors`, `Next`,
   `Close`, collector. Abstract specification: the collector's answer is *complete* only if it saw every
   event between start and end of the stream. Composes with `ObserverAuthority` (who ends a stream) and
   gives `PythonObservation` the meaning of a complete trace.
2. `SandboxSession`: the npm, GitHub and sdist-build backends, as one lifecycle with three variants;
   artifact code never runs before its trace and mount anchors.
3. `CPUReserve`: a timed model of sampling, stop bound and reserve.

Theorems worth proving next: that `BuiltFromApproved` holds up to the number of changes at which it begins
to fail, with a count of the changes between two reads in the invariant.
