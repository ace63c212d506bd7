--------------------------- MODULE PythonObservation ---------------------------
(***************************************************************************)
(* The trusted transaction in which the code of a Python wheel is observed *)
(* (internal/sandbox pypi_trusted_transaction.go, pypi_observation_*.go)   *)
(* and the privileged engine that accounts its CPU time (internal/hosttool *)
(* observation_resource_linux.go).                                         *)
(*                                                                         *)
(* One executor prepares a closure volume, keeps it with an anchor         *)
(* container, runs every unit of the frozen plan in a container of its own *)
(* and disposes of everything; a watcher thread samples the CPU counter of *)
(* the transaction's cgroup and, at the first fault, cancels the executor  *)
(* and removes the containers itself.  Both call the engine, which serves  *)
(* a read and a termination without holding its lock throughout.           *)
(*                                                                         *)
(* Runtimes are numbered as the code numbers them: 0 prepares, 1 anchors,  *)
(* the i-th unit runs in i+1.  A sample that comes too late is a fault     *)
(* that may happen to any sample; CPU time is counted in reads' units.     *)
(***************************************************************************)
EXTENDS Naturals, FiniteSets

CONSTANTS
    N,             \* units of the frozen observation plan
    CommandUnits,  \* units (by runtime) whose nonzero exit is acceptable
    Ceiling,       \* cpuCeilingUsec
    Reserve,       \* reserveUsec, deducted from the ceiling
    MaxCPU         \* bound of the model: the counter stops here

ASSUME PlanAssumption == N \in Nat \ {0} /\ CommandUnits \subseteq 2..(N + 1)
ASSUME CPUAssumption ==
    /\ Ceiling \in Nat /\ Reserve \in Nat /\ MaxCPU \in Nat
    /\ Reserve < Ceiling /\ Ceiling < MaxCPU

Preparation == 0
Anchor      == 1
Units       == 2..(N + 1)
Runtimes    == 0..(N + 1)
NoUnit      == N + 2

VARIABLES
    pc, stage,   \* the executor: its next call, and whether it sets up, observes or cleans up
    at,          \* the runtime at hand
    error,       \* "yes" once the current startPhase or terminatePhase has failed
    unclean,     \* "yes" once cleanup has failed
    todo,        \* the runtimes cleanup has still to terminate
    outcome,     \* how the unit's command ended
    seen,        \* the counter read for finishUnit
    held,        \* what cleanup has to release besides runtimes: lease, volume
    known,       \* t.runtimes
    registered,  \* runtimes whose registration was acknowledged
    trace,       \* the trace of each runtime
    result,      \* the transaction's result
    cancelled,   \* whether the request context is done
    watch,       \* the watcher thread
    watchErr,    \* its firstErr
    sampled,     \* the counter it has read
    doomed,      \* the runtimes its abort has still to remove
    transition,  \* w.transition: a container is being started or drained
    ledger,      \* the marks of observationTransaction
    booked,      \* its usageUsec
    active,      \* its active unit
    finished,    \* its finished units
    session,     \* the engine's session: none, open, failed or closed
    scopes,      \* its live runtimes
    drained,     \* its drained runtimes
    charged,     \* its usage
    container,   \* Docker's containers
    volume,      \* Docker's closure volume
    code,        \* containers in which artifact code was launched
    used,        \* the cgroup's CPU counter
    fault        \* the worst fault that has happened

executor == <<pc, stage, at, error, unclean, todo, outcome, seen, held, known, registered, trace, result>>
watcher  == <<watch, watchErr, sampled, doomed>>
books    == <<ledger, booked, active, finished>>
engine   == <<session, scopes, drained, charged>>
docker   == <<container, volume, code>>
vars == <<executor, cancelled, watcher, transition, books, engine, docker, used, fault>>

Init ==
    /\ pc = "create" /\ stage = "setup" /\ at = Preparation /\ error = "no"
    /\ unclean = "no" /\ todo = {}
    /\ outcome = "none" /\ seen = 0 /\ held = {} /\ known = {} /\ registered = {}
    /\ trace = [r \in Runtimes |-> "none"] /\ result = "none" /\ cancelled = "no"
    /\ watch = "off" /\ watchErr = "none" /\ sampled = 0 /\ doomed = {} /\ transition = "no"
    /\ ledger = {} /\ booked = 0 /\ active = NoUnit /\ finished = {}
    /\ session = "none" /\ scopes = {} /\ drained = {} /\ charged = 0
    /\ container = [r \in Runtimes |-> "none"] /\ volume = "none" /\ code = {}
    /\ used = 0 /\ fault = "none"

\* A fault: "soft" leaves nothing behind, "hard" leaves a container, volume or
\* session that the executor does not know of or cannot remove.
Fault(kind) == fault' = IF fault = "hard" THEN fault ELSE kind

\* No fault, but the schedule alone: of the executor's read before finishUnit
\* and a read of the watcher, which the engine serves without its lock, the one
\* that read the counter first comes in second and is rejected.
Overlap == fault' = IF fault = "none" THEN "overlap" ELSE fault

\* A failure that needs no fault when there is a reason for it.
Unless(reason) == IF reason THEN UNCHANGED fault ELSE Fault("soft")

Running(r) == container[r] = "running"
Exists(r)  == container[r] \in {"created", "running"}

--------------------------------------------------------------------------------
(* Accounting. *)

\* verifyObservationMembers: every populated scope is one the session knows.
MembersKnown == \A r \in Runtimes : Running(r) => r \in scopes

Readable == session = "open" /\ MembersKnown /\ used <= Ceiling

\* A read that nothing else interleaves with.
ReadOK == Readable /\ charged' = used /\ UNCHANGED <<session, scopes, drained>>

\* A refused read fails the session; a lost one may leave it as it is.
ReadFails ==
    /\ \/ ~Readable /\ UNCHANGED fault
       \/ Fault("soft")
    /\ session' \in IF session = "open" THEN (IF Readable THEN {"open", "failed"} ELSE {"failed"})
                                        ELSE {session}
    /\ UNCHANGED <<scopes, drained, charged>>

Exhausted(v) == v >= Ceiling - Reserve

\* accountCPULocked: only terminations are accounted after a failure, and the
\* counter never decreases.
Accepts(v, termination) == (termination \/ "failed" \notin ledger) /\ v >= booked

AccountOK(v, termination) ==
    /\ Accepts(v, termination) /\ ~Exhausted(v)
    /\ booked' = v
    /\ UNCHANGED <<ledger, active, finished, fault>>

\* A sample is rejected as out of order, as late or since it exhausts the
\* authorization; the failure is sticky.
AccountRejected(v, termination) ==
    /\ \/ /\ ~Accepts(v, termination)
          /\ IF v < booked THEN Overlap ELSE UNCHANGED fault
          /\ UNCHANGED booked
       \/ Accepts(v, termination) /\ Exhausted(v) /\ booked' = v /\ UNCHANGED fault
       \/ Fault("soft") /\ UNCHANGED booked
    /\ ledger' = ledger \cup {"failed"}
    /\ UNCHANGED <<active, finished>>

SampleOK(termination) == ReadOK /\ AccountOK(used, termination)

SampleFails(termination) ==
    \/ ReadFails /\ UNCHANGED books
    \/ ReadOK /\ AccountRejected(used, termination)

\* The watcher holds sampleMu from the start of a read until it is accounted.
SampleMuFree == watch \notin {"reading", "read"}

\* Containers use CPU time whenever they run.
Burn ==
    /\ \E r \in Runtimes : Running(r)
    /\ used < MaxCPU /\ used' = used + 1
    /\ UNCHANGED <<executor, cancelled, watcher, transition, books, engine, docker, fault>>

--------------------------------------------------------------------------------
(* The engine's termination and Docker's removal of a container. *)

\* Mutant: the removal is requested, but its end is not awaited.
GonePerhaps(r) == container' \in {container, [container EXCEPT ![r] = "gone"]}

Gone(r) == container' = [container EXCEPT ![r] = "gone"]

\* terminate: the scope is killed, the container removed and its absence
\* proved; it works on a failed session and on a runtime already drained.
TerminateOK(r) ==
    /\ session \in {"open", "failed"} /\ r \in scopes \cup drained
    /\ Gone(r)
    /\ scopes' = scopes \ {r} /\ drained' = drained \cup {r}
    /\ \A q \in Runtimes \ {r} : Running(q) => q \in scopes
    /\ used <= Ceiling /\ charged' = used
    /\ UNCHANGED session

\* The runtime is unknown to the engine.
TerminateRefused(r) ==
    /\ session \notin {"open", "failed"} \/ r \notin scopes \cup drained
    /\ UNCHANGED <<engine, container, fault>>

\* The runtime is drained, but the answer or the accounting after it is lost.
TerminateLost(r) ==
    /\ session \in {"open", "failed"} /\ r \in scopes \cup drained
    /\ Gone(r) /\ scopes' = scopes \ {r} /\ drained' = drained \cup {r}
    /\ session' \in {session, "failed"} /\ UNCHANGED charged /\ Fault("soft")

\* Its drainage cannot be proved: it stays in the session.
TerminateStuck(r) ==
    /\ session \in {"open", "failed"} /\ r \in scopes
    /\ session' = "failed" /\ UNCHANGED <<scopes, drained, charged>> /\ Fault("hard")

\* What the overrun of the ceiling or an unknown member makes of a termination.
TerminateRejected(r) ==
    /\ session \in {"open", "failed"} /\ r \in scopes \cup drained
    /\ Gone(r) /\ scopes' = scopes \ {r} /\ drained' = drained \cup {r}
    /\ used > Ceiling \/ \E q \in Runtimes \ {r} : Running(q) /\ q \notin scopes
    /\ session' = "failed" /\ UNCHANGED <<charged, fault>>

--------------------------------------------------------------------------------
(* The executor: setting up. *)

Goto(l) == pc' = l

rest == <<unclean, todo, outcome, seen, known, registered, trace>>

\* Every return before the end of the loop is an incomplete result; cleanup is
\* deferred and follows.
GiveUp == pc' = "stop" /\ stage' = "cleanup" /\ error' = "no" /\ result' = "incomplete"

Proceed(l) == Goto(l) /\ UNCHANGED <<stage, error, result>>

\* A command that leaves nothing behind: it succeeds, and the executor goes on
\* with runtime r, or it fails, as it must once the context is done.
Checked(next, r) ==
    \/ cancelled = "no" /\ Proceed(next) /\ at' = r /\ UNCHANGED fault
    \/ cancelled = "yes" /\ GiveUp /\ UNCHANGED <<at, fault>>
    \/ cancelled = "no" /\ GiveUp /\ Fault("soft") /\ UNCHANGED at

local == <<at, rest>>

CreateLease ==
    /\ pc = "create"
    /\ \/ /\ cancelled = "no"
          /\ session' = "open" /\ held' = {"lease"} /\ Proceed("volume") /\ UNCHANGED fault
       \/ cancelled = "no" /\ session' = "open" /\ UNCHANGED held /\ GiveUp /\ Fault("hard")
       \/ UNCHANGED <<session, held>> /\ GiveUp /\ Unless(cancelled = "yes")
    /\ UNCHANGED <<local, cancelled, watcher, transition, books, scopes, drained, charged, docker, used>>

CreateVolume ==
    /\ pc = "volume"
    /\ \/ /\ cancelled = "no"
          /\ volume' = "made" /\ held' = held \cup {"volume"}
          /\ Proceed("begin") /\ UNCHANGED fault
       \/ cancelled = "no" /\ volume' = "made" /\ UNCHANGED held /\ GiveUp /\ Fault("hard")
       \/ UNCHANGED <<volume, held>> /\ GiveUp /\ Unless(cancelled = "yes")
    /\ UNCHANGED <<local, cancelled, watcher, transition, books, engine, container, code, used>>

\* Mutant: the watcher is not told of the transition.
BeginUnmarked ==
    /\ pc = "begin" /\ SampleMuFree
    /\ \/ watch = "off" /\ Proceed("dockerCreate") /\ UNCHANGED <<books, engine, fault>>
       \/ watch # "off" /\ cancelled = "no" /\ SampleOK(FALSE) /\ Proceed("dockerCreate")
       \/ watch # "off" /\ SampleFails(FALSE) /\ GiveUp
    /\ UNCHANGED <<local, held, cancelled, watcher, transition, docker, used>>

\* startPhase, beginTransition: a sample, then the watcher is kept off the
\* counter.  The preparation starts before there is a watcher.
BeginTransition ==
    /\ pc = "begin" /\ SampleMuFree
    /\ \/ watch = "off" /\ Proceed("dockerCreate") /\ UNCHANGED <<transition, books, engine, fault>>
       \/ /\ watch # "off" /\ cancelled = "no" /\ SampleOK(FALSE)
          /\ transition' = "yes" /\ Proceed("dockerCreate")
       \/ watch # "off" /\ SampleFails(FALSE) /\ UNCHANGED transition /\ GiveUp
       \/ watch # "off" /\ cancelled = "yes" /\ GiveUp /\ UNCHANGED <<transition, books, engine, fault>>
    /\ UNCHANGED <<local, held, cancelled, watcher, docker, used>>

\* Within startPhase an error leads to the deferred endTransition.
Within(next) == Goto(next) /\ UNCHANGED error
Broken == Goto("started") /\ error' = "yes"

startUnchanged == <<stage, at, unclean, todo, outcome, seen, held, result, cancelled, watcher, transition,
                    books, used>>

LaunchCreate ==
    /\ pc = "dockerCreate"
    /\ IF cancelled = "no" THEN Within("creating") ELSE Broken
    /\ UNCHANGED <<startUnchanged, known, registered, trace, engine, docker, fault>>

\* A create in flight may succeed after the context is cancelled.  Without the
\* printed ID the container is not in t.runtimes.
DockerCreate ==
    /\ pc = "creating"
    /\ \/ /\ known' = known \cup {at} /\ container' = [container EXCEPT ![at] = "created"]
          /\ Within("trace") /\ UNCHANGED fault
       \/ /\ container' = [container EXCEPT ![at] = "created"]
          /\ UNCHANGED known /\ Broken /\ Fault("hard")
       \/ UNCHANGED <<known, container>> /\ Broken /\ Unless(cancelled = "yes")
    /\ UNCHANGED <<startUnchanged, registered, trace, engine, volume, code>>

\* verifyContainerMount and StartPythonClosureProfileWithBudget
StartTrace ==
    /\ pc = "trace"
    /\ \/ cancelled = "no" /\ trace' = [trace EXCEPT ![at] = "open"] /\ Within("dockerStart")
          /\ UNCHANGED fault
       \/ UNCHANGED trace /\ Broken /\ Unless(cancelled = "yes")
    /\ UNCHANGED <<startUnchanged, known, registered, engine, docker>>

\* A start whose error is contradicted by a live container goes on to Register.
DockerStart ==
    /\ pc = "dockerStart"
    /\ \/ /\ cancelled = "no" /\ container[at] = "created"
          /\ container' = [container EXCEPT ![at] = "running"]
          /\ \/ Within("register") /\ UNCHANGED fault
             \/ Goto("register") /\ error' = "yes" /\ Fault("soft")
             \/ Broken /\ Fault("soft")
       \/ UNCHANGED container /\ Broken /\ Unless(cancelled = "yes" \/ container[at] # "created")
    /\ UNCHANGED <<startUnchanged, known, registered, trace, engine, volume, code>>

Admitted ==
    /\ session = "open" /\ Running(at) /\ used <= Ceiling
    /\ \A q \in Runtimes \ {at} : Running(q) => q \in scopes

\* The engine admits the container before it takes its last sample: if the
\* answer is lost, or that sample exceeds the ceiling, which the reserve is to
\* rule out, a runtime that the executor does not count as registered stays in
\* the session.
Register ==
    /\ pc = "register"
    /\ \/ /\ cancelled = "no" /\ Admitted
          /\ scopes' = scopes \cup {at} /\ charged' = used /\ UNCHANGED <<session, drained>>
          /\ registered' = registered \cup {at}
          /\ Within("await") /\ UNCHANGED fault
       \/ /\ cancelled = "no" /\ session = "open" /\ Running(at)
          /\ scopes' = scopes \cup {at} /\ session' \in {"open", "failed"}
          /\ UNCHANGED <<drained, charged, registered>> /\ Broken /\ Fault("hard")
       \/ /\ session' \in {session, IF session = "open" THEN "failed" ELSE session}
          /\ UNCHANGED <<scopes, drained, charged, registered>> /\ Broken
          /\ Unless(cancelled = "yes" \/ session # "open" \/ ~Running(at))
    /\ UNCHANGED <<startUnchanged, known, trace, docker>>

\* awaitBoundaryHelper, AwaitMountAnchors and the last look at the container
AwaitRuntime ==
    /\ pc = "await"
    /\ \/ cancelled = "no" /\ Running(at) /\ Within("started") /\ UNCHANGED fault
       \/ Broken /\ Unless(cancelled = "yes" \/ ~Running(at))
    /\ UNCHANGED <<startUnchanged, known, registered, trace, engine, docker>>

\* Where a started runtime is used.
AfterStart ==
    CASE at = Preparation -> "watch"
      [] at = Anchor      -> "attachments"
      [] OTHER            -> "checkProbe"

\* The deferred endTransition, then the caller sees the error.
EndTransition ==
    /\ pc = "started" /\ SampleMuFree
    /\ transition' = "no"
    /\ \/ /\ transition = "no" /\ UNCHANGED <<books, engine, fault>>
          /\ IF error = "yes" THEN GiveUp ELSE Proceed(AfterStart)
       \/ /\ transition = "yes" /\ SampleOK(FALSE)
          /\ IF error = "yes" THEN GiveUp ELSE Proceed(AfterStart)
       \/ transition = "yes" /\ SampleFails(FALSE) /\ GiveUp
    /\ UNCHANGED <<local, held, cancelled, watcher, docker, used>>

\* startObservationCPUWatch: without a first sample there is no watcher.
StartWatch ==
    /\ pc = "watch"
    /\ \/ SampleOK(FALSE) /\ cancelled = "no" /\ watch' = "idle" /\ Proceed("install")
       \/ SampleFails(FALSE) /\ UNCHANGED watch /\ GiveUp
    /\ UNCHANGED <<local, held, cancelled, watchErr, sampled, doomed, transition, docker, used>>

checkUnchanged == <<rest, held, cancelled, watcher, transition, engine, docker, used>>

\* Introduction of the wheels, pip install and verifyClosureInstallation.
Install ==
    /\ pc = "install"
    /\ Checked("begin", Anchor)
    /\ UNCHANGED <<checkUnchanged, books>>

Attached == {r \in Runtimes : Exists(r)}

\* verifyAttachments: the volume has exactly the attachments the executor made.
CheckAttachments(l, expected, next, r) ==
    /\ pc = l
    /\ \/ Attached = expected /\ Checked(next, r)
       \/ Attached # expected /\ GiveUp /\ UNCHANGED <<at, fault>>
    /\ UNCHANGED <<checkUnchanged, books>>

CheckPrepared == CheckAttachments("attachments", {Preparation, Anchor}, "terminate", Preparation)

\* The installation seen through the anchor is the one that was prepared.
ClosureFixed ==
    /\ pc = "prepared"
    /\ \/ /\ cancelled = "no" /\ Proceed("checkVolume") /\ at' = 2
          /\ ledger' = ledger \cup {"prepared", "anchored"} /\ UNCHANGED fault
       \/ GiveUp /\ Unless(cancelled = "yes") /\ UNCHANGED <<at, ledger>>
    /\ UNCHANGED <<checkUnchanged, booked, active, finished>>

--------------------------------------------------------------------------------
(* The executor: one unit. *)

\* verifyAnchorAndVolume, before the unit, with its runtime, and after it.
CheckVolume  == CheckAttachments("checkVolume", {Anchor}, "begin", at)
CheckProbe   == CheckAttachments("checkProbe", {Anchor, at}, "admit", at)
CheckClosure == CheckAttachments("checkClosure", {Anchor}, "read", at)

Admissible ==
    /\ "failed" \notin ledger /\ {"prepared", "anchored"} \subseteq ledger
    /\ active = NoUnit

BeginUnit ==
    /\ pc = "admit"
    /\ \/ Admissible /\ active' = at /\ Proceed("launch") /\ UNCHANGED fault
       \/ ~Admissible /\ GiveUp /\ UNCHANGED <<active, fault>>
       \/ GiveUp /\ Fault("soft") /\ UNCHANGED active
    /\ UNCHANGED <<at, checkUnchanged, ledger, booked, finished>>

unitUnchanged == <<at, unclean, todo, held, known, registered, trace, cancelled, watcher, transition,
                   container, volume, used>>

\* docker exec of the unit's program
Launch ==
    /\ pc = "launch"
    /\ IF cancelled = "no" /\ Running(at)
       THEN code' = code \cup {at} /\ UNCHANGED outcome /\ Proceed("command")
       ELSE outcome' = "signaled" /\ UNCHANGED code /\ Proceed("terminate")
    /\ UNCHANGED <<unitUnchanged, seen, books, engine, fault>>

\* An exit status counts only while the context is not done.
CommandEnds ==
    /\ pc = "command"
    /\ outcome' \in {"zero", "signaled"} \cup (IF cancelled = "no" THEN {"nonzero"} ELSE {})
    /\ Proceed("terminate")
    /\ UNCHANGED <<unitUnchanged, seen, code, books, engine, fault>>

\* The read before finishUnit does not take sampleMu.
BeginRead ==
    /\ pc = "read"
    /\ \/ /\ cancelled = "no" /\ session = "open" /\ MembersKnown
          /\ seen' = used /\ Proceed("reading") /\ UNCHANGED <<engine, fault>>
       \/ ReadFails /\ UNCHANGED seen /\ GiveUp
       \/ cancelled = "yes" /\ GiveUp /\ UNCHANGED <<seen, engine, fault>>
    /\ UNCHANGED <<unitUnchanged, outcome, code, books>>

\* The second half of the engine's read: v must not be below what another read
\* has meanwhile charged.
ReadReturns(v) ==
    /\ session = "open" /\ charged <= v /\ v <= Ceiling
    /\ charged' = v /\ UNCHANGED <<session, scopes, drained, fault>>

ReadRejected(v) ==
    /\ \/ session = "open" /\ v < charged /\ Overlap
       \/ (session # "open" \/ v > Ceiling) /\ UNCHANGED fault
       \/ Fault("soft")
    /\ session' = IF session = "open" THEN "failed" ELSE session
    /\ UNCHANGED <<scopes, drained, charged>>

EndRead ==
    /\ pc = "reading"
    /\ \/ ReadReturns(seen) /\ Proceed("finish")
       \/ ReadRejected(seen) /\ GiveUp
    /\ UNCHANGED <<unitUnchanged, seen, outcome, code, books>>

\* A required unit must exit with zero, a command unit may exit with another
\* status.
Qualifies(r, how) == how = "zero" \/ (r \in CommandUnits /\ how = "nonzero")

\* After the last unit the result is a completed one, if cleanup confirms it.
NextUnit ==
    IF at = N + 1
    THEN pc' = "stop" /\ stage' = "cleanup" /\ result' = "observed" /\ UNCHANGED <<at, error>>
    ELSE Proceed("checkVolume") /\ at' = at + 1

FinishUnit ==
    /\ pc = "finish"
    /\ outcome' = "none" /\ seen' = 0
    /\ \/ "failed" \in ledger /\ GiveUp /\ UNCHANGED <<at, books, fault>>
       \/ "failed" \notin ledger /\ AccountRejected(seen, FALSE) /\ GiveUp /\ UNCHANGED at
       \/ /\ Accepts(seen, FALSE) /\ ~Exhausted(seen) /\ booked' = seen
          /\ IF Qualifies(at, outcome)
             THEN /\ finished' = finished \cup {at} /\ active' = NoUnit
                  /\ NextUnit /\ UNCHANGED ledger
             ELSE /\ ledger' = ledger \cup {"failed", "terminal"} /\ GiveUp
                  /\ UNCHANGED <<at, active, finished>>
          /\ UNCHANGED fault
    /\ UNCHANGED <<unclean, todo, held, known, registered, trace, cancelled, watcher, transition,
                   engine, docker, used>>

--------------------------------------------------------------------------------
(* The executor: terminatePhase. *)

termUnchanged == <<stage, at, unclean, todo, outcome, seen, held, result, cancelled, watcher,
                   volume, code, used>>

\* A failed sample cannot keep a runtime from being removed.
BeginTermination ==
    /\ pc = "terminate" /\ SampleMuFree
    /\ \/ watch = "off" /\ UNCHANGED <<error, transition, books, engine, fault>>
       \/ watch # "off" /\ SampleOK(TRUE) /\ transition' = "yes" /\ UNCHANGED error
       \/ watch # "off" /\ SampleFails(TRUE) /\ error' = "yes" /\ UNCHANGED transition
    /\ Goto("evidence")
    /\ UNCHANGED <<termUnchanged, known, registered, trace, container>>

Evidence(r) == r \in known /\ trace[r] # "none" /\ r \in registered

\* A trace is read to its end once; the result is kept for a second call.
Collected(r, results) ==
    \E t \in IF trace[r] = "open" THEN results ELSE {trace[r]} : trace' = [trace EXCEPT ![r] = t]

TerminateRuntime ==
    /\ pc = "evidence"
    /\ \/ ~Evidence(at) /\ error' = "yes" /\ UNCHANGED <<known, trace, engine, container, fault>>
       \/ /\ Evidence(at) /\ TerminateOK(at)
          /\ \/ /\ Collected(at, {"complete"}) /\ trace'[at] = "complete"
                /\ known' = known \ {at} /\ UNCHANGED <<error, fault>>
             \/ /\ Collected(at, {"incomplete"}) /\ trace'[at] = "incomplete"
                /\ error' = "yes" /\ Fault("soft") /\ UNCHANGED known
       \/ /\ Evidence(at) /\ error' = "yes" /\ UNCHANGED known
          /\ \/ TerminateRefused(at) /\ Collected(at, {"incomplete"})
             \/ TerminateLost(at) /\ Collected(at, {"complete", "incomplete"})
             \/ TerminateRejected(at) /\ Collected(at, {"complete", "incomplete"})
             \/ TerminateStuck(at) /\ Collected(at, {"incomplete"}) /\ UNCHANGED container
    /\ Goto("terminated")
    /\ UNCHANGED <<termUnchanged, registered, transition, books>>

\* Mutant: cleanup does not remove a runtime whose termination failed.
TerminatedQuietly(failed) ==
    IF stage = "cleanup"
    THEN /\ Goto("dispose") /\ unclean' = (IF failed THEN "yes" ELSE unclean)
         /\ error' = "no" /\ UNCHANGED <<stage, result>>
    ELSE /\ IF failed THEN GiveUp
            ELSE Proceed(IF at = Preparation THEN "prepared" ELSE "checkClosure")
         /\ UNCHANGED unclean

\* The caller: in cleanup a runtime whose termination failed is removed anyway.
Terminated(failed) ==
    IF stage = "cleanup"
    THEN /\ IF failed THEN Goto("remove") /\ unclean' = "yes"
                      ELSE Goto("dispose") /\ UNCHANGED unclean
         /\ error' = "no" /\ UNCHANGED <<stage, result>>
    ELSE /\ IF failed THEN GiveUp
            ELSE Proceed(IF at = Preparation THEN "prepared" ELSE "checkClosure")
         /\ UNCHANGED unclean

EndTermination ==
    /\ pc = "terminated" /\ SampleMuFree
    /\ transition' = "no"
    /\ \/ transition = "no" /\ Terminated(error = "yes") /\ UNCHANGED <<books, engine, fault>>
       \/ transition = "yes" /\ SampleOK(TRUE) /\ Terminated(error = "yes")
       \/ transition = "yes" /\ SampleFails(TRUE) /\ Terminated(TRUE)
    /\ UNCHANGED <<at, todo, outcome, seen, held, known, registered, trace, cancelled, watcher,
                   docker, used>>

--------------------------------------------------------------------------------
(* The executor: cleanup, on a context of its own. *)

cleanUnchanged == <<stage, outcome, seen, held, known, registered, trace, watchErr, sampled, doomed,
                    transition, used>>

\* stop: the watcher is told to end, and the executor waits until it has.
StopWatch ==
    /\ pc = "stop"
    /\ IF watch = "off" THEN Goto("dispose") /\ todo' = known
                        ELSE Goto("awaitWatch") /\ UNCHANGED todo
    /\ UNCHANGED <<at, error, unclean, result, cancelled, watch, books, engine, docker, fault, cleanUnchanged>>

AwaitWatch ==
    /\ pc = "awaitWatch" /\ watch = "done"
    /\ cancelled' = "yes"
    /\ unclean' = IF watchErr = "none" THEN unclean ELSE "yes"
    /\ Goto("dispose") /\ todo' = known
    /\ UNCHANGED <<at, error, result, watch, books, engine, docker, fault, cleanUnchanged>>

\* Units first, the anchor last.
Disposable(r) ==
    /\ r \in todo
    /\ \/ r \in Units
       \/ r = Preparation /\ todo \cap Units = {}
       \/ todo = {Anchor}

Dispose ==
    /\ pc = "dispose"
    /\ \/ todo = {} /\ Goto("close") /\ UNCHANGED <<at, todo>>
       \/ \E r \in todo : Disposable(r) /\ at' = r /\ todo' = todo \ {r} /\ Goto("terminate")
    /\ UNCHANGED <<error, unclean, result, cancelled, watch, books, engine, docker, fault, cleanUnchanged>>

\* docker rm of a runtime whose termination failed
Remove ==
    /\ pc = "remove"
    /\ \/ Gone(at) /\ UNCHANGED fault
       \/ UNCHANGED container /\ Fault("hard")
    /\ Goto("dispose")
    /\ UNCHANGED <<at, error, unclean, todo, result, cancelled, watch, books, engine, volume, code, cleanUnchanged>>

\* Close is refused while a runtime is registered or an unknown one runs.
Closable == scopes = {} /\ MembersKnown

\* A failed session is closed all the same, but its transaction cannot qualify.
Close ==
    /\ pc = "close"
    /\ \/ "lease" \notin held /\ UNCHANGED <<session, drained, charged, unclean, fault>>
       \/ /\ "lease" \in held /\ Closable
          /\ session' = "closed" /\ drained' = {} /\ charged' = 0
          /\ \/ unclean' = (IF session = "failed" \/ used > Ceiling THEN "yes" ELSE unclean)
                /\ UNCHANGED fault
             \/ unclean' = "yes" /\ Fault("soft")
       \/ /\ "lease" \in held /\ ~Closable
          /\ session' = "failed" /\ unclean' = "yes" /\ UNCHANGED <<drained, charged, fault>>
       \/ /\ "lease" \in held /\ session' = "failed" /\ unclean' = "yes" /\ Fault("hard")
          /\ UNCHANGED <<drained, charged>>
    /\ Goto("disposeVolume")
    /\ UNCHANGED <<at, error, todo, result, cancelled, watch, books, scopes, docker, cleanUnchanged>>

\* Docker does not remove a volume that a container has attached.
RemoveVolume ==
    \/ "volume" \notin held /\ UNCHANGED <<volume, unclean, fault>>
    \/ /\ "volume" \in held /\ Attached = {} /\ volume' = "gone"
       /\ \/ UNCHANGED <<unclean, fault>>
          \/ unclean' = "yes" /\ Fault("soft")
    \/ /\ "volume" \in held /\ UNCHANGED volume /\ unclean' = "yes"
       /\ IF Attached = {} THEN Fault("hard") ELSE UNCHANGED fault

\* Only a cleanup without any error is recorded in the ledger.
DisposeVolume ==
    /\ pc = "disposeVolume"
    /\ RemoveVolume
    /\ ledger' = IF unclean' = "no" THEN (ledger \ {"anchored"}) \cup {"cleaned"} ELSE ledger
    /\ Goto("finalize")
    /\ UNCHANGED <<at, error, todo, result, cancelled, watch, booked, active, finished, engine,
                   container, code, cleanUnchanged>>

\* finalize
Final ==
    /\ {"failed", "anchored"} \cap ledger = {} /\ {"prepared", "cleaned"} \subseteq ledger
    /\ active = NoUnit /\ finished = Units

\* Mutant: an error of cleanup does not downgrade an observed transaction.
FinalizeAnyway ==
    /\ pc = "finalize"
    /\ result' = (IF result = "observed" /\ finished = Units THEN "completed" ELSE "incomplete")
    /\ Goto("done")
    /\ UNCHANGED <<at, error, unclean, todo, cancelled, watch, books, engine, docker, fault, cleanUnchanged>>

\* The deferred end: a completed result needs a clean cleanup and the ledger's
\* consent before the deadline.
Finalize ==
    /\ pc = "finalize"
    /\ \/ /\ result' = IF unclean = "no" /\ result = "observed" /\ Final THEN "completed" ELSE "incomplete"
          /\ UNCHANGED fault
       \/ result' = "incomplete" /\ Fault("soft")
    /\ Goto("done")
    /\ UNCHANGED <<at, error, unclean, todo, cancelled, watch, books, engine, docker, cleanUnchanged>>

--------------------------------------------------------------------------------
(* The watcher. *)

watchUnchanged == <<executor, transition, volume, code, used>>

\* observationCPUWatch.stop has closed w.stopping.
Stopping == pc = "awaitWatch"

\* A tick outside a transition starts a read.
WatchTick ==
    /\ watch = "idle" /\ ~Stopping /\ transition = "no"
    /\ \/ /\ cancelled = "no" /\ session = "open" /\ MembersKnown
          /\ watch' = "reading" /\ sampled' = used /\ UNCHANGED <<engine, fault, watchErr>>
       \/ ReadFails /\ watch' = "fault" /\ watchErr' = "some" /\ UNCHANGED sampled
       \/ /\ cancelled = "yes" /\ watch' = "fault" /\ watchErr' = "some"
          /\ UNCHANGED <<sampled, engine, fault>>
    /\ UNCHANGED <<watchUnchanged, cancelled, doomed, books, container>>

\* The second half of the engine's read.
WatchReadReturns ==
    /\ watch = "reading"
    /\ \/ ReadReturns(sampled) /\ watch' = "read" /\ UNCHANGED <<watchErr, sampled>>
       \/ ReadRejected(sampled) /\ watch' = "fault" /\ watchErr' = "some" /\ sampled' = 0
    /\ UNCHANGED <<watchUnchanged, cancelled, doomed, books, container>>

Accounted(termination) ==
    /\ watch = "read" /\ sampled' = 0
    /\ \/ AccountOK(sampled, termination) /\ watch' = "idle" /\ UNCHANGED watchErr
       \/ AccountRejected(sampled, termination) /\ watch' = "fault" /\ watchErr' = "some"
    /\ UNCHANGED <<watchUnchanged, cancelled, doomed, engine, container>>

\* After a rejected outcome the watcher goes on accounting the teardown.
WatchAccount == Accounted("terminal" \in ledger)

\* A tick within a transition only looks at its duration.
WatchLate ==
    /\ watch = "idle" /\ ~Stopping /\ transition = "yes"
    /\ watch' = "fault" /\ watchErr' = "some" /\ Fault("soft")
    /\ UNCHANGED <<watchUnchanged, cancelled, sampled, doomed, books, engine, container>>

\* Mutant: the watcher does not listen to stop.
WatchEndsLate ==
    /\ watch = "idle" /\ cancelled = "yes" /\ watch' = "done"
    /\ UNCHANGED <<watchUnchanged, cancelled, watchErr, sampled, doomed, books, engine, container, fault>>

WatchEnds ==
    /\ watch = "idle" /\ (Stopping \/ cancelled = "yes")
    /\ watch' = "done"
    /\ UNCHANGED <<watchUnchanged, cancelled, watchErr, sampled, doomed, books, engine, container, fault>>

\* A fault cancels the request and starts abortAll on the runtimes known now.
WatchCancel ==
    /\ watch = "fault" /\ watch' = "abort"
    /\ cancelled' = "yes" /\ doomed' = known
    /\ UNCHANGED <<watchUnchanged, watchErr, sampled, books, engine, container, fault>>

\* abortAll: the engine's termination and the controller's docker rm run side
\* by side; what either does removes the container.  A termination that
\* overlaps one of the executor fails the session, as a lost answer may.
AbortRuntime ==
    /\ watch = "abort"
    /\ \E r \in doomed :
         /\ doomed' = doomed \ {r}
         /\ \/ TerminateOK(r) /\ UNCHANGED fault
            \/ TerminateRejected(r)
            \/ TerminateLost(r)
            \/ TerminateStuck(r) /\ (UNCHANGED container \/ Gone(r))
            \/ /\ session \notin {"open", "failed"} \/ r \notin scopes \cup drained
               /\ UNCHANGED engine
               /\ \/ Gone(r) /\ UNCHANGED fault
                  \/ UNCHANGED container /\ Fault("soft")
    /\ UNCHANGED <<watchUnchanged, watch, watchErr, sampled, cancelled, books>>

AbortEnds ==
    /\ watch = "abort" /\ doomed = {} /\ watch' = "done"
    /\ UNCHANGED <<watchUnchanged, watchErr, sampled, doomed, cancelled, books, engine, container, fault>>

--------------------------------------------------------------------------------

\* The caller cancels, or the wall deadline passes.
Cancel ==
    /\ cancelled = "no" /\ pc # "done"
    /\ cancelled' = "yes" /\ Fault("soft")
    /\ UNCHANGED <<executor, watcher, transition, books, engine, docker, used>>

Executor ==
    \/ CreateLease \/ CreateVolume \/ BeginTransition \/ LaunchCreate \/ DockerCreate
    \/ StartTrace \/ DockerStart \/ Register \/ AwaitRuntime \/ EndTransition \/ StartWatch
    \/ Install \/ CheckPrepared \/ ClosureFixed \/ CheckVolume \/ CheckProbe \/ CheckClosure
    \/ BeginUnit \/ Launch \/ CommandEnds \/ BeginRead \/ EndRead \/ FinishUnit
    \/ BeginTermination \/ TerminateRuntime \/ EndTermination
    \/ StopWatch \/ AwaitWatch \/ Dispose \/ Remove \/ Close \/ DisposeVolume \/ Finalize

Watcher ==
    \/ WatchTick \/ WatchReadReturns \/ WatchAccount \/ WatchLate \/ WatchEnds
    \/ WatchCancel \/ AbortRuntime \/ AbortEnds

Next == Executor \/ Watcher \/ Burn \/ Cancel

\* Every call has a deadline, and a mutex that Go hands over in order lets the
\* executor take sampleMu between two ticks: its step is infinitely often
\* enabled, and is taken.
Spec == Init /\ [][Next]_vars /\ SF_vars(Executor) /\ WF_vars(Watcher)

--------------------------------------------------------------------------------
(* Properties. *)

\* "A successful experiment is downgraded if any runtime, observer stream,
\* cgroup or volume remains" (executeTrustedTransaction): a completed result
\* means that every unit was finished, every trace was read to its end, every
\* container, the volume and the session are gone, the CPU time stayed below
\* the ceiling and the watcher met no fault.
CompletedIsProven ==
    result = "completed" =>
        /\ finished = Units /\ watchErr = "none" /\ used <= Ceiling
        /\ \A r \in Runtimes : container[r] = "gone" /\ trace[r] = "complete"
        /\ volume = "gone" /\ session = "closed"

\* Artifact code runs only in a container whose CPU time the engine accounts,
\* whose trace is being recorded, and while nothing else but the anchor has
\* the closure attached: the preparation, which could write it, is gone.
CodeIsObserved ==
    \A r \in code :
        Running(r) /\ fault # "hard" =>
            r \in scopes /\ trace[r] = "open" /\ Attached \subseteq {Anchor, r}

\* What the run met: no call failed, was lost or late, nobody cancelled, and the
\* containers used less CPU time than authorized.  Two reads may have overlapped.
Undisturbed == fault \in {"none", "overlap"} /\ used < Ceiling - Reserve
Overlapped  == fault = "overlap"

\* One interleaving alone makes a fail-closed check fire, the overlap of the
\* executor's read before finishUnit with a read of the watcher: the healthy
\* transaction ends incomplete.  No other does: without it an undisturbed
\* transaction ends as its units did, with acceptable outcomes it completes,
\* whatever the order of watcher, lifecycle brackets and engine; an unacceptable
\* outcome is the only failure it reports, "rather than invent a second
\* admission failure" (sampleAccountingLocked), and its cleanup has no error of
\* its own.
UndisturbedEndsAsItRan ==
    pc = "done" /\ Undisturbed =>
        CASE Overlapped -> result = "incomplete"
          [] ~Overlapped /\ "terminal" \in ledger ->
                result = "incomplete" /\ watchErr = "none" /\ unclean = "no"
          [] OTHER -> result = "completed"

\* Whatever fails, is cancelled or exceeds its CPU time, a transaction leaves
\* no container, no volume and no session behind, unless Docker, systemd or a
\* lost answer kept it from knowing of them or from removing them.
EverythingDisposed ==
    pc = "done" /\ fault # "hard" =>
        Attached = {} /\ volume # "made" /\ session \in {"none", "closed"}

\* Every transaction ends: no call waits for a watcher that waits for it.
TransactionEnds == <>(pc = "done")
================================================================================
