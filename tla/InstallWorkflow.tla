-------------------------- MODULE InstallWorkflow --------------------------
(***************************************************************************)
(* The application's inspection and install workflows, from the exact       *)
(* graph the resolver locks to the promoted target: internal/application    *)
(* (install_inspect.go, install_promote.go, inspect.go), the Inspection Run *)
(* lifecycle of internal/core/domain/run.go, the per-ecosystem inspectors   *)
(* of internal/inspection and the policies of internal/policy.              *)
(*                                                                         *)
(* A step is one call of a port (Artifact, Verification, Inspection,        *)
(* Evidence, Derivation, Manifest, Staging, Promotion); every such call may *)
(* return an error, a cancelled context included.  What a container did is  *)
(* kept in "ran", so that a verdict can be compared with the behaviour it   *)
(* is about.  A sequence of observations is what collectTraceDiagnostic     *)
(* emits: each kind once, in the order of its first occurrence.             *)
(***************************************************************************)
EXTENDS Naturals, Sequences, FiniteSets

CONSTANTS
    Node,       \* the nodes of locked graphs
    Graphs,     \* the exact graphs a resolver may lock (records, see GraphType)
    Traces      \* the observation sequences a container may produce

Ecosystem == {"npm", "pypi", "github"}

\* LockedDependencyGraph: nodes, edges, the sdist nodes, the build requirements
\* an sdist's recipe names, the nodes that need a Host install action.
GraphType == [eco : Ecosystem, nodes : SUBSET Node, edges : SUBSET (Node \X Node),
              sdist : SUBSET Node, needs : [Node -> SUBSET Node],
              host : SUBSET Node]

ASSUME GraphsAssumption == Graphs \subseteq GraphType

\* The kinds collectTraceDiagnostic recognises and the Finding each becomes.
Blocking   == {"honeytoken-access", "filesystem-outside-workspace"}
Suspicious == {"network-attempt", "process-exec-unexpected"}
Kinds      == Blocking \cup Suspicious \cup {"process-exec-expected"}

ASSUME TracesAssumption == Traces \subseteq Seq(Kinds)

\* One subject of an Inspection Run: a locked node or the wheel derived from it.
Entry    == Node \X {"locked", "derived"}
Locked(n)  == <<n, "locked">>
Derived(n) == <<n, "derived">>

Verdict == {"ALLOW", "MANUAL_REVIEW", "BLOCK"}

VARIABLES
    pc,         \* the next port call
    command,    \* the command: "inspect" one artifact or "install" a set
    graph,      \* the locked graph
    mode,       \* "each" node in turn, the whole "graph", or the "derived" wheels
    todo,       \* the entries the current loop has still to visit
    cur,        \* the entry being processed
    run,        \* the lifecycle of each entry's Inspection Run
    subject,    \* whether the acquired bytes are the ones the graph declares
    verified,   \* the Verification outcome
    report,     \* the Inspection report: checks and Findings
    ran,        \* what the entry's container did
    evidence,   \* the entries whose Evidence is recorded
    decision,   \* the entry Policy decision
    builtFrom,  \* the wheels an sdist build has installed
    setDecision,\* the set Policy decision
    stored,     \* how far the verified set has gone: manifest, staging, target
    failure,    \* the failure code of the outcome
    faults      \* the port calls that returned an error

entryVars == <<run, subject, verified, report, ran, evidence, decision>>
setVars   == <<builtFrom, setDecision, stored>>
vars == <<pc, command, graph, mode, todo, cur, entryVars, setVars, failure, faults>>

NoReport == [static |-> "none", dynamic |-> "none", findings |-> << >>]
NoEntry  == <<"none", "none">>
NoGraph  == [eco |-> "npm", nodes |-> {}, edges |-> {}, sdist |-> {},
             needs |-> [n \in Node |-> {}], host |-> {}]

LockedEntries  == {Locked(n) : n \in graph.nodes}
DerivedEntries == {e \in Entry : e[2] = "derived" /\ run[e] # "none"}

Init ==
    /\ pc = "resolve" /\ command \in {"inspect", "install"} /\ graph = NoGraph /\ mode = "each"
    /\ todo = {} /\ cur = NoEntry
    /\ run = [e \in Entry |-> "none"]
    /\ subject = [e \in Entry |-> "none"]
    /\ verified = [e \in Entry |-> "none"]
    /\ report = [e \in Entry |-> NoReport]
    /\ ran = [e \in Entry |-> << >>]
    /\ evidence = {}
    /\ decision = [e \in Entry |-> "none"]
    /\ builtFrom = {} /\ setDecision = "none" /\ stored = "none"
    /\ failure = "none" /\ faults = {}

-----------------------------------------------------------------------------
(* How a workflow ends in error.                                            *)

\* FinalizeFailed acts on an ACTIVE run only and makes no decision.
FinalizeFailed(e, r) == IF r[e] = "ACTIVE" THEN [r EXCEPT ![e] = "FAILED"] ELSE r

\* The loop over the nodes and the derived wheels fails the run at hand.
failDependencyRun == run' = IF cur \in Entry THEN FinalizeFailed(cur, run) ELSE run

\* Mutant: the graph workflow fails only the run it was working on.
failCurrentOnly == failDependencyRun

\* The graph workflow holds every run open and fails all that are not finalized.
failPending ==
    run' = [e \in Entry |-> IF e \in LockedEntries THEN FinalizeFailed(e, run)[e] ELSE run[e]]

FailedRuns == IF mode = "graph" THEN failPending ELSE failDependencyRun

Fail(port) ==
    /\ FailedRuns
    /\ pc' = "ended"
    /\ failure' = IF command = "inspect" THEN "INSPECT_FAILED" ELSE "INSTALL_INSPECTION_FAILED"
    /\ faults' = faults \cup port
    /\ UNCHANGED <<command, graph, mode, todo, cur, subject, verified, report, ran,
                   evidence, decision, setVars>>

-----------------------------------------------------------------------------
(* Resolution, acquisition and verification.                                *)

\* A PyPI graph with edges is inspected as a whole; every other graph node by
\* node.  The inspect command has one artifact and no graph workflow.
Resolve ==
    /\ pc = "resolve"
    /\ \E g \in Graphs :
          /\ command = "inspect" => Cardinality(g.nodes) = 1
          /\ graph' = g
          /\ mode' = IF command = "install" /\ g.eco = "pypi" /\ g.edges # {} THEN "graph" ELSE "each"
          /\ todo' = {Locked(n) : n \in g.nodes}
    /\ pc' = "entry"
    /\ UNCHANGED <<command, cur, entryVars, setVars, failure, faults>>

ResolveFails == pc = "resolve" /\ Fail({"resolve"})

\* A run is created and activated; a derived wheel is bound at once, since the
\* build has already put its bytes into the intake.
BeginRun ==
    /\ pc = "entry"
    /\ \E e \in todo :
          /\ run' = [run EXCEPT ![e] = "ACTIVE"]
          /\ cur' = e /\ todo' = todo \ {e}
    /\ pc' = IF mode = "derived" THEN "verify" ELSE "acquire"
    /\ UNCHANGED <<command, graph, mode, subject, verified, report, ran, evidence,
                   decision, setVars, failure, faults>>

\* No run exists yet for the entry, so in the loop there is nothing to finalize.
RunIDFails == pc = "entry" /\ Fail({"runID"})

\* The npm intake keeps whatever bytes the registry serves; the PyPI and GitHub
\* intakes refuse bytes that differ from the locked digest.
IntakeBytes == IF graph.eco = "npm" THEN {"declared", "other"} ELSE {"declared"}

Acquire ==
    /\ pc = "acquire"
    /\ \E bytes \in IntakeBytes :
          subject' = [subject EXCEPT ![cur] = bytes]
    /\ pc' = "verify"
    /\ UNCHANGED <<command, graph, mode, todo, cur, run, verified, report, ran, evidence,
                   decision, setVars, failure, faults>>

AcquireFails == pc = "acquire" /\ Fail({"acquire"})

\* Where the workflow goes once the entry at hand is verified: the graph
\* workflow verifies every node before the first inspection.
AfterVerify ==
    IF mode = "graph"
    THEN IF todo = {} THEN pc' = "static" /\ todo' = LockedEntries
                      ELSE pc' = "entry" /\ UNCHANGED todo
    ELSE pc' = "static" /\ UNCHANGED todo

Verify ==
    /\ pc = "verify"
    /\ verified' = [verified EXCEPT ![cur] =
                      IF subject[cur] = "declared" THEN "VERIFIED" ELSE "MISMATCH"]
    /\ AfterVerify
    /\ UNCHANGED <<command, graph, mode, cur, run, subject, report, ran, evidence,
                   decision, setVars, failure, faults>>

VerifyFails == pc = "verify" /\ Fail({"verify"})

-----------------------------------------------------------------------------
(* Inspection.                                                              *)

IsSdist(e) == e[2] = "locked" /\ e[1] \in graph.sdist

\* The results of an archive inspection: nothing found, an ELF that must also be
\* run, an unsupported GitHub format to review, or a blocking finding.
StaticResults ==
    IF graph.eco = "github" THEN {"clean", "elf", "review", "block"} ELSE {"clean", "block"}

StaticReport(result) ==
    [static |-> result, dynamic |-> "none",
     findings |-> IF result \in {"review", "block"} THEN <<result>> ELSE << >>]

\* Whether the ecosystem's composite inspector goes on to a container: npm
\* always, PyPI for a wheel without findings, GitHub for an ELF.
RunsContainer(e, r) ==
    CASE graph.eco = "npm"    -> TRUE
      [] graph.eco = "pypi"   -> ~IsSdist(e) /\ r.findings = << >>
      [] graph.eco = "github" -> r.static = "elf"

StaticEach ==
    /\ pc = "static" /\ mode # "graph"
    /\ \E result \in StaticResults :
          LET r == StaticReport(result) IN
          /\ report' = [report EXCEPT ![cur] = r]
          /\ pc' = IF RunsContainer(cur, r) THEN "dynamic" ELSE "record"
    /\ UNCHANGED <<command, graph, mode, todo, cur, run, subject, verified, ran, evidence,
                   decision, setVars, failure, faults>>

\* Mutant: a finding does not hold back the containers of the other nodes.
StaticReadyIfWheels(reports) == \A e \in LockedEntries : ~IsSdist(e)

\* InspectGraph inspects every archive first and runs no container at all unless
\* each node is a wheel without findings.
StaticReady(reports) ==
    \A e \in LockedEntries : ~IsSdist(e) /\ reports[e].findings = << >>

StaticGraph ==
    /\ pc = "static" /\ mode = "graph"
    /\ \E e \in todo, result \in StaticResults :
          LET reports == [report EXCEPT ![e] = StaticReport(result)] IN
          /\ report' = reports /\ cur' = e
          /\ IF todo # {e}
             THEN pc' = "static" /\ todo' = todo \ {e}
             ELSE /\ pc' = IF StaticReady(reports) THEN "dynamic" ELSE "record"
                  /\ todo' = LockedEntries
    /\ UNCHANGED <<command, graph, mode, run, subject, verified, ran, evidence, decision,
                   setVars, failure, faults>>

\* The Findings a completed session's observations become.  A policy reads
\* whether there is one and which comes first, so the first stands for all.
dynamicFindingCodes(trace) ==
    LET found(i) == trace[i] \in Blocking \cup Suspicious
    IN  IF \A i \in DOMAIN trace : ~found(i) THEN << >>
        ELSE <<trace[CHOOSE i \in DOMAIN trace : found(i) /\ \A j \in 1..(i - 1) : ~found(j)]>>

\* One container: the report of a session that is not complete (observer loss, a
\* limit, an unavailable runtime, a failed cleanup) claims no finding.
DynamicReport(r, trace, status) ==
    [r EXCEPT !.dynamic = status,
              !.findings = IF status = "complete" THEN @ \o dynamicFindingCodes(trace) ELSE @]

InspectDynamic(e) ==
    \E trace \in Traces, status \in {"complete", "incomplete"} :
        /\ ran' = [ran EXCEPT ![e] = trace]
        /\ report' = [report EXCEPT ![e] = DynamicReport(@, trace, status)]

\* The typed static result of a derived wheel is dropped by
\* StaticInspector.InspectWheel, so its dynamic request is never valid.
DynamicRequestValid(e) == e[2] # "derived"

DynamicEach ==
    /\ pc = "dynamic" /\ mode # "graph" /\ DynamicRequestValid(cur)
    /\ InspectDynamic(cur)
    /\ pc' = "record"
    /\ UNCHANGED <<command, graph, mode, todo, cur, run, subject, verified, evidence,
                   decision, setVars, failure, faults>>

DynamicGraph ==
    /\ pc = "dynamic" /\ mode = "graph"
    /\ \E e \in todo :
          /\ InspectDynamic(e)
          /\ cur' = e
          /\ IF todo # {e} THEN pc' = "dynamic" /\ todo' = todo \ {e}
                           ELSE pc' = "record" /\ todo' = LockedEntries
    /\ UNCHANGED <<command, graph, mode, run, subject, verified, evidence, decision,
                   setVars, failure, faults>>

DynamicRejected == pc = "dynamic" /\ mode # "graph" /\ ~DynamicRequestValid(cur) /\ Fail({})

InspectFails == pc \in {"static", "dynamic"} /\ Fail({"inspect"})

-----------------------------------------------------------------------------
(* Evidence and the entry decision.                                         *)

Record ==
    /\ pc = "record"
    /\ \E e \in IF mode = "graph" THEN todo ELSE {cur} :
          /\ evidence' = evidence \cup {e}
          /\ cur' = e
          /\ todo' = IF mode = "graph" THEN todo \ {e} ELSE todo
    /\ pc' = "decide"
    /\ UNCHANGED <<command, graph, mode, run, subject, verified, report, ran, decision,
                   setVars, failure, faults>>

RecordFails == pc = "record" /\ Fail({"record"})

\* The first finding decides: M3 reviews a network attempt or an unexpected
\* process and blocks on every other code, M6 reviews an unsupported format.
FirstFinding(eco, code) ==
    IF code \in (IF eco = "github" THEN {"review"} ELSE Suspicious)
    THEN "MANUAL_REVIEW" ELSE "BLOCK"

\* Evaluate of M3, and of M6 for a GitHub asset (whose ELF needs a dynamic check).
Evaluate(eco, v, r) ==
    IF v = "MISMATCH" THEN "BLOCK"
    ELSE IF r.findings # << >> THEN FirstFinding(eco, Head(r.findings))
    ELSE IF r.dynamic = "incomplete" THEN "MANUAL_REVIEW"
    ELSE IF eco = "github" /\ r.static = "elf" /\ r.dynamic # "complete" THEN "MANUAL_REVIEW"
    ELSE "ALLOW"

\* Where the workflow goes once an entry is decided.
AfterDecide ==
    IF command = "inspect" THEN "ended"
    ELSE IF todo # {} THEN IF mode = "graph" THEN "record" ELSE "entry"
    ELSE IF graph.eco = "pypi" /\ mode # "derived" THEN "derive" ELSE "set"

Decide ==
    /\ pc = "decide"
    /\ decision' = [decision EXCEPT ![cur] = Evaluate(graph.eco, verified[cur], report[cur])]
    /\ run' = [run EXCEPT ![cur] = "COMPLETED"]
    /\ pc' = AfterDecide
    /\ UNCHANGED <<command, graph, mode, todo, cur, subject, verified, report, ran, evidence,
                   setVars, failure, faults>>

-----------------------------------------------------------------------------
(* Derived wheels.                                                          *)

allowComplete(e) == decision[e] = "ALLOW" /\ report[e].dynamic # "incomplete"

Sdists == graph.sdist \cap graph.nodes
AllowedWheels == {n \in graph.nodes \ graph.sdist : allowComplete(Locked(n))}

\* An sdist is built only from an allowed source and allowed wheels that cover
\* its recipe; a recipe without requirements is refused.
Buildable(n) == allowComplete(Locked(n)) /\ graph.needs[n] # {} /\ graph.needs[n] \subseteq AllowedWheels

NothingToDerive ==
    /\ pc = "derive" /\ Sdists = {}
    /\ pc' = "set"
    /\ UNCHANGED <<command, graph, mode, todo, cur, entryVars, setVars, failure, faults>>

\* The build's container is observed to completion; its observations are not
\* turned into findings.
Derive ==
    /\ pc = "derive" /\ Sdists # {} /\ \A n \in Sdists : Buildable(n)
    /\ builtFrom' = {Locked(m) : m \in UNION {graph.needs[n] : n \in Sdists}}
    /\ subject' = [e \in Entry |-> IF e \in {Derived(n) : n \in Sdists} THEN "declared"
                                                                     ELSE subject[e]]
    /\ mode' = "derived" /\ todo' = {Derived(n) : n \in Sdists}
    /\ pc' = "entry"
    /\ UNCHANGED <<command, graph, cur, run, verified, report, ran, evidence, decision,
                   setDecision, stored, failure, faults>>

DeriveRefused == pc = "derive" /\ (\E n \in Sdists : ~Buildable(n)) /\ Fail({})

BuildFails == pc = "derive" /\ Sdists # {} /\ Fail({"build"})

-----------------------------------------------------------------------------
(* The set decision, staging and promotion.                                 *)

InspectedEntries == LockedEntries \cup DerivedEntries

\* Mutant: every set waits for a derived wheel, not only one with an sdist.
EvaluateSetDerived ==
    IF \E e \in InspectedEntries : decision[e] = "BLOCK" THEN "BLOCK"
    ELSE IF \E n \in graph.nodes : graph.eco = "pypi" /\ Derived(n) \notin DerivedEntries
         THEN "MANUAL_REVIEW"
    ELSE IF \E e \in InspectedEntries : ~allowComplete(e) THEN "MANUAL_REVIEW"
    ELSE "ALLOW"

\* Mutant: a set is promoted unless an entry is blocked.
EvaluateSetBlockOnly ==
    IF \E e \in InspectedEntries : decision[e] = "BLOCK" THEN "BLOCK" ELSE "ALLOW"

\* EvaluateSet of M4 (npm), M5 (PyPI) and M6 (GitHub).
EvaluateSet ==
    IF \E e \in InspectedEntries : decision[e] = "BLOCK" THEN "BLOCK"
    ELSE IF graph.eco = "npm" /\ graph.host # {} THEN "MANUAL_REVIEW"
    ELSE IF graph.eco = "pypi" /\ \E n \in Sdists : Derived(n) \notin DerivedEntries
         THEN "MANUAL_REVIEW"
    ELSE IF \E e \in InspectedEntries : ~allowComplete(e) THEN "MANUAL_REVIEW"
    ELSE "ALLOW"

DecideSet ==
    /\ pc = "set"
    /\ setDecision' = EvaluateSet
    /\ pc' = IF EvaluateSet = "ALLOW" THEN "manifest" ELSE "ended"
    /\ UNCHANGED <<command, graph, mode, todo, cur, entryVars, builtFrom, stored, failure, faults>>

Advance(at, done, next) ==
    /\ pc = at
    /\ stored' = done /\ pc' = next
    /\ UNCHANGED <<command, graph, mode, todo, cur, entryVars, builtFrom, setDecision,
                   failure, faults>>

BuildManifest == Advance("manifest", "manifest", "stage")
Stage         == Advance("stage", "staged", "promote")
Promote       == Advance("promote", "promoted", "ended")

StoreFails ==
    /\ pc \in {"manifest", "stage", "promote"}
    /\ failure' = CASE pc = "manifest" -> "MANIFEST_GENERATION_FAILED"
                    [] pc = "stage"    -> "STAGING_FAILED"
                    [] pc = "promote"  -> "PROMOTION_FAILED"
    /\ faults' = faults \cup {pc}
    /\ pc' = "ended"
    /\ UNCHANGED <<command, graph, mode, todo, cur, entryVars, setVars>>

Next ==
    \/ Resolve \/ ResolveFails \/ BeginRun \/ RunIDFails \/ Acquire \/ AcquireFails
    \/ Verify \/ VerifyFails \/ StaticEach \/ StaticGraph \/ DynamicEach \/ DynamicGraph
    \/ DynamicRejected \/ InspectFails \/ Record \/ RecordFails \/ Decide
    \/ NothingToDerive \/ Derive \/ DeriveRefused \/ BuildFails
    \/ DecideSet \/ BuildManifest \/ Stage \/ Promote \/ StoreFails

Spec == Init /\ [][Next]_vars

-----------------------------------------------------------------------------
(* Properties.                                                              *)

\* What an install executes on the Host or in a container: everything but an
\* sdist and a GitHub asset that is not an ELF.
Executable(e) ==
    \/ graph.eco = "npm"
    \/ graph.eco = "pypi" /\ ~IsSdist(e)
    \/ graph.eco = "github" /\ report[e].static = "elf"

Occurred(e) == {ran[e][i] : i \in DOMAIN ran[e]}

\* Whatever error ends a workflow, it leaves no Inspection Run open: the graph
\* workflow holds many at once and has to fail those it has not decided
\* (install_inspect.go failPending, failDependencyRun; inspect.go failRun).
NoRunLeftOpen == pc = "ended" => \A e \in Entry : run[e] # "ACTIVE"

\* Nothing reaches staging or the target unless every node of the graph and
\* every derived wheel is the declared bytes, was decided ALLOW on recorded
\* Evidence by a completed run, and, when it is executable, ran to completion in
\* a container in which nothing blocking or suspicious happened.
PromotedIsInspected ==
    stored \in {"staged", "promoted"} =>
        \A e \in InspectedEntries :
            /\ run[e] = "COMPLETED" /\ decision[e] = "ALLOW"
            /\ subject[e] = "declared" /\ e \in evidence
            /\ Executable(e) => report[e].dynamic = "complete"
            /\ Occurred(e) \cap (Blocking \cup Suspicious) = {}

\* A wheel that the static inspection blocked is never made executable, not even
\* as a dependency installed for another node's container (composite.go
\* InspectGraph): a container runs in a graph only when no node has a finding.
NoBlockedWheelExecuted ==
    mode = "graph" =>
        \A e \in LockedEntries : report[e].dynamic # "none" =>
            \A d \in LockedEntries : report[d].static = "clean" /\ ~IsSdist(d)

Clean(e) ==
    /\ subject[e] = "declared" /\ report[e].static \in {"clean", "elf"}
    /\ report[e].dynamic # "incomplete"
    /\ Occurred(e) \cap (Blocking \cup Suspicious) = {}

\* The other direction: an install of locked wheels, packages or an asset in
\* which nothing was wrong and no port failed is promoted.
CleanInstallIsPromoted ==
    /\ pc = "ended" /\ command = "install" /\ faults = {}
    /\ graph.sdist = {} /\ graph.host = {}
    /\ \A e \in LockedEntries : Clean(e)
    => stored = "promoted"

\* docs/domain-model/14-m5-pypi-pip-contract.md:164: an install of an sdist whose
\* runtime, build and derived entries are all complete and clean is promoted.
CleanSdistIsPromoted ==
    /\ pc = "ended" /\ command = "install" /\ faults = {} /\ graph.eco = "pypi"
    /\ builtFrom # {} /\ \A e \in InspectedEntries : Clean(e)
    => stored = "promoted"
=============================================================================
