------------------------ MODULE InstallWorkflowProofs ------------------------
(***************************************************************************)
(* Machine-checked proofs about InstallWorkflow, for every set of graphs   *)
(* and every set of traces: no error leaves an Inspection Run open, what   *)
(* reaches staging was inspected, a blocked wheel is not executed and a    *)
(* clean install is promoted.                                              *)
(***************************************************************************)
EXTENDS InstallWorkflow, SequenceTheorems, WellFoundedInduction, TLAPS

-----------------------------------------------------------------------------
(* The inductive invariant                                                 *)

Before   == {"entry", "acquire", "verify", "static", "dynamic"}
AtEntry  == {"acquire", "verify", "static", "dynamic", "record", "decide"}
Storing  == {"manifest", "stage", "promote"}
Labels   == {"resolve", "entry", "derive", "set", "ended"} \cup AtEntry \cup Storing
Deciding == pc \in {"set", "manifest", "stage", "promote", "ended"}
Codes    == Kinds \cup {"review", "block"}
Reports  == [static : {"none", "clean", "elf", "review", "block"},
             dynamic : {"none", "complete", "incomplete"}, findings : Seq(Codes)]

TypeOK ==
    /\ pc \in Labels /\ command \in {"inspect", "install"}
    /\ graph \in GraphType /\ mode \in {"each", "graph", "derived"}
    /\ todo \subseteq Entry /\ cur \in Entry \cup {NoEntry}
    /\ run \in [Entry -> {"none", "ACTIVE", "COMPLETED", "FAILED"}]
    /\ subject \in [Entry -> {"none", "declared", "other"}]
    /\ verified \in [Entry -> {"none", "VERIFIED", "MISMATCH"}]
    /\ report \in [Entry -> Reports]
    /\ ran \in [Entry -> Seq(Kinds)]
    /\ evidence \subseteq Entry
    /\ decision \in [Entry -> Verdict \cup {"none"}]
    /\ stored \in {"none", "manifest", "staged", "promoted"}

\* The entries of the loop at hand.
Loop == IF mode = "derived" THEN {Derived(n) : n \in Sdists} ELSE LockedEntries

\* Which loop runs for which command and graph, and over which entries.
Placement ==
    /\ todo \subseteq Loop
    /\ mode # "each" => graph.eco = "pypi" /\ command = "install"
    /\ mode = "derived" => Sdists # {}
    /\ pc = "resolve" => mode = "each" /\ graph = NoGraph
    /\ pc = "derive" => mode # "derived" /\ graph.eco = "pypi" /\ command = "install"
    /\ pc \in AtEntry /\ (mode # "graph" \/ pc \in {"acquire", "verify", "decide"}) => cur \in Loop
    /\ pc \in AtEntry /\ (mode # "graph" \/ pc = "decide") => cur \notin todo

\* The entries of the loop that are not decided yet.
Pending ==
    IF mode = "graph" /\ pc \in Before THEN LockedEntries
    ELSE IF pc = "entry" \/ (mode = "graph" /\ pc = "record") THEN todo
    ELSE IF pc \in AtEntry THEN todo \cup {cur}
    ELSE {}

\* The graph workflow has many runs open at once, the loops one.
Open == IF mode = "graph" THEN Pending ELSE IF pc \in AtEntry THEN {cur} ELSE {}
OpenRuns ==
    /\ \A e \in Entry : run[e] = "ACTIVE" => e \in Open
    /\ \A e \in Pending : run[e] # "COMPLETED"
    /\ pc = "resolve" => \A e \in Entry : run[e] = "none"

\* Derived wheels have runs in the last loop only.
DerivedRuns ==
    \A e \in Entry : e[2] = "derived" /\ run[e] # "none" => mode = "derived"

\* The outcome of the Verification follows from the bytes.
Checked(e) == verified[e] = IF subject[e] = "declared" THEN "VERIFIED" ELSE "MISMATCH"
Verifications ==
    IF mode = "graph"
    THEN \A e \in LockedEntries :
            \/ pc \in AtEntry \ {"acquire", "verify"}
            \/ pc = "entry" /\ e \notin todo
            \/ pc \in {"acquire", "verify"} /\ e \notin todo \cup {cur}
            => Checked(e)
    ELSE pc \in AtEntry \ {"acquire", "verify"} => Checked(cur)

\* What the fields of a report say of one another and of the container.
Quiet(trace) == \A i \in DOMAIN trace : trace[i] \notin Blocking \cup Suspicious
Consistent(e) ==
    LET r == report[e] IN
    /\ r.static \in {"review", "block"} => r.findings # << >>
    /\ r.static \notin {"review", "block"} /\ r.dynamic = "none" => r.findings = << >>
    /\ r.dynamic = "none" => ran[e] = << >>
    /\ r.dynamic = "complete" /\ r.findings = << >> => Quiet(ran[e])
    /\ r.static \notin {"review", "block"} /\ r.dynamic = "complete" /\ Quiet(ran[e]) =>
           r.findings = << >>
    /\ graph.eco # "github" => r.static \notin {"elf", "review"}
Consistency == \A e \in Entry : Consistent(e)

\* The entries no container has run for.
Unstarted(e) ==
    \/ pc = "resolve"
    \/ mode # "derived" /\ e[2] = "derived"
    \/ mode = "graph" /\ pc \in Before \ {"dynamic"} /\ e \in LockedEntries
    \/ mode = "graph" /\ pc = "dynamic" /\ e \in todo
    \/ mode # "graph" /\ pc \in AtEntry \cup {"entry"} /\ e \in todo
    \/ mode # "graph" /\ pc \in Before \ {"entry"} /\ e = cur
Fresh == \A e \in Entry : Unstarted(e) => report[e].dynamic = "none"

\* An entry is inspected as the composite inspector says.
Inspected(e) ==
    /\ report[e].static # "none"
    /\ mode = "each" => (report[e].dynamic = "none" => ~RunsContainer(e, report[e]))
    /\ e[2] = "derived" => report[e].findings # << >>
Inspections ==
    /\ mode # "graph" /\ pc = "dynamic" => report[cur].static # "none"
    /\ mode # "graph" /\ pc \in {"record", "decide"} => Inspected(cur)
    /\ pc = "decide" => cur \in evidence

\* The containers of a graph run after every archive was inspected, for all of
\* its nodes or for none.
GraphInspections ==
    mode = "graph" =>
        /\ pc = "static" => \A e \in LockedEntries \ todo : report[e].static # "none"
        /\ pc = "dynamic" =>
              /\ \A e \in LockedEntries : report[e].static = "clean" /\ ~IsSdist(e)
              /\ \A e \in LockedEntries \ todo : report[e].dynamic # "none"
        /\ pc \notin Before \cup {"ended"} =>
              /\ \A e \in LockedEntries : report[e].static # "none"
              /\ \/ \A e \in LockedEntries : report[e].dynamic # "none"
                 \/ \E e \in LockedEntries : IsSdist(e) \/ report[e].findings # << >>

\* A decision is of a completed run, on recorded Evidence, and is what Policy
\* says of the entry; entries are decided in the order of the loop.
Decisions ==
    /\ \A e \in Entry : decision[e] # "none" =>
          /\ run[e] = "COMPLETED" /\ e \in evidence
          /\ Checked(e) /\ Inspected(e)
          /\ decision[e] = Evaluate(graph.eco, verified[e], report[e])
    /\ \A e \in LockedEntries : decision[e] = "none" => e \in Pending \/ pc = "ended"

\* An entry that may be staged.
Approved(e) ==
    /\ run[e] = "COMPLETED" /\ decision[e] = "ALLOW"
    /\ subject[e] = "declared" /\ e \in evidence
    /\ Executable(e) => report[e].dynamic = "complete"
    /\ Occurred(e) \cap (Blocking \cup Suspicious) = {}
Stored ==
    /\ stored # "none" => pc \in {"stage", "promote", "ended"}
    /\ pc \in Storing \/ stored # "none" => \A e \in InspectedEntries : Approved(e)

IInv ==
    /\ TypeOK /\ Placement /\ OpenRuns /\ DerivedRuns /\ Verifications /\ Consistency
    /\ Fresh /\ Inspections /\ GraphInspections /\ Decisions /\ Stored
    /\ NoBlockedWheelExecuted /\ CleanInstallIsPromoted

-----------------------------------------------------------------------------
(* Operators                                                               *)

\* The entries of a graph, locked and derived, are entries.
LEMMA Entries ==
    ASSUME graph \in GraphType
    PROVE  /\ LockedEntries \subseteq Entry /\ \A e \in LockedEntries : e[2] = "locked"
           /\ {Derived(n) : n \in Sdists} \subseteq Entry
           /\ \A e \in {Derived(n) : n \in Sdists} : e[2] = "derived"
           /\ Loop \subseteq Entry /\ NoEntry \notin Entry
           /\ \A e \in Entry : e[2] = "derived" => ~IsSdist(e)
  BY DEF GraphType, LockedEntries, Locked, Derived, Sdists, Entry, Loop, NoEntry, IsSdist

\* Everything that is read off the graph stays while the graph does.
LEMMA SameGraph ==
    ASSUME graph' = graph
    PROVE  /\ LockedEntries' = LockedEntries /\ Sdists' = Sdists
           /\ \A e : IsSdist(e)' = IsSdist(e)
           /\ \A e, r : RunsContainer(e, r)' = RunsContainer(e, r)
           /\ mode' = mode => Loop' = Loop
  BY DEF LockedEntries, Sdists, IsSdist, RunsContainer, Loop, Locked, Derived

-----------------------------------------------------------------------------
(* An error ends the workflow                                              *)

\* The errors: of a port, or of an install of a source distribution.
Excused == faults' # {} \/ graph.sdist # {}
LEMMA FailStep ==
    ASSUME IInv, NEW port, Fail(port), Excused, ~Deciding
    PROVE  IInv'
  <1> USE DEF IInv
  <1>1. /\ pc' = "ended"
        /\ UNCHANGED <<command, graph, mode, todo, cur, subject, verified, report, ran,
                        evidence, decision, builtFrom, setDecision, stored>>
    BY DEF Fail, setVars
  <1>2. /\ run' \in [Entry -> {"none", "ACTIVE", "COMPLETED", "FAILED"}]
        /\ \A e \in Entry : /\ run'[e] # "ACTIVE"
                            /\ run[e] # "ACTIVE" => run'[e] = run[e]
    <2>1. CASE mode = "graph"
      <3>1. run' = [e \in Entry |-> IF e \in LockedEntries
                                     THEN FinalizeFailed(e, run)[e] ELSE run[e]]
        BY <2>1 DEF Fail, FailedRuns, failPending
      <3>2. \A e \in Entry : run[e] = "ACTIVE" => e \in LockedEntries
        BY <2>1 DEF OpenRuns, Open, Pending, Placement, Loop, AtEntry, Before
      <3> QED BY <3>1, <3>2 DEF FinalizeFailed, TypeOK
    <2>2. CASE mode # "graph"
      <3>1. run' = IF cur \in Entry THEN FinalizeFailed(cur, run) ELSE run
        BY <2>2 DEF Fail, FailedRuns, failDependencyRun
      <3> QED BY <2>2, <3>1 DEF FinalizeFailed, TypeOK, OpenRuns, Open
    <2> QED BY <2>1, <2>2
  <1>3. TypeOK'
    BY <1>1, <1>2 DEF TypeOK, Labels
  <1>11. Placement'
    BY <1>1, SameGraph DEF Placement, AtEntry
  <1>4. OpenRuns'
    BY <1>1, <1>2 DEF OpenRuns, Open, Pending, Before, AtEntry
  <1>5. DerivedRuns'
    BY <1>1, <1>2 DEF DerivedRuns
  <1>6. Verifications' /\ Fresh' /\ Consistency' /\ Inspections' /\ GraphInspections'
    BY <1>1 DEF Verifications, Fresh, Unstarted, Consistency, Consistent, Inspections,
                GraphInspections, AtEntry, Before
  <1>7. Decisions'
    BY <1>1, <1>2, SameGraph DEF Decisions, Checked, Inspected
  <1>8. stored' = "none"
    BY <1>1 DEF Stored, Deciding
  <1>9. Stored' /\ NoBlockedWheelExecuted'
    BY <1>1, <1>8, SameGraph DEF Stored, Storing, NoBlockedWheelExecuted
  <1>10. CleanInstallIsPromoted'
    BY <1>1 DEF CleanInstallIsPromoted, Excused
  <1> QED BY <1>3, <1>11, <1>4, <1>5, <1>6, <1>7, <1>9, <1>10

-----------------------------------------------------------------------------
(* Acquisition and verification                                            *)

\* A workflow that goes on has stored nothing and has not ended.
LEMMA GoesOn ==
    ASSUME IInv, ~Deciding, stored' = stored, pc' \notin Storing \cup {"ended"}
    PROVE  Stored' /\ CleanInstallIsPromoted'
  BY DEF IInv, Stored, CleanInstallIsPromoted, Deciding, Storing

LEMMA ResolveStep == IInv /\ Resolve => IInv'
  <1> SUFFICES ASSUME IInv, Resolve PROVE IInv'
    OBVIOUS
  <1> USE DEF IInv
  <1>1. /\ pc = "resolve" /\ pc' = "entry"
        /\ UNCHANGED <<command, cur, run, subject, verified, report, ran, evidence,
                       decision, stored>>
    BY DEF Resolve, entryVars, setVars
  <1>2. /\ graph' \in GraphType /\ mode' \in {"each", "graph"} /\ todo' = LockedEntries'
        /\ mode' # "each" => graph'.eco = "pypi" /\ command = "install"
    BY GraphsAssumption DEF Resolve, LockedEntries, Locked
  <1>3. \A e \in Entry : run[e] = "none" /\ decision[e] = "none" /\ report[e].dynamic = "none"
    BY <1>1 DEF OpenRuns, Decisions, Fresh, Unstarted
  <1>4. LockedEntries' \subseteq Entry
    BY <1>2 DEF GraphType, LockedEntries, Locked, Entry
  <1>5. TypeOK'
    BY <1>1, <1>2, <1>4 DEF TypeOK, Labels
  <1>6. Placement'
    BY <1>1, <1>2, <1>4 DEF Placement, Loop, AtEntry
  <1>7. OpenRuns' /\ DerivedRuns'
    BY <1>1, <1>2, <1>3, <1>4 DEF OpenRuns, DerivedRuns, Pending, Before
  <1>8. Consistency'
    BY <1>1, <1>3 DEF Consistency, Consistent, Placement, NoGraph
  <1>9. Verifications' /\ Inspections' /\ GraphInspections' /\ Fresh'
    BY <1>1, <1>2, <1>3
       DEF Verifications, Inspections, GraphInspections, Fresh, AtEntry, Before
  <1>10. Decisions' /\ NoBlockedWheelExecuted'
    BY <1>1, <1>2, <1>3, <1>4 DEF Decisions, Pending, Before, NoBlockedWheelExecuted
  <1>11. Stored' /\ CleanInstallIsPromoted'
    BY <1>1, GoesOn DEF Deciding, Storing
  <1> QED BY <1>5, <1>6, <1>7, <1>8, <1>9, <1>10, <1>11

LEMMA BeginRunStep == IInv /\ BeginRun => IInv'
  <1> SUFFICES ASSUME IInv, BeginRun PROVE IInv'
    OBVIOUS
  <1> USE DEF IInv
  <1>1. PICK e \in todo : /\ run' = [run EXCEPT ![e] = "ACTIVE"]
                          /\ cur' = e /\ todo' = todo \ {e}
    BY DEF BeginRun
  <1>2. /\ pc = "entry" /\ pc' = IF mode = "derived" THEN "verify" ELSE "acquire"
        /\ UNCHANGED <<command, graph, mode, subject, verified, report, ran, evidence,
                       decision, stored>>
    BY DEF BeginRun, setVars
  <1>3. e \in Loop /\ e \in Entry
    BY DEF Placement, TypeOK
  <1>4. TypeOK'
    BY <1>1, <1>2, <1>3 DEF TypeOK, Labels, AtEntry
  <1>5. Placement'
    BY <1>1, <1>2, <1>3, SameGraph DEF Placement, AtEntry
  <1>6. OpenRuns'
    BY <1>1, <1>2, <1>3, SameGraph
       DEF OpenRuns, Open, Pending, Before, AtEntry, Placement, Loop, TypeOK
  <1>7. DerivedRuns'
    BY <1>1, <1>2, <1>3, Entries DEF DerivedRuns, Loop, TypeOK
  <1>8. Verifications'
    BY <1>1, <1>2, SameGraph DEF Verifications, Checked, AtEntry
  <1>9. Consistency' /\ Inspections' /\ NoBlockedWheelExecuted'
    BY <1>2, SameGraph
       DEF Consistency, Consistent, Inspections, NoBlockedWheelExecuted
  <1>10. Fresh'
    BY <1>1, <1>2, SameGraph DEF Fresh, Unstarted, AtEntry, Before
  <1>11. GraphInspections'
    BY <1>2 DEF GraphInspections, Before
  <1>12. Decisions'
    <2>1. e \in Pending /\ \A f \in Pending : f \in Pending'
      BY <1>1, <1>2, <1>3, SameGraph DEF Pending, Before, AtEntry, Loop, Placement, TypeOK
    <2>2. decision[e] = "none"
      BY <1>3, <2>1 DEF OpenRuns, Decisions
    <2> QED
      BY <1>1, <1>2, <1>3, <2>1, <2>2, SameGraph DEF Decisions, Checked, Inspected, TypeOK
  <1>13. Stored' /\ CleanInstallIsPromoted'
    BY <1>2, GoesOn DEF Deciding, Storing
  <1> QED BY <1>4, <1>5, <1>6, <1>7, <1>8, <1>9, <1>10, <1>11, <1>12, <1>13

LEMMA AcquireStep == IInv /\ Acquire => IInv'
  <1> SUFFICES ASSUME IInv, Acquire PROVE IInv'
    OBVIOUS
  <1> USE DEF IInv
  <1>1. PICK bytes \in {"declared", "other"} : subject' = [subject EXCEPT ![cur] = bytes]
    BY DEF Acquire, IntakeBytes
  <1>2. /\ pc = "acquire" /\ pc' = "verify"
        /\ UNCHANGED <<command, graph, mode, todo, cur, run, verified, report, ran, evidence,
                       decision, stored>>
    BY DEF Acquire, setVars
  <1>3. cur \in Loop /\ cur \in Entry /\ cur \in Pending
    BY <1>2, Entries DEF Placement, TypeOK, AtEntry, Pending, Before, Loop
  <1>4. TypeOK'
    BY <1>1, <1>2, <1>3 DEF TypeOK, Labels, AtEntry
  <1>5. Placement'
    BY <1>2, SameGraph DEF Placement, AtEntry
  <1>6. Pending' = Pending /\ Open' = Open
    BY <1>2, SameGraph DEF Open, Pending, Before, AtEntry
  <1>7. OpenRuns' /\ DerivedRuns'
    BY <1>2, <1>6 DEF OpenRuns, DerivedRuns
  <1>8. Verifications'
    BY <1>1, <1>2, SameGraph DEF Verifications, Checked, AtEntry, TypeOK
  <1>9. Consistency' /\ Inspections' /\ NoBlockedWheelExecuted'
    BY <1>2, SameGraph
       DEF Consistency, Consistent, Inspections, NoBlockedWheelExecuted
  <1>10. Fresh' /\ GraphInspections'
    BY <1>2, SameGraph DEF Fresh, Unstarted, GraphInspections, AtEntry, Before
  <1>11. Decisions'
    BY <1>1, <1>2, <1>3, <1>6, SameGraph DEF Decisions, Checked, Inspected, OpenRuns, TypeOK
  <1>12. Stored' /\ CleanInstallIsPromoted'
    BY <1>2, GoesOn DEF Deciding, Storing
  <1> QED BY <1>4, <1>5, <1>7, <1>8, <1>9, <1>10, <1>11, <1>12

LEMMA VerifyStep == IInv /\ Verify => IInv'
  <1> SUFFICES ASSUME IInv, Verify PROVE IInv'
    OBVIOUS
  <1> USE DEF IInv
  <1>1. /\ pc = "verify"
        /\ verified' = [verified EXCEPT ![cur] =
                          IF subject[cur] = "declared" THEN "VERIFIED" ELSE "MISMATCH"]
        /\ UNCHANGED <<command, graph, mode, cur, run, subject, report, ran, evidence,
                       decision, stored>>
    BY DEF Verify, setVars
  <1>2. \/ mode = "graph" /\ todo = {} /\ pc' = "static" /\ todo' = LockedEntries
        \/ mode = "graph" /\ todo # {} /\ pc' = "entry" /\ todo' = todo
        \/ mode # "graph" /\ pc' = "static" /\ todo' = todo
    BY DEF Verify, AfterVerify
  <1>3. cur \in Loop /\ cur \in Entry /\ cur \in Pending
    BY <1>1, Entries DEF Placement, TypeOK, AtEntry, Pending, Before, Loop
  <1>4. TypeOK'
    BY <1>1, <1>2, <1>3, Entries DEF TypeOK, Labels, AtEntry
  <1>5. Placement'
    BY <1>1, <1>2, SameGraph DEF Placement, AtEntry, Loop
  <1>6. Pending' = Pending /\ Open' = Open
    BY <1>1, <1>2, SameGraph DEF Open, Pending, Before, AtEntry
  <1>7. OpenRuns' /\ DerivedRuns'
    BY <1>1, <1>2, <1>6 DEF OpenRuns, DerivedRuns
  <1>8. Verifications'
    BY <1>1, <1>2, <1>3, SameGraph DEF Verifications, Checked, AtEntry, TypeOK
  <1>9. Consistency' /\ Inspections' /\ NoBlockedWheelExecuted'
    BY <1>1, <1>2, SameGraph
       DEF Consistency, Consistent, Inspections, NoBlockedWheelExecuted
  <1>10. Fresh' /\ GraphInspections'
    BY <1>1, <1>2, SameGraph DEF Fresh, Unstarted, GraphInspections, AtEntry, Before
  <1>11. Decisions'
    BY <1>1, <1>2, <1>3, <1>6, SameGraph DEF Decisions, Checked, Inspected, OpenRuns, TypeOK
  <1>12. Stored' /\ CleanInstallIsPromoted'
    BY <1>1, <1>2, GoesOn DEF Deciding, Storing
  <1> QED BY <1>4, <1>5, <1>7, <1>8, <1>9, <1>10, <1>11, <1>12

-----------------------------------------------------------------------------
(* Inspection                                                              *)

LEMMA Smallest ==
    ASSUME NEW S \in SUBSET Nat, S # {}
    PROVE  \E m \in S : \A k \in S : m <= k
  <1>1. PICK m \in S : \A k \in S : ~(<<k, m>> \in OpToRel(<, Nat))
    BY WFMin, NatLessThanWellFounded
  <1>2. \A k \in S : ~(k < m)
    BY <1>1 DEF OpToRel
  <1> QED BY <1>2

\* The Findings of a session: none if nothing was observed that becomes one.
LEMMA Findings ==
    ASSUME NEW trace \in Seq(Kinds)
    PROVE  /\ dynamicFindingCodes(trace) \in Seq(Codes)
           /\ dynamicFindingCodes(trace) = << >> <=> Quiet(trace)
  <1> DEFINE found(i) == trace[i] \in Blocking \cup Suspicious
             S == {i \in DOMAIN trace : found(i)}
             first == CHOOSE i \in DOMAIN trace : found(i) /\ \A j \in 1..(i - 1) : ~found(j)
  <1>1. CASE Quiet(trace)
    BY <1>1 DEF dynamicFindingCodes, Quiet
  <1>2. CASE ~Quiet(trace)
    <2>1. S # {} /\ S \in SUBSET Nat
      BY <1>2 DEF Quiet
    <2>2. PICK m \in S : \A k \in S : m <= k
      BY <2>1, Smallest
    <2>3. m \in DOMAIN trace /\ found(m) /\ \A j \in 1..(m - 1) : ~found(j)
      BY <2>2
    <2>4. first \in DOMAIN trace
      BY <2>3
    <2>5. dynamicFindingCodes(trace) = <<trace[first]>>
      BY <2>1 DEF dynamicFindingCodes
    <2>6. trace[first] \in Codes
      BY <2>4 DEF Codes
    <2> HIDE DEF first
    <2> QED BY <1>2, <2>5, <2>6
  <1> QED BY <1>1, <1>2

\* The report of an archive.
LEMMA StaticReports ==
    ASSUME graph \in GraphType, NEW result \in StaticResults
    PROVE  /\ StaticReport(result) \in Reports
           /\ StaticReport(result).static = result /\ result # "none"
           /\ StaticReport(result).dynamic = "none"
           /\ StaticReport(result).findings = << >> <=> result \notin {"review", "block"}
           /\ graph.eco # "github" => result \notin {"elf", "review"}
  <1>1. result \in {"clean", "elf", "review", "block"}
        /\ (graph.eco # "github" => result \in {"clean", "block"})
    BY DEF StaticResults
  <1>2. <<result>> # << >> /\ (result \in Codes => <<result>> \in Seq(Codes)) /\ << >> \in Seq(Codes)
    OBVIOUS
  <1> QED BY <1>1, <1>2 DEF StaticReport, Reports, Codes

\* The report of a container.
LEMMA DynamicReports ==
    ASSUME NEW r \in Reports, NEW trace \in Traces, NEW status \in {"complete", "incomplete"}
    PROVE  /\ DynamicReport(r, trace, status) \in Reports
           /\ DynamicReport(r, trace, status).static = r.static
           /\ DynamicReport(r, trace, status).dynamic = status
           /\ DynamicReport(r, trace, status).findings = << >> <=>
                  r.findings = << >> /\ (status = "complete" => Quiet(trace))
  <1> DEFINE codes == dynamicFindingCodes(trace)
             R == DynamicReport(r, trace, status)
  <1>1. codes \in Seq(Codes) /\ (codes = << >> <=> Quiet(trace))
    BY Findings, TracesAssumption
  <1>2. r.findings \in Seq(Codes)
    BY DEF Reports
  <1> HIDE DEF codes
  <1>3. /\ r.findings \o codes \in Seq(Codes)
        /\ r.findings \o codes = << >> <=> r.findings = << >> /\ codes = << >>
    BY <1>1, <1>2
  <1>4. R = [r EXCEPT !.dynamic = status,
                      !.findings = IF status = "complete" THEN r.findings \o codes ELSE r.findings]
    BY DEF DynamicReport, codes
  <1>5. /\ R.static = r.static /\ R.dynamic = status
        /\ R.findings = IF status = "complete" THEN r.findings \o codes ELSE r.findings
        /\ R \in Reports
    BY <1>2, <1>3, <1>4 DEF Reports
  <1> HIDE DEF R
  <1>6. R.findings = << >> <=> r.findings = << >> /\ (status = "complete" => Quiet(trace))
    BY <1>1, <1>3, <1>5
  <1> QED BY <1>5, <1>6 DEF R

\* One report changes, of an entry that is not decided: nothing else is touched.
LEMMA ReportStep ==
    ASSUME IInv, NEW e \in Entry, e \in Pending, NEW r \in Reports,
           report' = [report EXCEPT ![e] = r],
           graph' = graph, mode' = mode, run' = run, subject' = subject,
           verified' = verified, evidence' = evidence, decision' = decision,
           pc' # "ended", Pending \subseteq Pending'
    PROVE  Decisions'
  <1> USE DEF IInv
  <1>1. decision[e] = "none"
    BY DEF OpenRuns, Decisions
  <1>2. \A f \in Entry : decision[f] # "none" => report'[f] = report[f]
    BY <1>1 DEF TypeOK
  <1>3. \A f \in Entry : decision[f] # "none" => Checked(f)' /\ Inspected(f)'
    BY <1>2, SameGraph DEF Decisions, Checked, Inspected
  <1>4. pc # "ended"
    BY DEF Pending, Before, AtEntry
  <1>5. \A f \in LockedEntries : decision[f] = "none" => f \in Pending'
    BY <1>4 DEF Decisions
  <1> QED BY <1>2, <1>3, <1>5, SameGraph DEF Decisions

LEMMA StaticEachStep == IInv /\ StaticEach => IInv'
  <1> SUFFICES ASSUME IInv, StaticEach PROVE IInv'
    OBVIOUS
  <1> USE DEF IInv
  <1>1. PICK result \in StaticResults :
            /\ report' = [report EXCEPT ![cur] = StaticReport(result)]
            /\ pc' = IF RunsContainer(cur, StaticReport(result)) THEN "dynamic" ELSE "record"
    BY DEF StaticEach
  <1>2. /\ pc = "static" /\ mode # "graph"
        /\ UNCHANGED <<command, graph, mode, todo, cur, run, subject, verified, ran, evidence,
                       decision, stored>>
    BY DEF StaticEach, setVars
  <1>3. cur \in Loop /\ cur \in Entry /\ cur \in Pending /\ graph \in GraphType
    BY <1>2, Entries DEF Placement, TypeOK, AtEntry, Pending, Before
  <1> DEFINE r == StaticReport(result)
  <1>4. /\ r \in Reports /\ r.static = result /\ result # "none" /\ r.dynamic = "none"
        /\ r.findings = << >> <=> result \notin {"review", "block"}
        /\ graph.eco # "github" => result \notin {"elf", "review"}
    BY <1>3, StaticReports
  <1>5. report' = [report EXCEPT ![cur] = r]
    BY <1>1
  <1>6. pc' = IF RunsContainer(cur, r) THEN "dynamic" ELSE "record"
    BY <1>1
  <1> HIDE DEF r
  <1>7. report'[cur] = r /\ \A e \in Entry : e # cur => report'[e] = report[e]
    BY <1>3, <1>4, <1>5 DEF TypeOK
  <1>8. TypeOK'
    BY <1>2, <1>3, <1>4, <1>5, <1>6 DEF TypeOK, Labels, AtEntry
  <1>9. Placement'
    BY <1>2, <1>6, SameGraph DEF Placement, AtEntry
  <1>10. Pending' = Pending /\ Open' = Open
    BY <1>2, <1>6 DEF Open, Pending, Before, AtEntry
  <1>11. OpenRuns' /\ DerivedRuns'
    BY <1>2, <1>6, <1>10 DEF OpenRuns, DerivedRuns
  <1>12. Verifications'
    BY <1>2, <1>6 DEF Verifications, Checked, AtEntry
  <1>13. Consistency'
    <2>1. ran[cur] = << >>
      BY <1>2, <1>3 DEF Fresh, Unstarted, Before, Consistency, Consistent
    <2>2. Consistent(cur)'
      BY <1>2, <1>4, <1>7, <2>1 DEF Consistent
    <2>3. \A e \in Entry : e # cur => Consistent(e)'
      BY <1>2, <1>7 DEF Consistency, Consistent
    <2> QED BY <1>2, <2>2, <2>3 DEF Consistency
  <1>14. Fresh'
    BY <1>2, <1>3, <1>4, <1>6, <1>7 DEF Fresh, Unstarted, AtEntry, Before
  <1>15. Inspections'
    <2>1. cur[2] = "derived" => mode = "derived" /\ graph.eco = "pypi" /\ ~IsSdist(cur)
      BY <1>3, Entries DEF Loop, Placement
    <2>2. pc' = "record" => Inspected(cur)'
      BY <1>2, <1>4, <1>6, <1>7, <2>1, SameGraph DEF Inspected, RunsContainer
    <2> QED BY <1>2, <1>4, <1>6, <1>7, <2>2 DEF Inspections
  <1>16. GraphInspections' /\ NoBlockedWheelExecuted'
    BY <1>2 DEF GraphInspections, NoBlockedWheelExecuted
  <1>17. Decisions'
    BY <1>2, <1>3, <1>4, <1>5, <1>6, <1>10, ReportStep
  <1>18. Stored' /\ CleanInstallIsPromoted'
    BY <1>2, <1>6, GoesOn DEF Deciding, Storing
  <1> QED BY <1>8, <1>9, <1>11, <1>12, <1>13, <1>14, <1>15, <1>16, <1>17, <1>18

LEMMA StaticGraphStep == IInv /\ StaticGraph => IInv'
  <1> SUFFICES ASSUME IInv, StaticGraph PROVE IInv'
    OBVIOUS
  <1> USE DEF IInv
  <1>1. PICK e \in todo, result \in StaticResults :
            LET reports == [report EXCEPT ![e] = StaticReport(result)] IN
            /\ report' = reports /\ cur' = e
            /\ IF todo # {e}
               THEN pc' = "static" /\ todo' = todo \ {e}
               ELSE /\ pc' = IF StaticReady(reports) THEN "dynamic" ELSE "record"
                    /\ todo' = LockedEntries
    BY DEF StaticGraph
  <1>2. /\ pc = "static" /\ mode = "graph"
        /\ UNCHANGED <<command, graph, mode, run, subject, verified, ran, evidence, decision,
                       stored>>
    BY DEF StaticGraph, setVars
  <1>3. /\ e \in LockedEntries /\ e \in Entry /\ graph \in GraphType /\ graph.eco = "pypi"
        /\ todo \subseteq LockedEntries /\ LockedEntries \subseteq Entry /\ Pending = LockedEntries
    BY <1>2, Entries DEF Placement, TypeOK, Loop, Pending, Before
  <1> DEFINE r == StaticReport(result)
  <1>4. /\ r \in Reports /\ r.static = result /\ result # "none" /\ r.dynamic = "none"
        /\ r.findings = << >> <=> result \notin {"review", "block"}
        /\ graph.eco # "github" => result \notin {"elf", "review"}
    BY <1>3, StaticReports
  <1>5. report' = [report EXCEPT ![e] = r] /\ cur' = e
    BY <1>1
  <1>6. \/ pc' = "static" /\ todo' = todo \ {e}
        \/ pc' = "dynamic" /\ StaticReady(report') /\ todo = {e} /\ todo' = LockedEntries
        \/ pc' = "record" /\ ~StaticReady(report') /\ todo = {e} /\ todo' = LockedEntries
    BY <1>1
  <1> HIDE DEF r
  <1>7. report'[e] = r /\ \A f \in Entry : f # e => report'[f] = report[f]
    BY <1>3, <1>4, <1>5 DEF TypeOK
  <1>8. TypeOK'
    BY <1>2, <1>3, <1>4, <1>5, <1>6 DEF TypeOK, Labels, AtEntry
  <1>9. Placement'
    BY <1>2, <1>3, <1>5, <1>6, SameGraph DEF Placement, AtEntry, Loop
  <1>10. Pending' = LockedEntries
    BY <1>2, <1>5, <1>6, SameGraph DEF Pending, Before, AtEntry
  <1>11. OpenRuns' /\ DerivedRuns'
    BY <1>2, <1>3, <1>6, <1>10 DEF OpenRuns, Open, DerivedRuns
  <1>12. Verifications'
    BY <1>2, <1>6, SameGraph DEF Verifications, Checked, AtEntry
  <1>13. \A f \in LockedEntries : report[f].dynamic = "none" /\ report'[f].dynamic = "none"
    BY <1>2, <1>3, <1>4, <1>7 DEF Fresh, Unstarted, Before
  <1>14. Consistency'
    <2>1. ran[e] = << >>
      BY <1>3, <1>13 DEF Consistency, Consistent
    <2>2. Consistent(e)'
      BY <1>2, <1>4, <1>7, <2>1 DEF Consistent
    <2>3. \A f \in Entry : f # e => Consistent(f)'
      BY <1>2, <1>7 DEF Consistency, Consistent
    <2> QED BY <1>2, <2>2, <2>3 DEF Consistency
  <1>15. Fresh'
    BY <1>2, <1>3, <1>4, <1>6, <1>7, <1>13, SameGraph DEF Fresh, Unstarted, AtEntry, Before
  <1>16. Inspections'
    BY <1>2, <1>6 DEF Inspections
  <1>17. GraphInspections'
    <2>1. \A f \in LockedEntries \ (todo \ {e}) : report'[f].static # "none"
      BY <1>2, <1>3, <1>4, <1>7 DEF GraphInspections
    <2>2. CASE pc' = "static"
      BY <1>6, <2>1, <2>2, SameGraph, <1>2 DEF GraphInspections, Before
    <2>3. CASE pc' = "dynamic"
      <3>1. \A f \in LockedEntries : report'[f].static = "clean" /\ ~IsSdist(f)
        <4> SUFFICES ASSUME NEW f \in LockedEntries
                     PROVE  report'[f].static = "clean" /\ ~IsSdist(f)
          OBVIOUS
        <4>1. report'[f].findings = << >> /\ ~IsSdist(f)
          BY <1>6, <2>3 DEF StaticReady
        <4>2. report'[f].static # "none"
          BY <1>6, <2>1, <2>3
        <4>3. report'[f].static \notin {"review", "block", "elf"}
          BY <1>2, <1>3, <1>14, <4>1 DEF Consistency, Consistent
        <4>4. report'[f] \in Reports
          BY <1>3, <1>8 DEF TypeOK
        <4> QED BY <4>1, <4>2, <4>3, <4>4 DEF Reports
      <3> QED BY <1>2, <1>6, <2>3, <3>1, SameGraph DEF GraphInspections, Before
    <2>4. CASE pc' = "record"
      BY <1>2, <1>6, <2>1, <2>4, SameGraph DEF GraphInspections, Before, StaticReady
    <2> QED BY <1>6, <2>2, <2>3, <2>4
  <1>18. NoBlockedWheelExecuted'
    BY <1>2, <1>13, SameGraph DEF NoBlockedWheelExecuted
  <1>19. Decisions'
    BY <1>2, <1>3, <1>4, <1>5, <1>6, <1>10, ReportStep
  <1>20. Stored' /\ CleanInstallIsPromoted'
    BY <1>2, <1>6, GoesOn DEF Deciding, Storing
  <1> QED
    BY <1>8, <1>9, <1>11, <1>12, <1>14, <1>15, <1>16, <1>17, <1>18, <1>19, <1>20

\* The report of one container, of an entry whose archive was inspected.
LEMMA ContainerReport ==
    ASSUME IInv, NEW e \in Entry, report[e].dynamic = "none", InspectDynamic(e), graph' = graph
    PROVE  /\ report'[e] \in Reports /\ report' = [report EXCEPT ![e] = report'[e]]
           /\ report'[e].static = report[e].static /\ report'[e].dynamic # "none"
           /\ \A f \in Entry : f # e => report'[f] = report[f]
           /\ ran' \in [Entry -> Seq(Kinds)]
           /\ Consistency'
  <1> USE DEF IInv
  <1>1. PICK trace \in Traces, status \in {"complete", "incomplete"} :
            /\ ran' = [ran EXCEPT ![e] = trace]
            /\ report' = [report EXCEPT ![e] = DynamicReport(report[e], trace, status)]
    BY DEF InspectDynamic, TypeOK
  <1> DEFINE r == DynamicReport(report[e], trace, status)
  <1>2. /\ r \in Reports /\ r.static = report[e].static /\ r.dynamic = status
        /\ r.findings = << >> <=> report[e].findings = << >> /\ (status = "complete" => Quiet(trace))
    BY DynamicReports DEF TypeOK
  <1>3. report' = [report EXCEPT ![e] = r]
    BY <1>1
  <1> HIDE DEF r
  <1>4. report'[e] = r /\ \A f \in Entry : f # e => report'[f] = report[f]
    BY <1>3 DEF TypeOK
  <1>5. /\ ran' \in [Entry -> Seq(Kinds)]
        /\ ran'[e] = trace /\ \A f \in Entry : f # e => ran'[f] = ran[f]
    BY <1>1, TracesAssumption DEF TypeOK
  <1>6. Consistent(e)'
    BY <1>2, <1>4, <1>5 DEF Consistency, Consistent
  <1>7. \A f \in Entry : f # e => Consistent(f)'
    BY <1>4, <1>5 DEF Consistency, Consistent
  <1>8. Consistency'
    BY <1>6, <1>7 DEF Consistency
  <1> QED BY <1>1, <1>2, <1>3, <1>4, <1>5, <1>8

LEMMA DynamicEachStep == IInv /\ DynamicEach => IInv'
  <1> SUFFICES ASSUME IInv, DynamicEach PROVE IInv'
    OBVIOUS
  <1> USE DEF IInv
  <1>1. /\ pc = "dynamic" /\ mode # "graph" /\ DynamicRequestValid(cur) /\ pc' = "record"
        /\ InspectDynamic(cur)
        /\ UNCHANGED <<command, graph, mode, todo, cur, run, subject, verified, evidence,
                       decision, stored>>
    BY DEF DynamicEach, setVars
  <1>2. cur \in Loop /\ cur \in Entry /\ cur \in Pending
    BY <1>1, Entries DEF Placement, TypeOK, AtEntry, Pending, Before
  <1>3. report[cur].dynamic = "none"
    BY <1>1, <1>2 DEF Fresh, Unstarted, Before
  <1>4. /\ report'[cur] \in Reports /\ report' = [report EXCEPT ![cur] = report'[cur]]
        /\ report'[cur].static = report[cur].static /\ report'[cur].dynamic # "none"
        /\ \A f \in Entry : f # cur => report'[f] = report[f]
        /\ ran' \in [Entry -> Seq(Kinds)]
        /\ Consistency'
    BY <1>1, <1>2, <1>3, ContainerReport
  <1>5. TypeOK'
    <2>1. report' \in [Entry -> Reports]
      BY <1>2, <1>4 DEF TypeOK
    <2> QED BY <1>1, <1>4, <2>1 DEF TypeOK, Labels, AtEntry
  <1>6. Placement'
    BY <1>1, SameGraph DEF Placement, AtEntry
  <1>7. Pending' = Pending /\ Open' = Open
    BY <1>1 DEF Open, Pending, Before, AtEntry
  <1>8. OpenRuns' /\ DerivedRuns'
    BY <1>1, <1>7 DEF OpenRuns, DerivedRuns
  <1>9. Verifications'
    BY <1>1 DEF Verifications, Checked, AtEntry
  <1>10. Fresh'
    <2>1. cur \notin todo /\ ~(mode # "derived" /\ cur[2] = "derived")
      BY <1>1, <1>2, Entries DEF Placement, AtEntry, Loop, TypeOK
    <2> QED BY <1>1, <1>2, <1>4, <2>1 DEF Fresh, Unstarted, AtEntry, Before
  <1>11. Inspections'
    BY <1>1, <1>4, SameGraph DEF Inspections, Inspected, DynamicRequestValid
  <1>12. GraphInspections' /\ NoBlockedWheelExecuted'
    BY <1>1 DEF GraphInspections, NoBlockedWheelExecuted
  <1>13. Decisions'
    BY <1>1, <1>2, <1>4, <1>7, ReportStep
  <1>14. Stored' /\ CleanInstallIsPromoted'
    BY <1>1, GoesOn DEF Deciding, Storing
  <1> QED BY <1>4, <1>5, <1>6, <1>8, <1>9, <1>10, <1>11, <1>12, <1>13, <1>14

LEMMA DynamicGraphStep == IInv /\ DynamicGraph => IInv'
  <1> SUFFICES ASSUME IInv, DynamicGraph PROVE IInv'
    OBVIOUS
  <1> USE DEF IInv
  <1>1. PICK e \in todo :
            /\ InspectDynamic(e)
            /\ cur' = e
            /\ IF todo # {e} THEN pc' = "dynamic" /\ todo' = todo \ {e}
                             ELSE pc' = "record" /\ todo' = LockedEntries
    BY DEF DynamicGraph
  <1>2. /\ pc = "dynamic" /\ mode = "graph"
        /\ UNCHANGED <<command, graph, mode, run, subject, verified, evidence, decision, stored>>
    BY DEF DynamicGraph, setVars
  <1>3. /\ e \in LockedEntries /\ e \in Entry /\ todo \subseteq LockedEntries
        /\ LockedEntries \subseteq Entry /\ Pending = LockedEntries
    BY <1>2, Entries DEF Placement, TypeOK, Loop, Pending, Before
  <1>4. \/ pc' = "dynamic" /\ todo' = todo \ {e}
        \/ pc' = "record" /\ todo = {e} /\ todo' = LockedEntries
    BY <1>1
  <1>5. report[e].dynamic = "none"
    BY <1>2, <1>3 DEF Fresh, Unstarted, Before
  <1>6. /\ report'[e] \in Reports /\ report' = [report EXCEPT ![e] = report'[e]]
        /\ report'[e].static = report[e].static /\ report'[e].dynamic # "none"
        /\ \A f \in Entry : f # e => report'[f] = report[f]
        /\ ran' \in [Entry -> Seq(Kinds)]
        /\ Consistency'
    BY <1>1, <1>2, <1>3, <1>5, ContainerReport
  <1>7. TypeOK'
    <2>1. report' \in [Entry -> Reports]
      BY <1>3, <1>6 DEF TypeOK
    <2> QED BY <1>1, <1>2, <1>3, <1>4, <1>6, <2>1 DEF TypeOK, Labels, AtEntry
  <1>8. Placement'
    BY <1>1, <1>2, <1>3, <1>4, SameGraph DEF Placement, AtEntry, Loop
  <1>9. Pending' = LockedEntries
    BY <1>2, <1>4, SameGraph DEF Pending, Before, AtEntry
  <1>10. OpenRuns' /\ DerivedRuns'
    BY <1>2, <1>3, <1>4, <1>9 DEF OpenRuns, Open, DerivedRuns
  <1>11. Verifications'
    BY <1>2, <1>4, SameGraph DEF Verifications, Checked, AtEntry
  <1>12. Fresh'
    <2>1. e[2] # "derived"
      BY <1>3, Entries DEF TypeOK
    <2> QED BY <1>2, <1>3, <1>4, <1>6, <2>1, SameGraph DEF Fresh, Unstarted, AtEntry, Before
  <1>13. Inspections'
    BY <1>2, <1>4 DEF Inspections
  <1>14. /\ \A f \in LockedEntries : report'[f].static = "clean" /\ ~IsSdist(f)
         /\ \A f \in LockedEntries \ (todo \ {e}) : report'[f].dynamic # "none"
    BY <1>2, <1>3, <1>6 DEF GraphInspections
  <1>15. GraphInspections'
    BY <1>2, <1>4, <1>14, SameGraph DEF GraphInspections, Before
  <1>16. NoBlockedWheelExecuted'
    BY <1>2, <1>14, SameGraph DEF NoBlockedWheelExecuted
  <1>17. Decisions'
    BY <1>2, <1>3, <1>4, <1>6, <1>9, ReportStep
  <1>18. Stored' /\ CleanInstallIsPromoted'
    BY <1>2, <1>4, GoesOn DEF Deciding, Storing
  <1> QED
    BY <1>6, <1>7, <1>8, <1>10, <1>11, <1>12, <1>13, <1>15, <1>16, <1>17, <1>18

-----------------------------------------------------------------------------
(* Evidence and decisions                                                  *)

LEMMA RecordStep == IInv /\ Record => IInv'
  <1> SUFFICES ASSUME IInv, Record PROVE IInv'
    OBVIOUS
  <1> USE DEF IInv
  <1>1. PICK e \in IF mode = "graph" THEN todo ELSE {cur} :
            /\ evidence' = evidence \cup {e}
            /\ cur' = e
            /\ todo' = IF mode = "graph" THEN todo \ {e} ELSE todo
    BY DEF Record
  <1>2. /\ pc = "record" /\ pc' = "decide"
        /\ UNCHANGED <<command, graph, mode, run, subject, verified, report, ran, decision,
                       stored>>
    BY DEF Record, setVars
  <1>3. e \in Loop /\ e \in Entry /\ (mode # "graph" => e = cur)
    BY <1>1, <1>2, Entries DEF Placement, TypeOK, AtEntry
  <1>4. TypeOK'
    BY <1>1, <1>2, <1>3 DEF TypeOK, Labels, AtEntry
  <1>5. Placement'
    BY <1>1, <1>2, <1>3, SameGraph DEF Placement, AtEntry
  <1>6. Pending' = Pending /\ (mode # "graph" => cur' = cur)
    BY <1>1, <1>2 DEF Pending, Before, AtEntry
  <1>7. OpenRuns' /\ DerivedRuns'
    BY <1>2, <1>6 DEF OpenRuns, Open, DerivedRuns, AtEntry
  <1>8. Verifications'
    BY <1>2, <1>6, SameGraph DEF Verifications, Checked, AtEntry
  <1>9. Consistency' /\ NoBlockedWheelExecuted'
    BY <1>2, SameGraph DEF Consistency, Consistent, NoBlockedWheelExecuted
  <1>10. Fresh' /\ GraphInspections'
    BY <1>1, <1>2, <1>6, SameGraph DEF Fresh, Unstarted, GraphInspections, AtEntry, Before
  <1>11. Inspections'
    BY <1>1, <1>2, <1>6, SameGraph DEF Inspections, Inspected
  <1>12. Decisions'
    BY <1>1, <1>2, <1>6, SameGraph DEF Decisions, Checked, Inspected
  <1>13. Stored' /\ CleanInstallIsPromoted'
    BY <1>2, GoesOn DEF Deciding, Storing
  <1> QED BY <1>4, <1>5, <1>7, <1>8, <1>9, <1>10, <1>11, <1>12, <1>13

LEMMA DecideStep == IInv /\ Decide => IInv'
  <1> SUFFICES ASSUME IInv, Decide PROVE IInv'
    OBVIOUS
  <1> USE DEF IInv
  <1>1. /\ pc = "decide"
        /\ decision' = [decision EXCEPT ![cur] = Evaluate(graph.eco, verified[cur], report[cur])]
        /\ run' = [run EXCEPT ![cur] = "COMPLETED"]
        /\ UNCHANGED <<command, graph, mode, todo, cur, subject, verified, report, ran, evidence,
                       stored>>
    BY DEF Decide, setVars
  <1>2. \/ command = "inspect" /\ pc' = "ended"
        \/ todo # {} /\ mode = "graph" /\ pc' = "record"
        \/ todo # {} /\ mode # "graph" /\ pc' = "entry"
        \/ todo = {} /\ graph.eco = "pypi" /\ mode # "derived" /\ command = "install" /\ pc' = "derive"
        \/ todo = {} /\ command = "install" /\ pc' = "set"
    BY DEF Decide, AfterDecide, TypeOK
  <1>3. cur \in Loop /\ cur \in Entry /\ cur \notin todo /\ Pending = todo \cup {cur}
    BY <1>1, Entries DEF Placement, TypeOK, AtEntry, Pending, Before
  <1>4. TypeOK'
    <2>1. Evaluate(graph.eco, verified[cur], report[cur]) \in Verdict
      BY DEF Evaluate, FirstFinding, Verdict
    <2> QED BY <1>1, <1>2, <1>3, <2>1 DEF TypeOK, Labels, AtEntry
  <1>5. Placement'
    BY <1>1, <1>2, SameGraph DEF Placement, AtEntry
  <1>6. pc' = "ended" \/ Pending' = todo
    BY <1>1, <1>2 DEF Pending, Before, AtEntry
  <1>7. OpenRuns'
    <2>1. \A e \in Entry : run'[e] = IF e = cur THEN "COMPLETED" ELSE run[e]
      BY <1>1, <1>3 DEF TypeOK
    <2>2. \A e \in Entry : run'[e] = "ACTIVE" => mode = "graph" /\ e \in todo
      BY <1>1, <1>3, <2>1 DEF OpenRuns, Open, AtEntry
    <2>3. \A e \in Pending' : run'[e] # "COMPLETED"
      <3>1. Pending' \subseteq todo
        BY <1>1, <1>2 DEF Pending, Before, AtEntry
      <3> QED BY <1>3, <2>1, <3>1 DEF OpenRuns, TypeOK
    <2>4. pc' = "ended" => mode # "graph"
      BY <1>2 DEF Placement
    <2> QED BY <1>1, <1>2, <1>6, <2>2, <2>3, <2>4 DEF OpenRuns, Open
  <1>8. DerivedRuns'
    BY <1>1, <1>3, Entries DEF DerivedRuns, Loop, TypeOK
  <1>9. Verifications'
    BY <1>1, <1>2, SameGraph DEF Verifications, Checked, AtEntry
  <1>10. Consistency' /\ NoBlockedWheelExecuted'
    BY <1>1, SameGraph DEF Consistency, Consistent, NoBlockedWheelExecuted
  <1>11. Fresh'
    BY <1>1, <1>2, SameGraph DEF Fresh, Unstarted, AtEntry, Before
  <1>12. Inspections' /\ GraphInspections'
    BY <1>1, <1>2, SameGraph DEF Inspections, GraphInspections, Before
  <1>13. Decisions'
    <2>1. Checked(cur) /\ cur \in evidence
      BY <1>1, <1>3 DEF Verifications, Inspections, AtEntry, Loop
    <2>2. Inspected(cur)
      <3>1. CASE mode # "graph"
        BY <1>1, <3>1 DEF Inspections
      <3>2. CASE mode = "graph"
        BY <1>1, <1>3, <3>2, Entries DEF GraphInspections, Before, Inspected, Loop, TypeOK
      <3> QED BY <3>1, <3>2
    <2>3. \A e \in Entry : e # cur => decision'[e] = decision[e] /\ run'[e] = run[e]
      BY <1>1, <1>3 DEF TypeOK
    <2>4. /\ decision'[cur] = Evaluate(graph.eco, verified[cur], report[cur])
          /\ run'[cur] = "COMPLETED"
      BY <1>1, <1>3 DEF TypeOK
    <2>5. \A e : Checked(e)' = Checked(e) /\ Inspected(e)' = Inspected(e)
      BY <1>1, SameGraph DEF Checked, Inspected
    <2>6. ASSUME NEW e \in Entry, decision'[e] # "none"
          PROVE  /\ run'[e] = "COMPLETED" /\ e \in evidence'
                 /\ Checked(e)' /\ Inspected(e)'
                 /\ decision'[e] = Evaluate(graph'.eco, verified'[e], report'[e])
      BY <1>1, <2>1, <2>2, <2>3, <2>4, <2>5, <2>6 DEF Decisions
    <2>7. decision'[cur] # "none"
      BY <2>4 DEF Evaluate, FirstFinding
    <2>8. ASSUME NEW e \in LockedEntries, decision'[e] = "none"
          PROVE  e \in Pending' \/ pc' = "ended"
      BY <1>1, <1>3, <1>6, <2>3, <2>7, <2>8, Entries DEF Decisions, TypeOK
    <2> QED BY <1>1, <2>6, <2>8, SameGraph DEF Decisions
  <1>14. Stored' /\ CleanInstallIsPromoted'
    <2>1. CASE pc' = "ended"
      BY <1>1, <1>2, <2>1 DEF Stored, Storing, CleanInstallIsPromoted
    <2>2. CASE pc' # "ended"
      BY <1>1, <1>2, <2>2, GoesOn DEF Deciding, Storing
    <2> QED BY <2>1, <2>2
  <1> QED
    BY <1>4, <1>5, <1>7, <1>8, <1>9, <1>10, <1>11, <1>12, <1>13, <1>14

-----------------------------------------------------------------------------
(* Derived wheels                                                          *)

\* Only the label changes: what it may say of the state is what has to hold.
LEMMA LabelStep ==
    ASSUME IInv,
           UNCHANGED <<command, graph, mode, todo, cur, run, subject, verified, report, ran,
                       evidence, decision>>,
           pc \in {"derive", "set"} \cup Storing, pc' \in {"set", "ended"} \cup Storing
    PROVE  /\ Placement' /\ OpenRuns' /\ DerivedRuns' /\ Verifications' /\ Consistency'
           /\ Fresh' /\ Inspections' /\ GraphInspections' /\ Decisions'
           /\ NoBlockedWheelExecuted'
  <1> USE DEF IInv
  <1>1. Placement'
    BY SameGraph DEF Placement, AtEntry, Storing
  <1>2. Pending = {} /\ Pending' = {} /\ Open = {} /\ Open' = {}
    BY DEF Pending, Open, Before, AtEntry, Storing
  <1>3. OpenRuns' /\ DerivedRuns'
    BY <1>2 DEF OpenRuns, DerivedRuns, Storing
  <1>4. Verifications' /\ Inspections'
    BY DEF Verifications, Inspections, AtEntry, Storing
  <1>5. Fresh' /\ GraphInspections'
    BY SameGraph DEF Fresh, Unstarted, GraphInspections, AtEntry, Before, Storing
  <1>6. Consistency' /\ NoBlockedWheelExecuted'
    BY SameGraph DEF Consistency, Consistent, NoBlockedWheelExecuted
  <1>7. Decisions'
    BY <1>2, SameGraph DEF Decisions, Checked, Inspected, Storing
  <1> QED BY <1>1, <1>3, <1>4, <1>5, <1>6, <1>7

LEMMA NothingToDeriveStep == IInv /\ NothingToDerive => IInv'
  <1> SUFFICES ASSUME IInv, NothingToDerive PROVE IInv'
    OBVIOUS
  <1>1. /\ pc = "derive" /\ pc' = "set"
        /\ UNCHANGED <<command, graph, mode, todo, cur, run, subject, verified, report, ran,
                       evidence, decision, stored>>
    BY DEF NothingToDerive, entryVars, setVars
  <1>2. TypeOK'
    BY <1>1 DEF IInv, TypeOK, Labels
  <1>3. Stored' /\ CleanInstallIsPromoted'
    BY <1>1, GoesOn DEF Deciding, Storing
  <1> QED BY <1>1, <1>2, <1>3, LabelStep DEF IInv

LEMMA DeriveStep == IInv /\ Derive => IInv'
  <1> SUFFICES ASSUME IInv, Derive PROVE IInv'
    OBVIOUS
  <1> USE DEF IInv
  <1> DEFINE Wheels == {Derived(n) : n \in Sdists}
  <1>1. /\ pc = "derive" /\ pc' = "entry" /\ Sdists # {} /\ mode' = "derived" /\ todo' = Wheels
        /\ subject' = [e \in Entry |-> IF e \in Wheels THEN "declared" ELSE subject[e]]
        /\ UNCHANGED <<command, graph, cur, run, verified, report, ran, evidence, decision,
                       stored>>
    BY DEF Derive
  <1>2. mode # "derived" /\ graph.eco = "pypi" /\ command = "install"
    BY <1>1 DEF Placement
  <1>3. Wheels \subseteq Entry /\ \A e \in Wheels : e[2] = "derived"
    BY Entries DEF TypeOK
  <1>4. \A e \in Entry : e[2] = "derived" =>
            run[e] = "none" /\ decision[e] = "none" /\ report[e].dynamic = "none"
    BY <1>2 DEF DerivedRuns, Decisions, Fresh, Unstarted
  <1>5. Loop' = Wheels
    BY <1>1, SameGraph DEF Loop, Derived
  <1> HIDE DEF Wheels
  <1>6. TypeOK'
    BY <1>1, <1>3 DEF TypeOK, Labels
  <1>7. Placement'
    BY <1>1, <1>2, <1>5, SameGraph DEF Placement, AtEntry
  <1>8. Pending' = Wheels /\ Pending = {} /\ Open = {} /\ Open' = {}
    BY <1>1 DEF Pending, Open, Before, AtEntry
  <1>9. OpenRuns' /\ DerivedRuns'
    BY <1>1, <1>3, <1>4, <1>8 DEF OpenRuns, DerivedRuns
  <1>10. Verifications' /\ Inspections' /\ GraphInspections' /\ NoBlockedWheelExecuted'
    BY <1>1 DEF Verifications, Inspections, GraphInspections, NoBlockedWheelExecuted, AtEntry
  <1>11. Consistency'
    BY <1>1 DEF Consistency, Consistent
  <1>12. Fresh'
    BY <1>1, <1>3, <1>4 DEF Fresh, Unstarted, AtEntry, Before
  <1>13. Decisions'
    <2>1. \A e \in Entry : decision[e] # "none" => subject'[e] = subject[e]
      BY <1>1, <1>3, <1>4
    <2>2. \A e \in Entry : decision[e] # "none" => Checked(e)' /\ Inspected(e)'
      BY <1>1, <2>1 DEF Decisions, Checked, Inspected
    <2>3. \A e \in LockedEntries : decision[e] # "none"
      BY <1>1, <1>8 DEF Decisions
    <2> QED BY <1>1, <2>2, <2>3, SameGraph DEF Decisions
  <1>14. Stored' /\ CleanInstallIsPromoted'
    BY <1>1, GoesOn DEF Deciding, Storing
  <1> QED BY <1>6, <1>7, <1>9, <1>10, <1>11, <1>12, <1>13, <1>14

-----------------------------------------------------------------------------
(* The set decision                                                        *)

\* An ALLOW rests on declared bytes and on no finding.
LEMMA Allowed ==
    ASSUME IInv, NEW e \in Entry, decision[e] = "ALLOW"
    PROVE  /\ run[e] = "COMPLETED" /\ e \in evidence /\ subject[e] = "declared"
           /\ report[e].findings = << >> /\ e[2] # "derived"
           /\ mode = "each" /\ report[e].dynamic = "none" => ~RunsContainer(e, report[e])
  <1>1. Evaluate(graph.eco, verified[e], report[e]) = "ALLOW"
    BY DEF IInv, Decisions
  <1>2. verified[e] # "MISMATCH" /\ report[e].findings = << >>
    BY <1>1 DEF Evaluate, FirstFinding
  <1> QED BY <1>2 DEF IInv, Decisions, Checked, Inspected

\* A set that is allowed has only entries that may be staged.
LEMMA AllowedSet ==
    ASSUME IInv, pc = "set", EvaluateSet = "ALLOW"
    PROVE  \A e \in InspectedEntries : Approved(e)
  <1> USE DEF IInv
  <1>1. \A e \in InspectedEntries : decision[e] = "ALLOW" /\ report[e].dynamic # "incomplete"
    BY DEF EvaluateSet, allowComplete
  <1>2. DerivedEntries = {}
    BY <1>1, Allowed DEF InspectedEntries, DerivedEntries
  <1>3. /\ LockedEntries \subseteq Entry /\ \A e \in LockedEntries : e[2] = "locked"
        /\ InspectedEntries = LockedEntries
    BY <1>2, Entries DEF InspectedEntries, TypeOK
  <1>4. graph.eco = "pypi" => Sdists = {}
    BY <1>2 DEF EvaluateSet
  <1>5. graph.eco = "pypi" => \A e \in LockedEntries : ~IsSdist(e)
    BY <1>4 DEF LockedEntries, Locked, IsSdist, Sdists
  <1>6. mode # "derived"
    BY <1>4 DEF Placement
  <1>7. SUFFICES ASSUME NEW e \in LockedEntries PROVE Approved(e)
    BY <1>3
  <1>8. /\ run[e] = "COMPLETED" /\ e \in evidence /\ subject[e] = "declared"
        /\ report[e].findings = << >> /\ decision[e] = "ALLOW"
        /\ mode = "each" /\ report[e].dynamic = "none" => ~RunsContainer(e, report[e])
    BY <1>1, <1>3, Allowed
  <1>9. report[e].dynamic \in {"none", "complete"}
    BY <1>1, <1>3 DEF TypeOK, Reports
  <1>10. Executable(e) => report[e].dynamic = "complete"
    <2>1. CASE mode = "each"
      BY <1>8, <1>9, <2>1 DEF Executable, RunsContainer
    <2>2. CASE mode = "graph"
      <3>1. graph.eco = "pypi"
        BY <2>2 DEF Placement
      <3>2. \A f \in LockedEntries : report[f].findings = << >>
        BY <1>1, <1>3, Allowed
      <3>3. report[e].dynamic # "none"
        BY <1>5, <2>2, <3>1, <3>2 DEF GraphInspections, Before
      <3> QED BY <1>9, <3>3
    <2> QED BY <1>6, <2>1, <2>2 DEF TypeOK
  <1>11. Occurred(e) \cap (Blocking \cup Suspicious) = {}
    <2>1. Quiet(ran[e])
      BY <1>3, <1>8, <1>9 DEF Consistency, Consistent, Quiet
    <2> QED BY <2>1 DEF Occurred, Quiet
  <1> QED BY <1>8, <1>10, <1>11 DEF Approved

\* A set in which nothing is wrong is allowed.
LEMMA CleanSet ==
    ASSUME IInv, pc = "set", graph.sdist = {}, graph.host = {},
           \A e \in LockedEntries : Clean(e)
    PROVE  EvaluateSet = "ALLOW"
  <1> USE DEF IInv
  <1>1. Sdists = {} /\ mode # "derived"
    BY DEF Sdists, Placement
  <1>2. DerivedEntries = {}
    BY <1>1 DEF DerivedEntries, DerivedRuns
  <1>3. LockedEntries \subseteq Entry /\ InspectedEntries = LockedEntries
    BY <1>2, Entries DEF InspectedEntries, TypeOK
  <1>4. ASSUME NEW e \in LockedEntries PROVE allowComplete(e) /\ decision[e] # "BLOCK"
    <2>1. /\ subject[e] = "declared" /\ report[e].static \in {"clean", "elf"}
          /\ report[e].dynamic \in {"none", "complete"}
          /\ Occurred(e) \cap (Blocking \cup Suspicious) = {}
      BY <1>3, <1>4 DEF Clean, TypeOK, Reports
    <2>2. Quiet(ran[e])
      BY <2>1 DEF Quiet, Occurred
    <2>3. report[e].findings = << >>
      BY <1>3, <2>1, <2>2 DEF Consistency, Consistent
    <2>4. decision[e] # "none"
      BY <1>4 DEF Decisions, Pending, Before, AtEntry
    <2>5. /\ decision[e] = Evaluate(graph.eco, verified[e], report[e])
          /\ Checked(e) /\ Inspected(e)
      BY <1>3, <1>4, <2>4 DEF Decisions
    <2>6. graph.eco = "github" => mode = "each"
      BY DEF Placement
    <2>7. graph.eco = "github" /\ report[e].static = "elf" => report[e].dynamic = "complete"
      BY <2>1, <2>5, <2>6 DEF Inspected, RunsContainer
    <2> QED BY <2>1, <2>3, <2>5, <2>7 DEF Evaluate, Checked, allowComplete
  <1> QED BY <1>1, <1>3, <1>4 DEF EvaluateSet

LEMMA DecideSetStep == IInv /\ DecideSet => IInv'
  <1> SUFFICES ASSUME IInv, DecideSet PROVE IInv'
    OBVIOUS
  <1>1. /\ pc = "set" /\ pc' = IF EvaluateSet = "ALLOW" THEN "manifest" ELSE "ended"
        /\ UNCHANGED <<command, graph, mode, todo, cur, run, subject, verified, report, ran,
                       evidence, decision, stored, faults>>
    BY DEF DecideSet, entryVars
  <1>2. TypeOK'
    BY <1>1 DEF IInv, TypeOK, Labels, Storing
  <1>3. Placement' /\ OpenRuns' /\ DerivedRuns' /\ Verifications' /\ Consistency' /\ Fresh'
        /\ Inspections' /\ GraphInspections' /\ Decisions' /\ NoBlockedWheelExecuted'
    BY <1>1, LabelStep DEF Storing
  <1>4. stored = "none"
    BY <1>1 DEF IInv, Stored
  <1>5. InspectedEntries' = InspectedEntries /\ LockedEntries' = LockedEntries
    BY <1>1, SameGraph DEF InspectedEntries, DerivedEntries
  <1>6. \A e : Approved(e)' = Approved(e) /\ Clean(e)' = Clean(e)
    BY <1>1, SameGraph DEF Approved, Clean, Executable, Occurred
  <1>7. Stored'
    BY <1>1, <1>4, <1>5, <1>6, AllowedSet DEF Stored, Storing
  <1>8. CleanInstallIsPromoted'
    BY <1>1, <1>5, <1>6, CleanSet DEF CleanInstallIsPromoted
  <1> QED BY <1>2, <1>3, <1>7, <1>8 DEF IInv

LEMMA StoreStep ==
    ASSUME IInv, BuildManifest \/ Stage \/ Promote \/ StoreFails
    PROVE  IInv'
  <1>1. /\ pc \in Storing
        /\ UNCHANGED <<command, graph, mode, todo, cur, run, subject, verified, report, ran,
                       evidence, decision>>
    BY DEF BuildManifest, Stage, Promote, StoreFails, Advance, entryVars, setVars, Storing
  <1>2. \/ pc' = "stage" /\ stored' = "manifest"
        \/ pc' = "promote" /\ stored' = "staged"
        \/ pc' = "ended" /\ stored' = "promoted"
        \/ pc' = "ended" /\ stored' = stored /\ faults' # {}
    BY DEF BuildManifest, Stage, Promote, StoreFails, Advance, setVars
  <1>3. TypeOK'
    BY <1>1, <1>2 DEF IInv, TypeOK, Labels, Storing
  <1>4. Placement' /\ OpenRuns' /\ DerivedRuns' /\ Verifications' /\ Consistency' /\ Fresh'
        /\ Inspections' /\ GraphInspections' /\ Decisions' /\ NoBlockedWheelExecuted'
    BY <1>1, <1>2, LabelStep DEF Storing
  <1>5. InspectedEntries' = InspectedEntries
    BY <1>1, SameGraph DEF InspectedEntries, DerivedEntries
  <1>6. \A e : Approved(e)' = Approved(e)
    BY <1>1, SameGraph DEF Approved, Executable, Occurred
  <1>7. Stored' /\ CleanInstallIsPromoted'
    BY <1>1, <1>2, <1>5, <1>6 DEF IInv, Stored, CleanInstallIsPromoted
  <1> QED BY <1>3, <1>4, <1>7 DEF IInv

-----------------------------------------------------------------------------
(* The theorems                                                            *)

\* A call of a port that returns an error, and the two refusals of the
\* workflow itself.
LEMMA FailingSteps ==
    ASSUME IInv,
           \/ ResolveFails \/ RunIDFails \/ AcquireFails \/ VerifyFails \/ InspectFails
           \/ RecordFails \/ BuildFails \/ DynamicRejected \/ DeriveRefused
    PROVE  IInv'
  <1>1. ~Deciding
    BY DEF ResolveFails, RunIDFails, AcquireFails, VerifyFails, InspectFails, RecordFails,
           BuildFails, DynamicRejected, DeriveRefused, Deciding
  <1>2. ASSUME NEW port, port # {}, Fail(port) PROVE IInv'
    <2>1. Excused
      BY <1>2 DEF Fail, Excused
    <2> QED BY <1>1, <1>2, <2>1, FailStep
  <1>3. CASE DynamicRejected
    <2>1. pc = "dynamic" /\ mode # "graph" /\ cur[2] = "derived" /\ Fail({})
      BY <1>3 DEF DynamicRejected, DynamicRequestValid
    <2>2. cur \in Loop
      BY <2>1 DEF IInv, Placement, AtEntry
    <2>3. mode = "derived"
      BY <2>1, <2>2, Entries DEF IInv, TypeOK, Loop
    <2>4. Excused
      BY <2>3 DEF IInv, Placement, Sdists, Excused
    <2> QED BY <1>1, <2>1, <2>4, FailStep
  <1>4. CASE DeriveRefused
    <2>1. Fail({}) /\ Excused
      BY <1>4 DEF DeriveRefused, Sdists, Excused
    <2> QED BY <1>1, <2>1, FailStep
  <1>5. CASE \/ ResolveFails \/ RunIDFails \/ AcquireFails \/ VerifyFails \/ InspectFails
             \/ RecordFails \/ BuildFails
    <2>1. \E port : port # {} /\ Fail(port)
      BY <1>5 DEF ResolveFails, RunIDFails, AcquireFails, VerifyFails, InspectFails,
                  RecordFails, BuildFails
    <2> QED BY <1>2, <2>1
  <1> QED BY <1>3, <1>4, <1>5

LEMMA InvInit == Init => IInv
  <1> SUFFICES ASSUME Init PROVE IInv
    OBVIOUS
  <1> USE DEF Init
  <1>1. NoGraph \in GraphType /\ NoGraph.eco = "npm"
    BY DEF NoGraph, GraphType, Ecosystem
  <1>2. NoReport \in Reports /\ NoReport.static = "none" /\ NoReport.dynamic = "none"
        /\ NoReport.findings = << >>
    BY DEF NoReport, Reports
  <1>3. LockedEntries = {}
    BY DEF LockedEntries, NoGraph
  <1>4. TypeOK
    BY <1>1, <1>2 DEF TypeOK, Labels
  <1>5. Placement /\ OpenRuns /\ DerivedRuns
    BY DEF Placement, OpenRuns, DerivedRuns, Pending, Before, AtEntry
  <1>6. Verifications /\ Inspections /\ GraphInspections /\ Fresh
    BY <1>2 DEF Verifications, Inspections, GraphInspections, Fresh, AtEntry
  <1>7. Consistency
    BY <1>1, <1>2 DEF Consistency, Consistent
  <1>8. Decisions /\ Stored /\ NoBlockedWheelExecuted /\ CleanInstallIsPromoted
    BY <1>3 DEF Decisions, Stored, Storing, NoBlockedWheelExecuted, CleanInstallIsPromoted
  <1> QED BY <1>4, <1>5, <1>6, <1>7, <1>8 DEF IInv

LEMMA InvStep == IInv /\ [Next]_vars => IInv'
  <1> SUFFICES ASSUME IInv, [Next]_vars PROVE IInv'
    OBVIOUS
  <1>1. CASE Next
    BY <1>1, ResolveStep, BeginRunStep, AcquireStep, VerifyStep, StaticEachStep,
       StaticGraphStep, DynamicEachStep, DynamicGraphStep, RecordStep, DecideStep,
       NothingToDeriveStep, DeriveStep, DecideSetStep, StoreStep, FailingSteps
       DEF Next
  <1>2. CASE UNCHANGED vars
    <2> USE <1>2 DEF IInv, vars, entryVars, setVars
    <2>1. /\ LockedEntries' = LockedEntries /\ Loop' = Loop /\ Pending' = Pending /\ Open' = Open
          /\ InspectedEntries' = InspectedEntries
      BY SameGraph DEF Pending, Open, InspectedEntries, DerivedEntries
    <2>2. TypeOK' /\ Placement' /\ OpenRuns' /\ DerivedRuns'
      BY <2>1, SameGraph DEF TypeOK, Placement, OpenRuns, DerivedRuns
    <2>3. Verifications' /\ Consistency' /\ Fresh'
      BY <2>1 DEF Verifications, Checked, Consistency, Consistent, Fresh, Unstarted
    <2>4. \A e : Inspected(e)' = Inspected(e) /\ Checked(e)' = Checked(e)
      BY SameGraph DEF Inspected, Checked
    <2>5. Inspections' /\ GraphInspections' /\ Decisions'
      BY <2>1, <2>4, SameGraph DEF Inspections, GraphInspections, Decisions
    <2>6. \A e : Approved(e)' = Approved(e) /\ Clean(e)' = Clean(e)
      BY SameGraph DEF Approved, Clean, Executable, Occurred
    <2>7. Stored' /\ NoBlockedWheelExecuted' /\ CleanInstallIsPromoted'
      BY <2>1, <2>6, SameGraph DEF Stored, NoBlockedWheelExecuted, CleanInstallIsPromoted
    <2> QED BY <2>2, <2>3, <2>5, <2>7
  <1> QED BY <1>1, <1>2

\* The invariant holds in every behaviour of the specification.
LEMMA Invariant == Spec => []IInv
  BY InvInit, InvStep, PTL DEF Spec

\* Whichever port call fails, and however many runs are open at that moment,
\* the workflow ends with every Inspection Run completed or failed
\* (failPending, failDependencyRun, failRun).
THEOREM RunsAreClosed == Spec => []NoRunLeftOpen
  <1>1. IInv => NoRunLeftOpen
    BY DEF IInv, OpenRuns, Open, Pending, Before, AtEntry, NoRunLeftOpen
  <1> QED BY <1>1, Invariant, PTL

\* For every graph and every trace, what reaches staging or the target was
\* acquired as declared, inspected to the end and found clean (the Policy of
\* an entry, EvaluateSet, and the order in which installs go through them).
THEOREM PromotedWasInspected == Spec => []PromotedIsInspected
  <1>1. IInv => PromotedIsInspected
    BY DEF IInv, Stored, Approved, PromotedIsInspected
  <1> QED BY <1>1, Invariant, PTL

\* In a graph of any size no container runs once a node has a static finding
\* (InspectGraph).
THEOREM BlockedWheelsStayClosed == Spec => []NoBlockedWheelExecuted
  <1>1. IInv => NoBlockedWheelExecuted
    BY DEF IInv
  <1> QED BY <1>1, Invariant, PTL

\* An install of locked packages in which nothing was wrong and no port failed
\* is promoted: no policy holds back what it has no reason to (Evaluate and
\* EvaluateSet of M3 to M6).
THEOREM CleanIsPromoted == Spec => []CleanInstallIsPromoted
  <1>1. IInv => CleanInstallIsPromoted
    BY DEF IInv
  <1> QED BY <1>1, Invariant, PTL
=============================================================================
