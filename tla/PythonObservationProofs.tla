----------------------- MODULE PythonObservationProofs -----------------------
(***************************************************************************)
(* Machine-checked proofs about PythonObservation, for any number of units *)
(* and any CPU ceiling and reserve: a completed result is proof of what it *)
(* says, artifact code runs observed only, an undisturbed transaction ends *)
(* as its units did, and everything is disposed of.                        *)
(***************************************************************************)
EXTENDS PythonObservation, TLAPS

-----------------------------------------------------------------------------
(* The inductive invariant                                                 *)

\* startPhase, before and after the container exists, and terminatePhase.
Creating    == {"begin", "dockerCreate", "creating"}
Bringing    == {"trace", "dockerStart", "register", "await", "started"}
Terminating == {"terminate", "evidence", "terminated"}

\* A unit: up to its termination, with its code perhaps running, and after.
Probing   == {"checkProbe", "admit", "launch"}
Finishing == {"checkClosure", "read", "reading", "finish"}

SetupLabels == {"create", "volume", "watch", "install", "attachments", "prepared", "checkVolume",
                "command"} \cup Creating \cup Bringing \cup Terminating \cup Probing \cup Finishing
Disposing   == {"dispose", "remove"} \cup Terminating
Closing     == {"close", "disposeVolume", "finalize", "done"}
CleanLabels == {"stop", "awaitWatch"} \cup Disposing \cup Closing

Scalars ==
    /\ at \in Runtimes /\ error \in {"no", "yes"} /\ unclean \in {"no", "yes"}
    /\ stage \in {"setup", "cleanup"} /\ cancelled \in {"no", "yes"} /\ transition \in {"no", "yes"}
    /\ watch \in {"off", "idle", "reading", "read", "fault", "abort", "done"}
    /\ watchErr \in {"none", "some"} /\ fault \in {"none", "soft", "overlap", "hard"}
    /\ session \in {"none", "open", "failed", "closed"} /\ volume \in {"none", "made", "gone"}
    /\ outcome \in {"none", "zero", "nonzero", "signaled"}
    /\ seen \in Nat /\ sampled \in Nat /\ booked \in Nat /\ charged \in Nat /\ used \in Nat

Collections ==
    /\ trace \in [Runtimes -> {"none", "open", "complete", "incomplete"}]
    /\ container \in [Runtimes -> {"none", "created", "running", "gone"}]
    /\ todo \in SUBSET Runtimes /\ known \in SUBSET Runtimes /\ doomed \in SUBSET Runtimes
    /\ registered \in SUBSET Runtimes /\ scopes \in SUBSET Runtimes /\ drained \in SUBSET Runtimes
    /\ finished \in SUBSET Runtimes /\ code \in SUBSET Units /\ active \in Runtimes \cup {NoUnit}
    /\ held \in SUBSET {"lease", "volume"}
    /\ ledger \in SUBSET {"failed", "terminal", "prepared", "anchored", "cleaned"}

TypeOK == Scalars /\ Collections

\* The stage and the runtime at hand belong to the label, and so do the
\* existence of the watcher and the errors a label can be reached with.
Control ==
    /\ stage = "setup" => /\ pc \in SetupLabels
                          /\ result = "none" /\ unclean = "no"
                          /\ error = "yes" => pc \in {"register", "await", "started",
                                                      "evidence", "terminated"}
    /\ stage = "cleanup" => /\ pc \in CleanLabels
                            /\ error = "yes" => pc \in {"evidence", "terminated"}
                            /\ result \in (IF pc = "done" THEN {"completed", "incomplete"}
                                           ELSE {"observed", "incomplete"})
    /\ stage = "setup" =>
           /\ pc \in {"create", "volume", "watch", "install", "prepared"} => at = 0
           /\ pc = "attachments" => at = 1
           /\ pc \in {"checkVolume", "command"} \cup Probing \cup Finishing => at \in Units
           /\ pc \in Terminating => at \in {0} \cup Units
           /\ watch = "off" <=> \/ pc \in {"create", "volume", "watch"}
                                \/ pc \in Creating \cup Bringing /\ at = 0
           /\ held = IF pc = "create" THEN {} ELSE IF pc = "volume" THEN {"lease"}
                     ELSE {"lease", "volume"}
    /\ result = "observed" => held = {"lease", "volume"}
    /\ watch \in {"off", "idle", "reading", "read"} => watchErr = "none"
    /\ stage = "cleanup" /\ pc \in Disposing \cup Closing =>
           watch \in {"off", "done"} /\ (unclean = "no" => watchErr = "none")

\* What the engine knows of a registered runtime until the runtime is gone.
Registration ==
    /\ scopes # {} => session \in {"open", "failed"}
    /\ stage = "setup" =>
           /\ pc \in Bringing \ {"started"} => at \in known
           /\ pc \in {"dockerStart", "register"} => trace[at] = "open"
           /\ pc \in {"create", "volume", "checkVolume", "trace", "dockerStart", "register"} \cup Creating =>
                  at \notin registered
           /\ at = 0 /\ pc \notin Terminating \cup {"prepared"} => registered \subseteq {0}
           /\ \A r \in registered : r <= at \/ r = 1
           /\ pc \in {"await", "command"} \cup Probing => at \in registered
           /\ pc = "started" /\ error = "no" => at \in registered /\ at \in known
           /\ pc \in Terminating /\ at \in Units => at \in registered
    /\ \A r \in registered :
           /\ trace[r] # "none"
           /\ Exists(r) => r \in scopes
           /\ Exists(r) /\ fault # "hard" => trace[r] = "open"

\* Where artifact code was launched, and what else there is then.
Launched ==
    /\ code \subseteq registered
    /\ \A r \in code : Running(r) => Attached \subseteq {Anchor, r}
    /\ stage = "setup" =>
           /\ \A r \in code : r <= at
           /\ at \in code => pc \in {"command"} \cup Terminating \cup Finishing
           /\ at \in Units /\ pc \in Creating => Attached \subseteq {Anchor}
           /\ at \in Units /\ pc \in {"command"} \cup Bringing \cup Probing =>
                  Attached \subseteq {Anchor, at}

\* A runtime that was terminated and whose trace was read to its end.
Ended(r) == container[r] = "gone" /\ trace[r] = "complete"

\* What a transaction that has not failed yet has behind it.
Behind ==
    /\ stage = "setup" =>
           /\ at \in Units => /\ Anchor \in known
                              /\ \A r \in Runtimes : r < at /\ r # Anchor => Ended(r)
           /\ pc \in Finishing => Ended(at)
           /\ pc \in {"attachments", "prepared"} \cup Terminating => Anchor \in known
           /\ pc = "terminated" /\ error = "no" => Ended(at)
           /\ pc = "prepared" => Ended(0)
    /\ result = "observed" /\ unclean = "no" =>
           /\ pc \in {"stop", "awaitWatch"} => \A r \in Runtimes : Ended(r) \/ r \in known
           /\ pc = "dispose" => \A r \in Runtimes : Ended(r) \/ r \in todo
           /\ pc \in {"terminate", "evidence"} =>
                  \A r \in Runtimes : Ended(r) \/ r \in todo \cup {at}
           /\ pc = "terminated" /\ error = "no" => \A r \in Runtimes : Ended(r) \/ r \in todo
           /\ pc # "remove"
           /\ pc \in Closing => \A r \in Runtimes : Ended(r)
           /\ pc \in {"disposeVolume", "finalize"} => session = "closed" /\ used <= Ceiling
           /\ pc = "finalize" => volume = "gone"
    /\ CompletedIsProven

\* A runtime that somebody still has to dispose of.
Busy(r) == Exists(r) \/ r \in scopes

\* What is left to dispose of, unless somebody else left it there.
Disposal ==
    fault # "hard" =>
        /\ \A r \in Runtimes : Exists(r) => r \in known
        /\ scopes \subseteq registered \cap known
        /\ volume = "made" => "volume" \in held
        /\ session \in {"open", "failed"} => "lease" \in held
        /\ stage = "cleanup" =>
               /\ pc = "dispose" => \A r \in Runtimes : Busy(r) => r \in todo
               /\ pc \in {"terminate", "evidence", "terminated", "remove"} =>
                      \A r \in Runtimes : Busy(r) => r \in todo \cup {at}
               /\ pc \in {"terminated", "remove"} => at \notin scopes
               /\ pc = "terminated" /\ error = "no" => ~Exists(at)
               /\ pc \in Closing => \A r \in Runtimes : ~Busy(r)
               /\ pc \in Closing \ {"close"} => session \in {"none", "closed"}
               /\ pc \in {"finalize", "done"} => volume # "made"

\* The runtimes an undisturbed transaction has at a label.
Expected ==
    IF stage = "cleanup"
    THEN IF pc \in {"stop", "awaitWatch", "terminate", "evidence"} THEN {1}
         ELSE IF pc = "dispose" THEN todo ELSE {}
    ELSE IF at = 0
    THEN IF pc \in {"create", "volume"} \cup Creating THEN {}
         ELSE IF pc \in {"terminate", "evidence"} THEN {0, 1}
         ELSE IF pc \in {"terminated", "prepared"} THEN {1} ELSE {0}
    ELSE IF at = 1
    THEN IF pc \in Creating THEN {0} ELSE {0, 1}
    ELSE IF pc \in {"checkVolume", "terminated"} \cup Creating \cup Finishing THEN {1} ELSE {1, at}

\* Those of them that are not yet started, and not yet registered.
Unstarted == IF stage = "setup" /\ pc \in {"trace", "dockerStart"} THEN {at} ELSE {}
Unadmitted == IF stage = "setup" /\ pc = "register" THEN {at} ELSE Unstarted

\* An undisturbed transaction is where its plan says, call by call.
Undisturbing ==
    /\ error = "no" /\ unclean = "no" /\ watchErr = "none"
    /\ watch \in {"off", "idle", "reading", "read", "done"}
    /\ watch = "done" => pc = "awaitWatch" \/ (stage = "cleanup" /\ pc \in Disposing \cup Closing)
    /\ cancelled = "yes" => stage = "cleanup" /\ pc \in Disposing \cup Closing
    /\ booked <= used /\ charged <= used /\ seen <= used /\ sampled <= used
    /\ session = IF pc = "create" THEN "none"
                 ELSE IF pc \in Closing \ {"close"} THEN "closed" ELSE "open"
    /\ pc # "remove"
    /\ stage = "setup" /\ pc \in {"dockerCreate", "creating"} \cup Bringing /\ watch # "off" =>
           transition = "yes"

Placed ==
    /\ known = Expected /\ Attached = Expected
    /\ scopes = Expected \ Unadmitted /\ scopes \subseteq registered
    /\ \A r \in Expected \ Unstarted : Running(r)
    /\ \A r \in Unstarted : container[r] = "created"
    /\ \A r \in Expected : trace[r] = "open" \/ (pc = "trace" /\ r = at)
    /\ stage = "setup" => todo = {}
    /\ stage = "cleanup" => /\ todo \subseteq {1}
                            /\ pc \in Terminating => at = 1 /\ todo = {}

Booked ==
    /\ "failed" \in ledger <=> "terminal" \in ledger
    /\ stage = "setup" =>
           /\ "terminal" \notin ledger
           /\ ledger = IF at \in Units THEN {"prepared", "anchored"} ELSE {}
           /\ active = IF at \in Units /\ pc \in {"launch", "command"} \cup Terminating \cup Finishing
                       THEN at ELSE NoUnit
           /\ finished = {r \in Units : r < at}
    /\ stage = "cleanup" =>
           /\ "terminal" \in ledger => result = "incomplete"
           /\ "terminal" \notin ledger =>
                  /\ active = NoUnit /\ finished = Units
                  /\ result = IF pc = "done" THEN "completed" ELSE "observed"
                  /\ ledger = IF pc \in {"finalize", "done"} THEN {"prepared", "cleaned"}
                              ELSE {"prepared", "anchored"}

\* Nothing has happened to it, not even an overlap.
Quiet == fault = "none" /\ used < Ceiling - Reserve

Exact == Quiet => Undisturbing /\ Placed /\ Booked

\* What an overlap leaves, until the result is decided.
Rejected ==
    /\ pc = "create" => fault # "overlap"
    /\ result = "completed" => unclean = "no" /\ "failed" \notin ledger
    /\ fault = "overlap" => \/ "failed" \in ledger \/ watchErr = "some" \/ session = "failed"
                           \/ unclean = "yes" \/ result = "incomplete"

IInv == TypeOK /\ Control /\ Registration /\ Launched /\ Behind /\ Disposal /\ Exact /\ Rejected

-----------------------------------------------------------------------------
(* Every step preserves the types.                                         *)

\* The scalar variables keep their types.
LEMMA ScalarsStep ==
  ASSUME TypeOK, Control, Next
  PROVE  Scalars'
<1> USE PlanAssumption, CPUAssumption
<1> USE DEF Preparation, Anchor, Units, Runtimes, NoUnit, Fault, Overlap, Unless, Goto, Proceed,
        GiveUp, Within, Broken, Checked, Running, Exists, Attached, executor, watcher,
        books, engine, docker, local, rest, startUnchanged, checkUnchanged, unitUnchanged,
        termUnchanged, cleanUnchanged, watchUnchanged, Scalars, TypeOK, Collections,
        Control, SetupLabels, Creating, Bringing, Terminating, Probing, Finishing,
        CleanLabels, Disposing, Closing
<1>1. CASE CreateLease \/ CreateVolume \/ BeginTransition \/ LaunchCreate \/ DockerCreate
  BY <1>1 DEF CreateLease, CreateVolume, BeginTransition, SampleMuFree, SampleOK, ReadOK,
      Readable, MembersKnown, AccountOK, Accepts, Exhausted, SampleFails, ReadFails,
      AccountRejected, LaunchCreate, DockerCreate
<1>2. CASE StartTrace \/ DockerStart \/ Register \/ AwaitRuntime \/ EndTransition
  BY <1>2 DEF StartTrace, DockerStart, Register, Admitted, AwaitRuntime, EndTransition,
      SampleMuFree, AfterStart, SampleOK, ReadOK, Readable, MembersKnown, AccountOK,
      Accepts, Exhausted, SampleFails, ReadFails, AccountRejected
<1>3. CASE StartWatch \/ Install \/ CheckPrepared \/ ClosureFixed \/ CheckVolume \/
          CheckProbe \/ CheckClosure
  BY <1>3 DEF StartWatch, SampleOK, ReadOK, Readable, MembersKnown, AccountOK, Accepts,
      Exhausted, SampleFails, ReadFails, AccountRejected, Install, CheckPrepared,
      CheckAttachments, ClosureFixed, CheckVolume, CheckProbe, CheckClosure
<1>4. CASE BeginUnit \/ Launch \/ CommandEnds \/ BeginRead \/ EndRead \/ FinishUnit
  BY <1>4 DEF BeginUnit, Admissible, Launch, CommandEnds, BeginRead, MembersKnown,
      ReadFails, Readable, EndRead, ReadReturns, ReadRejected, FinishUnit, AccountRejected,
      Accepts, Exhausted, Qualifies, NextUnit
<1>5. CASE BeginTermination \/ TerminateRuntime \/ EndTermination
  BY <1>5 DEF BeginTermination, SampleMuFree, SampleOK, ReadOK, Readable, MembersKnown,
      AccountOK, Accepts, Exhausted, SampleFails, ReadFails, AccountRejected,
      TerminateRuntime, Evidence, TerminateOK, Gone, Collected, TerminateRefused,
      TerminateLost, TerminateRejected, TerminateStuck, EndTermination, Terminated
<1>6. CASE StopWatch \/ AwaitWatch \/ Dispose \/ Remove \/ Close \/ DisposeVolume \/
          Finalize
  BY <1>6 DEF StopWatch, AwaitWatch, Dispose, Disposable, Remove, Gone, Close, Closable,
      MembersKnown, DisposeVolume, RemoveVolume, Finalize, Final
<1>7. CASE WatchTick \/ WatchReadReturns \/ WatchAccount \/ WatchLate \/ WatchEnds \/
          WatchCancel \/ AbortRuntime \/ AbortEnds
  BY <1>7 DEF WatchTick, Stopping, MembersKnown, ReadFails, Readable, WatchReadReturns,
      ReadReturns, ReadRejected, WatchAccount, Accounted, AccountOK, Accepts, Exhausted,
      AccountRejected, WatchLate, WatchEnds, WatchCancel, AbortRuntime, TerminateOK, Gone,
      TerminateRejected, TerminateLost, TerminateStuck, AbortEnds
<1>8. CASE Burn \/ Cancel
  BY <1>8 DEF Burn, Cancel
<1> QED BY <1>1, <1>2, <1>3, <1>4, <1>5, <1>6, <1>7, <1>8 DEF Next, Executor, Watcher

\* The sets and functions keep their types.
LEMMA CollectionsStep ==
  ASSUME TypeOK, Control, Next
  PROVE  Collections'
<1> USE PlanAssumption, CPUAssumption
<1> USE DEF Preparation, Anchor, Units, Runtimes, NoUnit, Fault, Overlap, Unless, Goto, Proceed,
        GiveUp, Within, Broken, Checked, Running, Exists, Attached, executor, watcher,
        books, engine, docker, local, rest, startUnchanged, checkUnchanged, unitUnchanged,
        termUnchanged, cleanUnchanged, watchUnchanged, Collections, TypeOK, Scalars,
        Control, SetupLabels, Creating, Bringing, Terminating, Probing, Finishing,
        CleanLabels, Disposing, Closing
<1>1. CASE CreateLease
  BY <1>1 DEF CreateLease
<1>2. CASE CreateVolume
  BY <1>2 DEF CreateVolume
<1>3. CASE BeginTransition
  BY <1>3 DEF BeginTransition, SampleMuFree, SampleOK, ReadOK, Readable, MembersKnown,
      AccountOK, Accepts, Exhausted, SampleFails, ReadFails, AccountRejected
<1>4. CASE LaunchCreate
  BY <1>4 DEF LaunchCreate
<1>5. CASE DockerCreate
  BY <1>5 DEF DockerCreate
<1>6. CASE StartTrace
  BY <1>6 DEF StartTrace
<1>7. CASE DockerStart
  BY <1>7 DEF DockerStart
<1>8. CASE Register
  BY <1>8 DEF Register, Admitted
<1>9. CASE AwaitRuntime
  BY <1>9 DEF AwaitRuntime
<1>10. CASE EndTransition
  BY <1>10 DEF EndTransition, SampleMuFree, AfterStart, SampleOK, ReadOK, Readable,
      MembersKnown, AccountOK, Accepts, Exhausted, SampleFails, ReadFails, AccountRejected
<1>11. CASE StartWatch
  BY <1>11 DEF StartWatch, SampleOK, ReadOK, Readable, MembersKnown, AccountOK, Accepts,
      Exhausted, SampleFails, ReadFails, AccountRejected
<1>12. CASE Install
  BY <1>12 DEF Install
<1>13. CASE CheckPrepared
  BY <1>13 DEF CheckPrepared, CheckAttachments
<1>14. CASE ClosureFixed
  BY <1>14 DEF ClosureFixed
<1>15. CASE CheckVolume
  BY <1>15 DEF CheckVolume, CheckAttachments
<1>16. CASE CheckProbe
  BY <1>16 DEF CheckProbe, CheckAttachments
<1>17. CASE CheckClosure
  BY <1>17 DEF CheckClosure, CheckAttachments
<1>18. CASE BeginUnit
  BY <1>18 DEF BeginUnit, Admissible
<1>19. CASE Launch
  BY <1>19 DEF Launch
<1>20. CASE CommandEnds
  BY <1>20 DEF CommandEnds
<1>21. CASE BeginRead
  BY <1>21 DEF BeginRead, MembersKnown, ReadFails, Readable
<1>22. CASE EndRead
  BY <1>22 DEF EndRead, ReadReturns, ReadRejected
<1>23. CASE FinishUnit
  BY <1>23 DEF FinishUnit, AccountRejected, Accepts, Exhausted, Qualifies, NextUnit
<1>24. CASE BeginTermination
  BY <1>24 DEF BeginTermination, SampleMuFree, SampleOK, ReadOK, Readable, MembersKnown,
      AccountOK, Accepts, Exhausted, SampleFails, ReadFails, AccountRejected
<1>25. CASE TerminateRuntime
  <2>1. (trace \in [Runtimes -> {"none", "open", "complete", "incomplete"}])'
    BY <1>25 DEF TerminateRuntime, Evidence, TerminateOK, Gone, Collected,
       TerminateRefused, TerminateLost, TerminateRejected, TerminateStuck
  <2>2. (container \in [Runtimes -> {"none", "created", "running", "gone"}])'
    BY <1>25 DEF TerminateRuntime, Evidence, TerminateOK, Gone, Collected,
       TerminateRefused, TerminateLost, TerminateRejected, TerminateStuck
  <2>3. known' \in SUBSET Runtimes /\ scopes' \in SUBSET Runtimes /\ drained' \in SUBSET Runtimes
    BY <1>25 DEF TerminateRuntime, Evidence, TerminateOK, Gone, Collected,
       TerminateRefused, TerminateLost, TerminateRejected, TerminateStuck
  <2>4. UNCHANGED <<todo, doomed, registered, finished, code, active, held, ledger>>
    BY <1>25 DEF TerminateRuntime
  <2> QED BY <2>1, <2>2, <2>3, <2>4
<1>26. CASE EndTermination
  BY <1>26 DEF EndTermination, SampleMuFree, Terminated, SampleOK, ReadOK, Readable,
      MembersKnown, AccountOK, Accepts, Exhausted, SampleFails, ReadFails, AccountRejected
<1>27. CASE StopWatch
  BY <1>27 DEF StopWatch
<1>28. CASE AwaitWatch
  BY <1>28 DEF AwaitWatch
<1>29. CASE Dispose
  BY <1>29 DEF Dispose, Disposable
<1>30. CASE Remove
  BY <1>30 DEF Remove, Gone
<1>31. CASE Close
  BY <1>31 DEF Close, Closable, MembersKnown
<1>32. CASE DisposeVolume
  BY <1>32 DEF DisposeVolume, RemoveVolume
<1>33. CASE Finalize
  BY <1>33 DEF Finalize, Final
<1>34. CASE WatchTick
  BY <1>34 DEF WatchTick, Stopping, MembersKnown, ReadFails, Readable
<1>35. CASE WatchReadReturns
  BY <1>35 DEF WatchReadReturns, ReadReturns, ReadRejected
<1>36. CASE WatchAccount
  BY <1>36 DEF WatchAccount, Accounted, AccountOK, Accepts, Exhausted, AccountRejected
<1>37. CASE WatchLate
  BY <1>37 DEF WatchLate, Stopping
<1>38. CASE WatchEnds
  BY <1>38 DEF WatchEnds, Stopping
<1>39. CASE WatchCancel
  BY <1>39 DEF WatchCancel
<1>40. CASE AbortRuntime
  <2>1. (container \in [Runtimes -> {"none", "created", "running", "gone"}])'
    BY <1>40 DEF AbortRuntime, TerminateOK, Gone, TerminateRejected, TerminateLost,
       TerminateStuck
  <2>2. PICK r \in doomed : scopes' \in {scopes, scopes \ {r}} /\ drained' \in {drained, drained \cup {r}}
    BY <1>40 DEF AbortRuntime, TerminateOK, Gone, TerminateRejected, TerminateLost,
       TerminateStuck
  <2>3. doomed' \in SUBSET Runtimes
    BY <1>40 DEF AbortRuntime
  <2>4. UNCHANGED <<trace, known, todo, registered, finished, code, active, held, ledger>>
    BY <1>40 DEF AbortRuntime
  <2> QED BY <2>1, <2>2, <2>3, <2>4
<1>41. CASE AbortEnds
  BY <1>41 DEF AbortEnds
<1>42. CASE Burn
  BY <1>42 DEF Burn
<1>43. CASE Cancel
  BY <1>43 DEF Cancel
<1> QED BY <1>1, <1>2, <1>3, <1>4, <1>5, <1>6, <1>7, <1>8, <1>9, <1>10, <1>11, <1>12, <1>13,
      <1>14, <1>15, <1>16, <1>17, <1>18, <1>19, <1>20, <1>21, <1>22, <1>23, <1>24, <1>25,
      <1>26, <1>27, <1>28, <1>29, <1>30, <1>31, <1>32, <1>33, <1>34, <1>35, <1>36, <1>37,
      <1>38, <1>39, <1>40, <1>41, <1>42, <1>43 DEF Next, Executor, Watcher

-----------------------------------------------------------------------------
(* The executor's labels.                                                  *)

\* Stage, runtime and errors stay those of the label.
LEMMA ControlStep ==
  ASSUME TypeOK, Control, Next
  PROVE  Control'
<1> USE PlanAssumption, CPUAssumption
<1> USE DEF Preparation, Anchor, Units, Runtimes, NoUnit, Fault, Overlap, Unless, Goto, Proceed,
        GiveUp, Within, Broken, Checked, Running, Exists, Attached, executor, watcher,
        books, engine, docker, local, rest, startUnchanged, checkUnchanged, unitUnchanged,
        termUnchanged, cleanUnchanged, watchUnchanged, Control, SetupLabels, Creating,
        Bringing, Terminating, Probing, Finishing, CleanLabels, Disposing, Closing, TypeOK,
        Scalars, Collections
<1>1. CASE CreateLease
  BY <1>1 DEF CreateLease
<1>2. CASE CreateVolume
  BY <1>2 DEF CreateVolume
<1>3. CASE BeginTransition
  BY <1>3 DEF BeginTransition, SampleMuFree, SampleOK, ReadOK, Readable, MembersKnown,
      AccountOK, Accepts, Exhausted, SampleFails, ReadFails, AccountRejected
<1>4. CASE LaunchCreate
  BY <1>4 DEF LaunchCreate
<1>5. CASE DockerCreate
  BY <1>5 DEF DockerCreate
<1>6. CASE StartTrace
  BY <1>6 DEF StartTrace
<1>7. CASE DockerStart
  BY <1>7 DEF DockerStart
<1>8. CASE Register
  BY <1>8 DEF Register, Admitted
<1>9. CASE AwaitRuntime
  BY <1>9 DEF AwaitRuntime
<1>10. CASE EndTransition
  <2>1. /\ at = 0 => AfterStart = "watch"
        /\ at = 1 => AfterStart = "attachments"
        /\ at \notin {0, 1} => AfterStart = "checkProbe"
    BY DEF AfterStart
  <2>2. pc = "started" /\ UNCHANGED <<at, unclean, held, watch, watchErr>>
    BY <1>10 DEF EndTransition
  <2>3. \/ error = "no" /\ pc' = AfterStart /\ UNCHANGED <<stage, error, result>>
        \/ GiveUp
    BY <1>10 DEF EndTransition
  <2> QED BY <2>1, <2>2, <2>3
<1>11. CASE StartWatch
  BY <1>11 DEF StartWatch, SampleOK, ReadOK, Readable, MembersKnown, AccountOK, Accepts,
      Exhausted, SampleFails, ReadFails, AccountRejected
<1>12. CASE Install
  BY <1>12 DEF Install
<1>13. CASE CheckPrepared
  BY <1>13 DEF CheckPrepared, CheckAttachments
<1>14. CASE ClosureFixed
  BY <1>14 DEF ClosureFixed
<1>15. CASE CheckVolume
  BY <1>15 DEF CheckVolume, CheckAttachments
<1>16. CASE CheckProbe
  BY <1>16 DEF CheckProbe, CheckAttachments
<1>17. CASE CheckClosure
  BY <1>17 DEF CheckClosure, CheckAttachments
<1>18. CASE BeginUnit
  BY <1>18 DEF BeginUnit, Admissible
<1>19. CASE Launch
  BY <1>19 DEF Launch
<1>20. CASE CommandEnds
  BY <1>20 DEF CommandEnds
<1>21. CASE BeginRead
  BY <1>21 DEF BeginRead, MembersKnown, ReadFails, Readable
<1>22. CASE EndRead
  BY <1>22 DEF EndRead, ReadReturns, ReadRejected
<1>23. CASE FinishUnit
  BY <1>23 DEF FinishUnit, AccountRejected, Accepts, Exhausted, Qualifies, NextUnit
<1>24. CASE BeginTermination
  BY <1>24 DEF BeginTermination, SampleMuFree, SampleOK, ReadOK, Readable, MembersKnown,
      AccountOK, Accepts, Exhausted, SampleFails, ReadFails, AccountRejected
<1>25. CASE TerminateRuntime
  BY <1>25 DEF TerminateRuntime, Evidence, TerminateOK, Gone, Collected, TerminateRefused,
      TerminateLost, TerminateRejected, TerminateStuck
<1>26. CASE EndTermination
  BY <1>26 DEF EndTermination, SampleMuFree, Terminated, SampleOK, ReadOK, Readable,
      MembersKnown, AccountOK, Accepts, Exhausted, SampleFails, ReadFails, AccountRejected
<1>27. CASE StopWatch
  BY <1>27 DEF StopWatch
<1>28. CASE AwaitWatch
  BY <1>28 DEF AwaitWatch
<1>29. CASE Dispose
  BY <1>29 DEF Dispose, Disposable
<1>30. CASE Remove
  BY <1>30 DEF Remove, Gone
<1>31. CASE Close
  BY <1>31 DEF Close, Closable, MembersKnown
<1>32. CASE DisposeVolume
  BY <1>32 DEF DisposeVolume, RemoveVolume
<1>33. CASE Finalize
  BY <1>33 DEF Finalize, Final
<1>34. CASE WatchTick
  BY <1>34 DEF WatchTick, Stopping, MembersKnown, ReadFails, Readable
<1>35. CASE WatchReadReturns
  BY <1>35 DEF WatchReadReturns, ReadReturns, ReadRejected
<1>36. CASE WatchAccount
  BY <1>36 DEF WatchAccount, Accounted, AccountOK, Accepts, Exhausted, AccountRejected
<1>37. CASE WatchLate
  BY <1>37 DEF WatchLate, Stopping
<1>38. CASE WatchEnds
  BY <1>38 DEF WatchEnds, Stopping
<1>39. CASE WatchCancel
  BY <1>39 DEF WatchCancel
<1>40. CASE AbortRuntime
  BY <1>40 DEF AbortRuntime, TerminateOK, Gone, TerminateRejected, TerminateLost,
      TerminateStuck
<1>41. CASE AbortEnds
  BY <1>41 DEF AbortEnds
<1>42. CASE Burn
  BY <1>42 DEF Burn
<1>43. CASE Cancel
  BY <1>43 DEF Cancel
<1> QED BY <1>1, <1>2, <1>3, <1>4, <1>5, <1>6, <1>7, <1>8, <1>9, <1>10, <1>11, <1>12, <1>13,
      <1>14, <1>15, <1>16, <1>17, <1>18, <1>19, <1>20, <1>21, <1>22, <1>23, <1>24, <1>25,
      <1>26, <1>27, <1>28, <1>29, <1>30, <1>31, <1>32, <1>33, <1>34, <1>35, <1>36, <1>37,
      <1>38, <1>39, <1>40, <1>41, <1>42, <1>43 DEF Next, Executor, Watcher

-----------------------------------------------------------------------------
(* Registration and what artifact code meets.                              *)

\* A registered runtime stays in the session, with its trace, until it is gone.
LEMMA RegistrationStep ==
  ASSUME TypeOK, Control, Registration, Next
  PROVE  Registration'
<1> USE PlanAssumption, CPUAssumption
<1> USE DEF Preparation, Anchor, Units, Runtimes, NoUnit, Fault, Overlap, Unless, Goto, Proceed,
        GiveUp, Within, Broken, Checked, Running, Exists, Attached, executor, watcher,
        books, engine, docker, local, rest, startUnchanged, checkUnchanged, unitUnchanged,
        termUnchanged, cleanUnchanged, watchUnchanged, Registration, Bringing, Creating,
        Terminating, Probing, TypeOK, Scalars, Collections, Control, SetupLabels, Finishing,
        CleanLabels, Disposing, Closing
<1>1. CASE CreateLease
  BY <1>1 DEF CreateLease
<1>2. CASE CreateVolume
  BY <1>2 DEF CreateVolume
<1>3. CASE BeginTransition
  BY <1>3 DEF BeginTransition, SampleMuFree, SampleOK, ReadOK, Readable, MembersKnown,
      AccountOK, Accepts, Exhausted, SampleFails, ReadFails, AccountRejected
<1>4. CASE LaunchCreate
  BY <1>4 DEF LaunchCreate
<1>5. CASE DockerCreate
  BY <1>5 DEF DockerCreate
<1>6. CASE StartTrace
  BY <1>6 DEF StartTrace
<1>7. CASE DockerStart
  BY <1>7 DEF DockerStart
<1>8. CASE Register
  <2>1. pc = "register" /\ stage = "setup" /\ UNCHANGED <<stage, at, known, trace, container>>
    BY <1>8 DEF Register
  <2>2. \/ registered' = registered \cup {at} /\ scopes' = scopes \cup {at} /\ pc' = "await"
        \/ registered' = registered /\ scopes \subseteq scopes' /\ pc' = "started" /\ error' = "yes"
    BY <1>8 DEF Register
  <2>3. (scopes # {})' => (session \in {"open", "failed"})'
    BY <1>8 DEF Register, Admitted
  <2>4. fault' = "hard" \/ fault # "hard"
    BY <1>8 DEF Register, Admitted
  <2>5. \A r \in registered' : Exists(r) => r \in scopes'
    BY <2>1, <2>2
  <2>6. \A r \in registered' : r <= at \/ r = 1
    <3>1. at <= at
      OBVIOUS
    <3>2. \A r \in registered : r <= at \/ r = 1
      BY <2>1
    <3>3. registered' \subseteq registered \cup {at}
      BY <2>2
    <3> QED BY <3>1, <3>2, <3>3
  <2> QED BY <2>1, <2>2, <2>3, <2>4, <2>5, <2>6
<1>9. CASE AwaitRuntime
  BY <1>9 DEF AwaitRuntime
<1>10. CASE EndTransition
  <2>1. AfterStart \in {"watch", "attachments", "checkProbe"}
    BY DEF AfterStart
  <2>2. /\ pc = "started" /\ UNCHANGED <<at, known, registered, trace, container>>
        /\ scopes' = scopes /\ (session \in {"open", "failed"} => session' \in {"open", "failed"})
        /\ fault' = "hard" \/ fault # "hard"
    BY <1>10 DEF EndTransition, SampleMuFree, AfterStart, SampleOK, ReadOK, Readable,
       MembersKnown, AccountOK, Accepts, Exhausted, SampleFails, ReadFails,
       AccountRejected
  <2>3. \/ error = "no" /\ pc' = AfterStart /\ UNCHANGED <<stage, error, result>>
        \/ GiveUp
    BY <1>10 DEF EndTransition
  <2> QED BY <2>1, <2>2, <2>3
<1>11. CASE StartWatch
  BY <1>11 DEF StartWatch, SampleOK, ReadOK, Readable, MembersKnown, AccountOK, Accepts,
      Exhausted, SampleFails, ReadFails, AccountRejected
<1>12. CASE Install
  BY <1>12 DEF Install
<1>13. CASE CheckPrepared
  BY <1>13 DEF CheckPrepared, CheckAttachments
<1>14. CASE ClosureFixed
  BY <1>14 DEF ClosureFixed
<1>15. CASE CheckVolume
  BY <1>15 DEF CheckVolume, CheckAttachments
<1>16. CASE CheckProbe
  BY <1>16 DEF CheckProbe, CheckAttachments
<1>17. CASE CheckClosure
  BY <1>17 DEF CheckClosure, CheckAttachments
<1>18. CASE BeginUnit
  BY <1>18 DEF BeginUnit, Admissible
<1>19. CASE Launch
  BY <1>19 DEF Launch
<1>20. CASE CommandEnds
  BY <1>20 DEF CommandEnds
<1>21. CASE BeginRead
  BY <1>21 DEF BeginRead, MembersKnown, ReadFails, Readable
<1>22. CASE EndRead
  BY <1>22 DEF EndRead, ReadReturns, ReadRejected
<1>23. CASE FinishUnit
  BY <1>23 DEF FinishUnit, AccountRejected, Accepts, Exhausted, Qualifies, NextUnit
<1>24. CASE BeginTermination
  BY <1>24 DEF BeginTermination, SampleMuFree, SampleOK, ReadOK, Readable, MembersKnown,
      AccountOK, Accepts, Exhausted, SampleFails, ReadFails, AccountRejected
<1>25. CASE TerminateRuntime
  BY <1>25 DEF TerminateRuntime, Evidence, TerminateOK, Gone, Collected, TerminateRefused,
      TerminateLost, TerminateRejected, TerminateStuck
<1>26. CASE EndTermination
  BY <1>26 DEF EndTermination, SampleMuFree, Terminated, SampleOK, ReadOK, Readable,
      MembersKnown, AccountOK, Accepts, Exhausted, SampleFails, ReadFails, AccountRejected
<1>27. CASE StopWatch
  BY <1>27 DEF StopWatch
<1>28. CASE AwaitWatch
  BY <1>28 DEF AwaitWatch
<1>29. CASE Dispose
  BY <1>29 DEF Dispose, Disposable
<1>30. CASE Remove
  BY <1>30 DEF Remove, Gone
<1>31. CASE Close
  BY <1>31 DEF Close, Closable, MembersKnown
<1>32. CASE DisposeVolume
  BY <1>32 DEF DisposeVolume, RemoveVolume
<1>33. CASE Finalize
  BY <1>33 DEF Finalize, Final
<1>34. CASE WatchTick
  BY <1>34 DEF WatchTick, Stopping, MembersKnown, ReadFails, Readable
<1>35. CASE WatchReadReturns
  BY <1>35 DEF WatchReadReturns, ReadReturns, ReadRejected
<1>36. CASE WatchAccount
  BY <1>36 DEF WatchAccount, Accounted, AccountOK, Accepts, Exhausted, AccountRejected
<1>37. CASE WatchLate
  BY <1>37 DEF WatchLate, Stopping
<1>38. CASE WatchEnds
  BY <1>38 DEF WatchEnds, Stopping
<1>39. CASE WatchCancel
  BY <1>39 DEF WatchCancel
<1>40. CASE AbortRuntime
  BY <1>40 DEF AbortRuntime, TerminateOK, Gone, TerminateRejected, TerminateLost,
      TerminateStuck
<1>41. CASE AbortEnds
  BY <1>41 DEF AbortEnds
<1>42. CASE Burn
  BY <1>42 DEF Burn
<1>43. CASE Cancel
  BY <1>43 DEF Cancel
<1> QED BY <1>1, <1>2, <1>3, <1>4, <1>5, <1>6, <1>7, <1>8, <1>9, <1>10, <1>11, <1>12, <1>13,
      <1>14, <1>15, <1>16, <1>17, <1>18, <1>19, <1>20, <1>21, <1>22, <1>23, <1>24, <1>25,
      <1>26, <1>27, <1>28, <1>29, <1>30, <1>31, <1>32, <1>33, <1>34, <1>35, <1>36, <1>37,
      <1>38, <1>39, <1>40, <1>41, <1>42, <1>43 DEF Next, Executor, Watcher

\* While artifact code runs, no other runtime but the anchor has the closure.
LEMMA LaunchedStep ==
  ASSUME TypeOK, Control, Registration, Launched, Next
  PROVE  Launched'
<1> USE PlanAssumption, CPUAssumption
<1> USE DEF Preparation, Anchor, Units, Runtimes, NoUnit, Fault, Overlap, Unless, Goto, Proceed,
        GiveUp, Within, Broken, Checked, Running, Exists, Attached, executor, watcher,
        books, engine, docker, local, rest, startUnchanged, checkUnchanged, unitUnchanged,
        termUnchanged, cleanUnchanged, watchUnchanged, Launched, Terminating, Finishing,
        Creating, Bringing, Probing, TypeOK, Scalars, Collections, Control, SetupLabels,
        CleanLabels, Disposing, Closing, Registration
<1>1. CASE CreateLease
  BY <1>1 DEF CreateLease
<1>2. CASE CreateVolume
  BY <1>2 DEF CreateVolume
<1>3. CASE BeginTransition
  BY <1>3 DEF BeginTransition, SampleMuFree, SampleOK, ReadOK, Readable, MembersKnown,
      AccountOK, Accepts, Exhausted, SampleFails, ReadFails, AccountRejected
<1>4. CASE LaunchCreate
  BY <1>4 DEF LaunchCreate
<1>5. CASE DockerCreate
  BY <1>5 DEF DockerCreate
<1>6. CASE StartTrace
  BY <1>6 DEF StartTrace
<1>7. CASE DockerStart
  BY <1>7 DEF DockerStart
<1>8. CASE Register
  BY <1>8 DEF Register, Admitted
<1>9. CASE AwaitRuntime
  BY <1>9 DEF AwaitRuntime
<1>10. CASE EndTransition
  BY <1>10 DEF EndTransition, SampleMuFree, AfterStart, SampleOK, ReadOK, Readable,
      MembersKnown, AccountOK, Accepts, Exhausted, SampleFails, ReadFails, AccountRejected
<1>11. CASE StartWatch
  BY <1>11 DEF StartWatch, SampleOK, ReadOK, Readable, MembersKnown, AccountOK, Accepts,
      Exhausted, SampleFails, ReadFails, AccountRejected
<1>12. CASE Install
  BY <1>12 DEF Install
<1>13. CASE CheckPrepared
  BY <1>13 DEF CheckPrepared, CheckAttachments
<1>14. CASE ClosureFixed
  BY <1>14 DEF ClosureFixed
<1>15. CASE CheckVolume
  BY <1>15 DEF CheckVolume, CheckAttachments
<1>16. CASE CheckProbe
  BY <1>16 DEF CheckProbe, CheckAttachments
<1>17. CASE CheckClosure
  BY <1>17 DEF CheckClosure, CheckAttachments
<1>18. CASE BeginUnit
  BY <1>18 DEF BeginUnit, Admissible
<1>19. CASE Launch
  <2>1. pc = "launch" /\ stage = "setup" /\ UNCHANGED <<stage, at, registered, container>>
    BY <1>19 DEF Launch
  <2>2. pc' \in {"command", "terminate"}
    BY <1>19 DEF Launch
  <2>3. code' = code \cup {at} \/ (code' = code /\ pc' = "terminate")
    BY <1>19 DEF Launch
  <2>4. Attached' = Attached
    BY <2>1
  <2>5. code' \subseteq code \cup {at} /\ at \in registered /\ at <= at
    BY <2>1, <2>3
  <2>6. Attached \subseteq {Anchor, at}
    BY <2>1
  <2>7. \A r \in code' : Running(r) => Attached \subseteq {Anchor, r}
    BY ONLY <2>5, <2>6, Launched DEF Launched
  <2>8. \A r \in code' : r <= at /\ r \in registered'
    BY <2>1, <2>5
  <2> QED BY <2>1, <2>2, <2>3, <2>4, <2>7, <2>8
<1>20. CASE CommandEnds
  BY <1>20 DEF CommandEnds
<1>21. CASE BeginRead
  BY <1>21 DEF BeginRead, MembersKnown, ReadFails, Readable
<1>22. CASE EndRead
  BY <1>22 DEF EndRead, ReadReturns, ReadRejected
<1>23. CASE FinishUnit
  BY <1>23 DEF FinishUnit, AccountRejected, Accepts, Exhausted, Qualifies, NextUnit
<1>24. CASE BeginTermination
  BY <1>24 DEF BeginTermination, SampleMuFree, SampleOK, ReadOK, Readable, MembersKnown,
      AccountOK, Accepts, Exhausted, SampleFails, ReadFails, AccountRejected
<1>25. CASE TerminateRuntime
  BY <1>25 DEF TerminateRuntime, Evidence, TerminateOK, Gone, Collected, TerminateRefused,
      TerminateLost, TerminateRejected, TerminateStuck
<1>26. CASE EndTermination
  BY <1>26 DEF EndTermination, SampleMuFree, Terminated, SampleOK, ReadOK, Readable,
      MembersKnown, AccountOK, Accepts, Exhausted, SampleFails, ReadFails, AccountRejected
<1>27. CASE StopWatch
  BY <1>27 DEF StopWatch
<1>28. CASE AwaitWatch
  BY <1>28 DEF AwaitWatch
<1>29. CASE Dispose
  BY <1>29 DEF Dispose, Disposable
<1>30. CASE Remove
  BY <1>30 DEF Remove, Gone
<1>31. CASE Close
  BY <1>31 DEF Close, Closable, MembersKnown
<1>32. CASE DisposeVolume
  BY <1>32 DEF DisposeVolume, RemoveVolume
<1>33. CASE Finalize
  BY <1>33 DEF Finalize, Final
<1>34. CASE WatchTick
  BY <1>34 DEF WatchTick, Stopping, MembersKnown, ReadFails, Readable
<1>35. CASE WatchReadReturns
  BY <1>35 DEF WatchReadReturns, ReadReturns, ReadRejected
<1>36. CASE WatchAccount
  BY <1>36 DEF WatchAccount, Accounted, AccountOK, Accepts, Exhausted, AccountRejected
<1>37. CASE WatchLate
  BY <1>37 DEF WatchLate, Stopping
<1>38. CASE WatchEnds
  BY <1>38 DEF WatchEnds, Stopping
<1>39. CASE WatchCancel
  BY <1>39 DEF WatchCancel
<1>40. CASE AbortRuntime
  <2>1. UNCHANGED <<pc, stage, at, registered, code>>
    BY <1>40 DEF AbortRuntime
  <2>2. \A r \in Runtimes : container'[r] \in {container[r], "gone"}
    BY <1>40 DEF AbortRuntime, TerminateOK, Gone, TerminateRejected, TerminateLost,
       TerminateStuck
  <2>3. Attached' \subseteq Attached /\ \A r \in code : container'[r] = "running" => Running(r)
    BY <2>2
  <2> QED BY <2>1, <2>3
<1>41. CASE AbortEnds
  BY <1>41 DEF AbortEnds
<1>42. CASE Burn
  BY <1>42 DEF Burn
<1>43. CASE Cancel
  BY <1>43 DEF Cancel
<1> QED BY <1>1, <1>2, <1>3, <1>4, <1>5, <1>6, <1>7, <1>8, <1>9, <1>10, <1>11, <1>12, <1>13,
      <1>14, <1>15, <1>16, <1>17, <1>18, <1>19, <1>20, <1>21, <1>22, <1>23, <1>24, <1>25,
      <1>26, <1>27, <1>28, <1>29, <1>30, <1>31, <1>32, <1>33, <1>34, <1>35, <1>36, <1>37,
      <1>38, <1>39, <1>40, <1>41, <1>42, <1>43 DEF Next, Executor, Watcher

-----------------------------------------------------------------------------
(* What a successful transaction has behind it, and what is to dispose of. *)

\* Every runtime behind the executor is terminated and its trace complete.
LEMMA BehindStep ==
  ASSUME TypeOK, Control, Registration, Behind, Next
  PROVE  Behind'
<1> USE PlanAssumption, CPUAssumption
<1> USE DEF Preparation, Anchor, Units, Runtimes, NoUnit, Fault, Overlap, Unless, Goto, Proceed,
        GiveUp, Within, Broken, Checked, Running, Exists, Attached, executor, watcher,
        books, engine, docker, local, rest, startUnchanged, checkUnchanged, unitUnchanged,
        termUnchanged, cleanUnchanged, watchUnchanged, Behind, Ended, Finishing,
        Terminating, Closing, CompletedIsProven, TypeOK, Scalars, Collections, Control,
        SetupLabels, Creating, Bringing, Probing, CleanLabels, Disposing, Registration
<1>1. CASE CreateLease
  BY <1>1 DEF CreateLease
<1>2. CASE CreateVolume
  BY <1>2 DEF CreateVolume
<1>3. CASE BeginTransition
  BY <1>3 DEF BeginTransition, SampleMuFree, SampleOK, ReadOK, Readable, MembersKnown,
      AccountOK, Accepts, Exhausted, SampleFails, ReadFails, AccountRejected
<1>4. CASE LaunchCreate
  BY <1>4 DEF LaunchCreate
<1>5. CASE DockerCreate
  BY <1>5 DEF DockerCreate
<1>6. CASE StartTrace
  BY <1>6 DEF StartTrace
<1>7. CASE DockerStart
  BY <1>7 DEF DockerStart
<1>8. CASE Register
  BY <1>8 DEF Register, Admitted
<1>9. CASE AwaitRuntime
  BY <1>9 DEF AwaitRuntime
<1>10. CASE EndTransition
  <2>1. /\ at = 0 => AfterStart = "watch"
        /\ at = 1 => AfterStart = "attachments"
        /\ at \notin {0, 1} => AfterStart = "checkProbe"
    BY DEF AfterStart
  <2>2. pc = "started" /\ stage = "setup" /\ UNCHANGED <<at, known, trace, container>>
    BY <1>10 DEF EndTransition
  <2>3. \/ error = "no" /\ pc' = AfterStart /\ UNCHANGED <<stage, error, result>>
        \/ GiveUp
    BY <1>10 DEF EndTransition
  <2> QED BY <2>1, <2>2, <2>3
<1>11. CASE StartWatch
  BY <1>11 DEF StartWatch, SampleOK, ReadOK, Readable, MembersKnown, AccountOK, Accepts,
      Exhausted, SampleFails, ReadFails, AccountRejected
<1>12. CASE Install
  BY <1>12 DEF Install
<1>13. CASE CheckPrepared
  BY <1>13 DEF CheckPrepared, CheckAttachments
<1>14. CASE ClosureFixed
  BY <1>14 DEF ClosureFixed
<1>15. CASE CheckVolume
  BY <1>15 DEF CheckVolume, CheckAttachments
<1>16. CASE CheckProbe
  BY <1>16 DEF CheckProbe, CheckAttachments
<1>17. CASE CheckClosure
  BY <1>17 DEF CheckClosure, CheckAttachments
<1>18. CASE BeginUnit
  BY <1>18 DEF BeginUnit, Admissible
<1>19. CASE Launch
  BY <1>19 DEF Launch
<1>20. CASE CommandEnds
  BY <1>20 DEF CommandEnds
<1>21. CASE BeginRead
  BY <1>21 DEF BeginRead, MembersKnown, ReadFails, Readable
<1>22. CASE EndRead
  BY <1>22 DEF EndRead, ReadReturns, ReadRejected
<1>23. CASE FinishUnit
  BY <1>23 DEF FinishUnit, AccountRejected, Accepts, Exhausted, Qualifies, NextUnit
<1>24. CASE BeginTermination
  BY <1>24 DEF BeginTermination, SampleMuFree, SampleOK, ReadOK, Readable, MembersKnown,
      AccountOK, Accepts, Exhausted, SampleFails, ReadFails, AccountRejected
<1>25. CASE TerminateRuntime
  BY <1>25 DEF TerminateRuntime, Evidence, TerminateOK, Gone, Collected, TerminateRefused,
      TerminateLost, TerminateRejected, TerminateStuck
<1>26. CASE EndTermination
  BY <1>26 DEF EndTermination, SampleMuFree, Terminated, SampleOK, ReadOK, Readable,
      MembersKnown, AccountOK, Accepts, Exhausted, SampleFails, ReadFails, AccountRejected
<1>27. CASE StopWatch
  BY <1>27 DEF StopWatch
<1>28. CASE AwaitWatch
  BY <1>28 DEF AwaitWatch
<1>29. CASE Dispose
  BY <1>29 DEF Dispose, Disposable
<1>30. CASE Remove
  BY <1>30 DEF Remove, Gone
<1>31. CASE Close
  BY <1>31 DEF Close, Closable, MembersKnown
<1>32. CASE DisposeVolume
  BY <1>32 DEF DisposeVolume, RemoveVolume
<1>33. CASE Finalize
  BY <1>33 DEF Finalize, Final
<1>34. CASE WatchTick
  BY <1>34 DEF WatchTick, Stopping, MembersKnown, ReadFails, Readable
<1>35. CASE WatchReadReturns
  BY <1>35 DEF WatchReadReturns, ReadReturns, ReadRejected
<1>36. CASE WatchAccount
  BY <1>36 DEF WatchAccount, Accounted, AccountOK, Accepts, Exhausted, AccountRejected
<1>37. CASE WatchLate
  BY <1>37 DEF WatchLate, Stopping
<1>38. CASE WatchEnds
  BY <1>38 DEF WatchEnds, Stopping
<1>39. CASE WatchCancel
  BY <1>39 DEF WatchCancel
<1>40. CASE AbortRuntime
  BY <1>40 DEF AbortRuntime, TerminateOK, Gone, TerminateRejected, TerminateLost,
      TerminateStuck
<1>41. CASE AbortEnds
  BY <1>41 DEF AbortEnds
<1>42. CASE Burn
  BY <1>42 DEF Burn
<1>43. CASE Cancel
  BY <1>43 DEF Cancel
<1> QED BY <1>1, <1>2, <1>3, <1>4, <1>5, <1>6, <1>7, <1>8, <1>9, <1>10, <1>11, <1>12, <1>13,
      <1>14, <1>15, <1>16, <1>17, <1>18, <1>19, <1>20, <1>21, <1>22, <1>23, <1>24, <1>25,
      <1>26, <1>27, <1>28, <1>29, <1>30, <1>31, <1>32, <1>33, <1>34, <1>35, <1>36, <1>37,
      <1>38, <1>39, <1>40, <1>41, <1>42, <1>43, Zenon DEF Next, Executor, Watcher

\* Whatever exists is known to the executor, and is what cleanup has still to do.
LEMMA DisposalStep ==
  ASSUME TypeOK, Control, Registration, Disposal, Next
  PROVE  Disposal'
<1> USE PlanAssumption, CPUAssumption
<1> USE DEF Preparation, Anchor, Units, Runtimes, NoUnit, Fault, Overlap, Unless, Goto, Proceed,
        GiveUp, Within, Broken, Checked, Running, Exists, Attached, executor, watcher,
        books, engine, docker, local, rest, startUnchanged, checkUnchanged, unitUnchanged,
        termUnchanged, cleanUnchanged, watchUnchanged, Disposal, Busy, Closing, TypeOK,
        Scalars, Collections, Control, SetupLabels, Creating, Bringing, Terminating,
        Probing, Finishing, CleanLabels, Disposing, Registration
<1>1. CASE CreateLease
  BY <1>1 DEF CreateLease
<1>2. CASE CreateVolume
  BY <1>2 DEF CreateVolume
<1>3. CASE BeginTransition
  BY <1>3 DEF BeginTransition, SampleMuFree, SampleOK, ReadOK, Readable, MembersKnown,
      AccountOK, Accepts, Exhausted, SampleFails, ReadFails, AccountRejected
<1>4. CASE LaunchCreate
  BY <1>4 DEF LaunchCreate
<1>5. CASE DockerCreate
  BY <1>5 DEF DockerCreate
<1>6. CASE StartTrace
  BY <1>6 DEF StartTrace
<1>7. CASE DockerStart
  BY <1>7 DEF DockerStart
<1>8. CASE Register
  BY <1>8 DEF Register, Admitted
<1>9. CASE AwaitRuntime
  BY <1>9 DEF AwaitRuntime
<1>10. CASE EndTransition
  BY <1>10 DEF EndTransition, SampleMuFree, AfterStart, SampleOK, ReadOK, Readable,
      MembersKnown, AccountOK, Accepts, Exhausted, SampleFails, ReadFails, AccountRejected
<1>11. CASE StartWatch
  BY <1>11 DEF StartWatch, SampleOK, ReadOK, Readable, MembersKnown, AccountOK, Accepts,
      Exhausted, SampleFails, ReadFails, AccountRejected
<1>12. CASE Install
  BY <1>12 DEF Install
<1>13. CASE CheckPrepared
  BY <1>13 DEF CheckPrepared, CheckAttachments
<1>14. CASE ClosureFixed
  BY <1>14 DEF ClosureFixed
<1>15. CASE CheckVolume
  BY <1>15 DEF CheckVolume, CheckAttachments
<1>16. CASE CheckProbe
  BY <1>16 DEF CheckProbe, CheckAttachments
<1>17. CASE CheckClosure
  BY <1>17 DEF CheckClosure, CheckAttachments
<1>18. CASE BeginUnit
  BY <1>18 DEF BeginUnit, Admissible
<1>19. CASE Launch
  BY <1>19 DEF Launch
<1>20. CASE CommandEnds
  BY <1>20 DEF CommandEnds
<1>21. CASE BeginRead
  BY <1>21 DEF BeginRead, MembersKnown, ReadFails, Readable
<1>22. CASE EndRead
  BY <1>22 DEF EndRead, ReadReturns, ReadRejected
<1>23. CASE FinishUnit
  BY <1>23 DEF FinishUnit, AccountRejected, Accepts, Exhausted, Qualifies, NextUnit
<1>24. CASE BeginTermination
  BY <1>24 DEF BeginTermination, SampleMuFree, SampleOK, ReadOK, Readable, MembersKnown,
      AccountOK, Accepts, Exhausted, SampleFails, ReadFails, AccountRejected
<1>25. CASE TerminateRuntime
  <2>1. /\ pc = "evidence" /\ pc' = "terminated"
        /\ UNCHANGED <<stage, at, todo, registered, volume, held>>
    BY <1>25 DEF TerminateRuntime
  <2>2. /\ fault' # "hard" => fault # "hard"
        /\ session' \in {"open", "failed"} => session \in {"open", "failed"}
    BY <1>25 DEF TerminateRuntime, Evidence, TerminateOK, Gone, Collected,
       TerminateRefused, TerminateLost, TerminateRejected, TerminateStuck
  <2>3. fault' # "hard" =>
            \/ /\ container' = [container EXCEPT ![at] = "gone"] /\ scopes' = scopes \ {at}
               /\ known \ {at} \subseteq known'
            \/ error' = "yes" /\ at \notin scopes /\ UNCHANGED <<container, scopes, known>>
    <3>1. fault' # "hard" /\ at \in scopes => Evidence(at)
      BY <2>1, <2>2 DEF Evidence
    <3>2. at \in scopes => session \in {"open", "failed"}
      BY DEF Registration
    <3>3. CASE ~Evidence(at)
      BY <1>25, <3>1, <3>3 DEF TerminateRuntime
    <3>4. CASE TerminateOK(at)
      BY <1>25, <3>4 DEF TerminateRuntime, TerminateOK, Gone
    <3>5. CASE error' = "yes" /\ UNCHANGED known /\ TerminateRefused(at)
      BY <3>2, <3>5 DEF TerminateRefused
    <3>6. CASE UNCHANGED known /\ (TerminateLost(at) \/ TerminateRejected(at))
      BY <3>6 DEF TerminateLost, TerminateRejected, Gone
    <3>7. CASE TerminateStuck(at)
      BY <3>7 DEF TerminateStuck
    <3>8. \/ ~Evidence(at) \/ TerminateOK(at)
          \/ /\ error' = "yes" /\ UNCHANGED known
             /\ \/ TerminateRefused(at) \/ TerminateLost(at) \/ TerminateRejected(at)
                \/ TerminateStuck(at)
      BY <1>25, Zenon DEF TerminateRuntime
    <3> QED BY <3>3, <3>4, <3>5, <3>6, <3>7, <3>8, Zenon
  <2>4. fault' # "hard" =>
            scopes' \subseteq scopes /\ at \notin scopes' /\ known \ {at} \subseteq known'
    BY <2>3
  <2>5. fault' # "hard" => \A r \in Runtimes : Exists(r)' => Exists(r) /\ r \in known'
    BY <2>2, <2>3
  <2>6. fault' # "hard" /\ error' = "no" => ~Exists(at)'
    BY <2>1, <2>3
  <2>7. fault' # "hard" /\ stage = "cleanup" => \A r \in Runtimes : Busy(r)' => r \in todo \cup {at}
    BY <2>1, <2>2, <2>4, <2>5
  <2>8. fault' # "hard" => scopes' \subseteq registered \cap known'
    BY <2>2, <2>4
  <2> QED BY <2>1, <2>2, <2>4, <2>5, <2>6, <2>7, <2>8
<1>26. CASE EndTermination
  <2>1. pc = "terminated" /\ UNCHANGED <<at, todo, known, registered, container, scopes, volume, held>>
    BY <1>26 DEF EndTermination, SampleMuFree, Terminated, SampleOK, ReadOK, Readable,
       MembersKnown, AccountOK, Accepts, Exhausted, SampleFails, ReadFails,
       AccountRejected
  <2>2. /\ fault' # "hard" => fault # "hard"
        /\ session' \in {"open", "failed"} => session \in {"open", "failed"}
    BY <1>26 DEF EndTermination, SampleMuFree, Terminated, SampleOK, ReadOK, Readable,
       MembersKnown, AccountOK, Accepts, Exhausted, SampleFails, ReadFails,
       AccountRejected
  <2>3. \/ /\ stage = "cleanup" /\ stage' = "cleanup"
           /\ pc' = "remove" \/ (pc' = "dispose" /\ error = "no")
        \/ stage = "setup" /\ (stage' = "setup" \/ pc' = "stop")
    <3>1. Terminated(error = "yes") \/ Terminated(TRUE)
      BY <1>26 DEF EndTermination
    <3>2. CASE Terminated(error = "yes")
      BY <3>2 DEF Terminated
    <3>3. CASE Terminated(TRUE)
      BY <3>3 DEF Terminated
    <3> QED BY <3>1, <3>2, <3>3
  <2> QED BY <2>1, <2>2, <2>3
<1>27. CASE StopWatch
  BY <1>27 DEF StopWatch
<1>28. CASE AwaitWatch
  BY <1>28 DEF AwaitWatch
<1>29. CASE Dispose
  BY <1>29 DEF Dispose, Disposable
<1>30. CASE Remove
  BY <1>30 DEF Remove, Gone
<1>31. CASE Close
  BY <1>31 DEF Close, Closable, MembersKnown
<1>32. CASE DisposeVolume
  BY <1>32 DEF DisposeVolume, RemoveVolume
<1>33. CASE Finalize
  BY <1>33 DEF Finalize, Final
<1>34. CASE WatchTick
  BY <1>34 DEF WatchTick, Stopping, MembersKnown, ReadFails, Readable
<1>35. CASE WatchReadReturns
  BY <1>35 DEF WatchReadReturns, ReadReturns, ReadRejected
<1>36. CASE WatchAccount
  BY <1>36 DEF WatchAccount, Accounted, AccountOK, Accepts, Exhausted, AccountRejected
<1>37. CASE WatchLate
  BY <1>37 DEF WatchLate, Stopping
<1>38. CASE WatchEnds
  BY <1>38 DEF WatchEnds, Stopping
<1>39. CASE WatchCancel
  BY <1>39 DEF WatchCancel
<1>40. CASE AbortRuntime
  <2>1. watch = "abort" /\ UNCHANGED <<pc, stage, at, error, todo, registered, known, volume, held>>
    BY <1>40 DEF AbortRuntime
  <2>2. /\ fault' # "hard" => fault # "hard"
        /\ session' \in {"open", "failed"} => session \in {"open", "failed"}
        /\ scopes' \subseteq scopes
    BY <1>40 DEF AbortRuntime, TerminateOK, Gone, TerminateRejected, TerminateLost,
       TerminateStuck
  <2>3. \A r \in Runtimes : container'[r] \in {container[r], "gone"}
    BY <1>40 DEF AbortRuntime, TerminateOK, Gone, TerminateRejected, TerminateLost,
       TerminateStuck
  <2>4. stage = "cleanup" => pc \in {"stop", "awaitWatch"}
    BY <2>1
  <2> QED BY <2>1, <2>2, <2>3, <2>4
<1>41. CASE AbortEnds
  BY <1>41 DEF AbortEnds
<1>42. CASE Burn
  BY <1>42 DEF Burn
<1>43. CASE Cancel
  BY <1>43 DEF Cancel
<1> QED BY <1>1, <1>2, <1>3, <1>4, <1>5, <1>6, <1>7, <1>8, <1>9, <1>10, <1>11, <1>12, <1>13,
      <1>14, <1>15, <1>16, <1>17, <1>18, <1>19, <1>20, <1>21, <1>22, <1>23, <1>24, <1>25,
      <1>26, <1>27, <1>28, <1>29, <1>30, <1>31, <1>32, <1>33, <1>34, <1>35, <1>36, <1>37,
      <1>38, <1>39, <1>40, <1>41, <1>42, <1>43 DEF Next, Executor, Watcher

-----------------------------------------------------------------------------
(* The undisturbed transaction: none of its steps can fail.                *)

\* A disturbance lasts: faults are remembered and CPU time does not decrease.
LEMMA DisturbanceLasts ==
  ASSUME TypeOK, Next, Quiet'
  PROVE  Quiet
<1> USE CPUAssumption
<1> USE DEF Quiet, TypeOK, Scalars, Preparation, Anchor, Units, Runtimes, NoUnit,
        Fault, Overlap, Unless, Goto, Proceed, GiveUp, Within, Broken, Checked, Running, Exists,
        Attached, executor, watcher, books, engine, docker, local, rest, startUnchanged,
        checkUnchanged, unitUnchanged, termUnchanged, cleanUnchanged, watchUnchanged
<1>1. CASE CreateLease \/ CreateVolume \/ BeginTransition \/ LaunchCreate \/ DockerCreate
  BY <1>1 DEF CreateLease, CreateVolume, BeginTransition, SampleMuFree, SampleOK, ReadOK,
      Readable, MembersKnown, AccountOK, Accepts, Exhausted, SampleFails, ReadFails,
      AccountRejected, LaunchCreate, DockerCreate
<1>2. CASE StartTrace \/ DockerStart \/ Register \/ AwaitRuntime \/ EndTransition
  BY <1>2 DEF StartTrace, DockerStart, Register, Admitted, AwaitRuntime, EndTransition,
      SampleMuFree, AfterStart, SampleOK, ReadOK, Readable, MembersKnown, AccountOK,
      Accepts, Exhausted, SampleFails, ReadFails, AccountRejected
<1>3. CASE StartWatch \/ Install \/ CheckPrepared \/ ClosureFixed \/ CheckVolume \/
          CheckProbe \/ CheckClosure
  BY <1>3 DEF StartWatch, SampleOK, ReadOK, Readable, MembersKnown, AccountOK, Accepts,
      Exhausted, SampleFails, ReadFails, AccountRejected, Install, CheckPrepared,
      CheckAttachments, ClosureFixed, CheckVolume, CheckProbe, CheckClosure
<1>4. CASE BeginUnit \/ Launch \/ CommandEnds \/ BeginRead \/ EndRead \/ FinishUnit
  BY <1>4 DEF BeginUnit, Admissible, Launch, CommandEnds, BeginRead, MembersKnown,
      ReadFails, Readable, EndRead, ReadReturns, ReadRejected, FinishUnit, AccountRejected,
      Accepts, Exhausted, Qualifies, NextUnit
<1>5. CASE BeginTermination \/ TerminateRuntime \/ EndTermination
  BY <1>5 DEF BeginTermination, SampleMuFree, SampleOK, ReadOK, Readable, MembersKnown,
      AccountOK, Accepts, Exhausted, SampleFails, ReadFails, AccountRejected,
      TerminateRuntime, Evidence, TerminateOK, Gone, Collected, TerminateRefused,
      TerminateLost, TerminateRejected, TerminateStuck, EndTermination, Terminated
<1>6. CASE StopWatch \/ AwaitWatch \/ Dispose \/ Remove \/ Close \/ DisposeVolume \/
          Finalize
  BY <1>6 DEF StopWatch, AwaitWatch, Dispose, Disposable, Remove, Gone, Close, Closable,
      MembersKnown, DisposeVolume, RemoveVolume, Finalize, Final
<1>7. CASE WatchTick \/ WatchReadReturns \/ WatchAccount \/ WatchLate \/ WatchEnds \/
          WatchCancel \/ AbortRuntime \/ AbortEnds
  BY <1>7 DEF WatchTick, Stopping, MembersKnown, ReadFails, Readable, WatchReadReturns,
      ReadReturns, ReadRejected, WatchAccount, Accounted, AccountOK, Accepts, Exhausted,
      AccountRejected, WatchLate, WatchEnds, WatchCancel, AbortRuntime, TerminateOK, Gone,
      TerminateRejected, TerminateLost, TerminateStuck, AbortEnds
<1>8. CASE Burn \/ Cancel
  BY <1>8 DEF Burn, Cancel
<1> QED BY <1>1, <1>2, <1>3, <1>4, <1>5, <1>6, <1>7, <1>8 DEF Next, Executor, Watcher

\* The engine knows whatever runs, except while it is asked to register it.
LEMMA MembersAreKnown ==
  ASSUME TypeOK, Placed, stage = "setup" => pc # "register"
  PROVE  MembersKnown
BY DEF TypeOK, Scalars, Collections, Placed, Unadmitted, Unstarted, MembersKnown, Running,
       Exists, Attached, Runtimes

\* A sample is taken and accounted.
LEMMA SampleSucceeds ==
  ASSUME TypeOK, Quiet, Quiet', Undisturbing, Placed, Booked,
         stage = "setup" => pc # "register", pc \notin {"create"} \cup Closing,
         NEW termination \in BOOLEAN, termination \/ stage = "setup",
         SampleFails(termination)
  PROVE  FALSE
<1>1. MembersKnown
  BY MembersAreKnown
<1>2. session = "open" /\ used <= Ceiling /\ used \in Nat /\ booked \in Nat /\ booked <= used
  BY CPUAssumption DEF Undisturbing, Quiet, Closing, TypeOK, Scalars
<1>3. Readable
  BY <1>1, <1>2 DEF Readable
<1>4. Accepts(used, termination) /\ ~Exhausted(used)
  BY <1>2, CPUAssumption DEF Accepts, Exhausted, Booked, Quiet
<1>5. fault' = "none" /\ fault = "none"
  BY DEF Quiet
<1> QED BY <1>3, <1>4, <1>5 DEF SampleFails, ReadFails, AccountRejected, Fault, Overlap

\* A termination succeeds, and its trace is complete.
LEMMA TerminationSucceeds ==
  ASSUME TypeOK, Control, Quiet, Quiet', Undisturbing, Placed, TerminateRuntime
  PROVE  /\ TerminateOK(at) /\ trace' = [trace EXCEPT ![at] = "complete"]
         /\ known' = known \ {at} /\ UNCHANGED error
<1>1. pc = "evidence" /\ session = "open" /\ pc # "register"
  BY DEF TerminateRuntime, Undisturbing, Closing
<1>2. MembersKnown
  BY <1>1, MembersAreKnown
<1>3. at \in Expected /\ Unadmitted = {}
  BY <1>1 DEF Expected, Unadmitted, Unstarted, Placed, Control, Creating, Terminating, Bringing,
         Finishing, TypeOK, Scalars, Units
<1>4. at \in known /\ at \in scopes /\ at \in registered /\ trace[at] = "open"
  BY <1>1, <1>3 DEF Placed
<1>5. fault' = "none" /\ fault = "none" /\ used <= Ceiling
  BY CPUAssumption DEF Quiet, TypeOK, Scalars
<1>6. Evidence(at)
  BY <1>4 DEF Evidence
<1>7. ~TerminateRefused(at) /\ ~TerminateLost(at) /\ ~TerminateStuck(at)
  BY <1>1, <1>4, <1>5 DEF TerminateRefused, TerminateLost, TerminateStuck, Fault, Overlap
<1>8. ~TerminateRejected(at)
  BY <1>1, <1>2, <1>5, CPUAssumption DEF TerminateRejected, MembersKnown, TypeOK, Scalars
<1>9. TerminateOK(at) /\ Collected(at, {"complete"}) /\ known' = known \ {at} /\ UNCHANGED error
  BY <1>5, <1>6, <1>7, <1>8 DEF TerminateRuntime, Fault, Overlap
<1> QED BY <1>4, <1>9 DEF Collected

\* No check fails, no read is refused and nobody is cancelled.
LEMMA UndisturbingStep ==
  ASSUME Disposal, TypeOK, Control, Quiet, Quiet', Undisturbing, Placed, Booked, Next
  PROVE  Undisturbing'
<1> USE PlanAssumption, CPUAssumption
<1> USE DEF Preparation, Anchor, Units, Runtimes, NoUnit, Fault, Overlap, Unless, Goto, Proceed,
        GiveUp, Within, Broken, Checked, Running, Exists, Attached, executor, watcher,
        books, engine, docker, local, rest, startUnchanged, checkUnchanged, unitUnchanged,
        termUnchanged, cleanUnchanged, watchUnchanged, Undisturbing, Disposing, Terminating,
        Closing, Bringing, Disposal, Busy, TypeOK, Scalars, Collections, Control,
        SetupLabels, Creating, Probing, Finishing, CleanLabels, Quiet, Placed,
        Expected, Unadmitted, Unstarted, Booked
<1>1. CASE CreateLease
  BY <1>1 DEF CreateLease
<1>2. CASE CreateVolume
  BY <1>2 DEF CreateVolume
<1>3. CASE BeginTransition
  BY <1>3 DEF BeginTransition, SampleMuFree, SampleOK, ReadOK, Readable, MembersKnown,
      AccountOK, Accepts, Exhausted, SampleFails, ReadFails, AccountRejected
<1>4. CASE LaunchCreate
  BY <1>4 DEF LaunchCreate
<1>5. CASE DockerCreate
  BY <1>5 DEF DockerCreate
<1>6. CASE StartTrace
  BY <1>6 DEF StartTrace
<1>7. CASE DockerStart
  BY <1>7 DEF DockerStart
<1>8. CASE Register
  BY <1>8 DEF Register, Admitted
<1>9. CASE AwaitRuntime
  BY <1>9 DEF AwaitRuntime
<1>10. CASE EndTransition
  <2>1. /\ at = 0 => AfterStart = "watch"
        /\ at = 1 => AfterStart = "attachments"
        /\ at \notin {0, 1} => AfterStart = "checkProbe"
    BY DEF AfterStart
  <2>2. pc = "started" /\ stage = "setup" /\ UNCHANGED <<at, unclean, watch, watchErr, cancelled, seen, sampled, used>>
    BY <1>10 DEF EndTransition
  <2>3. ~SampleFails(FALSE)
    BY <2>2, SampleSucceeds
  <2>4. /\ pc' = AfterStart /\ UNCHANGED <<stage, error, result>>
        /\ UNCHANGED <<books, engine>> \/ SampleOK(FALSE)
    BY <1>10, <2>3 DEF EndTransition
  <2>5. session' = session /\ charged' \in {charged, used} /\ booked' \in {booked, used}
    BY <2>4 DEF SampleOK, ReadOK, AccountOK
  <2> QED BY <2>1, <2>2, <2>4, <2>5
<1>11. CASE StartWatch
  BY <1>11 DEF StartWatch, SampleOK, ReadOK, Readable, MembersKnown, AccountOK, Accepts,
      Exhausted, SampleFails, ReadFails, AccountRejected
<1>12. CASE Install
  BY <1>12 DEF Install
<1>13. CASE CheckPrepared
  BY <1>13 DEF CheckPrepared, CheckAttachments
<1>14. CASE ClosureFixed
  BY <1>14 DEF ClosureFixed
<1>15. CASE CheckVolume
  BY <1>15 DEF CheckVolume, CheckAttachments
<1>16. CASE CheckProbe
  BY <1>16 DEF CheckProbe, CheckAttachments
<1>17. CASE CheckClosure
  BY <1>17 DEF CheckClosure, CheckAttachments
<1>18. CASE BeginUnit
  BY <1>18 DEF BeginUnit, Admissible
<1>19. CASE Launch
  BY <1>19 DEF Launch
<1>20. CASE CommandEnds
  BY <1>20 DEF CommandEnds
<1>21. CASE BeginRead
  BY <1>21 DEF BeginRead, MembersKnown, ReadFails, Readable
<1>22. CASE EndRead
  BY <1>22 DEF EndRead, ReadReturns, ReadRejected
<1>23. CASE FinishUnit
  BY <1>23 DEF FinishUnit, AccountRejected, Accepts, Exhausted, Qualifies, NextUnit
<1>24. CASE BeginTermination
  BY <1>24 DEF BeginTermination, SampleMuFree, SampleOK, ReadOK, Readable, MembersKnown,
      AccountOK, Accepts, Exhausted, SampleFails, ReadFails, AccountRejected
<1>25. CASE TerminateRuntime
  <2>1. /\ pc = "evidence" /\ pc' = "terminated"
        /\ UNCHANGED <<stage, unclean, watchErr, watch, cancelled, booked, seen, sampled, used, transition>>
    BY <1>25 DEF TerminateRuntime
  <2>2. UNCHANGED <<session, error>> /\ charged' = used
    BY <1>25, TerminationSucceeds DEF TerminateOK
  <2> QED BY <2>1, <2>2
<1>26. CASE EndTermination
  <2>1. Terminated(error = "yes") /\ (transition = "yes" => SampleOK(TRUE))
    BY <1>26, SampleSucceeds DEF EndTermination
  <2> QED BY <1>26, <2>1 DEF EndTermination, SampleMuFree, Terminated, SampleOK, ReadOK,
     Readable, MembersKnown, AccountOK, Accepts, Exhausted, SampleFails, ReadFails,
     AccountRejected
<1>27. CASE StopWatch
  BY <1>27 DEF StopWatch
<1>28. CASE AwaitWatch
  BY <1>28 DEF AwaitWatch
<1>29. CASE Dispose
  BY <1>29 DEF Dispose, Disposable
<1>30. CASE Remove
  BY <1>30 DEF Remove, Gone
<1>31. CASE Close
  <2>1. scopes = {} /\ MembersKnown
    BY <1>31, MembersAreKnown DEF Close
  <2>2. pc = "close" /\ pc' = "disposeVolume" /\ session = "open" /\ stage = "cleanup"
    BY <1>31 DEF Close
  <2>3. UNCHANGED <<stage, error, watchErr, watch, cancelled, booked, seen, sampled, used, transition>>
    BY <1>31 DEF Close
  <2>4. used <= Ceiling
    OBVIOUS
  <2>5. "lease" \in held
    BY <2>2, Disposal DEF Disposal
  <2>6. session' = "closed" /\ charged' = 0 /\ unclean' = unclean
    BY <1>31, <2>1, <2>2, <2>4, <2>5 DEF Close, Closable
  <2> QED BY <2>2, <2>3, <2>6
<1>32. CASE DisposeVolume
  BY <1>32 DEF DisposeVolume, RemoveVolume
<1>33. CASE Finalize
  BY <1>33 DEF Finalize, Final
<1>34. CASE WatchTick
  <2>1. MembersKnown
    BY <1>34, MembersAreKnown DEF WatchTick
  <2>2. session = "open" /\ cancelled = "no" /\ used <= Ceiling
    BY <1>34 DEF WatchTick, Stopping
  <2>3. watch' = "reading" /\ sampled' = used /\ UNCHANGED <<engine, watchErr>>
    BY <1>34, <2>1, <2>2 DEF WatchTick, ReadFails, Readable
  <2> QED BY <1>34, <2>2, <2>3 DEF WatchTick
<1>35. CASE WatchReadReturns
  BY <1>35 DEF WatchReadReturns, ReadReturns, ReadRejected
<1>36. CASE WatchAccount
  BY <1>36 DEF WatchAccount, Accounted, AccountOK, Accepts, Exhausted, AccountRejected
<1>37. CASE WatchLate
  BY <1>37 DEF WatchLate, Stopping
<1>38. CASE WatchEnds
  BY <1>38 DEF WatchEnds, Stopping
<1>39. CASE WatchCancel
  BY <1>39 DEF WatchCancel
<1>40. CASE AbortRuntime
  BY <1>40 DEF AbortRuntime, TerminateOK, Gone, TerminateRejected, TerminateLost,
      TerminateStuck
<1>41. CASE AbortEnds
  BY <1>41 DEF AbortEnds
<1>42. CASE Burn
  BY <1>42 DEF Burn
<1>43. CASE Cancel
  BY <1>43 DEF Cancel
<1> QED BY <1>1, <1>2, <1>3, <1>4, <1>5, <1>6, <1>7, <1>8, <1>9, <1>10, <1>11, <1>12, <1>13,
      <1>14, <1>15, <1>16, <1>17, <1>18, <1>19, <1>20, <1>21, <1>22, <1>23, <1>24, <1>25,
      <1>26, <1>27, <1>28, <1>29, <1>30, <1>31, <1>32, <1>33, <1>34, <1>35, <1>36, <1>37,
      <1>38, <1>39, <1>40, <1>41, <1>42, <1>43 DEF Next, Executor, Watcher

\* Its runtimes are where the label says: known, attached, registered and running.
LEMMA PlacedStep ==
  ASSUME TypeOK, Control, Quiet, Quiet', Undisturbing, Placed, Booked, Next
  PROVE  Placed'
<1> USE PlanAssumption, CPUAssumption
<1> USE DEF Preparation, Anchor, Units, Runtimes, NoUnit, Fault, Overlap, Unless, Goto, Proceed,
        GiveUp, Within, Broken, Checked, Running, Exists, Attached, executor, watcher,
        books, engine, docker, local, rest, startUnchanged, checkUnchanged, unitUnchanged,
        termUnchanged, cleanUnchanged, watchUnchanged, Placed, Expected, Creating,
        Finishing, Unadmitted, Unstarted, Terminating, TypeOK, Scalars, Collections,
        Control, SetupLabels, Bringing, Probing, CleanLabels, Disposing, Closing,
        Quiet, Undisturbing, Booked
<1>1. CASE CreateLease
  BY <1>1 DEF CreateLease
<1>2. CASE CreateVolume
  BY <1>2 DEF CreateVolume
<1>3. CASE BeginTransition
  <2>1. pc = "begin" /\ stage = "setup" /\ UNCHANGED <<at, todo, known, registered, trace, container>>
    BY <1>3 DEF BeginTransition
  <2>2. ~SampleFails(FALSE) /\ cancelled = "no"
    BY <2>1, SampleSucceeds
  <2>3. pc' = "dockerCreate" /\ UNCHANGED <<stage, scopes>>
    BY <1>3, <2>2 DEF BeginTransition, SampleOK, ReadOK
  <2> QED BY <2>1, <2>3
<1>4. CASE LaunchCreate
  BY <1>4 DEF LaunchCreate
<1>5. CASE DockerCreate
  BY <1>5 DEF DockerCreate
<1>6. CASE StartTrace
  BY <1>6 DEF StartTrace
<1>7. CASE DockerStart
  BY <1>7 DEF DockerStart
<1>8. CASE Register
  BY <1>8 DEF Register, Admitted
<1>9. CASE AwaitRuntime
  BY <1>9 DEF AwaitRuntime
<1>10. CASE EndTransition
  <2>1. /\ at = 0 => AfterStart = "watch"
        /\ at = 1 => AfterStart = "attachments"
        /\ at \notin {0, 1} => AfterStart = "checkProbe"
    BY DEF AfterStart
  <2>2. pc = "started" /\ stage = "setup" /\ UNCHANGED <<at, todo, known, registered, trace, container>>
    BY <1>10 DEF EndTransition
  <2>3. ~SampleFails(FALSE)
    BY <2>2, SampleSucceeds
  <2>4. /\ pc' = AfterStart /\ UNCHANGED <<stage, error, result>>
        /\ UNCHANGED <<books, engine>> \/ SampleOK(FALSE)
    BY <1>10, <2>3 DEF EndTransition
  <2>5. scopes' = scopes
    BY <2>4 DEF SampleOK, ReadOK, AccountOK
  <2> QED BY <2>1, <2>2, <2>4, <2>5
<1>11. CASE StartWatch
  BY <1>11 DEF StartWatch, SampleOK, ReadOK, Readable, MembersKnown, AccountOK, Accepts,
      Exhausted, SampleFails, ReadFails, AccountRejected
<1>12. CASE Install
  BY <1>12 DEF Install
<1>13. CASE CheckPrepared
  BY <1>13 DEF CheckPrepared, CheckAttachments
<1>14. CASE ClosureFixed
  BY <1>14 DEF ClosureFixed
<1>15. CASE CheckVolume
  BY <1>15 DEF CheckVolume, CheckAttachments
<1>16. CASE CheckProbe
  <2>1. UNCHANGED <<known, registered, trace, container, scopes>>
    BY <1>16 DEF CheckProbe, CheckAttachments
  <2>2. pc = "checkProbe" /\ pc' = "admit" /\ stage = "setup" /\ UNCHANGED <<stage, at, todo>>
    BY <1>16 DEF CheckProbe, CheckAttachments
  <2>3. Expected = {1, at} /\ Unstarted = {} /\ Unadmitted = {}
    BY <2>2
  <2>4. (Expected = {1, at} /\ Unstarted = {} /\ Unadmitted = {})'
    BY <2>2
  <2>5. Attached' = Attached
    BY <2>1
  <2>6. /\ (stage = "setup" => todo = {})'
        /\ (stage = "cleanup" => todo \subseteq {1} /\ (pc \in Terminating => at = 1 /\ todo = {}))'
    BY <2>2
  <2>7. Expected' = Expected
    BY <2>2, <2>3, <2>4
  <2> HIDE DEF Expected, Unstarted, Unadmitted, Attached
  <2> QED BY <2>1, <2>2, <2>3, <2>4, <2>5, <2>6, <2>7
<1>17. CASE CheckClosure
  BY <1>17 DEF CheckClosure, CheckAttachments
<1>18. CASE BeginUnit
  BY <1>18 DEF BeginUnit, Admissible
<1>19. CASE Launch
  BY <1>19 DEF Launch
<1>20. CASE CommandEnds
  BY <1>20 DEF CommandEnds
<1>21. CASE BeginRead
  BY <1>21 DEF BeginRead, MembersKnown, ReadFails, Readable
<1>22. CASE EndRead
  BY <1>22 DEF EndRead, ReadReturns, ReadRejected
<1>23. CASE FinishUnit
  <2>1. UNCHANGED <<known, registered, trace, container, scopes>>
    BY <1>23 DEF FinishUnit, AccountRejected, Accepts, Exhausted, Qualifies, NextUnit
  <2>2. /\ pc = "finish" /\ stage = "setup" /\ todo' = todo
        /\ \/ pc' = "checkVolume" /\ stage' = "setup" /\ at' \in Units
           \/ pc' = "stop" /\ stage' = "cleanup"
    BY <1>23 DEF FinishUnit, AccountRejected, Accepts, Exhausted, Qualifies, NextUnit
  <2>3. Expected = {1} /\ Unstarted = {} /\ Unadmitted = {}
    BY <2>2
  <2>4. (Expected = {1} /\ Unstarted = {} /\ Unadmitted = {})'
    BY <2>2
  <2>5. Attached' = Attached
    BY <2>1
  <2>6. /\ (stage = "setup" => todo = {})'
        /\ (stage = "cleanup" => todo \subseteq {1} /\ (pc \in Terminating => at = 1 /\ todo = {}))'
    BY <2>2
  <2>7. Expected' = Expected
    BY <2>2, <2>3, <2>4
  <2> HIDE DEF Expected, Unstarted, Unadmitted, Attached
  <2> QED BY <2>1, <2>2, <2>3, <2>4, <2>5, <2>6, <2>7
<1>24. CASE BeginTermination
  BY <1>24 DEF BeginTermination, SampleMuFree, SampleOK, ReadOK, Readable, MembersKnown,
      AccountOK, Accepts, Exhausted, SampleFails, ReadFails, AccountRejected
<1>25. CASE TerminateRuntime
  <2>1. pc = "evidence" /\ pc' = "terminated" /\ UNCHANGED <<stage, at, todo, registered>>
    BY <1>25 DEF TerminateRuntime
  <2>2. /\ known' = known \ {at} /\ trace' = [trace EXCEPT ![at] = "complete"]
        /\ scopes' = scopes \ {at} /\ container' = [container EXCEPT ![at] = "gone"]
    BY <1>25, TerminationSucceeds DEF TerminateOK, Gone
  <2>3. Unstarted = {} /\ Unadmitted = {} /\ Unstarted' = {} /\ Unadmitted' = {}
    BY <2>1
  <2>4. Expected' = Expected \ {at}
    BY <2>1
  <2>5. Attached' = Attached \ {at}
    BY <2>2
  <2>6. /\ (stage = "setup" => todo = {})'
        /\ (stage = "cleanup" => todo \subseteq {1} /\ (pc \in Terminating => at = 1 /\ todo = {}))'
    BY <2>1
  <2> HIDE DEF Expected, Unstarted, Unadmitted, Attached
  <2> QED BY <2>1, <2>2, <2>3, <2>4, <2>5, <2>6
<1>26. CASE EndTermination
  <2>1. UNCHANGED <<known, registered, trace, container, scopes>>
    BY <1>26 DEF EndTermination, SampleMuFree, Terminated, SampleOK, ReadOK, Readable,
       MembersKnown, AccountOK, Accepts, Exhausted, SampleFails, ReadFails,
       AccountRejected
  <2>2. /\ pc = "terminated" /\ UNCHANGED <<stage, at, todo>>
        /\ \/ stage = "cleanup" /\ pc' = "dispose"
           \/ stage = "setup" /\ at = 0 /\ pc' = "prepared"
           \/ stage = "setup" /\ at \in Units /\ pc' = "checkClosure"
    BY <1>26 DEF EndTermination, SampleMuFree, Terminated, SampleOK, ReadOK, Readable,
       MembersKnown, AccountOK, Accepts, Exhausted, SampleFails, ReadFails,
       AccountRejected
  <2>3. Expected = (IF stage = "cleanup" THEN {} ELSE {1}) /\ Unstarted = {} /\ Unadmitted = {}
    BY <2>2
  <2>4. (Expected = (IF stage = "cleanup" THEN {} ELSE {1}) /\ Unstarted = {} /\ Unadmitted = {})'
    <3>1. CASE stage = "cleanup"
      BY <2>2, <3>1
    <3>2. CASE stage = "setup" /\ at = 0
      BY <2>2, <3>2
    <3>3. CASE stage = "setup" /\ at \in Units
      BY <2>2, <3>3
    <3> QED BY <2>2, <3>1, <3>2, <3>3
  <2>5. Attached' = Attached
    BY <2>1
  <2>6. /\ (stage = "setup" => todo = {})'
        /\ (stage = "cleanup" => todo \subseteq {1} /\ (pc \in Terminating => at = 1 /\ todo = {}))'
    BY <2>2
  <2>7. Expected' = Expected
    BY <2>2, <2>3, <2>4
  <2> HIDE DEF Expected, Unstarted, Unadmitted, Attached
  <2> QED BY <2>1, <2>2, <2>3, <2>4, <2>5, <2>6, <2>7
<1>27. CASE StopWatch
  <2>1. UNCHANGED <<known, registered, trace, container, scopes>>
    BY <1>27 DEF StopWatch
  <2>2. /\ pc = "stop" /\ stage = "cleanup" /\ stage' = "cleanup"
        /\ (pc' = "awaitWatch" /\ todo' = todo) \/ (pc' = "dispose" /\ todo' = known)
    BY <1>27 DEF StopWatch
  <2>3. Expected = {1} /\ Unstarted = {} /\ Unadmitted = {}
    BY <2>2
  <2>4. (Expected = {1} /\ Unstarted = {} /\ Unadmitted = {})'
    BY <2>2
  <2>5. Attached' = Attached
    BY <2>1
  <2>6. /\ (stage = "setup" => todo = {})'
        /\ (stage = "cleanup" => todo \subseteq {1} /\ (pc \in Terminating => at = 1 /\ todo = {}))'
    BY <2>2
  <2>7. Expected' = Expected
    BY <2>2, <2>3, <2>4
  <2> HIDE DEF Expected, Unstarted, Unadmitted, Attached
  <2> QED BY <2>1, <2>2, <2>3, <2>4, <2>5, <2>6, <2>7
<1>28. CASE AwaitWatch
  BY <1>28 DEF AwaitWatch
<1>29. CASE Dispose
  <2>1. UNCHANGED <<known, registered, trace, container, scopes>>
    BY <1>29 DEF Dispose, Disposable
  <2>2. /\ pc = "dispose" /\ stage = "cleanup" /\ stage' = "cleanup"
        /\ \/ todo = {} /\ todo' = {} /\ pc' = "close"
           \/ todo = {1} /\ todo' = {} /\ at' = 1 /\ pc' = "terminate"
    BY <1>29 DEF Dispose, Disposable
  <2>3. Expected = todo /\ Unstarted = {} /\ Unadmitted = {}
    BY <2>2
  <2>4. (Expected = todo \cup (IF pc = "close" THEN {} ELSE {1}) /\ Unstarted = {} /\ Unadmitted = {})'
    BY <2>2
  <2>5. Attached' = Attached
    BY <2>1
  <2>6. /\ (stage = "setup" => todo = {})'
        /\ (stage = "cleanup" => todo \subseteq {1} /\ (pc \in Terminating => at = 1 /\ todo = {}))'
    BY <2>2
  <2>7. Expected' = Expected
    BY <2>2, <2>3, <2>4
  <2> HIDE DEF Expected, Unstarted, Unadmitted, Attached
  <2> QED BY <2>1, <2>2, <2>3, <2>4, <2>5, <2>6, <2>7
<1>30. CASE Remove
  BY <1>30 DEF Remove, Gone
<1>31. CASE Close
  BY <1>31 DEF Close, Closable, MembersKnown
<1>32. CASE DisposeVolume
  BY <1>32 DEF DisposeVolume, RemoveVolume
<1>33. CASE Finalize
  BY <1>33 DEF Finalize, Final
<1>34. CASE WatchTick
  BY <1>34 DEF WatchTick, Stopping, MembersKnown, ReadFails, Readable
<1>35. CASE WatchReadReturns
  BY <1>35 DEF WatchReadReturns, ReadReturns, ReadRejected
<1>36. CASE WatchAccount
  BY <1>36 DEF WatchAccount, Accounted, AccountOK, Accepts, Exhausted, AccountRejected
<1>37. CASE WatchLate
  BY <1>37 DEF WatchLate, Stopping
<1>38. CASE WatchEnds
  BY <1>38 DEF WatchEnds, Stopping
<1>39. CASE WatchCancel
  BY <1>39 DEF WatchCancel
<1>40. CASE AbortRuntime
  BY <1>40 DEF AbortRuntime, TerminateOK, Gone, TerminateRejected, TerminateLost,
      TerminateStuck
<1>41. CASE AbortEnds
  BY <1>41 DEF AbortEnds
<1>42. CASE Burn
  BY <1>42 DEF Burn
<1>43. CASE Cancel
  BY <1>43 DEF Cancel
<1> QED BY <1>1, <1>2, <1>3, <1>4, <1>5, <1>6, <1>7, <1>8, <1>9, <1>10, <1>11, <1>12, <1>13,
      <1>14, <1>15, <1>16, <1>17, <1>18, <1>19, <1>20, <1>21, <1>22, <1>23, <1>24, <1>25,
      <1>26, <1>27, <1>28, <1>29, <1>30, <1>31, <1>32, <1>33, <1>34, <1>35, <1>36, <1>37,
      <1>38, <1>39, <1>40, <1>41, <1>42, <1>43, Zenon DEF Next, Executor, Watcher

\* Its ledger admits, finishes and rejects one unit after the other.
LEMMA BookedStep ==
  ASSUME TypeOK, Control, Quiet, Quiet', Undisturbing, Placed, Booked, Next
  PROVE  Booked'
<1> USE PlanAssumption, CPUAssumption
<1> USE DEF Preparation, Anchor, Units, Runtimes, NoUnit, Fault, Overlap, Unless, Goto, Proceed,
        GiveUp, Within, Broken, Checked, Running, Exists, Attached, executor, watcher,
        books, engine, docker, local, rest, startUnchanged, checkUnchanged, unitUnchanged,
        termUnchanged, cleanUnchanged, watchUnchanged, Booked, Terminating, Finishing,
        TypeOK, Scalars, Collections, Control, SetupLabels, Creating, Bringing, Probing,
        CleanLabels, Disposing, Closing, Quiet, Undisturbing, Placed, Expected,
        Unadmitted, Unstarted
<1>1. CASE CreateLease
  BY <1>1 DEF CreateLease
<1>2. CASE CreateVolume
  BY <1>2 DEF CreateVolume
<1>3. CASE BeginTransition
  <2>1. pc = "begin" /\ stage = "setup"
    BY <1>3 DEF BeginTransition
  <2>2. ~SampleFails(FALSE) /\ cancelled = "no"
    BY <2>1, SampleSucceeds
  <2>3. pc' = "dockerCreate" /\ UNCHANGED <<stage, at, result, ledger, active, finished>>
    BY <1>3, <2>2 DEF BeginTransition, SampleOK, AccountOK
  <2> QED BY <2>1, <2>3
<1>4. CASE LaunchCreate
  BY <1>4 DEF LaunchCreate
<1>5. CASE DockerCreate
  BY <1>5 DEF DockerCreate
<1>6. CASE StartTrace
  BY <1>6 DEF StartTrace
<1>7. CASE DockerStart
  BY <1>7 DEF DockerStart
<1>8. CASE Register
  BY <1>8 DEF Register, Admitted
<1>9. CASE AwaitRuntime
  BY <1>9 DEF AwaitRuntime
<1>10. CASE EndTransition
  <2>1. /\ at = 0 => AfterStart = "watch"
        /\ at = 1 => AfterStart = "attachments"
        /\ at \notin {0, 1} => AfterStart = "checkProbe"
    BY DEF AfterStart
  <2>2. pc = "started" /\ stage = "setup" /\ UNCHANGED at
    BY <1>10 DEF EndTransition
  <2>3. ~SampleFails(FALSE)
    BY <2>2, SampleSucceeds
  <2>4. /\ pc' = AfterStart /\ UNCHANGED <<stage, error, result>>
        /\ UNCHANGED <<books, engine>> \/ SampleOK(FALSE)
    BY <1>10, <2>3 DEF EndTransition
  <2>5. UNCHANGED <<ledger, active, finished>>
    BY <2>4 DEF SampleOK, ReadOK, AccountOK
  <2> QED BY <2>1, <2>2, <2>4, <2>5
<1>11. CASE StartWatch
  <2>1. pc = "watch" /\ stage = "setup"
    BY <1>11 DEF StartWatch
  <2>2. ~SampleFails(FALSE)
    BY <2>1, SampleSucceeds
  <2>3. pc' = "install" /\ UNCHANGED <<stage, at, result, ledger, active, finished>>
    BY <1>11, <2>2 DEF StartWatch, SampleOK, AccountOK
  <2> QED BY <2>1, <2>3
<1>12. CASE Install
  BY <1>12 DEF Install
<1>13. CASE CheckPrepared
  BY <1>13 DEF CheckPrepared, CheckAttachments
<1>14. CASE ClosureFixed
  <2>1. pc = "prepared" /\ stage = "setup" /\ at = 0 /\ cancelled = "no"
    BY <1>14 DEF ClosureFixed
  <2>2. /\ pc' = "checkVolume" /\ at' = 2 /\ ledger' = ledger \cup {"prepared", "anchored"}
        /\ UNCHANGED <<stage, active, finished>>
    BY <1>14, <2>1 DEF ClosureFixed
  <2>3. 2 \in Units
    OBVIOUS
  <2>4. ledger = {} /\ active = NoUnit
    BY <2>1
  <2>5. finished = {} /\ {r \in Units : r < 2} = {}
    BY <2>1
  <2> QED BY <2>1, <2>2, <2>3, <2>4, <2>5
<1>15. CASE CheckVolume
  BY <1>15 DEF CheckVolume, CheckAttachments
<1>16. CASE CheckProbe
  BY <1>16 DEF CheckProbe, CheckAttachments
<1>17. CASE CheckClosure
  BY <1>17 DEF CheckClosure, CheckAttachments
<1>18. CASE BeginUnit
  BY <1>18 DEF BeginUnit, Admissible
<1>19. CASE Launch
  BY <1>19 DEF Launch
<1>20. CASE CommandEnds
  BY <1>20 DEF CommandEnds
<1>21. CASE BeginRead
  BY <1>21 DEF BeginRead, MembersKnown, ReadFails, Readable
<1>22. CASE EndRead
  BY <1>22 DEF EndRead, ReadReturns, ReadRejected
<1>23. CASE FinishUnit
  <2>1. /\ pc = "finish" /\ stage = "setup" /\ at \in Units /\ "failed" \notin ledger
        /\ ledger = {"prepared", "anchored"} /\ finished = {r \in Units : r < at}
    BY <1>23 DEF FinishUnit
  <2>2. ~Exhausted(seen)
    BY DEF Exhausted
  <2>3. ~AccountRejected(seen, FALSE)
    BY <2>1, <2>2 DEF AccountRejected, Accepts
  <2>4. \/ /\ finished' = finished \cup {at} /\ active' = NoUnit /\ ledger' = ledger /\ NextUnit
        \/ ledger' = ledger \cup {"failed", "terminal"} /\ GiveUp
    BY <1>23, <2>1, <2>3 DEF FinishUnit
  <2>5. CASE ledger' = ledger \cup {"failed", "terminal"} /\ GiveUp
    BY <2>5
  <2>6. CASE finished' = finished \cup {at} /\ active' = NoUnit /\ ledger' = ledger /\ NextUnit
    <3>1. CASE at = N + 1
      <4>1. finished' = Units
        BY <2>1, <2>6, <3>1
      <4> QED BY <2>1, <2>6, <3>1, <4>1 DEF NextUnit
    <3>2. CASE at # N + 1
      <4>1. at' = at + 1 /\ at' \in Units /\ pc' = "checkVolume" /\ stage' = "setup"
        BY <2>1, <2>6, <3>2 DEF NextUnit
      <4>2. finished' = {r \in Units : r < at'}
        BY <2>1, <2>6, <4>1
      <4> QED BY <2>1, <2>6, <4>1, <4>2
    <3> QED BY <3>1, <3>2
  <2> QED BY <2>4, <2>5, <2>6
<1>24. CASE BeginTermination
  <2>1. pc = "terminate"
    BY <1>24 DEF BeginTermination
  <2>2. ~SampleFails(TRUE)
    BY <2>1, SampleSucceeds
  <2>3. pc' = "evidence" /\ UNCHANGED <<stage, at, result, ledger, active, finished>>
    BY <1>24, <2>2 DEF BeginTermination, SampleOK, AccountOK
  <2> QED BY <2>1, <2>3
<1>25. CASE TerminateRuntime
  BY <1>25 DEF TerminateRuntime, Evidence, TerminateOK, Gone, Collected, TerminateRefused,
      TerminateLost, TerminateRejected, TerminateStuck
<1>26. CASE EndTermination
  <2>1. pc = "terminated" /\ UNCHANGED <<at>>
    BY <1>26 DEF EndTermination
  <2>2. ~SampleFails(TRUE)
    BY <2>1, SampleSucceeds
  <2>3. Terminated(error = "yes") /\ UNCHANGED <<ledger, active, finished>>
    BY <1>26, <2>2 DEF EndTermination, SampleOK, AccountOK
  <2>4. /\ UNCHANGED <<stage, result>>
        /\ pc' = IF stage = "cleanup" THEN "dispose"
                 ELSE IF at = 0 THEN "prepared" ELSE "checkClosure"
    BY <2>3 DEF Terminated
  <2> QED BY <2>1, <2>3, <2>4
<1>27. CASE StopWatch
  BY <1>27 DEF StopWatch
<1>28. CASE AwaitWatch
  BY <1>28 DEF AwaitWatch
<1>29. CASE Dispose
  BY <1>29 DEF Dispose, Disposable
<1>30. CASE Remove
  BY <1>30 DEF Remove, Gone
<1>31. CASE Close
  BY <1>31 DEF Close, Closable, MembersKnown
<1>32. CASE DisposeVolume
  BY <1>32 DEF DisposeVolume, RemoveVolume
<1>33. CASE Finalize
  BY <1>33 DEF Finalize, Final
<1>34. CASE WatchTick
  BY <1>34 DEF WatchTick, Stopping, MembersKnown, ReadFails, Readable
<1>35. CASE WatchReadReturns
  BY <1>35 DEF WatchReadReturns, ReadReturns, ReadRejected
<1>36. CASE WatchAccount
  <2>1. UNCHANGED <<pc, stage, at, result>>
    BY <1>36 DEF WatchAccount, Accounted
  <2>2. ~Exhausted(sampled)
    BY DEF Exhausted
  <2>3. ~AccountRejected(sampled, "terminal" \in ledger)
    BY <2>2 DEF AccountRejected, Accepts
  <2>4. UNCHANGED <<ledger, active, finished>>
    BY <1>36, <2>3 DEF WatchAccount, Accounted, AccountOK
  <2> QED BY <2>1, <2>4
<1>37. CASE WatchLate
  BY <1>37 DEF WatchLate, Stopping
<1>38. CASE WatchEnds
  BY <1>38 DEF WatchEnds, Stopping
<1>39. CASE WatchCancel
  BY <1>39 DEF WatchCancel
<1>40. CASE AbortRuntime
  BY <1>40 DEF AbortRuntime, TerminateOK, Gone, TerminateRejected, TerminateLost,
      TerminateStuck
<1>41. CASE AbortEnds
  BY <1>41 DEF AbortEnds
<1>42. CASE Burn
  BY <1>42 DEF Burn
<1>43. CASE Cancel
  BY <1>43 DEF Cancel
<1> QED BY <1>1, <1>2, <1>3, <1>4, <1>5, <1>6, <1>7, <1>8, <1>9, <1>10, <1>11, <1>12, <1>13,
      <1>14, <1>15, <1>16, <1>17, <1>18, <1>19, <1>20, <1>21, <1>22, <1>23, <1>24, <1>25,
      <1>26, <1>27, <1>28, <1>29, <1>30, <1>31, <1>32, <1>33, <1>34, <1>35, <1>36, <1>37,
      <1>38, <1>39, <1>40, <1>41, <1>42, <1>43 DEF Next, Executor, Watcher

-----------------------------------------------------------------------------
(* An overlap is remembered by the ledger, the session or the watcher, or  *)
(* has already cost the transaction its result.                            *)

\* An overlap keeps the result from being a completed one.
LEMMA RejectedStep ==
  ASSUME TypeOK, Control, Rejected, Next
  PROVE  Rejected'
<1> USE CPUAssumption
<1> USE DEF Rejected, TypeOK, Scalars, Collections, Control, SetupLabels, CleanLabels, Creating,
        Bringing, Terminating, Probing, Finishing, Disposing, Closing, Preparation, Anchor, Units,
        Runtimes, NoUnit, Fault, Overlap, Unless, Goto, Proceed, GiveUp, Within, Broken, Checked, Running, Exists,
        Attached, executor, watcher, books, engine, docker, local, rest, startUnchanged,
        checkUnchanged, unitUnchanged, termUnchanged, cleanUnchanged, watchUnchanged
<1>1. CASE CreateLease \/ CreateVolume \/ BeginTransition \/ LaunchCreate \/ DockerCreate
  <2>1. CASE CreateLease
    BY <2>1 DEF CreateLease
  <2>5. CASE CreateVolume
    BY <2>5 DEF CreateVolume
  <2>2. CASE BeginTransition
    BY <2>2 DEF BeginTransition, SampleMuFree, SampleOK, ReadOK, Readable, MembersKnown,
        AccountOK, Accepts, Exhausted, SampleFails, ReadFails, AccountRejected
  <2>3. CASE LaunchCreate
    BY <2>3 DEF LaunchCreate
  <2>4. CASE DockerCreate
    BY <2>4 DEF DockerCreate
  <2> QED BY <1>1, <2>1, <2>2, <2>3, <2>4, <2>5
<1>2. CASE StartTrace \/ DockerStart \/ Register \/ AwaitRuntime \/ EndTransition
  BY <1>2 DEF StartTrace, DockerStart, Register, Admitted, AwaitRuntime, EndTransition,
      SampleMuFree, AfterStart, SampleOK, ReadOK, Readable, MembersKnown, AccountOK,
      Accepts, Exhausted, SampleFails, ReadFails, AccountRejected
<1>3. CASE StartWatch \/ Install \/ CheckPrepared \/ ClosureFixed \/ CheckVolume \/
          CheckProbe \/ CheckClosure
  BY <1>3 DEF StartWatch, SampleOK, ReadOK, Readable, MembersKnown, AccountOK, Accepts,
      Exhausted, SampleFails, ReadFails, AccountRejected, Install, CheckPrepared,
      CheckAttachments, ClosureFixed, CheckVolume, CheckProbe, CheckClosure
<1>4. CASE BeginUnit \/ Launch \/ CommandEnds \/ BeginRead \/ EndRead \/ FinishUnit
  BY <1>4 DEF BeginUnit, Admissible, Launch, CommandEnds, BeginRead, MembersKnown,
      ReadFails, Readable, EndRead, ReadReturns, ReadRejected, FinishUnit, AccountRejected,
      Accepts, Exhausted, Qualifies, NextUnit
<1>5. CASE BeginTermination \/ TerminateRuntime \/ EndTermination
  BY <1>5 DEF BeginTermination, SampleMuFree, SampleOK, ReadOK, Readable, MembersKnown,
      AccountOK, Accepts, Exhausted, SampleFails, ReadFails, AccountRejected,
      TerminateRuntime, Evidence, TerminateOK, Gone, Collected, TerminateRefused,
      TerminateLost, TerminateRejected, TerminateStuck, EndTermination, Terminated
<1>6. CASE StopWatch \/ AwaitWatch \/ Dispose \/ Remove \/ Close \/ DisposeVolume \/
          Finalize
  BY <1>6 DEF StopWatch, AwaitWatch, Dispose, Disposable, Remove, Gone, Close, Closable,
      MembersKnown, DisposeVolume, RemoveVolume, Finalize, Final
<1>7. CASE WatchTick \/ WatchReadReturns \/ WatchAccount \/ WatchLate \/ WatchEnds \/
          WatchCancel \/ AbortRuntime \/ AbortEnds
  BY <1>7 DEF WatchTick, Stopping, MembersKnown, ReadFails, Readable, WatchReadReturns,
      ReadReturns, ReadRejected, WatchAccount, Accounted, AccountOK, Accepts, Exhausted,
      AccountRejected, WatchLate, WatchEnds, WatchCancel, AbortRuntime, TerminateOK, Gone,
      TerminateRejected, TerminateLost, TerminateStuck, AbortEnds
<1>8. CASE Burn \/ Cancel
  BY <1>8 DEF Burn, Cancel
<1> QED BY <1>1, <1>2, <1>3, <1>4, <1>5, <1>6, <1>7, <1>8 DEF Next, Executor, Watcher

-----------------------------------------------------------------------------
(* The theorems.                                                           *)

\* The invariant holds before the transaction starts.
LEMMA InitIInv ==
  ASSUME Init
  PROVE  IInv
<1> USE PlanAssumption, CPUAssumption
<1> USE DEF Preparation, Anchor, Units, Runtimes, NoUnit, Running, Exists, Attached
<1>1. TypeOK
  BY DEF Init, TypeOK, Scalars, Collections
<1>2. Control
  BY DEF Init, Control, SetupLabels, Creating, Bringing, Terminating, Probing, Finishing, CleanLabels,
         Disposing, Closing
<1>3. Registration /\ Launched
  BY DEF Init, Registration, Launched, Creating, Bringing, Terminating, Probing, Finishing
<1>4. Behind
  BY DEF Init, Behind, Creating, Bringing, Terminating, Finishing, Closing, Ended, CompletedIsProven
<1>5. Disposal
  BY DEF Init, Disposal, Closing
<1>6. Exact
  <2> USE DEF Init, Creating, Bringing, Terminating, Probing, Finishing, Disposing, Closing
  <2>1. Undisturbing
    BY DEF Undisturbing
  <2>2. Expected = {} /\ Unstarted = {} /\ Unadmitted = {}
    BY DEF Expected, Unstarted, Unadmitted
  <2>3. Placed
    BY <2>2 DEF Placed
  <2>4. Booked
    BY DEF Booked
  <2> QED BY <2>1, <2>3, <2>4 DEF Exact
<1>7. Rejected
  BY DEF Init, Rejected
<1> QED BY <1>1, <1>2, <1>3, <1>4, <1>5, <1>6, <1>7 DEF IInv

\* A step that changes nothing keeps the invariant.
LEMMA StutterIInv ==
  ASSUME IInv, UNCHANGED vars
  PROVE  IInv'
<1>1. UNCHANGED <<pc, stage, at, error, unclean, todo, outcome, seen, held, known, registered, trace, result>>
  BY DEF vars, executor
<1>2. UNCHANGED <<cancelled, watch, watchErr, sampled, doomed, transition, ledger, booked, active, finished>>
  BY DEF vars, watcher, books
<1>3. UNCHANGED <<session, scopes, drained, charged, container, volume, code, used, fault>>
  BY DEF vars, engine, docker
<1>4. (TypeOK /\ Control)'
  BY <1>1, <1>2, <1>3 DEF IInv, TypeOK, Scalars, Collections, Control
<1>5. (Registration /\ Launched)'
  BY <1>1, <1>2, <1>3 DEF IInv, Registration, Launched, Attached, Running, Exists
<1>6. (Behind /\ Disposal)'
  BY <1>1, <1>2, <1>3 DEF IInv, Behind, Ended, CompletedIsProven, Disposal, Busy, Exists
<1>7. Exact'
  BY <1>1, <1>2, <1>3 DEF IInv, Exact, Quiet, Undisturbing, Placed, Booked, Expected, Unstarted,
     Unadmitted, Attached, Running, Exists
<1>8. Rejected'
  BY <1>1, <1>2, <1>3 DEF IInv, Rejected
<1> QED BY <1>4, <1>5, <1>6, <1>7, <1>8 DEF IInv

\* Every step of executor, watcher, containers and caller keeps the invariant.
LEMMA NextIInv ==
  ASSUME IInv, [Next]_vars
  PROVE  IInv'
<1>1. CASE UNCHANGED vars
  BY <1>1, StutterIInv
<1>2. CASE Next
  <2> USE <1>2 DEF IInv
  <2>1. (TypeOK /\ Control)'
    BY ScalarsStep, CollectionsStep, ControlStep DEF TypeOK
  <2>2. (Registration /\ Launched)'
    BY RegistrationStep, LaunchedStep
  <2>3. (Behind /\ Disposal)'
    BY BehindStep, DisposalStep
  <2>4. Exact'
    <3>1. SUFFICES ASSUME Quiet'
                   PROVE  (Undisturbing /\ Placed /\ Booked)'
      BY DEF Exact
    <3>2. Quiet
      BY <3>1, DisturbanceLasts
    <3>3. Undisturbing /\ Placed /\ Booked
      BY <3>2 DEF Exact
    <3> QED BY <3>1, <3>2, <3>3, UndisturbingStep, PlacedStep, BookedStep
  <2>5. Rejected'
    BY RejectedStep
  <2> QED BY <2>1, <2>2, <2>3, <2>4, <2>5
<1> QED BY <1>1, <1>2

\* The invariant holds of every behaviour.
LEMMA InvariantHolds == Spec => []IInv
<1>1. Init => IInv
  BY InitIInv
<1>2. IInv /\ [Next]_vars => IInv'
  BY NextIInv
<1> QED BY <1>1, <1>2, PTL DEF Spec

\* The types of the variables of the transaction, its watcher and the engine.
THEOREM TypesHold == Spec => []TypeOK
<1>1. IInv => TypeOK
  BY DEF IInv
<1> QED BY <1>1, InvariantHolds, PTL

\* executeTrustedTransaction: a completed result means that every unit was
\* finished, every trace complete, every container, the volume and the session
\* gone, the CPU ceiling kept and the watcher without a fault.
THEOREM CompletedResultsAreProven == Spec => []CompletedIsProven
<1>1. IInv => CompletedIsProven
  BY DEF IInv, Behind
<1> QED BY <1>1, InvariantHolds, PTL

\* Artifact code runs only in a container whose CPU time is accounted, whose
\* trace is recorded, and beside which only the anchor has the closure.
THEOREM CodeRunsObserved == Spec => []CodeIsObserved
<1>1. IInv => CodeIsObserved
  BY PlanAssumption DEF IInv, Registration, Launched, CodeIsObserved, Running, Exists
<1> QED BY <1>1, InvariantHolds, PTL

\* An undisturbed transaction ends as its units did, whatever the order of the
\* watcher, the lifecycle brackets and the engine, with one exception: the
\* overlap of the read before finishUnit with a read of the watcher, after which
\* it ends incomplete.
THEOREM UndisturbedTransactionsSucceed == Spec => []UndisturbedEndsAsItRan
<1>1. IInv => UndisturbedEndsAsItRan
  <2>0. SUFFICES ASSUME IInv, pc = "done", Undisturbed
                 PROVE  /\ Overlapped => result = "incomplete"
                        /\ ~Overlapped /\ "terminal" \in ledger =>
                               result = "incomplete" /\ watchErr = "none" /\ unclean = "no"
                        /\ ~Overlapped /\ "terminal" \notin ledger => result = "completed"
    BY DEF UndisturbedEndsAsItRan
  <2>1. stage = "cleanup" /\ result \in {"completed", "incomplete"}
    BY <2>0 DEF IInv, TypeOK, Scalars, Control, SetupLabels, Creating, Bringing, Terminating, Probing, Finishing
  <2>2. CASE Overlapped
    <3>1. result = "completed" => watchErr = "none" /\ session = "closed"
      BY <2>0 DEF IInv, Behind, CompletedIsProven
    <3> QED BY <2>0, <2>1, <2>2, <3>1 DEF IInv, Rejected, Overlapped
  <2>3. CASE ~Overlapped
    <3>1. Undisturbing /\ Booked
      BY <2>0, <2>3 DEF IInv, Exact, Quiet, Undisturbed, Overlapped
    <3> QED BY <2>0, <2>1, <2>3, <3>1 DEF Undisturbing, Booked
  <2> QED BY <2>2, <2>3
<1> QED BY <1>1, InvariantHolds, PTL

\* Whatever fails, no container, volume or session is left behind, unless
\* Docker, systemd or a lost answer hid it or kept it.
THEOREM TransactionsDispose == Spec => []EverythingDisposed
<1>1. IInv => EverythingDisposed
  <2> SUFFICES ASSUME IInv, pc = "done", fault # "hard"
               PROVE  Attached = {} /\ volume # "made" /\ session \in {"none", "closed"}
    BY DEF EverythingDisposed
  <2>1. stage = "cleanup"
    BY DEF IInv, TypeOK, Scalars, Control, SetupLabels, Creating, Bringing, Terminating, Probing, Finishing
  <2> QED BY <2>1 DEF IInv, Disposal, Closing, Busy, Attached
<1> QED BY <1>1, InvariantHolds, PTL
=============================================================================
