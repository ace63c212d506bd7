------------------------- MODULE ProjectBuildProofs -------------------------
(***************************************************************************)
(* Machine-checked proofs about ProjectBuild, for any files, any modules   *)
(* and any number of changes and faults.  They rest on the layout of the   *)
(* program, a lemma about where each step is, and on an invariant that     *)
(* says what a build that is at a step has behind it.                      *)
(***************************************************************************)
EXTENDS ProjectBuild, TLAPS

-----------------------------------------------------------------------------
(* The layout of the program                                               *)

\* The steps of the parts that only read: before the sandbox, in a
\* verification, and in the sandbox once the build container is alone.
ReadingSteps ==
    {<<"take", "guard">>, <<"plan", "controls">>, <<"freeze", "source">>, <<"freeze", "cache">>,
     <<"bind", "inputs">>, <<"verify", "source">>, <<"check", "receipt">>, <<"scan", "capture">>,
     <<"scan", "copy">>, <<"check", "controls">>, <<"check", "evidence">>, <<"scan", "compare">>,
     <<"scan", "inventory">>}

\* What a verification consists of after it began.
VerifyingSteps ==
    {<<"check", "controls">>, <<"check", "evidence">>, <<"check", "facts">>,
     <<"scan", "compare">>, <<"scan", "inventory">>}

\* The same with its beginning, as the steps between two others are.
PublishingSteps == VerifyingSteps \cup {<<"begin", "verification">>}

\* What happens in the sandbox once the build container is alone.
RunningSteps ==
    {<<"verify", "before">>, <<"configure", "runtime">>, <<"check", "graph">>,
     <<"run", "validation">>, <<"ask", "roles">>, <<"run", "build">>}

\* A program p that sets the sandbox up at P and takes it down at D, and that
\* makes the tree at M, gives it its final name at R and reports it at A.
Enters(p, P) ==
    /\ p[P] = <<"prepare", "inputs">>
    /\ p[P + 1] = <<"make", "inputVolume">> /\ p[P + 2] = <<"make", "outputVolume">>
    /\ p[P + 3] = <<"create", "preparation">> /\ p[P + 4] = <<"trace", "preparation">>
    /\ p[P + 5] = <<"start", "preparation">> /\ p[P + 6] = <<"introduce", "inputs">>
    /\ p[P + 7] = <<"create", "build">> /\ p[P + 8] = <<"trace", "build">>
    /\ p[P + 9] = <<"start", "build">> /\ p[P + 10] = <<"remove", "preparation">>

\* The end of the build, its clean-up and the policy.
Leaves(p, D) ==
    /\ p[D - 4] = <<"verify", "after">> /\ p[D - 3] = <<"check", "graph">>
    /\ p[D - 2] = <<"capture", "output">> /\ p[D - 1] = <<"verify", "captured">>
    /\ p[D] = <<"dispose", "build">> /\ p[D + 1] = <<"dispose", "preparation">>
    /\ p[D + 2] = <<"drop", "outputVolume">> /\ p[D + 3] = <<"drop", "inputVolume">>
    /\ p[D + 4] = <<"settle", "output">>
    /\ p[D + 5] = <<"record", "facts">> /\ p[D + 6] = <<"decide", "policy">>

\* The tree, and the answer with what is deferred behind it.
Publishes(p, M, R, A) ==
    /\ p[M] = <<"make", "tree">> /\ p[M + 1] = <<"fill", "tree">> /\ p[M + 2] = <<"check", "tree">>
    /\ p[R] = <<"rename", "tree">> /\ p[R + 1] = <<"confirm", "tree">>
    /\ p[R + 2] = <<"begin", "verification">>
    /\ p[A] = <<"answer", "success">> /\ p[A + 1] = <<"roll", "back">>
    /\ p[A + 2] = <<"close", "guard">>

\* Before the sandbox everything is read only.
Reads(p, P) == \A i \in 1..(P - 1) : p[i] \in ReadingSteps

\* In the sandbox; the roles are asked for just before the last compilation.
Builds(p, P, D) ==
    /\ \A i \in (P + 11)..(D - 5) : p[i] \in RunningSteps
    /\ \A i \in (P + 11)..(D - 5) : p[i] = <<"ask", "roles">> => i = D - 6

\* The verifications before the last one.
VerifiesBefore(p, D, M, R) ==
    /\ \A i \in (D + 7)..(M - 1) : p[i] \in PublishingSteps
    /\ \A i \in (M + 3)..(R - 1) : p[i] \in PublishingSteps

\* The last one: nothing else, and each of its five kinds of step.
Verifies(p, R, A) == \A i \in (R + 3)..(A - 1) : p[i] \in VerifyingSteps
VerifiesAll(p, R, A) ==
    /\ \E i \in (R + 3)..(A - 1) : p[i] = <<"check", "controls">>
    /\ \E i \in (R + 3)..(A - 1) : p[i] = <<"check", "evidence">>
    /\ \E i \in (R + 3)..(A - 1) : p[i] = <<"check", "facts">>
    /\ \E i \in (R + 3)..(A - 1) : p[i] = <<"scan", "compare">>
    /\ \E i \in (R + 3)..(A - 1) : p[i] = <<"scan", "inventory">>

\* The layout of a whole program.
Laid(p, P, D, M, R, A) ==
    /\ Len(p) = A + 2 /\ DOMAIN p = 1..(A + 2)
    /\ Reads(p, P) /\ Enters(p, P) /\ Builds(p, P, D) /\ Leaves(p, D)
    /\ VerifiesBefore(p, D, M, R) /\ Publishes(p, M, R, A)
    /\ Verifies(p, R, A) /\ VerifiesAll(p, R, A)

\* The Go build, laid out.
LEMMA GoLayout == Laid(ProgramOf("go"), 40, 61, 83, 97, 110)
<1> DEFINE p == ProgramOf("go")
<1> USE DEF ProgramOf, BeginApproved, FreezeBuildInputs, GoFreezeBuildInputs, GoSnapshotBuildSource,
            GoSnapshotBuildCache, copyBuildCache, observe, GoObserve, prepare, start, RunGo,
            dispose, VerifyBuildSource, PublishBuild, verifyBuildApproval, GoVerifyBuildApproval,
            OpenBuildInputs, GoOpenBuildInputs, VerifyUnchanged, verifyRetainedApproval,
            OpenProjectCache
<1>1. Len(p) = 112 /\ DOMAIN p = 1..112
  OBVIOUS
<1>2. /\ p[1] = <<"take", "guard">> /\ p[2] = <<"plan", "controls">>
      /\ p[3] = <<"check", "evidence">> /\ p[4] = <<"scan", "inventory">>
      /\ p[5] = <<"check", "controls">> /\ p[6] = <<"check", "controls">>
      /\ p[7] = <<"check", "evidence">> /\ p[8] = <<"scan", "inventory">>
      /\ p[9] = <<"scan", "inventory">> /\ p[10] = <<"check", "controls">>
  OBVIOUS
<1>3. /\ p[11] = <<"check", "controls">> /\ p[12] = <<"check", "evidence">>
      /\ p[13] = <<"scan", "inventory">> /\ p[14] = <<"scan", "inventory">>
      /\ p[15] = <<"check", "controls">> /\ p[16] = <<"check", "controls">>
      /\ p[17] = <<"scan", "capture">> /\ p[18] = <<"check", "controls">>
      /\ p[19] = <<"freeze", "source">> /\ p[20] = <<"check", "controls">>
  OBVIOUS
<1>4. /\ p[21] = <<"check", "controls">> /\ p[22] = <<"scan", "compare">>
      /\ p[23] = <<"check", "controls">> /\ p[24] = <<"check", "controls">>
      /\ p[25] = <<"check", "evidence">> /\ p[26] = <<"scan", "inventory">>
      /\ p[27] = <<"scan", "inventory">> /\ p[28] = <<"check", "controls">>
      /\ p[29] = <<"check", "receipt">> /\ p[30] = <<"scan", "copy">>
  OBVIOUS
<1>5. /\ p[31] = <<"freeze", "cache">> /\ p[32] = <<"check", "controls">>
      /\ p[33] = <<"check", "controls">> /\ p[34] = <<"check", "evidence">>
      /\ p[35] = <<"scan", "inventory">> /\ p[36] = <<"scan", "inventory">>
      /\ p[37] = <<"check", "controls">> /\ p[38] = <<"bind", "inputs">>
      /\ p[39] = <<"verify", "source">>
  OBVIOUS
<1>6. /\ p[40] = <<"prepare", "inputs">> /\ p[41] = <<"make", "inputVolume">>
      /\ p[42] = <<"make", "outputVolume">> /\ p[43] = <<"create", "preparation">>
      /\ p[44] = <<"trace", "preparation">> /\ p[45] = <<"start", "preparation">>
      /\ p[46] = <<"introduce", "inputs">> /\ p[47] = <<"create", "build">>
      /\ p[48] = <<"trace", "build">> /\ p[49] = <<"start", "build">>
  OBVIOUS
<1>7. /\ p[50] = <<"remove", "preparation">>
  OBVIOUS
<1>8. /\ p[51] = <<"verify", "before">> /\ p[52] = <<"configure", "runtime">>
      /\ p[53] = <<"check", "graph">> /\ p[54] = <<"run", "validation">>
      /\ p[55] = <<"ask", "roles">> /\ p[56] = <<"run", "build">>
  OBVIOUS
<1>9. /\ p[57] = <<"verify", "after">> /\ p[58] = <<"check", "graph">>
      /\ p[59] = <<"capture", "output">> /\ p[60] = <<"verify", "captured">>
      /\ p[61] = <<"dispose", "build">> /\ p[62] = <<"dispose", "preparation">>
      /\ p[63] = <<"drop", "outputVolume">> /\ p[64] = <<"drop", "inputVolume">>
      /\ p[65] = <<"settle", "output">> /\ p[66] = <<"record", "facts">>
  OBVIOUS
<1>10. /\ p[67] = <<"decide", "policy">>
  OBVIOUS
<1>11. /\ p[68] = <<"check", "controls">> /\ p[69] = <<"check", "controls">>
      /\ p[70] = <<"scan", "compare">> /\ p[71] = <<"check", "controls">>
      /\ p[72] = <<"begin", "verification">> /\ p[73] = <<"check", "controls">>
      /\ p[74] = <<"check", "controls">> /\ p[75] = <<"scan", "compare">>
      /\ p[76] = <<"check", "controls">> /\ p[77] = <<"check", "controls">>
  OBVIOUS
<1>12. /\ p[78] = <<"check", "evidence">> /\ p[79] = <<"scan", "inventory">>
      /\ p[80] = <<"scan", "inventory">> /\ p[81] = <<"check", "controls">>
      /\ p[82] = <<"check", "facts">>
  OBVIOUS
<1>13. /\ p[83] = <<"make", "tree">> /\ p[84] = <<"fill", "tree">>
      /\ p[85] = <<"check", "tree">>
  OBVIOUS
<1>14. /\ p[86] = <<"begin", "verification">> /\ p[87] = <<"check", "controls">>
      /\ p[88] = <<"check", "controls">> /\ p[89] = <<"scan", "compare">>
      /\ p[90] = <<"check", "controls">> /\ p[91] = <<"check", "controls">>
      /\ p[92] = <<"check", "evidence">> /\ p[93] = <<"scan", "inventory">>
      /\ p[94] = <<"scan", "inventory">> /\ p[95] = <<"check", "controls">>
  OBVIOUS
<1>15. /\ p[96] = <<"check", "facts">>
  OBVIOUS
<1>16. /\ p[97] = <<"rename", "tree">> /\ p[98] = <<"confirm", "tree">>
      /\ p[99] = <<"begin", "verification">>
  OBVIOUS
<1>17. /\ p[100] = <<"check", "controls">> /\ p[101] = <<"check", "controls">>
      /\ p[102] = <<"scan", "compare">> /\ p[103] = <<"check", "controls">>
      /\ p[104] = <<"check", "controls">> /\ p[105] = <<"check", "evidence">>
      /\ p[106] = <<"scan", "inventory">> /\ p[107] = <<"scan", "inventory">>
      /\ p[108] = <<"check", "controls">> /\ p[109] = <<"check", "facts">>
  OBVIOUS
<1>18. /\ p[110] = <<"answer", "success">> /\ p[111] = <<"roll", "back">>
      /\ p[112] = <<"close", "guard">>
  OBVIOUS
<1> HIDE DEF p
<1>19. \A i \in 1..39 : p[i] \in ReadingSteps
  <2>1. /\ <<"bind", "inputs">> \in ReadingSteps /\ <<"check", "controls">> \in ReadingSteps
        /\ <<"check", "evidence">> \in ReadingSteps
        /\ <<"check", "receipt">> \in ReadingSteps /\ <<"freeze", "cache">> \in ReadingSteps
        /\ <<"freeze", "source">> \in ReadingSteps
        /\ <<"plan", "controls">> \in ReadingSteps /\ <<"scan", "capture">> \in ReadingSteps
        /\ <<"scan", "compare">> \in ReadingSteps /\ <<"scan", "copy">> \in ReadingSteps
        /\ <<"scan", "inventory">> \in ReadingSteps /\ <<"take", "guard">> \in ReadingSteps
        /\ <<"verify", "source">> \in ReadingSteps
    BY DEF ReadingSteps
  <2>2. ASSUME NEW i \in 1..10 PROVE p[i] \in ReadingSteps
    <3>1. i = 1 \/ i = 2 \/ i = 3 \/ i = 4 \/ i = 5 \/ i = 6 \/ i = 7 \/ i = 8 \/ i = 9 \/ i = 10
      OBVIOUS
    <3> QED BY <2>1, <3>1, <1>2, SMTT(20)
  <2>3. ASSUME NEW i \in 11..20 PROVE p[i] \in ReadingSteps
    <3>1. i = 11 \/ i = 12 \/ i = 13 \/ i = 14 \/ i = 15 \/ i = 16 \/ i = 17 \/ i = 18 \/
          i = 19 \/ i = 20
      OBVIOUS
    <3> QED BY <2>1, <3>1, <1>3, SMTT(20)
  <2>4. ASSUME NEW i \in 21..30 PROVE p[i] \in ReadingSteps
    <3>1. i = 21 \/ i = 22 \/ i = 23 \/ i = 24 \/ i = 25 \/ i = 26 \/ i = 27 \/ i = 28 \/
          i = 29 \/ i = 30
      OBVIOUS
    <3> QED BY <2>1, <3>1, <1>4, SMTT(20)
  <2>5. ASSUME NEW i \in 31..39 PROVE p[i] \in ReadingSteps
    <3>1. i = 31 \/ i = 32 \/ i = 33 \/ i = 34 \/ i = 35 \/ i = 36 \/ i = 37 \/ i = 38 \/ i = 39
      OBVIOUS
    <3> QED BY <2>1, <3>1, <1>5, SMTT(20)
  <2> QED BY <2>2, <2>3, <2>4, <2>5
<1>20. \A i \in 51..56 : p[i] \in RunningSteps
  <2>1. /\ <<"ask", "roles">> \in RunningSteps /\ <<"check", "graph">> \in RunningSteps
        /\ <<"configure", "runtime">> \in RunningSteps
        /\ <<"run", "build">> \in RunningSteps /\ <<"run", "validation">> \in RunningSteps
        /\ <<"verify", "before">> \in RunningSteps
    BY DEF RunningSteps
  <2>2. ASSUME NEW i \in 51..56 PROVE p[i] \in RunningSteps
    <3>1. i = 51 \/ i = 52 \/ i = 53 \/ i = 54 \/ i = 55 \/ i = 56
      OBVIOUS
    <3> QED BY <2>1, <3>1, <1>8, SMTT(20)
  <2> QED BY <2>2
<1>21. \A i \in 51..56 : p[i] = <<"ask", "roles">> => i = 55
  BY <1>8
<1>22. \A i \in 68..82 : p[i] \in PublishingSteps
  <2>1. /\ <<"begin", "verification">> \in PublishingSteps
        /\ <<"check", "controls">> \in PublishingSteps
        /\ <<"check", "evidence">> \in PublishingSteps
        /\ <<"check", "facts">> \in PublishingSteps
        /\ <<"scan", "compare">> \in PublishingSteps
        /\ <<"scan", "inventory">> \in PublishingSteps
    BY DEF PublishingSteps, VerifyingSteps
  <2>2. ASSUME NEW i \in 68..77 PROVE p[i] \in PublishingSteps
    <3>1. i = 68 \/ i = 69 \/ i = 70 \/ i = 71 \/ i = 72 \/ i = 73 \/ i = 74 \/ i = 75 \/
          i = 76 \/ i = 77
      OBVIOUS
    <3> QED BY <2>1, <3>1, <1>11, SMTT(20)
  <2>3. ASSUME NEW i \in 78..82 PROVE p[i] \in PublishingSteps
    <3>1. i = 78 \/ i = 79 \/ i = 80 \/ i = 81 \/ i = 82
      OBVIOUS
    <3> QED BY <2>1, <3>1, <1>12, SMTT(20)
  <2> QED BY <2>2, <2>3
<1>23. \A i \in 86..96 : p[i] \in PublishingSteps
  <2>1. /\ <<"begin", "verification">> \in PublishingSteps
        /\ <<"check", "controls">> \in PublishingSteps
        /\ <<"check", "evidence">> \in PublishingSteps
        /\ <<"check", "facts">> \in PublishingSteps
        /\ <<"scan", "compare">> \in PublishingSteps
        /\ <<"scan", "inventory">> \in PublishingSteps
    BY DEF PublishingSteps, VerifyingSteps
  <2>2. ASSUME NEW i \in 86..95 PROVE p[i] \in PublishingSteps
    <3>1. i = 86 \/ i = 87 \/ i = 88 \/ i = 89 \/ i = 90 \/ i = 91 \/ i = 92 \/ i = 93 \/
          i = 94 \/ i = 95
      OBVIOUS
    <3> QED BY <2>1, <3>1, <1>14, SMTT(20)
  <2>3. ASSUME NEW i \in 96..96 PROVE p[i] \in PublishingSteps
    <3>1. i = 96
      OBVIOUS
    <3> QED BY <2>1, <3>1, <1>15, SMTT(20)
  <2> QED BY <2>2, <2>3
<1>24. \A i \in 100..109 : p[i] \in VerifyingSteps
  <2>1. /\ <<"check", "controls">> \in VerifyingSteps
        /\ <<"check", "evidence">> \in VerifyingSteps
        /\ <<"check", "facts">> \in VerifyingSteps
        /\ <<"scan", "compare">> \in VerifyingSteps
        /\ <<"scan", "inventory">> \in VerifyingSteps
    BY DEF VerifyingSteps
  <2>2. ASSUME NEW i \in 100..109 PROVE p[i] \in VerifyingSteps
    <3>1. i = 100 \/ i = 101 \/ i = 102 \/ i = 103 \/ i = 104 \/ i = 105 \/ i = 106 \/
          i = 107 \/ i = 108 \/ i = 109
      OBVIOUS
    <3> QED BY <2>1, <3>1, <1>17, SMTT(20)
  <2> QED BY <2>2
<1>25. \E i \in 100..109 : p[i] = <<"check", "controls">>
  <2>1. 100 \in 100..109 /\ p[100] = <<"check", "controls">>
    BY <1>17
  <2> QED BY <2>1
<1>26. \E i \in 100..109 : p[i] = <<"check", "evidence">>
  <2>1. 105 \in 100..109 /\ p[105] = <<"check", "evidence">>
    BY <1>17
  <2> QED BY <2>1
<1>27. \E i \in 100..109 : p[i] = <<"check", "facts">>
  <2>1. 109 \in 100..109 /\ p[109] = <<"check", "facts">>
    BY <1>17
  <2> QED BY <2>1
<1>28. \E i \in 100..109 : p[i] = <<"scan", "compare">>
  <2>1. 102 \in 100..109 /\ p[102] = <<"scan", "compare">>
    BY <1>17
  <2> QED BY <2>1
<1>29. \E i \in 100..109 : p[i] = <<"scan", "inventory">>
  <2>1. 106 \in 100..109 /\ p[106] = <<"scan", "inventory">>
    BY <1>17
  <2> QED BY <2>1
<1>100. Laid(p, 40, 61, 83, 97, 110)
  BY <1>1, <1>19, <1>6, <1>7, <1>20, <1>21, <1>9, <1>10,
      <1>22, <1>13, <1>23, <1>16, <1>24, <1>25, <1>26, <1>27, <1>28, <1>29, <1>18,
      SMTT(30) DEF Laid,
      Reads, Enters, Builds, Leaves, VerifiesBefore, Publishes, Verifies, VerifiesAll
<1> QED BY <1>100 DEF p

\* The Cargo build, laid out.
LEMMA CargoLayout == Laid(ProgramOf("cargo"), 30, 48, 68, 82, 95)
<1> DEFINE p == ProgramOf("cargo")
<1> USE DEF ProgramOf, BeginApproved, FreezeBuildInputs, CargoFreezeBuildInputs, CargoBuildArchive,
            CargoSnapshotBuildCache, copyBuildCache, observe, CargoObserve, prepare, start,
            dispose, VerifyBuildSource, PublishBuild, verifyBuildApproval,
            CargoVerifyBuildApproval, OpenBuildInputs, CargoOpenBuildInputs, VerifyUnchanged,
            verifyRetainedApproval, OpenProjectCache
<1>1. Len(p) = 97 /\ DOMAIN p = 1..97
  OBVIOUS
<1>2. /\ p[1] = <<"take", "guard">> /\ p[2] = <<"scan", "capture">>
      /\ p[3] = <<"plan", "controls">> /\ p[4] = <<"check", "evidence">>
      /\ p[5] = <<"scan", "inventory">> /\ p[6] = <<"check", "controls">>
      /\ p[7] = <<"scan", "compare">> /\ p[8] = <<"check", "controls">>
      /\ p[9] = <<"scan", "compare">> /\ p[10] = <<"check", "evidence">>
  OBVIOUS
<1>3. /\ p[11] = <<"scan", "inventory">> /\ p[12] = <<"scan", "inventory">>
      /\ p[13] = <<"check", "controls">> /\ p[14] = <<"scan", "compare">>
      /\ p[15] = <<"freeze", "source">> /\ p[16] = <<"check", "receipt">>
      /\ p[17] = <<"scan", "copy">> /\ p[18] = <<"freeze", "cache">>
      /\ p[19] = <<"check", "controls">> /\ p[20] = <<"scan", "compare">>
  OBVIOUS
<1>4. /\ p[21] = <<"check", "controls">> /\ p[22] = <<"scan", "compare">>
      /\ p[23] = <<"check", "evidence">> /\ p[24] = <<"scan", "inventory">>
      /\ p[25] = <<"scan", "inventory">> /\ p[26] = <<"check", "controls">>
      /\ p[27] = <<"scan", "compare">> /\ p[28] = <<"bind", "inputs">>
      /\ p[29] = <<"verify", "source">>
  OBVIOUS
<1>5. /\ p[30] = <<"prepare", "inputs">> /\ p[31] = <<"make", "inputVolume">>
      /\ p[32] = <<"make", "outputVolume">> /\ p[33] = <<"create", "preparation">>
      /\ p[34] = <<"trace", "preparation">> /\ p[35] = <<"start", "preparation">>
      /\ p[36] = <<"introduce", "inputs">> /\ p[37] = <<"create", "build">>
      /\ p[38] = <<"trace", "build">> /\ p[39] = <<"start", "build">>
  OBVIOUS
<1>6. /\ p[40] = <<"remove", "preparation">>
  OBVIOUS
<1>7. /\ p[41] = <<"verify", "before">> /\ p[42] = <<"check", "graph">>
      /\ p[43] = <<"run", "build">>
  OBVIOUS
<1>8. /\ p[44] = <<"verify", "after">> /\ p[45] = <<"check", "graph">>
      /\ p[46] = <<"capture", "output">> /\ p[47] = <<"verify", "captured">>
      /\ p[48] = <<"dispose", "build">> /\ p[49] = <<"dispose", "preparation">>
      /\ p[50] = <<"drop", "outputVolume">> /\ p[51] = <<"drop", "inputVolume">>
      /\ p[52] = <<"settle", "output">> /\ p[53] = <<"record", "facts">>
  OBVIOUS
<1>9. /\ p[54] = <<"decide", "policy">>
  OBVIOUS
<1>10. /\ p[55] = <<"check", "controls">> /\ p[56] = <<"scan", "compare">>
      /\ p[57] = <<"begin", "verification">> /\ p[58] = <<"check", "controls">>
      /\ p[59] = <<"scan", "compare">> /\ p[60] = <<"check", "controls">>
      /\ p[61] = <<"scan", "compare">> /\ p[62] = <<"check", "evidence">>
      /\ p[63] = <<"scan", "inventory">> /\ p[64] = <<"scan", "inventory">>
  OBVIOUS
<1>11. /\ p[65] = <<"check", "controls">> /\ p[66] = <<"scan", "compare">>
      /\ p[67] = <<"check", "facts">>
  OBVIOUS
<1>12. /\ p[68] = <<"make", "tree">> /\ p[69] = <<"fill", "tree">>
      /\ p[70] = <<"check", "tree">>
  OBVIOUS
<1>13. /\ p[71] = <<"begin", "verification">> /\ p[72] = <<"check", "controls">>
      /\ p[73] = <<"scan", "compare">> /\ p[74] = <<"check", "controls">>
      /\ p[75] = <<"scan", "compare">> /\ p[76] = <<"check", "evidence">>
      /\ p[77] = <<"scan", "inventory">> /\ p[78] = <<"scan", "inventory">>
      /\ p[79] = <<"check", "controls">> /\ p[80] = <<"scan", "compare">>
  OBVIOUS
<1>14. /\ p[81] = <<"check", "facts">>
  OBVIOUS
<1>15. /\ p[82] = <<"rename", "tree">> /\ p[83] = <<"confirm", "tree">>
      /\ p[84] = <<"begin", "verification">>
  OBVIOUS
<1>16. /\ p[85] = <<"check", "controls">> /\ p[86] = <<"scan", "compare">>
      /\ p[87] = <<"check", "controls">> /\ p[88] = <<"scan", "compare">>
      /\ p[89] = <<"check", "evidence">> /\ p[90] = <<"scan", "inventory">>
      /\ p[91] = <<"scan", "inventory">> /\ p[92] = <<"check", "controls">>
      /\ p[93] = <<"scan", "compare">> /\ p[94] = <<"check", "facts">>
  OBVIOUS
<1>17. /\ p[95] = <<"answer", "success">> /\ p[96] = <<"roll", "back">>
      /\ p[97] = <<"close", "guard">>
  OBVIOUS
<1> HIDE DEF p
<1>18. \A i \in 1..29 : p[i] \in ReadingSteps
  <2>1. /\ <<"bind", "inputs">> \in ReadingSteps /\ <<"check", "controls">> \in ReadingSteps
        /\ <<"check", "evidence">> \in ReadingSteps
        /\ <<"check", "receipt">> \in ReadingSteps /\ <<"freeze", "cache">> \in ReadingSteps
        /\ <<"freeze", "source">> \in ReadingSteps
        /\ <<"plan", "controls">> \in ReadingSteps /\ <<"scan", "capture">> \in ReadingSteps
        /\ <<"scan", "compare">> \in ReadingSteps /\ <<"scan", "copy">> \in ReadingSteps
        /\ <<"scan", "inventory">> \in ReadingSteps /\ <<"take", "guard">> \in ReadingSteps
        /\ <<"verify", "source">> \in ReadingSteps
    BY DEF ReadingSteps
  <2>2. ASSUME NEW i \in 1..10 PROVE p[i] \in ReadingSteps
    <3>1. i = 1 \/ i = 2 \/ i = 3 \/ i = 4 \/ i = 5 \/ i = 6 \/ i = 7 \/ i = 8 \/ i = 9 \/ i = 10
      OBVIOUS
    <3> QED BY <2>1, <3>1, <1>2, SMTT(20)
  <2>3. ASSUME NEW i \in 11..20 PROVE p[i] \in ReadingSteps
    <3>1. i = 11 \/ i = 12 \/ i = 13 \/ i = 14 \/ i = 15 \/ i = 16 \/ i = 17 \/ i = 18 \/
          i = 19 \/ i = 20
      OBVIOUS
    <3> QED BY <2>1, <3>1, <1>3, SMTT(20)
  <2>4. ASSUME NEW i \in 21..29 PROVE p[i] \in ReadingSteps
    <3>1. i = 21 \/ i = 22 \/ i = 23 \/ i = 24 \/ i = 25 \/ i = 26 \/ i = 27 \/ i = 28 \/ i = 29
      OBVIOUS
    <3> QED BY <2>1, <3>1, <1>4, SMTT(20)
  <2> QED BY <2>2, <2>3, <2>4
<1>19. \A i \in 41..43 : p[i] \in RunningSteps
  <2>1. /\ <<"check", "graph">> \in RunningSteps /\ <<"run", "build">> \in RunningSteps
        /\ <<"verify", "before">> \in RunningSteps
    BY DEF RunningSteps
  <2>2. ASSUME NEW i \in 41..43 PROVE p[i] \in RunningSteps
    <3>1. i = 41 \/ i = 42 \/ i = 43
      OBVIOUS
    <3> QED BY <2>1, <3>1, <1>7, SMTT(20)
  <2> QED BY <2>2
<1>20. \A i \in 41..43 : p[i] = <<"ask", "roles">> => i = 42
  BY <1>7
<1>21. \A i \in 55..67 : p[i] \in PublishingSteps
  <2>1. /\ <<"begin", "verification">> \in PublishingSteps
        /\ <<"check", "controls">> \in PublishingSteps
        /\ <<"check", "evidence">> \in PublishingSteps
        /\ <<"check", "facts">> \in PublishingSteps
        /\ <<"scan", "compare">> \in PublishingSteps
        /\ <<"scan", "inventory">> \in PublishingSteps
    BY DEF PublishingSteps, VerifyingSteps
  <2>2. ASSUME NEW i \in 55..64 PROVE p[i] \in PublishingSteps
    <3>1. i = 55 \/ i = 56 \/ i = 57 \/ i = 58 \/ i = 59 \/ i = 60 \/ i = 61 \/ i = 62 \/
          i = 63 \/ i = 64
      OBVIOUS
    <3> QED BY <2>1, <3>1, <1>10, SMTT(20)
  <2>3. ASSUME NEW i \in 65..67 PROVE p[i] \in PublishingSteps
    <3>1. i = 65 \/ i = 66 \/ i = 67
      OBVIOUS
    <3> QED BY <2>1, <3>1, <1>11, SMTT(20)
  <2> QED BY <2>2, <2>3
<1>22. \A i \in 71..81 : p[i] \in PublishingSteps
  <2>1. /\ <<"begin", "verification">> \in PublishingSteps
        /\ <<"check", "controls">> \in PublishingSteps
        /\ <<"check", "evidence">> \in PublishingSteps
        /\ <<"check", "facts">> \in PublishingSteps
        /\ <<"scan", "compare">> \in PublishingSteps
        /\ <<"scan", "inventory">> \in PublishingSteps
    BY DEF PublishingSteps, VerifyingSteps
  <2>2. ASSUME NEW i \in 71..80 PROVE p[i] \in PublishingSteps
    <3>1. i = 71 \/ i = 72 \/ i = 73 \/ i = 74 \/ i = 75 \/ i = 76 \/ i = 77 \/ i = 78 \/
          i = 79 \/ i = 80
      OBVIOUS
    <3> QED BY <2>1, <3>1, <1>13, SMTT(20)
  <2>3. ASSUME NEW i \in 81..81 PROVE p[i] \in PublishingSteps
    <3>1. i = 81
      OBVIOUS
    <3> QED BY <2>1, <3>1, <1>14, SMTT(20)
  <2> QED BY <2>2, <2>3
<1>23. \A i \in 85..94 : p[i] \in VerifyingSteps
  <2>1. /\ <<"check", "controls">> \in VerifyingSteps
        /\ <<"check", "evidence">> \in VerifyingSteps
        /\ <<"check", "facts">> \in VerifyingSteps
        /\ <<"scan", "compare">> \in VerifyingSteps
        /\ <<"scan", "inventory">> \in VerifyingSteps
    BY DEF VerifyingSteps
  <2>2. ASSUME NEW i \in 85..94 PROVE p[i] \in VerifyingSteps
    <3>1. i = 85 \/ i = 86 \/ i = 87 \/ i = 88 \/ i = 89 \/ i = 90 \/ i = 91 \/ i = 92 \/
          i = 93 \/ i = 94
      OBVIOUS
    <3> QED BY <2>1, <3>1, <1>16, SMTT(20)
  <2> QED BY <2>2
<1>24. \E i \in 85..94 : p[i] = <<"check", "controls">>
  <2>1. 85 \in 85..94 /\ p[85] = <<"check", "controls">>
    BY <1>16
  <2> QED BY <2>1
<1>25. \E i \in 85..94 : p[i] = <<"check", "evidence">>
  <2>1. 89 \in 85..94 /\ p[89] = <<"check", "evidence">>
    BY <1>16
  <2> QED BY <2>1
<1>26. \E i \in 85..94 : p[i] = <<"check", "facts">>
  <2>1. 94 \in 85..94 /\ p[94] = <<"check", "facts">>
    BY <1>16
  <2> QED BY <2>1
<1>27. \E i \in 85..94 : p[i] = <<"scan", "compare">>
  <2>1. 86 \in 85..94 /\ p[86] = <<"scan", "compare">>
    BY <1>16
  <2> QED BY <2>1
<1>28. \E i \in 85..94 : p[i] = <<"scan", "inventory">>
  <2>1. 90 \in 85..94 /\ p[90] = <<"scan", "inventory">>
    BY <1>16
  <2> QED BY <2>1
<1>100. Laid(p, 30, 48, 68, 82, 95)
  BY <1>1, <1>18, <1>5, <1>6, <1>19, <1>20, <1>8, <1>9,
      <1>21, <1>12, <1>22, <1>15, <1>23, <1>24, <1>25, <1>26, <1>27, <1>28, <1>17,
      SMTT(30) DEF Laid,
      Reads, Enters, Builds, Leaves, VerifiesBefore, Publishes, Verifies, VerifiesAll
<1> QED BY <1>100 DEF p

\* The places of the two programs.
PrepareAt(k) == IF k = "go" THEN 40 ELSE 30
DisposeAt(k) == IF k = "go" THEN 61 ELSE 48
MakeAt(k) == IF k = "go" THEN 83 ELSE 68
RenameAt(k) == IF k = "go" THEN 97 ELSE 82
AnswerAt(k) == IF k = "go" THEN 110 ELSE 95

\* Both programs are laid out like that.
LEMMA Layout ==
  ASSUME NEW k \in {"go", "cargo"}
  PROVE  Laid(Program[k], PrepareAt(k), DisposeAt(k), MakeAt(k), RenameAt(k), AnswerAt(k))
<1>1. Program[k] = ProgramOf(k)
  BY DEF Program
<1>2. CASE k = "go"
  BY <1>1, <1>2, GoLayout DEF PrepareAt, DisposeAt, MakeAt, RenameAt, AnswerAt
<1>3. CASE k = "cargo"
  BY <1>1, <1>3, CargoLayout DEF PrepareAt, DisposeAt, MakeAt, RenameAt, AnswerAt
<1> QED BY <1>2, <1>3

\* What the proofs need of the numbers: their order and their gaps.
LEMMA Places ==
  ASSUME NEW k \in {"go", "cargo"}
  PROVE  /\ PrepareAt(k) \in Nat /\ DisposeAt(k) \in Nat /\ MakeAt(k) \in Nat
         /\ RenameAt(k) \in Nat /\ AnswerAt(k) \in Nat
         /\ PrepareAt(k) > 1 /\ DisposeAt(k) > PrepareAt(k) + 16 /\ MakeAt(k) > DisposeAt(k) + 7
         /\ RenameAt(k) > MakeAt(k) + 3 /\ AnswerAt(k) > RenameAt(k) + 3
BY DEF PrepareAt, DisposeAt, MakeAt, RenameAt, AnswerAt

\* The step s at i of a program laid out at P, D, M, R and A.
Spread(s, i, P, D, M, R, A) ==
    \/ i < P /\ s \in ReadingSteps
    \/ i > P + 10 /\ i < D - 4 /\ s \in RunningSteps
    \/ i > D + 6 /\ i < M /\ s \in PublishingSteps
    \/ i > M + 2 /\ i < R /\ s \in PublishingSteps
    \/ i > R + 2 /\ i < A /\ s \in VerifyingSteps
    \/ i = P /\ s = <<"prepare", "inputs">>
    \/ i = P + 1 /\ s = <<"make", "inputVolume">>
    \/ i = P + 2 /\ s = <<"make", "outputVolume">>
    \/ i = P + 3 /\ s = <<"create", "preparation">>
    \/ i = P + 4 /\ s = <<"trace", "preparation">>
    \/ i = P + 5 /\ s = <<"start", "preparation">>
    \/ i = P + 6 /\ s = <<"introduce", "inputs">>
    \/ i = P + 7 /\ s = <<"create", "build">>
    \/ i = P + 8 /\ s = <<"trace", "build">>
    \/ i = P + 9 /\ s = <<"start", "build">>
    \/ i = P + 10 /\ s = <<"remove", "preparation">>
    \/ i = D - 4 /\ s = <<"verify", "after">>
    \/ i = D - 2 /\ s = <<"capture", "output">>
    \/ i = D - 1 /\ s = <<"verify", "captured">>
    \/ i = D /\ s = <<"dispose", "build">>
    \/ i = D + 1 /\ s = <<"dispose", "preparation">>
    \/ i = D + 2 /\ s = <<"drop", "outputVolume">>
    \/ i = D + 3 /\ s = <<"drop", "inputVolume">>
    \/ i = D + 4 /\ s = <<"settle", "output">>
    \/ i = D + 5 /\ s = <<"record", "facts">>
    \/ i = D + 6 /\ s = <<"decide", "policy">>
    \/ i = M /\ s = <<"make", "tree">>
    \/ i = M + 1 /\ s = <<"fill", "tree">>
    \/ i = M + 2 /\ s = <<"check", "tree">>
    \/ i = R /\ s = <<"rename", "tree">>
    \/ i = R + 1 /\ s = <<"confirm", "tree">>
    \/ i = A /\ s = <<"answer", "success">>
    \/ i = A + 1 /\ s = <<"roll", "back">>
    \/ i = A + 2 /\ s = <<"close", "guard">>
    \/ i = D - 3 /\ s = <<"check", "graph">>
    \/ i = R + 2 /\ s = <<"begin", "verification">>

\* Every step of a program is where the layout says.
LEMMA Spreads ==
  ASSUME NEW k \in {"go", "cargo"}, NEW i \in 1..(AnswerAt(k) + 2)
  PROVE  Spread(Program[k][i], i, PrepareAt(k), DisposeAt(k), MakeAt(k), RenameAt(k), AnswerAt(k))
<1> DEFINE P == PrepareAt(k) D == DisposeAt(k) M == MakeAt(k) R == RenameAt(k) A == AnswerAt(k)
           p == Program[k]
<1>1. Laid(p, P, D, M, R, A)
  BY Layout
<1>2. /\ P \in Nat /\ D \in Nat /\ M \in Nat /\ R \in Nat /\ A \in Nat
      /\ P > 1 /\ D > P + 16 /\ M > D + 7 /\ R > M + 3 /\ A > R + 3
  BY Places
<1>3. i \in 1..(A + 2)
  OBVIOUS
<1> SUFFICES Spread(p[i], i, P, D, M, R, A)
  OBVIOUS
<1> HIDE DEF P, D, M, R, A, p
<1>4. \/ i < P
      \/ i > P + 10 /\ i < D - 4
      \/ i > D + 6 /\ i < M
      \/ i > M + 2 /\ i < R
      \/ i > R + 2 /\ i < A
      \/ i = P
      \/ i = P + 1
      \/ i = P + 2
      \/ i = P + 3
      \/ i = P + 4
      \/ i = P + 5
      \/ i = P + 6
      \/ i = P + 7
      \/ i = P + 8
      \/ i = P + 9
      \/ i = P + 10
      \/ i = D - 4
      \/ i = D - 2
      \/ i = D - 1
      \/ i = D
      \/ i = D + 1
      \/ i = D + 2
      \/ i = D + 3
      \/ i = D + 4
      \/ i = D + 5
      \/ i = D + 6
      \/ i = M
      \/ i = M + 1
      \/ i = M + 2
      \/ i = R
      \/ i = R + 1
      \/ i = A
      \/ i = A + 1
      \/ i = A + 2
      \/ i = D - 3
      \/ i = R + 2
  BY <1>2, <1>3
<1>5. CASE i < P
  <2>1. p[i] \in ReadingSteps
    BY <1>1, <1>2, <1>3, <1>5 DEF Laid, Reads
  <2> QED BY <2>1, <1>5 DEF Spread
<1>6. CASE i > P + 10 /\ i < D - 4
  <2>1. p[i] \in RunningSteps
    <3>1. i \in (P + 11)..(D - 5)
      BY <1>2, <1>3, <1>6
    <3> QED BY <1>1, <3>1 DEF Laid, Builds
  <2> QED BY <2>1, <1>6 DEF Spread
<1>7. CASE i > D + 6 /\ i < M
  <2>1. p[i] \in PublishingSteps
    <3>1. i \in (D + 7)..(M - 1)
      BY <1>2, <1>3, <1>7
    <3> QED BY <1>1, <3>1 DEF Laid, VerifiesBefore
  <2> QED BY <2>1, <1>7 DEF Spread
<1>8. CASE i > M + 2 /\ i < R
  <2>1. p[i] \in PublishingSteps
    <3>1. i \in (M + 3)..(R - 1)
      BY <1>2, <1>3, <1>8
    <3> QED BY <1>1, <3>1 DEF Laid, VerifiesBefore
  <2> QED BY <2>1, <1>8 DEF Spread
<1>9. CASE i > R + 2 /\ i < A
  <2>1. p[i] \in VerifyingSteps
    <3>1. i \in (R + 3)..(A - 1)
      BY <1>2, <1>3, <1>9
    <3> QED BY <1>1, <3>1 DEF Laid, Verifies
  <2> QED BY <2>1, <1>9 DEF Spread
<1>10. CASE i = P
  <2>1. p[i] = <<"prepare", "inputs">>
    BY <1>1, <1>2, <1>3, <1>10 DEF Laid, Enters
  <2> QED BY <2>1, <1>10 DEF Spread
<1>11. CASE i = P + 1
  <2>1. p[i] = <<"make", "inputVolume">>
    BY <1>1, <1>2, <1>3, <1>11 DEF Laid, Enters
  <2> QED BY <2>1, <1>11 DEF Spread
<1>12. CASE i = P + 2
  <2>1. p[i] = <<"make", "outputVolume">>
    BY <1>1, <1>2, <1>3, <1>12 DEF Laid, Enters
  <2> QED BY <2>1, <1>12 DEF Spread
<1>13. CASE i = P + 3
  <2>1. p[i] = <<"create", "preparation">>
    BY <1>1, <1>2, <1>3, <1>13 DEF Laid, Enters
  <2> QED BY <2>1, <1>13 DEF Spread
<1>14. CASE i = P + 4
  <2>1. p[i] = <<"trace", "preparation">>
    BY <1>1, <1>2, <1>3, <1>14 DEF Laid, Enters
  <2> QED BY <2>1, <1>14 DEF Spread
<1>15. CASE i = P + 5
  <2>1. p[i] = <<"start", "preparation">>
    BY <1>1, <1>2, <1>3, <1>15 DEF Laid, Enters
  <2> QED BY <2>1, <1>15 DEF Spread
<1>16. CASE i = P + 6
  <2>1. p[i] = <<"introduce", "inputs">>
    BY <1>1, <1>2, <1>3, <1>16 DEF Laid, Enters
  <2> QED BY <2>1, <1>16 DEF Spread
<1>17. CASE i = P + 7
  <2>1. p[i] = <<"create", "build">>
    BY <1>1, <1>2, <1>3, <1>17 DEF Laid, Enters
  <2> QED BY <2>1, <1>17 DEF Spread
<1>18. CASE i = P + 8
  <2>1. p[i] = <<"trace", "build">>
    BY <1>1, <1>2, <1>3, <1>18 DEF Laid, Enters
  <2> QED BY <2>1, <1>18 DEF Spread
<1>19. CASE i = P + 9
  <2>1. p[i] = <<"start", "build">>
    BY <1>1, <1>2, <1>3, <1>19 DEF Laid, Enters
  <2> QED BY <2>1, <1>19 DEF Spread
<1>20. CASE i = P + 10
  <2>1. p[i] = <<"remove", "preparation">>
    BY <1>1, <1>2, <1>3, <1>20 DEF Laid, Enters
  <2> QED BY <2>1, <1>20 DEF Spread
<1>21. CASE i = D - 4
  <2>1. p[i] = <<"verify", "after">>
    BY <1>1, <1>2, <1>3, <1>21 DEF Laid, Leaves
  <2> QED BY <2>1, <1>21 DEF Spread
<1>22. CASE i = D - 2
  <2>1. p[i] = <<"capture", "output">>
    BY <1>1, <1>2, <1>3, <1>22 DEF Laid, Leaves
  <2> QED BY <2>1, <1>22 DEF Spread
<1>23. CASE i = D - 1
  <2>1. p[i] = <<"verify", "captured">>
    BY <1>1, <1>2, <1>3, <1>23 DEF Laid, Leaves
  <2> QED BY <2>1, <1>23 DEF Spread
<1>24. CASE i = D
  <2>1. p[i] = <<"dispose", "build">>
    BY <1>1, <1>2, <1>3, <1>24 DEF Laid, Leaves
  <2> QED BY <2>1, <1>24 DEF Spread
<1>25. CASE i = D + 1
  <2>1. p[i] = <<"dispose", "preparation">>
    BY <1>1, <1>2, <1>3, <1>25 DEF Laid, Leaves
  <2> QED BY <2>1, <1>25 DEF Spread
<1>26. CASE i = D + 2
  <2>1. p[i] = <<"drop", "outputVolume">>
    BY <1>1, <1>2, <1>3, <1>26 DEF Laid, Leaves
  <2> QED BY <2>1, <1>26 DEF Spread
<1>27. CASE i = D + 3
  <2>1. p[i] = <<"drop", "inputVolume">>
    BY <1>1, <1>2, <1>3, <1>27 DEF Laid, Leaves
  <2> QED BY <2>1, <1>27 DEF Spread
<1>28. CASE i = D + 4
  <2>1. p[i] = <<"settle", "output">>
    BY <1>1, <1>2, <1>3, <1>28 DEF Laid, Leaves
  <2> QED BY <2>1, <1>28 DEF Spread
<1>29. CASE i = D + 5
  <2>1. p[i] = <<"record", "facts">>
    BY <1>1, <1>2, <1>3, <1>29 DEF Laid, Leaves
  <2> QED BY <2>1, <1>29 DEF Spread
<1>30. CASE i = D + 6
  <2>1. p[i] = <<"decide", "policy">>
    BY <1>1, <1>2, <1>3, <1>30 DEF Laid, Leaves
  <2> QED BY <2>1, <1>30 DEF Spread
<1>31. CASE i = M
  <2>1. p[i] = <<"make", "tree">>
    BY <1>1, <1>2, <1>3, <1>31 DEF Laid, Publishes
  <2> QED BY <2>1, <1>31 DEF Spread
<1>32. CASE i = M + 1
  <2>1. p[i] = <<"fill", "tree">>
    BY <1>1, <1>2, <1>3, <1>32 DEF Laid, Publishes
  <2> QED BY <2>1, <1>32 DEF Spread
<1>33. CASE i = M + 2
  <2>1. p[i] = <<"check", "tree">>
    BY <1>1, <1>2, <1>3, <1>33 DEF Laid, Publishes
  <2> QED BY <2>1, <1>33 DEF Spread
<1>34. CASE i = R
  <2>1. p[i] = <<"rename", "tree">>
    BY <1>1, <1>2, <1>3, <1>34 DEF Laid, Publishes
  <2> QED BY <2>1, <1>34 DEF Spread
<1>35. CASE i = R + 1
  <2>1. p[i] = <<"confirm", "tree">>
    BY <1>1, <1>2, <1>3, <1>35 DEF Laid, Publishes
  <2> QED BY <2>1, <1>35 DEF Spread
<1>36. CASE i = A
  <2>1. p[i] = <<"answer", "success">>
    BY <1>1, <1>2, <1>3, <1>36 DEF Laid, Publishes
  <2> QED BY <2>1, <1>36 DEF Spread
<1>37. CASE i = A + 1
  <2>1. p[i] = <<"roll", "back">>
    BY <1>1, <1>2, <1>3, <1>37 DEF Laid, Publishes
  <2> QED BY <2>1, <1>37 DEF Spread
<1>38. CASE i = A + 2
  <2>1. p[i] = <<"close", "guard">>
    BY <1>1, <1>2, <1>3, <1>38 DEF Laid, Publishes
  <2> QED BY <2>1, <1>38 DEF Spread
<1>39. CASE i = D - 3
  <2>1. p[i] = <<"check", "graph">>
    BY <1>1, <1>2, <1>3, <1>39 DEF Laid, Leaves
  <2> QED BY <2>1, <1>39 DEF Spread
<1>40. CASE i = R + 2
  <2>1. p[i] = <<"begin", "verification">>
    BY <1>1, <1>2, <1>3, <1>40 DEF Laid, Publishes
  <2> QED BY <2>1, <1>40 DEF Spread
<1> QED BY <1>4, <1>5, <1>6, <1>7, <1>8, <1>9, <1>10, <1>11, <1>12, <1>13, <1>14, <1>15, <1>16,
      <1>17, <1>18, <1>19, <1>20, <1>21, <1>22, <1>23, <1>24, <1>25, <1>26, <1>27, <1>28, <1>29,
      <1>30, <1>31, <1>32, <1>33, <1>34, <1>35, <1>36, <1>37, <1>38, <1>39, <1>40


-----------------------------------------------------------------------------
(* The place a build is at                                                 *)

\* What the lemmas about a step need of the state.
Somewhere == kind \in {"go", "cargo"} /\ at \in 1..(AnswerAt(kind) + 3)

\* The places, for the build of the state.
LEMMA Numbers ==
  ASSUME Somewhere
  PROVE  /\ PrepareAt(kind) \in Nat /\ DisposeAt(kind) \in Nat /\ MakeAt(kind) \in Nat
         /\ RenameAt(kind) \in Nat /\ AnswerAt(kind) \in Nat /\ at \in Nat /\ at >= 1
         /\ at <= AnswerAt(kind) + 3
         /\ PrepareAt(kind) > 1 /\ DisposeAt(kind) > PrepareAt(kind) + 16
         /\ MakeAt(kind) > DisposeAt(kind) + 7 /\ RenameAt(kind) > MakeAt(kind) + 3
         /\ AnswerAt(kind) > RenameAt(kind) + 3
BY Places DEF Somewhere

\* A program ends with the release of the guard.
LEMMA Ends ==
  ASSUME Somewhere
  PROVE  End = AnswerAt(kind) + 3
<1>1. Len(Program[kind]) = AnswerAt(kind) + 2
  BY Layout DEF Somewhere, Laid
<1>2. AnswerAt(kind) \in Nat
  BY Numbers
<1> QED BY <1>1, <1>2 DEF End

\* The step a build is about to take, by its place.
LEMMA AtStep ==
  ASSUME Somewhere, at < End
  PROVE  Spread(Program[kind][at], at, PrepareAt(kind), DisposeAt(kind), MakeAt(kind),
                RenameAt(kind), AnswerAt(kind))
<1>1. at \in 1..(AnswerAt(kind) + 2)
  BY Ends, Numbers DEF Somewhere
<1> QED BY <1>1, Spreads DEF Somewhere

\* Inside one of the verifications around the tree.
Verifying(i, D, M, R, A) ==
    (i > D + 6 /\ i < M) \/ (i > M + 2 /\ i < R) \/ (i > R + 2 /\ i < A)

\* Where a build is that is doing a step: the steps of the sandbox, of the
\* clean-up and of the tree are in the program once.
Found(P, D, M, R, A) ==
    /\ Doing("prepare", "inputs") => at = P
    /\ Doing("make", "inputVolume") => at = P + 1
    /\ Doing("make", "outputVolume") => at = P + 2
    /\ Doing("create", "preparation") => at = P + 3
    /\ Doing("trace", "preparation") => at = P + 4
    /\ Doing("start", "preparation") => at = P + 5
    /\ Doing("introduce", "inputs") => at = P + 6
    /\ Doing("create", "build") => at = P + 7
    /\ Doing("trace", "build") => at = P + 8
    /\ Doing("start", "build") => at = P + 9
    /\ Doing("remove", "preparation") => at = P + 10
    /\ Doing("verify", "after") => at = D - 4
    /\ Doing("capture", "output") => at = D - 2
    /\ Doing("verify", "captured") => at = D - 1
    /\ Doing("dispose", "build") => at = D
    /\ Doing("dispose", "preparation") => at = D + 1
    /\ Doing("drop", "outputVolume") => at = D + 2
    /\ Doing("drop", "inputVolume") => at = D + 3
    /\ Doing("settle", "output") => at = D + 4
    /\ Doing("record", "facts") => at = D + 5
    /\ Doing("decide", "policy") => at = D + 6
    /\ Doing("make", "tree") => at = M
    /\ Doing("fill", "tree") => at = M + 1
    /\ Doing("check", "tree") => at = M + 2
    /\ Doing("rename", "tree") => at = R
    /\ Doing("confirm", "tree") => at = R + 1
    /\ Doing("answer", "success") => at = A
    /\ Doing("roll", "back") => at = A + 1
    /\ Doing("close", "guard") => at = A + 2
    /\ Doing("take", "guard") => at < P
    /\ Doing("plan", "controls") => at < P
    /\ Doing("freeze", "source") => at < P
    /\ Doing("freeze", "cache") => at < P
    /\ Doing("bind", "inputs") => at < P
    /\ Doing("verify", "source") => at < P
    /\ Doing("check", "receipt") => at < P
    /\ Doing("scan", "capture") => at < P
    /\ Doing("scan", "copy") => at < P
    /\ Doing("check", "controls") => (at < P \/ Verifying(at, D, M, R, A))
    /\ Doing("check", "evidence") => (at < P \/ Verifying(at, D, M, R, A))
    /\ Doing("scan", "compare") => (at < P \/ Verifying(at, D, M, R, A))
    /\ Doing("scan", "inventory") => (at < P \/ Verifying(at, D, M, R, A))
    /\ Doing("check", "facts") => Verifying(at, D, M, R, A)
    /\ Doing("verify", "before") => at > P + 10 /\ at < D - 4
    /\ Doing("configure", "runtime") => at > P + 10 /\ at < D - 4
    /\ Doing("run", "validation") => at > P + 10 /\ at < D - 4
    /\ Doing("run", "build") => at > P + 10 /\ at < D - 4
    /\ Doing("ask", "roles") => at > P + 10 /\ at < D - 4
    /\ Doing("check", "graph") => ((at > P + 10 /\ at < D - 4) \/ at = D - 3)
    /\ Doing("begin", "verification") =>
           ((at > D + 6 /\ at < M) \/ (at > M + 2 /\ at < R) \/ at = R + 2)
    /\ Doing("create", "inputVolume") => FALSE
    /\ Doing("create", "outputVolume") => FALSE
    /\ Doing("make", "preparation") => FALSE
    /\ Doing("make", "build") => FALSE

\* The layout, read backwards: a step is done only at its place.
LEMMA Located ==
  ASSUME Somewhere
  PROVE  Found(PrepareAt(kind), DisposeAt(kind), MakeAt(kind), RenameAt(kind), AnswerAt(kind))
<1> DEFINE P == PrepareAt(kind) D == DisposeAt(kind) M == MakeAt(kind) R == RenameAt(kind)
           A == AnswerAt(kind) s == Program[kind][at]
<1>1. P \in Nat /\ D \in Nat /\ M \in Nat /\ R \in Nat /\ A \in Nat /\ at \in Nat
  BY Numbers
<1>2. \A v, o : Doing(v, o) => s = <<v, o>> /\ Spread(s, at, P, D, M, R, A)
  BY AtStep DEF Doing
<1> SUFFICES Found(P, D, M, R, A)
  OBVIOUS
<1> HIDE DEF P, D, M, R, A, s
<1> USE DEF Spread, ReadingSteps, RunningSteps, PublishingSteps, VerifyingSteps
<1>3. Doing("prepare", "inputs") => at = P
  <2>1. Doing("prepare", "inputs") => s = <<"prepare", "inputs">> /\ Spread(s, at, P, D, M, R, A)
    BY <1>2
  <2> QED BY <1>1, <2>1
<1>4. Doing("make", "inputVolume") => at = P + 1
  <2>1. Doing("make", "inputVolume") =>
          s = <<"make", "inputVolume">> /\ Spread(s, at, P, D, M, R, A)
    BY <1>2
  <2> QED BY <1>1, <2>1
<1>5. Doing("make", "outputVolume") => at = P + 2
  <2>1. Doing("make", "outputVolume") =>
          s = <<"make", "outputVolume">> /\ Spread(s, at, P, D, M, R, A)
    BY <1>2
  <2> QED BY <1>1, <2>1
<1>6. Doing("create", "preparation") => at = P + 3
  <2>1. Doing("create", "preparation") =>
          s = <<"create", "preparation">> /\ Spread(s, at, P, D, M, R, A)
    BY <1>2
  <2> QED BY <1>1, <2>1
<1>7. Doing("trace", "preparation") => at = P + 4
  <2>1. Doing("trace", "preparation") =>
          s = <<"trace", "preparation">> /\ Spread(s, at, P, D, M, R, A)
    BY <1>2
  <2> QED BY <1>1, <2>1
<1>8. Doing("start", "preparation") => at = P + 5
  <2>1. Doing("start", "preparation") =>
          s = <<"start", "preparation">> /\ Spread(s, at, P, D, M, R, A)
    BY <1>2
  <2> QED BY <1>1, <2>1
<1>9. Doing("introduce", "inputs") => at = P + 6
  <2>1. Doing("introduce", "inputs") =>
          s = <<"introduce", "inputs">> /\ Spread(s, at, P, D, M, R, A)
    BY <1>2
  <2> QED BY <1>1, <2>1
<1>10. Doing("create", "build") => at = P + 7
  <2>1. Doing("create", "build") => s = <<"create", "build">> /\ Spread(s, at, P, D, M, R, A)
    BY <1>2
  <2> QED BY <1>1, <2>1
<1>11. Doing("trace", "build") => at = P + 8
  <2>1. Doing("trace", "build") => s = <<"trace", "build">> /\ Spread(s, at, P, D, M, R, A)
    BY <1>2
  <2> QED BY <1>1, <2>1
<1>12. Doing("start", "build") => at = P + 9
  <2>1. Doing("start", "build") => s = <<"start", "build">> /\ Spread(s, at, P, D, M, R, A)
    BY <1>2
  <2> QED BY <1>1, <2>1
<1>13. Doing("remove", "preparation") => at = P + 10
  <2>1. Doing("remove", "preparation") =>
          s = <<"remove", "preparation">> /\ Spread(s, at, P, D, M, R, A)
    BY <1>2
  <2> QED BY <1>1, <2>1
<1>14. Doing("verify", "after") => at = D - 4
  <2>1. Doing("verify", "after") => s = <<"verify", "after">> /\ Spread(s, at, P, D, M, R, A)
    BY <1>2
  <2> QED BY <1>1, <2>1
<1>15. Doing("capture", "output") => at = D - 2
  <2>1. Doing("capture", "output") => s = <<"capture", "output">> /\ Spread(s, at, P, D, M, R, A)
    BY <1>2
  <2> QED BY <1>1, <2>1
<1>16. Doing("verify", "captured") => at = D - 1
  <2>1. Doing("verify", "captured") => s = <<"verify", "captured">> /\ Spread(s, at, P, D, M, R, A)
    BY <1>2
  <2> QED BY <1>1, <2>1
<1>17. Doing("dispose", "build") => at = D
  <2>1. Doing("dispose", "build") => s = <<"dispose", "build">> /\ Spread(s, at, P, D, M, R, A)
    BY <1>2
  <2> QED BY <1>1, <2>1
<1>18. Doing("dispose", "preparation") => at = D + 1
  <2>1. Doing("dispose", "preparation") =>
          s = <<"dispose", "preparation">> /\ Spread(s, at, P, D, M, R, A)
    BY <1>2
  <2> QED BY <1>1, <2>1
<1>19. Doing("drop", "outputVolume") => at = D + 2
  <2>1. Doing("drop", "outputVolume") =>
          s = <<"drop", "outputVolume">> /\ Spread(s, at, P, D, M, R, A)
    BY <1>2
  <2> QED BY <1>1, <2>1
<1>20. Doing("drop", "inputVolume") => at = D + 3
  <2>1. Doing("drop", "inputVolume") =>
          s = <<"drop", "inputVolume">> /\ Spread(s, at, P, D, M, R, A)
    BY <1>2
  <2> QED BY <1>1, <2>1
<1>21. Doing("settle", "output") => at = D + 4
  <2>1. Doing("settle", "output") => s = <<"settle", "output">> /\ Spread(s, at, P, D, M, R, A)
    BY <1>2
  <2> QED BY <1>1, <2>1
<1>22. Doing("record", "facts") => at = D + 5
  <2>1. Doing("record", "facts") => s = <<"record", "facts">> /\ Spread(s, at, P, D, M, R, A)
    BY <1>2
  <2> QED BY <1>1, <2>1
<1>23. Doing("decide", "policy") => at = D + 6
  <2>1. Doing("decide", "policy") => s = <<"decide", "policy">> /\ Spread(s, at, P, D, M, R, A)
    BY <1>2
  <2> QED BY <1>1, <2>1
<1>24. Doing("make", "tree") => at = M
  <2>1. Doing("make", "tree") => s = <<"make", "tree">> /\ Spread(s, at, P, D, M, R, A)
    BY <1>2
  <2> QED BY <1>1, <2>1
<1>25. Doing("fill", "tree") => at = M + 1
  <2>1. Doing("fill", "tree") => s = <<"fill", "tree">> /\ Spread(s, at, P, D, M, R, A)
    BY <1>2
  <2> QED BY <1>1, <2>1
<1>26. Doing("check", "tree") => at = M + 2
  <2>1. Doing("check", "tree") => s = <<"check", "tree">> /\ Spread(s, at, P, D, M, R, A)
    BY <1>2
  <2> QED BY <1>1, <2>1
<1>27. Doing("rename", "tree") => at = R
  <2>1. Doing("rename", "tree") => s = <<"rename", "tree">> /\ Spread(s, at, P, D, M, R, A)
    BY <1>2
  <2> QED BY <1>1, <2>1
<1>28. Doing("confirm", "tree") => at = R + 1
  <2>1. Doing("confirm", "tree") => s = <<"confirm", "tree">> /\ Spread(s, at, P, D, M, R, A)
    BY <1>2
  <2> QED BY <1>1, <2>1
<1>29. Doing("answer", "success") => at = A
  <2>1. Doing("answer", "success") => s = <<"answer", "success">> /\ Spread(s, at, P, D, M, R, A)
    BY <1>2
  <2> QED BY <1>1, <2>1
<1>30. Doing("roll", "back") => at = A + 1
  <2>1. Doing("roll", "back") => s = <<"roll", "back">> /\ Spread(s, at, P, D, M, R, A)
    BY <1>2
  <2> QED BY <1>1, <2>1
<1>31. Doing("close", "guard") => at = A + 2
  <2>1. Doing("close", "guard") => s = <<"close", "guard">> /\ Spread(s, at, P, D, M, R, A)
    BY <1>2
  <2> QED BY <1>1, <2>1
<1>32. Doing("take", "guard") => at < P
  <2>1. Doing("take", "guard") => s = <<"take", "guard">> /\ Spread(s, at, P, D, M, R, A)
    BY <1>2
  <2> QED BY <1>1, <2>1
<1>33. Doing("plan", "controls") => at < P
  <2>1. Doing("plan", "controls") => s = <<"plan", "controls">> /\ Spread(s, at, P, D, M, R, A)
    BY <1>2
  <2> QED BY <1>1, <2>1
<1>34. Doing("freeze", "source") => at < P
  <2>1. Doing("freeze", "source") => s = <<"freeze", "source">> /\ Spread(s, at, P, D, M, R, A)
    BY <1>2
  <2> QED BY <1>1, <2>1
<1>35. Doing("freeze", "cache") => at < P
  <2>1. Doing("freeze", "cache") => s = <<"freeze", "cache">> /\ Spread(s, at, P, D, M, R, A)
    BY <1>2
  <2> QED BY <1>1, <2>1
<1>36. Doing("bind", "inputs") => at < P
  <2>1. Doing("bind", "inputs") => s = <<"bind", "inputs">> /\ Spread(s, at, P, D, M, R, A)
    BY <1>2
  <2> QED BY <1>1, <2>1
<1>37. Doing("verify", "source") => at < P
  <2>1. Doing("verify", "source") => s = <<"verify", "source">> /\ Spread(s, at, P, D, M, R, A)
    BY <1>2
  <2> QED BY <1>1, <2>1
<1>38. Doing("check", "receipt") => at < P
  <2>1. Doing("check", "receipt") => s = <<"check", "receipt">> /\ Spread(s, at, P, D, M, R, A)
    BY <1>2
  <2> QED BY <1>1, <2>1
<1>39. Doing("scan", "capture") => at < P
  <2>1. Doing("scan", "capture") => s = <<"scan", "capture">> /\ Spread(s, at, P, D, M, R, A)
    BY <1>2
  <2> QED BY <1>1, <2>1
<1>40. Doing("scan", "copy") => at < P
  <2>1. Doing("scan", "copy") => s = <<"scan", "copy">> /\ Spread(s, at, P, D, M, R, A)
    BY <1>2
  <2> QED BY <1>1, <2>1
<1>41. Doing("check", "controls") => (at < P \/ Verifying(at, D, M, R, A))
  <2>1. Doing("check", "controls") => s = <<"check", "controls">> /\ Spread(s, at, P, D, M, R, A)
    BY <1>2
  <2> QED BY <1>1, <2>1 DEF Verifying
<1>42. Doing("check", "evidence") => (at < P \/ Verifying(at, D, M, R, A))
  <2>1. Doing("check", "evidence") => s = <<"check", "evidence">> /\ Spread(s, at, P, D, M, R, A)
    BY <1>2
  <2> QED BY <1>1, <2>1 DEF Verifying
<1>43. Doing("scan", "compare") => (at < P \/ Verifying(at, D, M, R, A))
  <2>1. Doing("scan", "compare") => s = <<"scan", "compare">> /\ Spread(s, at, P, D, M, R, A)
    BY <1>2
  <2> QED BY <1>1, <2>1 DEF Verifying
<1>44. Doing("scan", "inventory") => (at < P \/ Verifying(at, D, M, R, A))
  <2>1. Doing("scan", "inventory") => s = <<"scan", "inventory">> /\ Spread(s, at, P, D, M, R, A)
    BY <1>2
  <2> QED BY <1>1, <2>1 DEF Verifying
<1>45. Doing("check", "facts") => Verifying(at, D, M, R, A)
  <2>1. Doing("check", "facts") => s = <<"check", "facts">> /\ Spread(s, at, P, D, M, R, A)
    BY <1>2
  <2> QED BY <1>1, <2>1 DEF Verifying
<1>46. Doing("verify", "before") => at > P + 10 /\ at < D - 4
  <2>1. Doing("verify", "before") => s = <<"verify", "before">> /\ Spread(s, at, P, D, M, R, A)
    BY <1>2
  <2> QED BY <1>1, <2>1
<1>47. Doing("configure", "runtime") => at > P + 10 /\ at < D - 4
  <2>1. Doing("configure", "runtime") =>
          s = <<"configure", "runtime">> /\ Spread(s, at, P, D, M, R, A)
    BY <1>2
  <2> QED BY <1>1, <2>1
<1>48. Doing("run", "validation") => at > P + 10 /\ at < D - 4
  <2>1. Doing("run", "validation") => s = <<"run", "validation">> /\ Spread(s, at, P, D, M, R, A)
    BY <1>2
  <2> QED BY <1>1, <2>1
<1>49. Doing("run", "build") => at > P + 10 /\ at < D - 4
  <2>1. Doing("run", "build") => s = <<"run", "build">> /\ Spread(s, at, P, D, M, R, A)
    BY <1>2
  <2> QED BY <1>1, <2>1
<1>50. Doing("ask", "roles") => at > P + 10 /\ at < D - 4
  <2>1. Doing("ask", "roles") => s = <<"ask", "roles">> /\ Spread(s, at, P, D, M, R, A)
    BY <1>2
  <2> QED BY <1>1, <2>1
<1>51. Doing("check", "graph") => ((at > P + 10 /\ at < D - 4) \/ at = D - 3)
  <2>1. Doing("check", "graph") => s = <<"check", "graph">> /\ Spread(s, at, P, D, M, R, A)
    BY <1>2
  <2> QED BY <1>1, <2>1
<1>52. Doing("begin", "verification") =>
          ((at > D + 6 /\ at < M) \/ (at > M + 2 /\ at < R) \/ at = R + 2)
  <2>1. Doing("begin", "verification") =>
          s = <<"begin", "verification">> /\ Spread(s, at, P, D, M, R, A)
    BY <1>2
  <2> QED BY <1>1, <2>1
<1>53. Doing("create", "inputVolume") => FALSE
  <2>1. Doing("create", "inputVolume") =>
          s = <<"create", "inputVolume">> /\ Spread(s, at, P, D, M, R, A)
    BY <1>2
  <2> QED BY <1>1, <2>1
<1>54. Doing("create", "outputVolume") => FALSE
  <2>1. Doing("create", "outputVolume") =>
          s = <<"create", "outputVolume">> /\ Spread(s, at, P, D, M, R, A)
    BY <1>2
  <2> QED BY <1>1, <2>1
<1>55. Doing("make", "preparation") => FALSE
  <2>1. Doing("make", "preparation") =>
          s = <<"make", "preparation">> /\ Spread(s, at, P, D, M, R, A)
    BY <1>2
  <2> QED BY <1>1, <2>1
<1>56. Doing("make", "build") => FALSE
  <2>1. Doing("make", "build") => s = <<"make", "build">> /\ Spread(s, at, P, D, M, R, A)
    BY <1>2
  <2> QED BY <1>1, <2>1
<1> QED BY <1>3, <1>4, <1>5, <1>6, <1>7, <1>8, <1>9, <1>10, <1>11, <1>12, <1>13, <1>14, <1>15,
      <1>16, <1>17, <1>18, <1>19, <1>20, <1>21, <1>22, <1>23, <1>24, <1>25, <1>26, <1>27, <1>28,
      <1>29, <1>30, <1>31, <1>32, <1>33, <1>34, <1>35, <1>36, <1>37, <1>38, <1>39, <1>40, <1>41,
      <1>42, <1>43, <1>44, <1>45, <1>46, <1>47, <1>48, <1>49, <1>50, <1>51, <1>52, <1>53, <1>54,
      <1>55, <1>56, Zenon DEF Found

\* Roles are asked for just before the build runs.
LEMMA Asked ==
  ASSUME Somewhere, Doing("ask", "roles")
  PROVE  at = DisposeAt(kind) - 6
<1>1. at > PrepareAt(kind) + 10 /\ at < DisposeAt(kind) - 4
  BY Located DEF Found
<1>2. Builds(Program[kind], PrepareAt(kind), DisposeAt(kind))
  BY Layout DEF Somewhere, Laid
<1>3. at \in (PrepareAt(kind) + 11)..(DisposeAt(kind) - 5)
  BY <1>1, Numbers
<1> QED BY <1>2, <1>3 DEF Builds, Doing


\* The place of a step that is in the program once is its position.
LEMMA PositionOf ==
  ASSUME NEW k \in {"go", "cargo"}, NEW j \in DOMAIN Program[k], NEW s, Program[k][j] = s,
         \A i \in DOMAIN Program[k] : Program[k][i] = s => i = j
  PROVE  Position[k][s] = j
<1>1. Position[k] = [t \in {Program[k][i] : i \in DOMAIN Program[k]} |->
        CHOOSE i \in DOMAIN Program[k] : Program[k][i] = t]
  BY DEF Position
<1>2. Position[k][s] = CHOOSE i \in DOMAIN Program[k] : Program[k][i] = s
  BY <1>1
<1> QED BY <1>2

\* The positions a failing step goes to, and those it is compared with.
LEMMA Positions ==
  ASSUME NEW k \in {"go", "cargo"}
  PROVE  /\ Position[k][<<"prepare", "inputs">>] = PrepareAt(k)
         /\ Position[k][<<"dispose", "build">>] = DisposeAt(k)
         /\ Position[k][<<"make", "tree">>] = MakeAt(k)
         /\ Position[k][<<"roll", "back">>] = AnswerAt(k) + 1
         /\ Position[k][<<"close", "guard">>] = AnswerAt(k) + 2
<1> DEFINE P == PrepareAt(k) D == DisposeAt(k) M == MakeAt(k) R == RenameAt(k) A == AnswerAt(k)
           p == Program[k]
<1>1. /\ P \in Nat /\ D \in Nat /\ M \in Nat /\ R \in Nat /\ A \in Nat
      /\ P > 1 /\ D > P + 16 /\ M > D + 7 /\ R > M + 3 /\ A > R + 3
  BY Places
<1>2. DOMAIN p = 1..(A + 2) /\ Enters(p, P) /\ Leaves(p, D) /\ Publishes(p, M, R, A)
  BY Layout DEF Laid
<1>3. \A i \in 1..(A + 2) : Spread(p[i], i, P, D, M, R, A)
  BY Spreads
<1>4. \A j \in DOMAIN p :
          \A t : p[j] = t /\ (\A i \in DOMAIN p : p[i] = t => i = j) => Position[k][t] = j
  BY PositionOf
<1> SUFFICES /\ Position[k][<<"prepare", "inputs">>] = P /\ Position[k][<<"dispose", "build">>] = D
             /\ Position[k][<<"make", "tree">>] = M /\ Position[k][<<"roll", "back">>] = A + 1
             /\ Position[k][<<"close", "guard">>] = A + 2
  OBVIOUS
<1> HIDE DEF P, D, M, R, A, p
<1>5. Position[k][<<"prepare", "inputs">>] = P
  <2>1. P \in DOMAIN p /\ p[P] = <<"prepare", "inputs">>
    <3>1. P \in 1..(A + 2)
      BY <1>1
    <3> QED BY <1>2, <3>1 DEF Enters
  <2>2. ASSUME NEW i \in DOMAIN p, p[i] = <<"prepare", "inputs">> PROVE i = P
    <3>1. i \in Nat /\ Spread(p[i], i, P, D, M, R, A)
      BY <1>1, <1>2, <1>3
    <3> QED BY <1>1, <2>2, <3>1 DEF Spread, ReadingSteps, RunningSteps, PublishingSteps,
          VerifyingSteps
  <2> QED BY <1>4, <2>1, <2>2
<1>6. Position[k][<<"dispose", "build">>] = D
  <2>1. D \in DOMAIN p /\ p[D] = <<"dispose", "build">>
    <3>1. D \in 1..(A + 2)
      BY <1>1
    <3> QED BY <1>2, <3>1 DEF Leaves
  <2>2. ASSUME NEW i \in DOMAIN p, p[i] = <<"dispose", "build">> PROVE i = D
    <3>1. i \in Nat /\ Spread(p[i], i, P, D, M, R, A)
      BY <1>1, <1>2, <1>3
    <3> QED BY <1>1, <2>2, <3>1 DEF Spread, ReadingSteps, RunningSteps, PublishingSteps,
          VerifyingSteps
  <2> QED BY <1>4, <2>1, <2>2
<1>7. Position[k][<<"make", "tree">>] = M
  <2>1. M \in DOMAIN p /\ p[M] = <<"make", "tree">>
    <3>1. M \in 1..(A + 2)
      BY <1>1
    <3> QED BY <1>2, <3>1 DEF Publishes
  <2>2. ASSUME NEW i \in DOMAIN p, p[i] = <<"make", "tree">> PROVE i = M
    <3>1. i \in Nat /\ Spread(p[i], i, P, D, M, R, A)
      BY <1>1, <1>2, <1>3
    <3> QED BY <1>1, <2>2, <3>1 DEF Spread, ReadingSteps, RunningSteps, PublishingSteps,
          VerifyingSteps
  <2> QED BY <1>4, <2>1, <2>2
<1>8. Position[k][<<"roll", "back">>] = A + 1
  <2>1. A + 1 \in DOMAIN p /\ p[A + 1] = <<"roll", "back">>
    <3>1. A + 1 \in 1..(A + 2)
      BY <1>1
    <3> QED BY <1>2, <3>1 DEF Publishes
  <2>2. ASSUME NEW i \in DOMAIN p, p[i] = <<"roll", "back">> PROVE i = A + 1
    <3>1. i \in Nat /\ Spread(p[i], i, P, D, M, R, A)
      BY <1>1, <1>2, <1>3
    <3> QED BY <1>1, <2>2, <3>1 DEF Spread, ReadingSteps, RunningSteps, PublishingSteps,
          VerifyingSteps
  <2> QED BY <1>4, <2>1, <2>2
<1>9. Position[k][<<"close", "guard">>] = A + 2
  <2>1. A + 2 \in DOMAIN p /\ p[A + 2] = <<"close", "guard">>
    <3>1. A + 2 \in 1..(A + 2)
      BY <1>1
    <3> QED BY <1>2, <3>1 DEF Publishes
  <2>2. ASSUME NEW i \in DOMAIN p, p[i] = <<"close", "guard">> PROVE i = A + 2
    <3>1. i \in Nat /\ Spread(p[i], i, P, D, M, R, A)
      BY <1>1, <1>2, <1>3
    <3> QED BY <1>1, <2>2, <3>1 DEF Spread, ReadingSteps, RunningSteps, PublishingSteps,
          VerifyingSteps
  <2> QED BY <1>4, <2>1, <2>2
<1> QED BY <1>5, <1>6, <1>7, <1>8, <1>9

\* Where a failing step goes.
LEMMA Landings ==
  ASSUME Somewhere
  PROVE  /\ at >= PrepareAt(kind) /\ at < DisposeAt(kind) => Landing = DisposeAt(kind)
         /\ at > MakeAt(kind) /\ at < AnswerAt(kind) + 1 => Landing = AnswerAt(kind) + 1
         /\ at < PrepareAt(kind) \/ (at >= DisposeAt(kind) /\ at <= MakeAt(kind)) \/ at > AnswerAt(kind) =>
                Landing = AnswerAt(kind) + 2
<1>1. /\ Pos("prepare", "inputs") = PrepareAt(kind) /\ Pos("dispose", "build") = DisposeAt(kind)
      /\ Pos("make", "tree") = MakeAt(kind) /\ Pos("roll", "back") = AnswerAt(kind) + 1
      /\ Pos("close", "guard") = AnswerAt(kind) + 2
  BY Positions DEF Somewhere, Pos
<1> DEFINE P == PrepareAt(kind) D == DisposeAt(kind) M == MakeAt(kind) A == AnswerAt(kind)
<1>2. P \in Nat /\ D \in Nat /\ M \in Nat /\ A \in Nat /\ at \in Nat /\ D > P /\ M > D /\ A > M
  BY Numbers
<1> SUFFICES /\ at >= P /\ at < D => Landing = D
             /\ at > M /\ at < A + 1 => Landing = A + 1
             /\ at < P \/ (at >= D /\ at <= M) \/ at > A => Landing = A + 2
  OBVIOUS
<1>3. Landing = CASE at >= P /\ at < D -> D [] at > M /\ at < A + 1 -> A + 1 [] OTHER -> A + 2
  BY <1>1 DEF Landing
<1> HIDE DEF P, D, M, A
<1>4. at >= P /\ at < D => Landing = D
  BY <1>2, <1>3
<1>5. at > M /\ at < A + 1 => Landing = A + 1
  BY <1>2, <1>3
<1>6. at < P \/ (at >= D /\ at <= M) \/ at > A => Landing = A + 2
  BY <1>2, <1>3
<1> QED BY <1>4, <1>5, <1>6

-----------------------------------------------------------------------------
(* The invariant                                                           *)

\* The values of the variables; the place is one of the program's.
TypeOK ==
    /\ Somewhere
    /\ left \subseteq Items
    /\ disk \in [Items -> {0, 1}]
    /\ plan \in {0, 1}
    /\ snapshot \in [Files -> {0, 1}]
    /\ copied \in [Modules -> {0, 1}]
    /\ docker \in [Runtimes \cup Volumes -> {"none", "created", "running", "gone"}]
    /\ known \subseteq Runtimes \cup Volumes
    /\ trace \in [Runtimes -> {"none", "live", "complete", "limited"}]
    /\ behaviour \in {"none", "clean", "suspicious"}
    /\ output \in {"none", "captured", "kept", "dropped", "left"}
    /\ trees \in [Names -> {Nothing, "unknown", "build", "adopted", "user"}]
    /\ stage \in {"none", "part", "whole", "spoiled"}
    /\ name \in Names
    /\ condemned \in BOOLEAN
    /\ since \subseteq Items
    /\ failed \in {"no", "yes", "uncertain"}
    /\ result \in {"none", "published", "failed", "uncertain", "blocked", "killed"}

\* A build that fails is in a clean-up or at its end; an answer is given there.
Placed ==
    /\ failed = "yes" =>
           (at >= DisposeAt(kind) /\ at <= DisposeAt(kind) + 4) \/ at > AnswerAt(kind)
    /\ failed = "uncertain" =>
           (at > DisposeAt(kind) /\ at <= DisposeAt(kind) + 4) \/ at > AnswerAt(kind) + 1
    /\ result \notin {"none", "published"} => at = AnswerAt(kind) + 3
    /\ result = "published" => at > AnswerAt(kind) + 1 /\ failed = "no"
    /\ result = "failed" => failed = "yes"

\* As long as nothing fails the sandbox stands as far as the program got, and
\* is gone as far as the clean-up got.
Standing ==
    failed = "no" /\ at <= DisposeAt(kind) + 4 =>
        /\ at > PrepareAt(kind) + 1 => "inputVolume" \in known
        /\ at > PrepareAt(kind) + 2 => "outputVolume" \in known
        /\ at > PrepareAt(kind) + 4 /\ at <= PrepareAt(kind) + 10 => trace["preparation"] = "live"
        /\ at > PrepareAt(kind) + 7 => "build" \in known
        /\ at > PrepareAt(kind) + 7 /\ at <= DisposeAt(kind) =>
               docker["build"] \in {"created", "running"}
        /\ at > PrepareAt(kind) + 8 /\ at <= DisposeAt(kind) => trace["build"] = "live"
        /\ at > PrepareAt(kind) + 10 =>
               docker["preparation"] = "gone" /\ trace["preparation"] = "complete"
        /\ at > DisposeAt(kind) => docker["build"] = "gone" /\ trace["build"] = "complete"
        /\ at > DisposeAt(kind) + 2 => docker["outputVolume"] = "gone"
        /\ at > DisposeAt(kind) + 3 => docker["inputVolume"] = "gone"

\* A clean-up without a failure of its own removes what is known, part by part.
Removed ==
    /\ at <= PrepareAt(kind) => known = {}
    /\ failed # "uncertain" /\ result # "killed" =>
           /\ at > DisposeAt(kind) /\ "build" \in known => docker["build"] = "gone"
           /\ at > DisposeAt(kind) + 1 /\ "preparation" \in known => docker["preparation"] = "gone"
           /\ at > DisposeAt(kind) + 2 /\ "outputVolume" \in known => docker["outputVolume"] = "gone"
           /\ at > DisposeAt(kind) + 3 /\ "inputVolume" \in known => docker["inputVolume"] = "gone"

\* Output that outlives the sandbox: nothing of the sandbox is left, both
\* traces are whole, and what is published behaved.
Kept ==
    /\ output = "captured" =>
           \/ at > PrepareAt(kind) + 10 /\ at <= DisposeAt(kind) + 4
           \/ result = "killed"
           \/ failed = "uncertain"
    /\ output = "kept" =>
           /\ at > DisposeAt(kind) + 4
           /\ \A d \in Runtimes \cup Volumes : docker[d] = "gone"
           /\ \A r \in Runtimes : trace[r] = "complete"
    /\ at > DisposeAt(kind) + 4 /\ at <= AnswerAt(kind) + 1 => output = "kept"
    /\ at > DisposeAt(kind) + 6 /\ at <= AnswerAt(kind) + 1 => behaviour = "clean"

\* The graph the container was asked for is the approved one.
Graphed ==
    /\ failed = "no" /\ at > DisposeAt(kind) - 3 /\ at <= DisposeAt(kind) + 4 => GraphApproved
    /\ output = "kept" => GraphApproved

\* The tree of the build has one name, from the step that identifies it to the
\* one that takes it back.
Owned ==
    /\ at <= MakeAt(kind) => ~Own("private") /\ ~Own("final")
    /\ at <= RenameAt(kind) => name = "private"
    /\ \A n \in Names : Own(n) => n = name
    /\ Own("private") \/ Own("final") => output = "kept" /\ behaviour = "clean"
    /\ at > AnswerAt(kind) + 1 /\ failed = "yes" /\ result # "killed" =>
           ~Own("private") /\ ~Own("final")

\* Files are left to read only while a step reads files.
Scanning == left # {} => at < End /\ Program[kind][at][1] = "scan"

\* What a step of the last verification read has not changed since it began.
Untouched(items) == \A i \in items \ since : disk[i] = 0
SourceAsBuilt(files) == \A f \in files \ since : disk[f] = snapshot[f]

\* What a step of a verification established, for what did not change since.
Seen(s) ==
    /\ s = <<"check", "controls">> => Untouched({"state"})
    /\ s = <<"check", "evidence">> => Untouched({"evidence"})
    /\ s = <<"check", "facts">> => Untouched({"facts"})
    /\ s = <<"scan", "compare">> => SourceAsBuilt(Files)
    /\ s = <<"scan", "inventory">> => Untouched(Modules \cup {"receipt"})

\* What a complete verification established.
Fresh ==
    /\ SourceAsBuilt(Files)
    /\ Untouched(Modules \cup {"state", "evidence", "receipt", "facts"})

\* The last verification, step by step and inside a step file by file.
Watched ==
    /\ at > RenameAt(kind) + 2 /\ at <= AnswerAt(kind) =>
           \A j \in (RenameAt(kind) + 3)..(at - 1) : Seen(Program[kind][j])
    /\ at > RenameAt(kind) + 2 /\ at < AnswerAt(kind) /\ left # {} =>
           /\ Program[kind][at] = <<"scan", "compare">> => SourceAsBuilt(Files \ left)
           /\ Program[kind][at] = <<"scan", "inventory">> =>
                  Untouched((Modules \cup {"receipt"}) \ left)
    /\ result = "published" => Fresh

-----------------------------------------------------------------------------
(* Type correctness                                                        *)

\* What a scan reads is among what there is to read.
LEMMA Scanned ==
  \A o \in Scans : ScanSet(o) \subseteq Items
<1>1. ScanSet("capture") = Files /\ ScanSet("compare") = Files
  BY DEF ScanSet
<1>2. ScanSet("inventory") = Modules \cup {"receipt"} /\ ScanSet("copy") = Modules
  BY DEF ScanSet
<1>3. Files \subseteq Items /\ Modules \cup {"receipt"} \subseteq Items /\ Modules \subseteq Items
  BY DEF Items, Records
<1> QED BY <1>1, <1>2, <1>3 DEF Scans

\* The initial state has the types.
LEMMA TypeInit ==
  ASSUME Init
  PROVE  TypeOK
<1>1. kind \in {"go", "cargo"}
  BY KindsAssumption DEF Init
<1>2. 1 \in 1..(AnswerAt(kind) + 3)
  BY <1>1, Places
<1> QED BY <1>1, <1>2 DEF Init, TypeOK, Somewhere, Names

\* A step begins inside the program and stays there.
LEMMA Inside ==
  ASSUME TypeOK, at < End
  PROVE  /\ at + 1 \in 1..(AnswerAt(kind) + 3) /\ Landing \in 1..(AnswerAt(kind) + 3)
         /\ End \in 1..(AnswerAt(kind) + 3) /\ at \in 1..(AnswerAt(kind) + 3)
         /\ Pos("close", "guard") \in 1..(AnswerAt(kind) + 3)
         /\ Doing("ask", "roles") => at + 2 \in 1..(AnswerAt(kind) + 3)
         /\ kind \in {"go", "cargo"}
<1> USE Numbers DEF TypeOK
<1>1. at + 1 \in 1..(AnswerAt(kind) + 3) /\ End \in 1..(AnswerAt(kind) + 3)
  BY Ends
<1>2. Landing \in 1..(AnswerAt(kind) + 3)
  BY Landings
<1>3. Pos("close", "guard") \in 1..(AnswerAt(kind) + 3)
  BY Positions DEF Pos, Somewhere
<1>4. Doing("ask", "roles") => at + 2 \in 1..(AnswerAt(kind) + 3)
  BY Asked
<1> QED BY <1>1, <1>2, <1>3, <1>4 DEF Somewhere

\* Every step keeps the types.
LEMMA TypeStep ==
  ASSUME TypeOK, Next
  PROVE  TypeOK'
<1> USE DEF Goes, Continues, Fails, Refuses, Worsens, Fault, Change, Doing, world, guarded,
        sandbox, place, TypeOK, Somewhere, Names, Runtimes, Volumes, Own
<1>1. CASE TakeGuard
  BY <1>1, Inside DEF TakeGuard
<1>2. CASE PlanControls
  <2>1. disk[Control] \in {0, 1}
    BY ProjectAssumption DEF Items
  <2> QED BY <1>2, <2>1, Inside DEF PlanControls
<1>3. CASE BindInputs
  BY <1>3, Inside DEF BindInputs
<1>4. CASE VerifySource
  BY <1>4, Inside DEF VerifySource
<1>5. ASSUME NEW o \in Scans, BeginScan(o) PROVE TypeOK'
  BY <1>5, Inside, Scanned DEF BeginScan
<1>6. ASSUME NEW o \in Scans, NEW i \in Items, Read(o, i) PROVE TypeOK'
  <2>1. disk[i] \in {0, 1}
    OBVIOUS
  <2>2. snapshot' \in [Files -> {0, 1}]
    BY <1>6, <2>1 DEF Read
  <2>3. copied' \in [Modules -> {0, 1}]
    BY <1>6, <2>1 DEF Read
  <2>4. Somewhere' /\ left' \subseteq Items
    BY <1>6, Inside DEF Read
  <2>5. UNCHANGED <<plan, sandbox, world, output, place, failed, result>>
    BY <1>6 DEF Read
  <2> QED BY <2>2, <2>3, <2>4, <2>5
<1>7. ASSUME NEW o \in Scans, NEW i \in Items, ReadRefused(o, i) PROVE TypeOK'
  BY <1>7, Inside DEF ReadRefused
<1>8. ASSUME NEW o \in Checks, Check(o) PROVE TypeOK'
  BY <1>8, Inside DEF Check
<1>9. ASSUME NEW o \in Checks, CheckRefused(o) PROVE TypeOK'
  BY <1>9, Inside DEF CheckRefused
<1>10. ASSUME NEW o \in {"source", "cache"}, FreezeArchive(o) PROVE TypeOK'
  BY <1>10, Inside DEF FreezeArchive
<1>11. CASE PrepareInputs
  BY <1>11, Inside DEF PrepareInputs, InputsIntact
<1>12. CASE Introduce
  BY <1>12, Inside DEF Introduce, InputsIntact, Materialised
<1>13. CASE IntroduceRefused
  BY <1>13, Inside DEF IntroduceRefused, InputsIntact
<1>14. ASSUME NEW v \in Volumes, MakeVolume(v) PROVE TypeOK'
  BY <1>14, Inside DEF MakeVolume
<1>15. ASSUME NEW v \in Volumes, DropVolume(v) PROVE TypeOK'
  BY <1>15, Inside DEF DropVolume, InUse
<1>16. ASSUME NEW v \in Volumes, DropFails(v) PROVE TypeOK'
  BY <1>16, Inside DEF DropFails
<1>17. ASSUME NEW r \in Runtimes, Create(r) PROVE TypeOK'
  BY <1>17, Inside DEF Create
<1>18. ASSUME NEW r \in Runtimes, StartTrace(r) PROVE TypeOK'
  BY <1>18, Inside DEF StartTrace
<1>19. ASSUME NEW r \in Runtimes, Start(r) PROVE TypeOK'
  BY <1>19, Inside DEF Start
<1>20. ASSUME NEW r \in Runtimes, DisposeRuntime(r) PROVE TypeOK'
  BY <1>20, Inside DEF DisposeRuntime, RemoveRuntime, Collected, Incomplete
<1>21. ASSUME NEW r \in Runtimes, DisposeNothing(r) PROVE TypeOK'
  BY <1>21, Inside DEF DisposeNothing
<1>22. ASSUME NEW r \in Runtimes, DisposeFails(r) PROVE TypeOK'
  BY <1>22, Inside DEF DisposeFails, Collected
<1>23. ASSUME NEW d \in Runtimes \cup Volumes, CreateLost(d) PROVE TypeOK'
  BY <1>23, Inside DEF CreateLost
<1>24. CASE RemovePreparation
  BY <1>24, Inside DEF RemovePreparation, RemoveRuntime, Collected, Incomplete
<1>25. CASE RemoveFails
  BY <1>25, Inside DEF RemoveFails, Collected
<1>26. ASSUME NEW o \in {"before", "after", "captured"}, VerifyRuntime(o) PROVE TypeOK'
  BY <1>26, Inside DEF VerifyRuntime, Verified
<1>27. CASE Configure
  BY <1>27, Inside DEF Configure
<1>28. CASE AskRoles
  BY <1>28, Inside DEF AskRoles
<1>29. CASE ExecRefused
  BY <1>29, Inside DEF ExecRefused
<1>30. ASSUME NEW o \in {"validation", "build"}, RunBuild(o) PROVE TypeOK'
  BY <1>30, Inside DEF RunBuild
<1>31. CASE Capture
  BY <1>31, Inside DEF Capture
<1>32. CASE CaptureFiltered
  BY <1>32, Inside DEF CaptureFiltered
<1>33. CASE Settle
  BY <1>33, Inside DEF Settle
<1>34. CASE RecordFacts
  BY <1>34, Inside DEF RecordFacts
<1>35. CASE Decide
  BY <1>35, Inside DEF Decide
<1>36. CASE BeginVerification
  BY <1>36, Inside DEF BeginVerification
<1>37. CASE MakeTree
  BY <1>37, Inside DEF MakeTree
<1>38. CASE MakeTreeRefused
  BY <1>38, Inside DEF MakeTreeRefused
<1>39. CASE FillTree
  BY <1>39, Inside DEF FillTree
<1>40. CASE FillRefused
  BY <1>40, Inside DEF FillRefused
<1>41. CASE Rename
  BY <1>41, Inside DEF Rename
<1>42. CASE RenameRefused
  BY <1>42, Inside DEF RenameRefused
<1>43. CASE Confirm
  BY <1>43, Inside DEF Confirm
<1>44. CASE AnswerSuccess
  BY <1>44, Inside DEF AnswerSuccess
<1>45. CASE RollBack
  BY <1>45, Inside DEF RollBack
<1>46. CASE RollBackRefused
  BY <1>46, Inside DEF RollBackRefused
<1>47. CASE RollBackFails
  <2>1. [trees EXCEPT ![name] = Nothing] \in [Names -> {Nothing, "unknown", "build", "adopted", "user"}]
    OBVIOUS
  <2>2. Somewhere'
    BY <1>47, Inside DEF RollBackFails
  <2>3. trees' \in [Names -> {Nothing, "unknown", "build", "adopted", "user"}]
    BY <1>47, <2>1 DEF RollBackFails
  <2>4. /\ UNCHANGED <<left, disk, plan, snapshot, copied, docker, known, trace, behaviour>>
        /\ UNCHANGED <<output, stage, name, since, result>>
        /\ failed' \in {"no", "yes", "uncertain"} /\ condemned' \in BOOLEAN
    BY <1>47 DEF RollBackFails
  <2> QED BY <2>2, <2>3, <2>4
<1>48. CASE CloseGuard
  <2>1. Outcome \in {"uncertain", "failed", "published", "blocked"}
    BY DEF Outcome
  <2> QED BY <1>48, <2>1, Inside DEF CloseGuard
<1>49. CASE CloseFails
  BY <1>49, Inside DEF CloseFails
<1>50. CASE CallFails
  BY <1>50, Inside DEF CallFails, Steady
<1>51. CASE Kill
  BY <1>51, Inside DEF Kill
<1>52. ASSUME NEW i \in Items, ChangeItem(i) PROVE TypeOK'
  BY <1>52, Inside DEF ChangeItem
<1>53. ASSUME NEW n \in Names, PlaceTree(n) PROVE TypeOK'
  BY <1>53, Inside DEF PlaceTree
<1>54. CASE SpoilTree
  BY <1>54, Inside DEF SpoilTree
<1>55. CASE IdentifyTree
  BY <1>55, Inside DEF IdentifyTree
<1>56. CASE IdentifyRefused
  BY <1>56, Inside DEF IdentifyRefused
<1>57. CASE CaptureLeaves
  BY <1>57, Inside DEF CaptureLeaves
<1>58. CASE SettleFails
  BY <1>58, Inside DEF SettleFails
<1>59. CASE AnswerFails
  BY <1>59, Inside DEF AnswerFails
<1>60. CASE RemoveFile
  BY <1>60, Inside DEF RemoveFile
<1>61. CASE RemoveTree
  <2>1. [trees EXCEPT ![name] = Nothing] \in [Names -> {Nothing, "unknown", "build", "adopted", "user"}]
    OBVIOUS
  <2>2. Somewhere'
    BY <1>61, Inside DEF RemoveTree
  <2>3. trees' \in [Names -> {Nothing, "unknown", "build", "adopted", "user"}]
    BY <1>61, <2>1 DEF RemoveTree
  <2>4. /\ UNCHANGED <<left, disk, plan, snapshot, copied, docker, known, trace, behaviour>>
        /\ UNCHANGED <<output, stage, name, since, result>>
        /\ failed' \in {"no", "yes", "uncertain"} /\ condemned' \in BOOLEAN
    BY <1>61 DEF RemoveTree
  <2> QED BY <2>2, <2>3, <2>4
<1> QED BY <1>1, <1>2, <1>3, <1>4, <1>5, <1>6, <1>7, <1>8, <1>9, <1>10, <1>11, <1>12, <1>13,
      <1>14, <1>15, <1>16, <1>17, <1>18, <1>19, <1>20, <1>21, <1>22, <1>23, <1>24, <1>25,
      <1>26, <1>27, <1>28, <1>29, <1>30, <1>31, <1>32, <1>33, <1>34, <1>35, <1>36, <1>37,
      <1>38, <1>39, <1>40, <1>41, <1>42, <1>43, <1>44, <1>45, <1>46, <1>47, <1>48, <1>49,
      <1>50, <1>51, <1>52, <1>53, <1>54, <1>55, <1>56, <1>57, <1>58, <1>59, <1>60,
      <1>61 DEF Next, Build

-----------------------------------------------------------------------------
(* Quiet steps                                                             *)

\* Most steps read: they leave the sandbox, the output and the names of the
\* tree alone, and go on at a place where no more than that is told apart, or
\* to the clean-up in force.
Uneventful ==
    \/ at <= PrepareAt(kind)
    \/ at > PrepareAt(kind) + 10 /\ at < DisposeAt(kind) /\ at # DisposeAt(kind) - 3
    \/ at = DisposeAt(kind) + 5
    \/ at > DisposeAt(kind) + 6 /\ at < MakeAt(kind)
    \/ at > MakeAt(kind) /\ at < AnswerAt(kind)

\* To the next step, past the compilation without a main package, or to the
\* clean-up that is deferred at this place.
GoesOn == at' = at + 1 /\ failed' = failed /\ Uneventful
Skips == at = DisposeAt(kind) - 6 /\ at' = at + 2 /\ failed' = failed
GivesUp ==
    /\ failed' = "yes"
    /\ \/ at >= PrepareAt(kind) /\ at < DisposeAt(kind) /\ at' = DisposeAt(kind)
       \/ at > MakeAt(kind) /\ at < AnswerAt(kind) /\ at' = AnswerAt(kind) + 1
       \/ at < PrepareAt(kind) /\ at' = AnswerAt(kind) + 2
       \/ at > DisposeAt(kind) + 4 /\ at <= MakeAt(kind) /\ at' = AnswerAt(kind) + 2

\* A step that leaves alone what the invariant is about.
Quiet ==
    /\ UNCHANGED <<kind, sandbox, output, trees, name, result>>
    /\ (at' = at /\ failed' = failed) \/ GoesOn \/ Skips \/ GivesUp

\* The second look at the graph, which finds it approved.
GraphFound == Check("graph") /\ at = DisposeAt(kind) - 3

\* Every other step; each has a place of its own.
Loud ==
    \/ GraphFound \/ Introduce \/ MakeVolume("inputVolume") \/ MakeVolume("outputVolume")
    \/ DropVolume("inputVolume") \/ DropVolume("outputVolume") \/ DropFails("inputVolume")
    \/ DropFails("outputVolume") \/ Create("preparation") \/ Create("build")
    \/ StartTrace("preparation") \/ StartTrace("build") \/ Start("preparation")
    \/ Start("build") \/ DisposeRuntime("preparation") \/ DisposeRuntime("build")
    \/ DisposeNothing("preparation") \/ DisposeNothing("build")
    \/ DisposeFails("preparation") \/ DisposeFails("build") \/ CreateLost("inputVolume")
    \/ CreateLost("outputVolume") \/ CreateLost("preparation") \/ CreateLost("build")
    \/ RemovePreparation \/ RemoveFails
    \/ \E o \in {"validation", "build"} : RunBuild(o)
    \/ Capture \/ CaptureFiltered \/ CaptureLeaves \/ Settle \/ SettleFails \/ Decide
    \/ MakeTree \/ IdentifyTree \/ Rename \/ AnswerSuccess \/ AnswerFails
    \/ RollBack \/ RollBackRefused \/ RemoveTree \/ RollBackFails
    \/ CloseGuard \/ CloseFails \/ Kill
    \/ \E n \in Names : PlaceTree(n)

\* A refusal goes to the clean-up in force, unless it is of a clean-up.
LEMMA Refusals ==
  ASSUME Somewhere, Fails, at < AnswerAt(kind), at < DisposeAt(kind) \/ at > DisposeAt(kind) + 4
  PROVE  GivesUp
BY Landings, Numbers DEF Fails, Goes, GivesUp

\* A call that fails is none of a clean-up.
LEMMA Calls ==
  ASSUME Somewhere, at < End,
         Program[kind][at] \notin Steady, Program[kind][at][1] \notin {"dispose", "drop"}
  PROVE  at < AnswerAt(kind) /\ (at < DisposeAt(kind) \/ at > DisposeAt(kind) + 4)
<1> DEFINE D == DisposeAt(kind) A == AnswerAt(kind) p == Program[kind]
<1>1. Leaves(p, D) /\ Publishes(p, MakeAt(kind), RenameAt(kind), A)
  BY Layout DEF Somewhere, Laid
<1>2. D \in Nat /\ A \in Nat /\ at \in Nat /\ at <= A + 2
  BY Numbers, Ends
<1>3. /\ p[D][1] = "dispose" /\ p[D + 1][1] = "dispose" /\ p[D + 2][1] = "drop"
      /\ p[D + 3][1] = "drop" /\ p[D + 4] \in Steady
  BY <1>1 DEF Leaves, Steady
<1>4. p[A] \in Steady /\ p[A + 1] \in Steady /\ p[A + 2] \in Steady
  BY <1>1 DEF Publishes, Steady
<1>5. at # D /\ at # D + 1 /\ at # D + 2 /\ at # D + 3 /\ at # D + 4
  BY <1>3
<1>6. at # A /\ at # A + 1 /\ at # A + 2
  BY <1>4
<1> SUFFICES at < A /\ (at < D \/ at > D + 4)
  OBVIOUS
<1> HIDE DEF D, A
<1> QED BY <1>2, <1>5, <1>6

\* A refused docker exec is a step of the running build.
LEMMA Executes ==
  ASSUME Somewhere, at < End, Program[kind][at][1] \in {"run", "ask"}
  PROVE  at < AnswerAt(kind) /\ (at < DisposeAt(kind) \/ at > DisposeAt(kind) + 4)
BY Calls DEF Steady

\* Every step is quiet or loud.
LEMMA Moves ==
  ASSUME TypeOK, Next
  PROVE  Quiet \/ Loud
<1> DEFINE P == PrepareAt(kind) D == DisposeAt(kind) M == MakeAt(kind) R == RenameAt(kind)
           A == AnswerAt(kind)
<1>100. Somewhere /\ Found(P, D, M, R, A)
  BY Located DEF TypeOK
<1>101. /\ P \in Nat /\ D \in Nat /\ M \in Nat /\ R \in Nat /\ A \in Nat /\ at \in Nat /\ at >= 1
       /\ P > 1 /\ D > P + 16 /\ M > D + 7 /\ R > M + 3 /\ A > R + 3
  BY <1>100, Numbers
<1>102. ASSUME Fails, at < A, at < D \/ at > D + 4 PROVE GivesUp
  BY <1>100, <1>102, Refusals
<1> USE DEF Goes, Continues, Fails, Refuses, Fault, Change, world, guarded, sandbox, place
<1>1. CASE TakeGuard
  <2>1. at < P
    BY <1>1, <1>100 DEF TakeGuard, Found
  <2>2. Uneventful
    BY <2>1, <1>101 DEF Uneventful
  <2> QED BY <1>1, <2>2 DEF TakeGuard, Quiet, GoesOn
<1>2. CASE PlanControls
  <2>1. at < P
    BY <1>2, <1>100 DEF PlanControls, Found
  <2>2. Uneventful
    BY <2>1, <1>101 DEF Uneventful
  <2> QED BY <1>2, <2>2 DEF PlanControls, Quiet, GoesOn
<1>3. CASE BindInputs
  <2>1. at < P
    BY <1>3, <1>100 DEF BindInputs, Found
  <2>2. Uneventful
    BY <2>1, <1>101 DEF Uneventful
  <2> QED BY <1>3, <2>2 DEF BindInputs, Quiet, GoesOn
<1>4. CASE VerifySource
  <2>1. at < P
    BY <1>4, <1>100 DEF VerifySource, Found
  <2>2. Uneventful
    BY <2>1, <1>101 DEF Uneventful
  <2>3. at < A /\ (at < D \/ at > D + 4)
    BY <2>1, <1>101
  <2> QED BY <1>4, <2>2, <2>3, <1>102 DEF VerifySource, Quiet, GoesOn
<1>5. ASSUME NEW o \in Scans, BeginScan(o) PROVE Quiet
  <2>1. at < P \/ Verifying(at, D, M, R, A)
    BY <1>5, <1>100 DEF BeginScan, Found, Scans
  <2>2. Uneventful
    BY <2>1, <1>101 DEF Uneventful, Verifying
  <2> QED BY <1>5, <2>2 DEF BeginScan, Quiet, GoesOn
<1>6. ASSUME NEW o \in Scans, NEW i \in Items, Read(o, i) PROVE Quiet
  <2>1. at < P \/ Verifying(at, D, M, R, A)
    BY <1>6, <1>100 DEF Read, Found, Scans
  <2>2. Uneventful
    BY <2>1, <1>101 DEF Uneventful, Verifying
  <2> QED BY <1>6, <2>2 DEF Read, Quiet, GoesOn
<1>7. ASSUME NEW o \in Scans, NEW i \in Items, ReadRefused(o, i) PROVE Quiet
  <2>1. at < P \/ Verifying(at, D, M, R, A)
    BY <1>7, <1>100 DEF ReadRefused, Found, Scans
  <2>2. at < A /\ (at < D \/ at > D + 4)
    BY <2>1, <1>101 DEF Verifying
  <2> QED BY <1>7, <2>2, <1>102 DEF ReadRefused, Quiet
<1>8. ASSUME NEW o \in Checks, Check(o) PROVE Quiet \/ GraphFound
  <2>1. \/ at < P \/ Verifying(at, D, M, R, A) \/ at = M + 2
        \/ at > P + 10 /\ at < D - 4
        \/ o = "graph" /\ at = D - 3
    BY <1>8, <1>100 DEF Check, Checks, Found
  <2>2. CASE o = "graph" /\ at = D - 3
    BY <1>8, <2>2 DEF GraphFound
  <2>3. CASE at < P \/ Verifying(at, D, M, R, A) \/ at = M + 2 \/ (at > P + 10 /\ at < D - 4)
    <3>1. Uneventful
      BY <2>3, <1>101 DEF Uneventful, Verifying
    <3> QED BY <1>8, <3>1 DEF Check, Quiet, GoesOn
  <2> QED BY <2>1, <2>2, <2>3
<1>9. ASSUME NEW o \in Checks, CheckRefused(o) PROVE Quiet
  <2>1. at < A /\ (at < D \/ at > D + 4)
    BY <1>9, <1>100, <1>101 DEF CheckRefused, Found, Checks, Verifying
  <2>2. at < A /\ (at < D \/ at > D + 4)
    BY <2>1, <1>101
  <2> QED BY <1>9, <2>2, <1>102 DEF CheckRefused, Quiet
<1>10. ASSUME NEW o \in {"source", "cache"}, FreezeArchive(o) PROVE Quiet
  <2>1. at < P
    BY <1>10, <1>100 DEF FreezeArchive, Found
  <2>2. Uneventful
    BY <2>1, <1>101 DEF Uneventful
  <2> QED BY <1>10, <2>2 DEF FreezeArchive, Quiet, GoesOn
<1>11. CASE PrepareInputs
  <2>1. at = P
    BY <1>11, <1>100 DEF PrepareInputs, Found
  <2>2. Uneventful
    BY <2>1, <1>101 DEF Uneventful
  <2>3. at < A /\ (at < D \/ at > D + 4)
    BY <2>1, <1>101
  <2> QED BY <1>11, <2>2, <2>3, <1>102 DEF PrepareInputs, Quiet, GoesOn
<1>12. CASE IntroduceRefused
  <2>1. at = P + 6
    BY <1>12, <1>100 DEF IntroduceRefused, Found
  <2>2. at < A /\ (at < D \/ at > D + 4)
    BY <2>1, <1>101
  <2> QED BY <1>12, <2>2, <1>102 DEF IntroduceRefused, Quiet
<1>13. ASSUME NEW o \in {"before", "after", "captured"}, VerifyRuntime(o) PROVE Quiet
  <2>1. at > P + 10 /\ at < D /\ at # D - 3
    BY <1>13, <1>100, <1>101 DEF VerifyRuntime, Found
  <2>2. Uneventful
    BY <2>1, <1>101 DEF Uneventful
  <2>3. at < A /\ (at < D \/ at > D + 4)
    BY <2>1, <1>101
  <2> QED BY <1>13, <2>2, <2>3, <1>102 DEF VerifyRuntime, Quiet, GoesOn
<1>14. CASE Configure
  <2>1. at > P + 10 /\ at < D - 4
    BY <1>14, <1>100 DEF Configure, Found
  <2>2. Uneventful
    BY <2>1, <1>101 DEF Uneventful
  <2> QED BY <1>14, <2>2 DEF Configure, Quiet, GoesOn
<1>15. CASE AskRoles
  <2>1. at = D - 6
    BY <1>15, <1>100, Asked DEF AskRoles
  <2>2. Uneventful
    BY <2>1, <1>101 DEF Uneventful
  <2> QED BY <1>15, <2>1, <2>2 DEF AskRoles, Quiet, GoesOn, Skips
<1>16. CASE ExecRefused
  <2>1. at < A /\ (at < D \/ at > D + 4)
    BY <1>16, <1>100, Executes DEF ExecRefused
  <2> QED BY <1>16, <2>1, <1>102 DEF ExecRefused, Quiet
<1>17. CASE RecordFacts
  <2>1. at = D + 5
    BY <1>17, <1>100 DEF RecordFacts, Found
  <2>2. Uneventful
    BY <2>1, <1>101 DEF Uneventful
  <2> QED BY <1>17, <2>2 DEF RecordFacts, Quiet, GoesOn
<1>18. CASE BeginVerification
  <2>1. (at > D + 6 /\ at < M) \/ (at > M + 2 /\ at < R) \/ at = R + 2
    BY <1>18, <1>100 DEF BeginVerification, Found
  <2>2. Uneventful
    BY <2>1, <1>101 DEF Uneventful
  <2> QED BY <1>18, <2>2 DEF BeginVerification, Quiet, GoesOn
<1>19. CASE MakeTreeRefused
  <2>1. at = M
    BY <1>19, <1>100 DEF MakeTreeRefused, Found
  <2>2. at < A /\ (at < D \/ at > D + 4)
    BY <2>1, <1>101
  <2> QED BY <1>19, <2>2, <1>102 DEF MakeTreeRefused, Quiet
<1>20. CASE FillTree
  <2>1. at = M + 1
    BY <1>20, <1>100 DEF FillTree, Found
  <2>2. Uneventful
    BY <2>1, <1>101 DEF Uneventful
  <2> QED BY <1>20, <2>2 DEF FillTree, Quiet, GoesOn
<1>21. CASE FillRefused
  <2>1. at = M + 1
    BY <1>21, <1>100 DEF FillRefused, Found
  <2>2. at < A /\ (at < D \/ at > D + 4)
    BY <2>1, <1>101
  <2> QED BY <1>21, <2>2, <1>102 DEF FillRefused, Quiet
<1>22. CASE RenameRefused
  <2>1. at = R
    BY <1>22, <1>100 DEF RenameRefused, Found
  <2>2. at < A /\ (at < D \/ at > D + 4)
    BY <2>1, <1>101
  <2> QED BY <1>22, <2>2, <1>102 DEF RenameRefused, Quiet
<1>23. CASE Confirm
  <2>1. at = R + 1
    BY <1>23, <1>100 DEF Confirm, Found
  <2>2. Uneventful
    BY <2>1, <1>101 DEF Uneventful
  <2>3. at < A /\ (at < D \/ at > D + 4)
    BY <2>1, <1>101
  <2> QED BY <1>23, <2>2, <2>3, <1>102 DEF Confirm, Quiet, GoesOn
<1>24. CASE CallFails
  <2>1. at < A /\ (at < D \/ at > D + 4)
    BY <1>24, <1>100, Calls DEF CallFails
  <2> QED BY <1>24, <2>1, <1>102 DEF CallFails, Quiet
<1>25. ASSUME NEW i \in Items, ChangeItem(i) PROVE Quiet
  BY <1>25 DEF ChangeItem, Quiet
<1>26. CASE SpoilTree
  BY <1>26 DEF SpoilTree, Quiet
<1>27. CASE IdentifyRefused
  <2>1. at = M
    BY <1>27, <1>100 DEF IdentifyRefused, Found
  <2>2. at < A /\ (at < D \/ at > D + 4)
    BY <2>1, <1>101
  <2> QED BY <1>27, <2>2, <1>102 DEF IdentifyRefused, Quiet
<1>28. CASE RemoveFile
  BY <1>28 DEF RemoveFile, Quiet
<1> QED BY <1>1, <1>2, <1>3, <1>4, <1>5, <1>6, <1>7, <1>8, <1>9, <1>10, <1>11, <1>12, <1>13,
      <1>14, <1>15, <1>16, <1>17, <1>18, <1>19, <1>20, <1>21, <1>22, <1>23, <1>24, <1>25,
      <1>26, <1>27, <1>28 DEF Next, Build, Loud, Volumes, Runtimes

\* Where the other steps are and where they go.
Controlled(P, D, M, R, A) ==
    /\ kind' = kind
    /\ GraphFound => at = D - 3 /\ at' = D - 2
    /\ Introduce => at = P + 6 /\ at' = P + 7
    /\ MakeVolume("inputVolume") => at = P + 1 /\ at' = P + 2
    /\ MakeVolume("outputVolume") => at = P + 2 /\ at' = P + 3
    /\ DropVolume("inputVolume") => at = D + 3 /\ at' = D + 4
    /\ DropVolume("outputVolume") => at = D + 2 /\ at' = D + 3
    /\ DropFails("inputVolume") => at = D + 3 /\ at' = D + 4
    /\ DropFails("outputVolume") => at = D + 2 /\ at' = D + 3
    /\ Create("preparation") => at = P + 3 /\ at' = P + 4
    /\ Create("build") => at = P + 7 /\ at' = P + 8
    /\ StartTrace("preparation") => at = P + 4 /\ at' = P + 5
    /\ StartTrace("build") => at = P + 8 /\ at' = P + 9
    /\ Start("preparation") => at = P + 5 /\ at' = P + 6
    /\ Start("build") => at = P + 9 /\ at' = P + 10
    /\ DisposeRuntime("preparation") => at = D + 1 /\ at' = D + 2
    /\ DisposeRuntime("build") => at = D /\ at' = D + 1
    /\ DisposeNothing("preparation") => at = D + 1 /\ at' = D + 2
    /\ DisposeNothing("build") => at = D /\ at' = D + 1
    /\ DisposeFails("preparation") => at = D + 1 /\ at' = D + 2
    /\ DisposeFails("build") => at = D /\ at' = D + 1
    /\ CreateLost("inputVolume") => at = P + 1 /\ at' = D
    /\ CreateLost("outputVolume") => at = P + 2 /\ at' = D
    /\ CreateLost("preparation") => at = P + 3 /\ at' = D
    /\ CreateLost("build") => at = P + 7 /\ at' = D
    /\ RemovePreparation => at = P + 10 /\ at' \in {P + 11, D}
    /\ RemoveFails => at = P + 10 /\ at' = D
    /\ (\E o \in {"validation", "build"} : RunBuild(o)) =>
           at > P + 10 /\ at < D - 4 /\ at' = at + 1
    /\ Capture => at = D - 2 /\ at' = D - 1
    /\ CaptureFiltered => at = D - 2 /\ at' = D - 1
    /\ Settle => at = D + 4 /\ at' \in {D + 5, A + 2}
    /\ Decide => at = D + 6 /\ at' \in {D + 7, A + 2}
    /\ MakeTree => at = M /\ at' = M
    /\ Rename => at = R /\ at' = R + 1
    /\ AnswerSuccess => at = A /\ at' = A + 2
    /\ RollBack => at = A + 1 /\ at' = A + 1
    /\ RollBackRefused => at = A + 1 /\ at' = A + 2
    /\ RollBackFails => at = A + 1 /\ at' = A + 2
    /\ CloseGuard => at = A + 2 /\ at' = A + 3
    /\ CloseFails => at = A + 2 /\ at' = A + 3
    /\ Kill => at' = A + 3
    /\ (\E n \in Names : PlaceTree(n)) => at' = at
    /\ IdentifyTree => at = M /\ at' = M + 1
    /\ AnswerFails => at = A /\ at' \in {A + 1, A + 2}
    /\ RemoveTree => at = A + 1 /\ at' = A + 2
    /\ CaptureLeaves => at = D - 2 /\ at' = D
    /\ SettleFails => at = D + 4 /\ at' = A + 2

\* The place of every loud step, and where it leads.
LEMMA Controls ==
  ASSUME Somewhere, Loud
  PROVE  Controlled(PrepareAt(kind), DisposeAt(kind), MakeAt(kind), RenameAt(kind), AnswerAt(kind))
<1> DEFINE P == PrepareAt(kind) D == DisposeAt(kind) M == MakeAt(kind) R == RenameAt(kind)
           A == AnswerAt(kind)
<1>100. Found(P, D, M, R, A)
  BY Located
<1>101. /\ P \in Nat /\ D \in Nat /\ M \in Nat /\ R \in Nat /\ A \in Nat /\ at \in Nat /\ at >= 1
       /\ P > 1 /\ D > P + 16 /\ M > D + 7 /\ R > M + 3 /\ A > R + 3
  BY Numbers
<1>102. (at >= P /\ at < D => Landing = D) /\ (at = A => Landing = A + 1)
  BY <1>101, Landings
<1>103. Pos("close", "guard") = A + 2 /\ End = A + 3
  BY Positions, Ends DEF Pos, Somewhere
<1> SUFFICES Controlled(P, D, M, R, A)
  OBVIOUS
<1> HIDE DEF P, D, M, R, A
<1> USE DEF Goes, Continues, Refuses, Fails
<1>104. kind' = kind
  BY DEF Loud, guarded, sandbox, GraphFound, Check, RemoveRuntime, Change, AnswerSuccess,
     Capture, CaptureFiltered, CloseFails, CloseGuard, Create, CreateLost, Decide,
     DisposeFails, DisposeNothing, DisposeRuntime, DropFails, DropVolume, Introduce, Kill,
     MakeTree, MakeVolume, PlaceTree, RemoveFails, RemovePreparation, Rename, RollBack,
     RollBackFails, RollBackRefused, RunBuild, Settle, Start, StartTrace, IdentifyTree,
     AnswerFails, RemoveTree, CaptureLeaves, SettleFails
<1>1. GraphFound => at = D - 3 /\ at' = D - 2
  BY <1>101 DEF GraphFound, Check, D
<1>2. Introduce => at = P + 6 /\ at' = P + 7
  BY <1>100, <1>101 DEF Found, Introduce
<1>3. MakeVolume("inputVolume") => at = P + 1 /\ at' = P + 2
  BY <1>100, <1>101 DEF Found, MakeVolume
<1>4. MakeVolume("outputVolume") => at = P + 2 /\ at' = P + 3
  BY <1>100, <1>101 DEF Found, MakeVolume
<1>5. DropVolume("inputVolume") => at = D + 3 /\ at' = D + 4
  BY <1>100, <1>101 DEF Found, DropVolume
<1>6. DropVolume("outputVolume") => at = D + 2 /\ at' = D + 3
  BY <1>100, <1>101 DEF Found, DropVolume
<1>7. DropFails("inputVolume") => at = D + 3 /\ at' = D + 4
  BY <1>100, <1>101 DEF Found, DropFails
<1>8. DropFails("outputVolume") => at = D + 2 /\ at' = D + 3
  BY <1>100, <1>101 DEF Found, DropFails
<1>9. Create("preparation") => at = P + 3 /\ at' = P + 4
  BY <1>100, <1>101 DEF Found, Create
<1>10. Create("build") => at = P + 7 /\ at' = P + 8
  BY <1>100, <1>101 DEF Found, Create
<1>11. StartTrace("preparation") => at = P + 4 /\ at' = P + 5
  BY <1>100, <1>101 DEF Found, StartTrace
<1>12. StartTrace("build") => at = P + 8 /\ at' = P + 9
  BY <1>100, <1>101 DEF Found, StartTrace
<1>13. Start("preparation") => at = P + 5 /\ at' = P + 6
  BY <1>100, <1>101 DEF Found, Start
<1>14. Start("build") => at = P + 9 /\ at' = P + 10
  BY <1>100, <1>101 DEF Found, Start
<1>15. DisposeRuntime("preparation") => at = D + 1 /\ at' = D + 2
  BY <1>100, <1>101 DEF Found, DisposeRuntime
<1>16. DisposeRuntime("build") => at = D /\ at' = D + 1
  BY <1>100, <1>101 DEF Found, DisposeRuntime
<1>17. DisposeNothing("preparation") => at = D + 1 /\ at' = D + 2
  BY <1>100, <1>101 DEF Found, DisposeNothing
<1>18. DisposeNothing("build") => at = D /\ at' = D + 1
  BY <1>100, <1>101 DEF Found, DisposeNothing
<1>19. DisposeFails("preparation") => at = D + 1 /\ at' = D + 2
  BY <1>100, <1>101 DEF Found, DisposeFails
<1>20. DisposeFails("build") => at = D /\ at' = D + 1
  BY <1>100, <1>101 DEF Found, DisposeFails
<1>21. CreateLost("inputVolume") => at = P + 1 /\ at' = D
  BY <1>100, <1>101, <1>102 DEF Found, CreateLost
<1>22. CreateLost("outputVolume") => at = P + 2 /\ at' = D
  BY <1>100, <1>101, <1>102 DEF Found, CreateLost
<1>23. CreateLost("preparation") => at = P + 3 /\ at' = D
  BY <1>100, <1>101, <1>102 DEF Found, CreateLost
<1>24. CreateLost("build") => at = P + 7 /\ at' = D
  BY <1>100, <1>101, <1>102 DEF Found, CreateLost
<1>25. RemovePreparation => at = P + 10 /\ at' \in {P + 11, D}
  BY <1>100, <1>101, <1>102 DEF Found, RemovePreparation
<1>26. RemoveFails => at = P + 10 /\ at' = D
  BY <1>100, <1>101, <1>102 DEF Found, RemoveFails
<1>27. (\E o \in {"validation", "build"} : RunBuild(o)) =>
           at > P + 10 /\ at < D - 4 /\ at' = at + 1
  BY <1>100 DEF Found, RunBuild
<1>28. Capture => at = D - 2 /\ at' = D - 1
  BY <1>100, <1>101 DEF Found, Capture
<1>29. CaptureFiltered => at = D - 2 /\ at' = D - 1
  BY <1>100, <1>101 DEF Found, CaptureFiltered
<1>30. Settle => at = D + 4 /\ at' \in {D + 5, A + 2}
  BY <1>100, <1>101, <1>103 DEF Found, Settle
<1>31. Decide => at = D + 6 /\ at' \in {D + 7, A + 2}
  BY <1>100, <1>101, <1>103 DEF Found, Decide
<1>32. MakeTree => at = M /\ at' = M
  BY <1>100, <1>101 DEF Found, MakeTree
<1>33. Rename => at = R /\ at' = R + 1
  BY <1>100, <1>101 DEF Found, Rename
<1>34. AnswerSuccess => at = A /\ at' = A + 2
  BY <1>100, <1>101, <1>103 DEF Found, AnswerSuccess
<1>35. RollBack => at = A + 1 /\ at' = A + 1
  BY <1>100, <1>101 DEF Found, RollBack
<1>36. RollBackRefused => at = A + 1 /\ at' = A + 2
  BY <1>100, <1>101 DEF Found, RollBackRefused
<1>37. RollBackFails => at = A + 1 /\ at' = A + 2
  BY <1>100, <1>101 DEF Found, RollBackFails
<1>38. CloseGuard => at = A + 2 /\ at' = A + 3
  BY <1>100, <1>101 DEF Found, CloseGuard
<1>39. CloseFails => at = A + 2 /\ at' = A + 3
  BY <1>100, <1>101 DEF Found, CloseFails
<1>40. Kill => at' = A + 3
  BY <1>103 DEF Kill
<1>41. (\E n \in Names : PlaceTree(n)) => at' = at
  BY DEF PlaceTree
<1>42. IdentifyTree => at = M /\ at' = M + 1
  BY <1>100, <1>101 DEF Found, IdentifyTree
<1>43. AnswerFails => at = A /\ at' \in {A + 1, A + 2}
  BY <1>100, <1>101, <1>102, <1>103 DEF Found, AnswerFails
<1>44. RemoveTree => at = A + 1 /\ at' = A + 2
  BY <1>100, <1>101 DEF Found, RemoveTree
<1>45. CaptureLeaves => at = D - 2 /\ at' = D
  BY <1>100, <1>101, <1>102 DEF Found, CaptureLeaves
<1>46. SettleFails => at = D + 4 /\ at' = A + 2
  BY <1>100, <1>101, <1>103 DEF Found, SettleFails
<1> QED BY <1>104, <1>1, <1>2, <1>3, <1>4, <1>5, <1>6, <1>7, <1>8, <1>9, <1>10, <1>11, <1>12,
      <1>13, <1>14, <1>15, <1>16, <1>17, <1>18, <1>19, <1>20, <1>21, <1>22, <1>23, <1>24,
      <1>25, <1>26, <1>27, <1>28, <1>29, <1>30, <1>31, <1>32, <1>33, <1>34, <1>35, <1>36,
      <1>37, <1>38, <1>39, <1>40, <1>41, <1>42, <1>43, <1>44, <1>45, <1>46 DEF Controlled

\* Failures and answers are where they belong.
LEMMA PlacedStep ==
  ASSUME TypeOK, Placed, Next
  PROVE  Placed'
<1>100. Somewhere
  BY DEF TypeOK
<1>101. Loud => Controlled(PrepareAt(kind), DisposeAt(kind),
                           MakeAt(kind), RenameAt(kind), AnswerAt(kind))
  BY <1>100, Controls
<1> USE Numbers, <1>100
<1> USE DEF world, guarded, sandbox, place, Fault, TypeOK, Names, Runtimes, Volumes, Placed
<1>50. CASE Quiet
  BY <1>50, Ends DEF Quiet, GoesOn, Skips, GivesUp, Uneventful
<1>1. CASE GraphFound
  <2>1. kind' = kind /\ at = DisposeAt(kind) - 3 /\ at' = DisposeAt(kind) - 2
    BY <1>1, <1>101 DEF Controlled, Loud
  <2> QED BY <1>1, <2>1 DEF GraphFound, Check
<1>2. CASE Introduce
  <2>1. kind' = kind /\ at = PrepareAt(kind) + 6 /\ at' = PrepareAt(kind) + 7
    BY <1>2, <1>101 DEF Controlled, Loud
  <2> QED BY <1>2, <2>1 DEF Introduce, InputsIntact, Materialised
<1>3. CASE MakeVolume("inputVolume")
  <2>1. kind' = kind /\ at = PrepareAt(kind) + 1 /\ at' = PrepareAt(kind) + 2
    BY <1>3, <1>101 DEF Controlled, Loud
  <2> QED BY <1>3, <2>1 DEF MakeVolume
<1>4. CASE MakeVolume("outputVolume")
  <2>1. kind' = kind /\ at = PrepareAt(kind) + 2 /\ at' = PrepareAt(kind) + 3
    BY <1>4, <1>101 DEF Controlled, Loud
  <2> QED BY <1>4, <2>1 DEF MakeVolume
<1>5. CASE DropVolume("inputVolume")
  <2>1. kind' = kind /\ at = DisposeAt(kind) + 3 /\ at' = DisposeAt(kind) + 4
    BY <1>5, <1>101 DEF Controlled, Loud
  <2> QED BY <1>5, <2>1 DEF DropVolume, InUse, Worsens
<1>6. CASE DropVolume("outputVolume")
  <2>1. kind' = kind /\ at = DisposeAt(kind) + 2 /\ at' = DisposeAt(kind) + 3
    BY <1>6, <1>101 DEF Controlled, Loud
  <2> QED BY <1>6, <2>1 DEF DropVolume, InUse, Worsens
<1>7. CASE DropFails("inputVolume")
  <2>1. kind' = kind /\ at = DisposeAt(kind) + 3 /\ at' = DisposeAt(kind) + 4
    BY <1>7, <1>101 DEF Controlled, Loud
  <2> QED BY <1>7, <2>1 DEF DropFails, Worsens
<1>8. CASE DropFails("outputVolume")
  <2>1. kind' = kind /\ at = DisposeAt(kind) + 2 /\ at' = DisposeAt(kind) + 3
    BY <1>8, <1>101 DEF Controlled, Loud
  <2> QED BY <1>8, <2>1 DEF DropFails, Worsens
<1>9. CASE Create("preparation")
  <2>1. kind' = kind /\ at = PrepareAt(kind) + 3 /\ at' = PrepareAt(kind) + 4
    BY <1>9, <1>101 DEF Controlled, Loud
  <2> QED BY <1>9, <2>1 DEF Create
<1>10. CASE Create("build")
  <2>1. kind' = kind /\ at = PrepareAt(kind) + 7 /\ at' = PrepareAt(kind) + 8
    BY <1>10, <1>101 DEF Controlled, Loud
  <2> QED BY <1>10, <2>1 DEF Create
<1>11. CASE StartTrace("preparation")
  <2>1. kind' = kind /\ at = PrepareAt(kind) + 4 /\ at' = PrepareAt(kind) + 5
    BY <1>11, <1>101 DEF Controlled, Loud
  <2> QED BY <1>11, <2>1 DEF StartTrace
<1>12. CASE StartTrace("build")
  <2>1. kind' = kind /\ at = PrepareAt(kind) + 8 /\ at' = PrepareAt(kind) + 9
    BY <1>12, <1>101 DEF Controlled, Loud
  <2> QED BY <1>12, <2>1 DEF StartTrace
<1>13. CASE Start("preparation")
  <2>1. kind' = kind /\ at = PrepareAt(kind) + 5 /\ at' = PrepareAt(kind) + 6
    BY <1>13, <1>101 DEF Controlled, Loud
  <2> QED BY <1>13, <2>1 DEF Start
<1>14. CASE Start("build")
  <2>1. kind' = kind /\ at = PrepareAt(kind) + 9 /\ at' = PrepareAt(kind) + 10
    BY <1>14, <1>101 DEF Controlled, Loud
  <2> QED BY <1>14, <2>1 DEF Start
<1>15. CASE DisposeRuntime("preparation")
  <2>1. kind' = kind /\ at = DisposeAt(kind) + 1 /\ at' = DisposeAt(kind) + 2
    BY <1>15, <1>101 DEF Controlled, Loud
  <2> QED BY <1>15, <2>1 DEF DisposeRuntime, RemoveRuntime, Collected, Incomplete
<1>16. CASE DisposeRuntime("build")
  <2>1. kind' = kind /\ at = DisposeAt(kind) /\ at' = DisposeAt(kind) + 1
    BY <1>16, <1>101 DEF Controlled, Loud
  <2> QED BY <1>16, <2>1 DEF DisposeRuntime, RemoveRuntime, Collected, Incomplete
<1>17. CASE DisposeNothing("preparation")
  <2>1. kind' = kind /\ at = DisposeAt(kind) + 1 /\ at' = DisposeAt(kind) + 2
    BY <1>17, <1>101 DEF Controlled, Loud
  <2> QED BY <1>17, <2>1 DEF DisposeNothing
<1>18. CASE DisposeNothing("build")
  <2>1. kind' = kind /\ at = DisposeAt(kind) /\ at' = DisposeAt(kind) + 1
    BY <1>18, <1>101 DEF Controlled, Loud
  <2> QED BY <1>18, <2>1 DEF DisposeNothing
<1>19. CASE DisposeFails("preparation")
  <2>1. kind' = kind /\ at = DisposeAt(kind) + 1 /\ at' = DisposeAt(kind) + 2
    BY <1>19, <1>101 DEF Controlled, Loud
  <2> QED BY <1>19, <2>1 DEF DisposeFails, Collected, Worsens
<1>20. CASE DisposeFails("build")
  <2>1. kind' = kind /\ at = DisposeAt(kind) /\ at' = DisposeAt(kind) + 1
    BY <1>20, <1>101 DEF Controlled, Loud
  <2> QED BY <1>20, <2>1 DEF DisposeFails, Collected, Worsens
<1>21. CASE CreateLost("inputVolume")
  <2>1. kind' = kind /\ at = PrepareAt(kind) + 1 /\ at' = DisposeAt(kind)
    BY <1>21, <1>101 DEF Controlled, Loud
  <2> QED BY <1>21, <2>1 DEF CreateLost, Refuses, Fails
<1>22. CASE CreateLost("outputVolume")
  <2>1. kind' = kind /\ at = PrepareAt(kind) + 2 /\ at' = DisposeAt(kind)
    BY <1>22, <1>101 DEF Controlled, Loud
  <2> QED BY <1>22, <2>1 DEF CreateLost, Refuses, Fails
<1>23. CASE CreateLost("preparation")
  <2>1. kind' = kind /\ at = PrepareAt(kind) + 3 /\ at' = DisposeAt(kind)
    BY <1>23, <1>101 DEF Controlled, Loud
  <2> QED BY <1>23, <2>1 DEF CreateLost, Refuses, Fails
<1>24. CASE CreateLost("build")
  <2>1. kind' = kind /\ at = PrepareAt(kind) + 7 /\ at' = DisposeAt(kind)
    BY <1>24, <1>101 DEF Controlled, Loud
  <2> QED BY <1>24, <2>1 DEF CreateLost, Refuses, Fails
<1>25. CASE RemovePreparation
  <2>1. kind' = kind /\ at = PrepareAt(kind) + 10 /\ at' \in {PrepareAt(kind) + 11, DisposeAt(kind)}
    BY <1>25, <1>101 DEF Controlled, Loud
  <2>2. Landing = DisposeAt(kind)
    BY <2>1, Landings
  <2> QED BY <1>25, <2>1, <2>2 DEF RemovePreparation, RemoveRuntime, Collected, Incomplete,
        Refuses, Fails, Goes, Continues
<1>26. CASE RemoveFails
  <2>1. kind' = kind /\ at = PrepareAt(kind) + 10 /\ at' = DisposeAt(kind)
    BY <1>26, <1>101 DEF Controlled, Loud
  <2> QED BY <1>26, <2>1 DEF RemoveFails, Collected, Refuses, Fails
<1>27. CASE \E o \in {"validation", "build"} : RunBuild(o)
  <2>1. kind' = kind /\ at > PrepareAt(kind) + 10 /\ at < DisposeAt(kind) - 4 /\ at' = at + 1
    BY <1>27, <1>101 DEF Controlled, Loud
  <2> QED BY <1>27, <2>1 DEF RunBuild
<1>28. CASE Capture
  <2>1. kind' = kind /\ at = DisposeAt(kind) - 2 /\ at' = DisposeAt(kind) - 1
    BY <1>28, <1>101 DEF Controlled, Loud
  <2> QED BY <1>28, <2>1 DEF Capture
<1>29. CASE CaptureFiltered
  <2>1. kind' = kind /\ at = DisposeAt(kind) - 2 /\ at' = DisposeAt(kind) - 1
    BY <1>29, <1>101 DEF Controlled, Loud
  <2> QED BY <1>29, <2>1 DEF CaptureFiltered
<1>30. CASE Settle
  <2>1. /\ kind' = kind /\ at = DisposeAt(kind) + 4
        /\ at' \in {DisposeAt(kind) + 5, AnswerAt(kind) + 2}
    BY <1>30, <1>101 DEF Controlled, Loud
  <2>2. Pos("close", "guard") = AnswerAt(kind) + 2
    BY <1>100, Positions DEF Pos, Somewhere
  <2> QED BY <1>30, <2>1, <2>2 DEF Settle, Goes, Continues
<1>31. CASE Decide
  <2>1. /\ kind' = kind /\ at = DisposeAt(kind) + 6
        /\ at' \in {DisposeAt(kind) + 7, AnswerAt(kind) + 2}
    BY <1>31, <1>101 DEF Controlled, Loud
  <2> QED BY <1>31, <2>1 DEF Decide
<1>32. CASE MakeTree
  <2>1. kind' = kind /\ at = MakeAt(kind) /\ at' = MakeAt(kind)
    BY <1>32, <1>101 DEF Controlled, Loud
  <2> QED BY <1>32, <2>1 DEF MakeTree
<1>33. CASE Rename
  <2>1. kind' = kind /\ at = RenameAt(kind) /\ at' = RenameAt(kind) + 1
    BY <1>33, <1>101 DEF Controlled, Loud
  <2> QED BY <1>33, <2>1 DEF Rename
<1>34. CASE AnswerSuccess
  <2>1. kind' = kind /\ at = AnswerAt(kind) /\ at' = AnswerAt(kind) + 2
    BY <1>34, <1>101 DEF Controlled, Loud
  <2> QED BY <1>34, <2>1 DEF AnswerSuccess
<1>35. CASE RollBack
  <2>1. kind' = kind /\ at = AnswerAt(kind) + 1 /\ at' = AnswerAt(kind) + 1
    BY <1>35, <1>101 DEF Controlled, Loud
  <2> QED BY <1>35, <2>1 DEF RollBack
<1>36. CASE RollBackRefused
  <2>1. kind' = kind /\ at = AnswerAt(kind) + 1 /\ at' = AnswerAt(kind) + 2
    BY <1>36, <1>101 DEF Controlled, Loud
  <2> QED BY <1>36, <2>1 DEF RollBackRefused, Worsens
<1>37. CASE RollBackFails
  <2>1. kind' = kind /\ at = AnswerAt(kind) + 1 /\ at' = AnswerAt(kind) + 2
    BY <1>37, <1>101 DEF Controlled, Loud
  <2> QED BY <1>37, <2>1 DEF RollBackFails, Worsens
<1>38. CASE CloseGuard
  <2>1. kind' = kind /\ at = AnswerAt(kind) + 2 /\ at' = AnswerAt(kind) + 3
    BY <1>38, <1>101 DEF Controlled, Loud
  <2>2. Outcome = "published" => failed # "yes" /\ failed # "uncertain"
    BY DEF Outcome
  <2>3. Outcome = "failed" => failed = "yes"
    BY DEF Outcome
  <2> QED BY <1>38, <2>1, <2>2, <2>3 DEF CloseGuard
<1>39. CASE CloseFails
  <2>1. kind' = kind /\ at = AnswerAt(kind) + 2 /\ at' = AnswerAt(kind) + 3
    BY <1>39, <1>101 DEF Controlled, Loud
  <2> QED BY <1>39, <2>1 DEF CloseFails
<1>40. CASE Kill
  <2>1. kind' = kind /\ at' = AnswerAt(kind) + 3
    BY <1>40, <1>101 DEF Controlled, Loud
  <2> QED BY <1>40, <2>1 DEF Kill
<1>41. CASE \E n \in Names : PlaceTree(n)
  <2>1. kind' = kind /\ at' = at
    BY <1>41, <1>101 DEF Controlled, Loud
  <2> QED BY <1>41, <2>1 DEF PlaceTree
<1>42. CASE IdentifyTree
  <2>1. kind' = kind /\ at = MakeAt(kind) /\ at' = MakeAt(kind) + 1
    BY <1>42, <1>101 DEF Controlled, Loud
  <2> QED BY <1>42, <2>1 DEF IdentifyTree
<1>43. CASE AnswerFails
  <2>1. /\ kind' = kind /\ at = AnswerAt(kind)
        /\ at' \in {AnswerAt(kind) + 1, AnswerAt(kind) + 2}
    BY <1>43, <1>101 DEF Controlled, Loud
  <2>2. Pos("close", "guard") = AnswerAt(kind) + 2
    BY <1>100, Positions DEF Pos, Somewhere
  <2> QED BY <1>43, <2>1, <2>2 DEF AnswerFails, Fails, Worsens, Goes
<1>44. CASE RemoveTree
  <2>1. kind' = kind /\ at = AnswerAt(kind) + 1 /\ at' = AnswerAt(kind) + 2
    BY <1>44, <1>101 DEF Controlled, Loud
  <2> QED BY <1>44, <2>1 DEF RemoveTree
<1>45. CASE CaptureLeaves
  <2>1. kind' = kind /\ at = DisposeAt(kind) - 2 /\ at' = DisposeAt(kind)
    BY <1>45, <1>101 DEF Controlled, Loud
  <2> QED BY <1>45, <2>1 DEF CaptureLeaves, Refuses, Fails
<1>46. CASE SettleFails
  <2>1. kind' = kind /\ at = DisposeAt(kind) + 4 /\ at' = AnswerAt(kind) + 2
    BY <1>46, <1>101 DEF Controlled, Loud
  <2> QED BY <1>46, <2>1 DEF SettleFails, Worsens
<1> QED BY <1>50, <1>1, <1>2, <1>3, <1>4, <1>5, <1>6, <1>7, <1>8, <1>9, <1>10, <1>11, <1>12,
      <1>13, <1>14, <1>15, <1>16, <1>17, <1>18, <1>19, <1>20, <1>21, <1>22, <1>23, <1>24,
      <1>25, <1>26, <1>27, <1>28, <1>29, <1>30, <1>31, <1>32, <1>33, <1>34, <1>35, <1>36,
      <1>37, <1>38, <1>39, <1>40, <1>41, <1>42, <1>43, <1>44, <1>45, <1>46, Moves DEF Loud

\* The sandbox is built up and taken down one part at a time.
LEMMA StandingStep ==
  ASSUME TypeOK, Placed, Standing, Next
  PROVE  Standing'
<1>100. Somewhere
  BY DEF TypeOK
<1>101. Loud => Controlled(PrepareAt(kind), DisposeAt(kind),
                           MakeAt(kind), RenameAt(kind), AnswerAt(kind))
  BY <1>100, Controls
<1> USE Numbers, <1>100
<1> USE DEF world, guarded, sandbox, place, Fault, TypeOK, Names, Runtimes, Volumes,
        Standing, Placed
<1>50. CASE Quiet
  BY <1>50, Ends DEF Quiet, GoesOn, Skips, GivesUp, Uneventful
<1>1. CASE GraphFound
  <2>1. kind' = kind /\ at = DisposeAt(kind) - 3 /\ at' = DisposeAt(kind) - 2
    BY <1>1, <1>101 DEF Controlled, Loud
  <2> QED BY <1>1, <2>1 DEF GraphFound, Check
<1>2. CASE Introduce
  <2>1. kind' = kind /\ at = PrepareAt(kind) + 6 /\ at' = PrepareAt(kind) + 7
    BY <1>2, <1>101 DEF Controlled, Loud
  <2> QED BY <1>2, <2>1 DEF Introduce, InputsIntact, Materialised
<1>3. CASE MakeVolume("inputVolume")
  <2>1. kind' = kind /\ at = PrepareAt(kind) + 1 /\ at' = PrepareAt(kind) + 2
    BY <1>3, <1>101 DEF Controlled, Loud
  <2> QED BY <1>3, <2>1 DEF MakeVolume
<1>4. CASE MakeVolume("outputVolume")
  <2>1. kind' = kind /\ at = PrepareAt(kind) + 2 /\ at' = PrepareAt(kind) + 3
    BY <1>4, <1>101 DEF Controlled, Loud
  <2> QED BY <1>4, <2>1 DEF MakeVolume
<1>5. CASE DropVolume("inputVolume")
  <2>1. kind' = kind /\ at = DisposeAt(kind) + 3 /\ at' = DisposeAt(kind) + 4
    BY <1>5, <1>101 DEF Controlled, Loud
  <2> QED BY <1>5, <2>1 DEF DropVolume, InUse, Worsens
<1>6. CASE DropVolume("outputVolume")
  <2>1. kind' = kind /\ at = DisposeAt(kind) + 2 /\ at' = DisposeAt(kind) + 3
    BY <1>6, <1>101 DEF Controlled, Loud
  <2> QED BY <1>6, <2>1 DEF DropVolume, InUse, Worsens
<1>7. CASE DropFails("inputVolume")
  <2>1. kind' = kind /\ at = DisposeAt(kind) + 3 /\ at' = DisposeAt(kind) + 4
    BY <1>7, <1>101 DEF Controlled, Loud
  <2> QED BY <1>7, <2>1 DEF DropFails, Worsens
<1>8. CASE DropFails("outputVolume")
  <2>1. kind' = kind /\ at = DisposeAt(kind) + 2 /\ at' = DisposeAt(kind) + 3
    BY <1>8, <1>101 DEF Controlled, Loud
  <2> QED BY <1>8, <2>1 DEF DropFails, Worsens
<1>9. CASE Create("preparation")
  <2>1. kind' = kind /\ at = PrepareAt(kind) + 3 /\ at' = PrepareAt(kind) + 4
    BY <1>9, <1>101 DEF Controlled, Loud
  <2> QED BY <1>9, <2>1 DEF Create
<1>10. CASE Create("build")
  <2>1. kind' = kind /\ at = PrepareAt(kind) + 7 /\ at' = PrepareAt(kind) + 8
    BY <1>10, <1>101 DEF Controlled, Loud
  <2> QED BY <1>10, <2>1 DEF Create
<1>11. CASE StartTrace("preparation")
  <2>1. kind' = kind /\ at = PrepareAt(kind) + 4 /\ at' = PrepareAt(kind) + 5
    BY <1>11, <1>101 DEF Controlled, Loud
  <2> QED BY <1>11, <2>1 DEF StartTrace
<1>12. CASE StartTrace("build")
  <2>1. kind' = kind /\ at = PrepareAt(kind) + 8 /\ at' = PrepareAt(kind) + 9
    BY <1>12, <1>101 DEF Controlled, Loud
  <2> QED BY <1>12, <2>1 DEF StartTrace
<1>13. CASE Start("preparation")
  <2>1. kind' = kind /\ at = PrepareAt(kind) + 5 /\ at' = PrepareAt(kind) + 6
    BY <1>13, <1>101 DEF Controlled, Loud
  <2> QED BY <1>13, <2>1 DEF Start
<1>14. CASE Start("build")
  <2>1. kind' = kind /\ at = PrepareAt(kind) + 9 /\ at' = PrepareAt(kind) + 10
    BY <1>14, <1>101 DEF Controlled, Loud
  <2> QED BY <1>14, <2>1 DEF Start
<1>15. CASE DisposeRuntime("preparation")
  <2>1. kind' = kind /\ at = DisposeAt(kind) + 1 /\ at' = DisposeAt(kind) + 2
    BY <1>15, <1>101 DEF Controlled, Loud
  <2> QED BY <1>15, <2>1 DEF DisposeRuntime, RemoveRuntime, Collected, Incomplete
<1>16. CASE DisposeRuntime("build")
  <2>1. kind' = kind /\ at = DisposeAt(kind) /\ at' = DisposeAt(kind) + 1
    BY <1>16, <1>101 DEF Controlled, Loud
  <2> QED BY <1>16, <2>1 DEF DisposeRuntime, RemoveRuntime, Collected, Incomplete
<1>17. CASE DisposeNothing("preparation")
  <2>1. kind' = kind /\ at = DisposeAt(kind) + 1 /\ at' = DisposeAt(kind) + 2
    BY <1>17, <1>101 DEF Controlled, Loud
  <2> QED BY <1>17, <2>1 DEF DisposeNothing
<1>18. CASE DisposeNothing("build")
  <2>1. kind' = kind /\ at = DisposeAt(kind) /\ at' = DisposeAt(kind) + 1
    BY <1>18, <1>101 DEF Controlled, Loud
  <2> QED BY <1>18, <2>1 DEF DisposeNothing
<1>19. CASE DisposeFails("preparation")
  <2>1. kind' = kind /\ at = DisposeAt(kind) + 1 /\ at' = DisposeAt(kind) + 2
    BY <1>19, <1>101 DEF Controlled, Loud
  <2> QED BY <1>19, <2>1 DEF DisposeFails, Collected, Worsens
<1>20. CASE DisposeFails("build")
  <2>1. kind' = kind /\ at = DisposeAt(kind) /\ at' = DisposeAt(kind) + 1
    BY <1>20, <1>101 DEF Controlled, Loud
  <2> QED BY <1>20, <2>1 DEF DisposeFails, Collected, Worsens
<1>21. CASE CreateLost("inputVolume")
  <2>1. kind' = kind /\ at = PrepareAt(kind) + 1 /\ at' = DisposeAt(kind)
    BY <1>21, <1>101 DEF Controlled, Loud
  <2> QED BY <1>21, <2>1 DEF CreateLost, Refuses, Fails
<1>22. CASE CreateLost("outputVolume")
  <2>1. kind' = kind /\ at = PrepareAt(kind) + 2 /\ at' = DisposeAt(kind)
    BY <1>22, <1>101 DEF Controlled, Loud
  <2> QED BY <1>22, <2>1 DEF CreateLost, Refuses, Fails
<1>23. CASE CreateLost("preparation")
  <2>1. kind' = kind /\ at = PrepareAt(kind) + 3 /\ at' = DisposeAt(kind)
    BY <1>23, <1>101 DEF Controlled, Loud
  <2> QED BY <1>23, <2>1 DEF CreateLost, Refuses, Fails
<1>24. CASE CreateLost("build")
  <2>1. kind' = kind /\ at = PrepareAt(kind) + 7 /\ at' = DisposeAt(kind)
    BY <1>24, <1>101 DEF Controlled, Loud
  <2> QED BY <1>24, <2>1 DEF CreateLost, Refuses, Fails
<1>25. CASE RemovePreparation
  <2>1. kind' = kind /\ at = PrepareAt(kind) + 10 /\ at' \in {PrepareAt(kind) + 11, DisposeAt(kind)}
    BY <1>25, <1>101 DEF Controlled, Loud
  <2> QED BY <1>25, <2>1 DEF RemovePreparation, RemoveRuntime, Collected, Incomplete, Refuses,
     Fails
<1>26. CASE RemoveFails
  <2>1. kind' = kind /\ at = PrepareAt(kind) + 10 /\ at' = DisposeAt(kind)
    BY <1>26, <1>101 DEF Controlled, Loud
  <2> QED BY <1>26, <2>1 DEF RemoveFails, Collected, Refuses, Fails
<1>27. CASE \E o \in {"validation", "build"} : RunBuild(o)
  <2>1. kind' = kind /\ at > PrepareAt(kind) + 10 /\ at < DisposeAt(kind) - 4 /\ at' = at + 1
    BY <1>27, <1>101 DEF Controlled, Loud
  <2> QED BY <1>27, <2>1 DEF RunBuild
<1>28. CASE Capture
  <2>1. kind' = kind /\ at = DisposeAt(kind) - 2 /\ at' = DisposeAt(kind) - 1
    BY <1>28, <1>101 DEF Controlled, Loud
  <2> QED BY <1>28, <2>1 DEF Capture
<1>29. CASE CaptureFiltered
  <2>1. kind' = kind /\ at = DisposeAt(kind) - 2 /\ at' = DisposeAt(kind) - 1
    BY <1>29, <1>101 DEF Controlled, Loud
  <2> QED BY <1>29, <2>1 DEF CaptureFiltered
<1>30. CASE Settle
  <2>1. /\ kind' = kind /\ at = DisposeAt(kind) + 4
        /\ at' \in {DisposeAt(kind) + 5, AnswerAt(kind) + 2}
    BY <1>30, <1>101 DEF Controlled, Loud
  <2> QED BY <1>30, <2>1 DEF Settle
<1>31. CASE Decide
  <2>1. /\ kind' = kind /\ at = DisposeAt(kind) + 6
        /\ at' \in {DisposeAt(kind) + 7, AnswerAt(kind) + 2}
    BY <1>31, <1>101 DEF Controlled, Loud
  <2> QED BY <1>31, <2>1 DEF Decide
<1>32. CASE MakeTree
  <2>1. kind' = kind /\ at = MakeAt(kind) /\ at' = MakeAt(kind)
    BY <1>32, <1>101 DEF Controlled, Loud
  <2> QED BY <1>32, <2>1 DEF MakeTree
<1>33. CASE Rename
  <2>1. kind' = kind /\ at = RenameAt(kind) /\ at' = RenameAt(kind) + 1
    BY <1>33, <1>101 DEF Controlled, Loud
  <2> QED BY <1>33, <2>1 DEF Rename
<1>34. CASE AnswerSuccess
  <2>1. kind' = kind /\ at = AnswerAt(kind) /\ at' = AnswerAt(kind) + 2
    BY <1>34, <1>101 DEF Controlled, Loud
  <2> QED BY <1>34, <2>1 DEF AnswerSuccess
<1>35. CASE RollBack
  <2>1. kind' = kind /\ at = AnswerAt(kind) + 1 /\ at' = AnswerAt(kind) + 1
    BY <1>35, <1>101 DEF Controlled, Loud
  <2> QED BY <1>35, <2>1 DEF RollBack
<1>36. CASE RollBackRefused
  <2>1. kind' = kind /\ at = AnswerAt(kind) + 1 /\ at' = AnswerAt(kind) + 2
    BY <1>36, <1>101 DEF Controlled, Loud
  <2> QED BY <1>36, <2>1 DEF RollBackRefused, Worsens
<1>37. CASE RollBackFails
  <2>1. kind' = kind /\ at = AnswerAt(kind) + 1 /\ at' = AnswerAt(kind) + 2
    BY <1>37, <1>101 DEF Controlled, Loud
  <2> QED BY <1>37, <2>1 DEF RollBackFails, Worsens
<1>38. CASE CloseGuard
  <2>1. kind' = kind /\ at = AnswerAt(kind) + 2 /\ at' = AnswerAt(kind) + 3
    BY <1>38, <1>101 DEF Controlled, Loud
  <2> QED BY <1>38, <2>1 DEF CloseGuard
<1>39. CASE CloseFails
  <2>1. kind' = kind /\ at = AnswerAt(kind) + 2 /\ at' = AnswerAt(kind) + 3
    BY <1>39, <1>101 DEF Controlled, Loud
  <2> QED BY <1>39, <2>1 DEF CloseFails
<1>40. CASE Kill
  <2>1. kind' = kind /\ at' = AnswerAt(kind) + 3
    BY <1>40, <1>101 DEF Controlled, Loud
  <2> QED BY <1>40, <2>1 DEF Kill
<1>41. CASE \E n \in Names : PlaceTree(n)
  <2>1. kind' = kind /\ at' = at
    BY <1>41, <1>101 DEF Controlled, Loud
  <2> QED BY <1>41, <2>1 DEF PlaceTree
<1>42. CASE IdentifyTree
  <2>1. kind' = kind /\ at = MakeAt(kind) /\ at' = MakeAt(kind) + 1
    BY <1>42, <1>101 DEF Controlled, Loud
  <2> QED BY <1>42, <2>1 DEF IdentifyTree
<1>43. CASE AnswerFails
  <2>1. /\ kind' = kind /\ at = AnswerAt(kind)
        /\ at' \in {AnswerAt(kind) + 1, AnswerAt(kind) + 2}
    BY <1>43, <1>101 DEF Controlled, Loud
  <2> QED BY <1>43, <2>1 DEF AnswerFails, Fails, Worsens
<1>44. CASE RemoveTree
  <2>1. kind' = kind /\ at = AnswerAt(kind) + 1 /\ at' = AnswerAt(kind) + 2
    BY <1>44, <1>101 DEF Controlled, Loud
  <2> QED BY <1>44, <2>1 DEF RemoveTree
<1>45. CASE CaptureLeaves
  <2>1. kind' = kind /\ at = DisposeAt(kind) - 2 /\ at' = DisposeAt(kind)
    BY <1>45, <1>101 DEF Controlled, Loud
  <2> QED BY <1>45, <2>1 DEF CaptureLeaves, Refuses, Fails
<1>46. CASE SettleFails
  <2>1. kind' = kind /\ at = DisposeAt(kind) + 4 /\ at' = AnswerAt(kind) + 2
    BY <1>46, <1>101 DEF Controlled, Loud
  <2> QED BY <1>46, <2>1 DEF SettleFails, Worsens
<1> QED BY <1>50, <1>1, <1>2, <1>3, <1>4, <1>5, <1>6, <1>7, <1>8, <1>9, <1>10, <1>11, <1>12,
      <1>13, <1>14, <1>15, <1>16, <1>17, <1>18, <1>19, <1>20, <1>21, <1>22, <1>23, <1>24,
      <1>25, <1>26, <1>27, <1>28, <1>29, <1>30, <1>31, <1>32, <1>33, <1>34, <1>35, <1>36,
      <1>37, <1>38, <1>39, <1>40, <1>41, <1>42, <1>43, <1>44, <1>45, <1>46, Moves DEF Loud

\* What is known is removed, or the clean-up says that it is not.
LEMMA RemovedStep ==
  ASSUME TypeOK, Placed, Removed, Next
  PROVE  Removed'
<1>100. Somewhere
  BY DEF TypeOK
<1>101. Loud => Controlled(PrepareAt(kind), DisposeAt(kind),
                           MakeAt(kind), RenameAt(kind), AnswerAt(kind))
  BY <1>100, Controls
<1> USE Numbers, <1>100
<1> USE DEF world, guarded, sandbox, place, Fault, TypeOK, Names, Runtimes, Volumes, Removed, Placed
<1>50. CASE Quiet
  BY <1>50, Ends DEF Quiet, GoesOn, Skips, GivesUp, Uneventful
<1>1. CASE GraphFound
  <2>1. kind' = kind /\ at = DisposeAt(kind) - 3 /\ at' = DisposeAt(kind) - 2
    BY <1>1, <1>101 DEF Controlled, Loud
  <2> QED BY <1>1, <2>1 DEF GraphFound, Check
<1>2. CASE Introduce
  <2>1. kind' = kind /\ at = PrepareAt(kind) + 6 /\ at' = PrepareAt(kind) + 7
    BY <1>2, <1>101 DEF Controlled, Loud
  <2> QED BY <1>2, <2>1 DEF Introduce, InputsIntact, Materialised
<1>3. CASE MakeVolume("inputVolume")
  <2>1. kind' = kind /\ at = PrepareAt(kind) + 1 /\ at' = PrepareAt(kind) + 2
    BY <1>3, <1>101 DEF Controlled, Loud
  <2> QED BY <1>3, <2>1 DEF MakeVolume
<1>4. CASE MakeVolume("outputVolume")
  <2>1. kind' = kind /\ at = PrepareAt(kind) + 2 /\ at' = PrepareAt(kind) + 3
    BY <1>4, <1>101 DEF Controlled, Loud
  <2> QED BY <1>4, <2>1 DEF MakeVolume
<1>5. CASE DropVolume("inputVolume")
  <2>1. kind' = kind /\ at = DisposeAt(kind) + 3 /\ at' = DisposeAt(kind) + 4
    BY <1>5, <1>101 DEF Controlled, Loud
  <2> QED BY <1>5, <2>1 DEF DropVolume, InUse, Worsens
<1>6. CASE DropVolume("outputVolume")
  <2>1. kind' = kind /\ at = DisposeAt(kind) + 2 /\ at' = DisposeAt(kind) + 3
    BY <1>6, <1>101 DEF Controlled, Loud
  <2> QED BY <1>6, <2>1 DEF DropVolume, InUse, Worsens
<1>7. CASE DropFails("inputVolume")
  <2>1. kind' = kind /\ at = DisposeAt(kind) + 3 /\ at' = DisposeAt(kind) + 4
    BY <1>7, <1>101 DEF Controlled, Loud
  <2> QED BY <1>7, <2>1 DEF DropFails, Worsens
<1>8. CASE DropFails("outputVolume")
  <2>1. kind' = kind /\ at = DisposeAt(kind) + 2 /\ at' = DisposeAt(kind) + 3
    BY <1>8, <1>101 DEF Controlled, Loud
  <2> QED BY <1>8, <2>1 DEF DropFails, Worsens
<1>9. CASE Create("preparation")
  <2>1. kind' = kind /\ at = PrepareAt(kind) + 3 /\ at' = PrepareAt(kind) + 4
    BY <1>9, <1>101 DEF Controlled, Loud
  <2> QED BY <1>9, <2>1 DEF Create
<1>10. CASE Create("build")
  <2>1. kind' = kind /\ at = PrepareAt(kind) + 7 /\ at' = PrepareAt(kind) + 8
    BY <1>10, <1>101 DEF Controlled, Loud
  <2> QED BY <1>10, <2>1 DEF Create
<1>11. CASE StartTrace("preparation")
  <2>1. kind' = kind /\ at = PrepareAt(kind) + 4 /\ at' = PrepareAt(kind) + 5
    BY <1>11, <1>101 DEF Controlled, Loud
  <2> QED BY <1>11, <2>1 DEF StartTrace
<1>12. CASE StartTrace("build")
  <2>1. kind' = kind /\ at = PrepareAt(kind) + 8 /\ at' = PrepareAt(kind) + 9
    BY <1>12, <1>101 DEF Controlled, Loud
  <2> QED BY <1>12, <2>1 DEF StartTrace
<1>13. CASE Start("preparation")
  <2>1. kind' = kind /\ at = PrepareAt(kind) + 5 /\ at' = PrepareAt(kind) + 6
    BY <1>13, <1>101 DEF Controlled, Loud
  <2> QED BY <1>13, <2>1 DEF Start
<1>14. CASE Start("build")
  <2>1. kind' = kind /\ at = PrepareAt(kind) + 9 /\ at' = PrepareAt(kind) + 10
    BY <1>14, <1>101 DEF Controlled, Loud
  <2> QED BY <1>14, <2>1 DEF Start
<1>15. CASE DisposeRuntime("preparation")
  <2>1. kind' = kind /\ at = DisposeAt(kind) + 1 /\ at' = DisposeAt(kind) + 2
    BY <1>15, <1>101 DEF Controlled, Loud
  <2> QED BY <1>15, <2>1 DEF DisposeRuntime, RemoveRuntime, Collected, Incomplete
<1>16. CASE DisposeRuntime("build")
  <2>1. kind' = kind /\ at = DisposeAt(kind) /\ at' = DisposeAt(kind) + 1
    BY <1>16, <1>101 DEF Controlled, Loud
  <2> QED BY <1>16, <2>1 DEF DisposeRuntime, RemoveRuntime, Collected, Incomplete
<1>17. CASE DisposeNothing("preparation")
  <2>1. kind' = kind /\ at = DisposeAt(kind) + 1 /\ at' = DisposeAt(kind) + 2
    BY <1>17, <1>101 DEF Controlled, Loud
  <2> QED BY <1>17, <2>1 DEF DisposeNothing
<1>18. CASE DisposeNothing("build")
  <2>1. kind' = kind /\ at = DisposeAt(kind) /\ at' = DisposeAt(kind) + 1
    BY <1>18, <1>101 DEF Controlled, Loud
  <2> QED BY <1>18, <2>1 DEF DisposeNothing
<1>19. CASE DisposeFails("preparation")
  <2>1. kind' = kind /\ at = DisposeAt(kind) + 1 /\ at' = DisposeAt(kind) + 2
    BY <1>19, <1>101 DEF Controlled, Loud
  <2> QED BY <1>19, <2>1 DEF DisposeFails, Collected, Worsens
<1>20. CASE DisposeFails("build")
  <2>1. kind' = kind /\ at = DisposeAt(kind) /\ at' = DisposeAt(kind) + 1
    BY <1>20, <1>101 DEF Controlled, Loud
  <2> QED BY <1>20, <2>1 DEF DisposeFails, Collected, Worsens
<1>21. CASE CreateLost("inputVolume")
  <2>1. kind' = kind /\ at = PrepareAt(kind) + 1 /\ at' = DisposeAt(kind)
    BY <1>21, <1>101 DEF Controlled, Loud
  <2> QED BY <1>21, <2>1 DEF CreateLost, Refuses, Fails
<1>22. CASE CreateLost("outputVolume")
  <2>1. kind' = kind /\ at = PrepareAt(kind) + 2 /\ at' = DisposeAt(kind)
    BY <1>22, <1>101 DEF Controlled, Loud
  <2> QED BY <1>22, <2>1 DEF CreateLost, Refuses, Fails
<1>23. CASE CreateLost("preparation")
  <2>1. kind' = kind /\ at = PrepareAt(kind) + 3 /\ at' = DisposeAt(kind)
    BY <1>23, <1>101 DEF Controlled, Loud
  <2> QED BY <1>23, <2>1 DEF CreateLost, Refuses, Fails
<1>24. CASE CreateLost("build")
  <2>1. kind' = kind /\ at = PrepareAt(kind) + 7 /\ at' = DisposeAt(kind)
    BY <1>24, <1>101 DEF Controlled, Loud
  <2> QED BY <1>24, <2>1 DEF CreateLost, Refuses, Fails
<1>25. CASE RemovePreparation
  <2>1. kind' = kind /\ at = PrepareAt(kind) + 10 /\ at' \in {PrepareAt(kind) + 11, DisposeAt(kind)}
    BY <1>25, <1>101 DEF Controlled, Loud
  <2> QED BY <1>25, <2>1 DEF RemovePreparation, RemoveRuntime, Collected, Incomplete, Refuses,
     Fails
<1>26. CASE RemoveFails
  <2>1. kind' = kind /\ at = PrepareAt(kind) + 10 /\ at' = DisposeAt(kind)
    BY <1>26, <1>101 DEF Controlled, Loud
  <2> QED BY <1>26, <2>1 DEF RemoveFails, Collected, Refuses, Fails
<1>27. CASE \E o \in {"validation", "build"} : RunBuild(o)
  <2>1. kind' = kind /\ at > PrepareAt(kind) + 10 /\ at < DisposeAt(kind) - 4 /\ at' = at + 1
    BY <1>27, <1>101 DEF Controlled, Loud
  <2> QED BY <1>27, <2>1 DEF RunBuild
<1>28. CASE Capture
  <2>1. kind' = kind /\ at = DisposeAt(kind) - 2 /\ at' = DisposeAt(kind) - 1
    BY <1>28, <1>101 DEF Controlled, Loud
  <2> QED BY <1>28, <2>1 DEF Capture
<1>29. CASE CaptureFiltered
  <2>1. kind' = kind /\ at = DisposeAt(kind) - 2 /\ at' = DisposeAt(kind) - 1
    BY <1>29, <1>101 DEF Controlled, Loud
  <2> QED BY <1>29, <2>1 DEF CaptureFiltered
<1>30. CASE Settle
  <2>1. /\ kind' = kind /\ at = DisposeAt(kind) + 4
        /\ at' \in {DisposeAt(kind) + 5, AnswerAt(kind) + 2}
    BY <1>30, <1>101 DEF Controlled, Loud
  <2> QED BY <1>30, <2>1 DEF Settle
<1>31. CASE Decide
  <2>1. /\ kind' = kind /\ at = DisposeAt(kind) + 6
        /\ at' \in {DisposeAt(kind) + 7, AnswerAt(kind) + 2}
    BY <1>31, <1>101 DEF Controlled, Loud
  <2> QED BY <1>31, <2>1 DEF Decide
<1>32. CASE MakeTree
  <2>1. kind' = kind /\ at = MakeAt(kind) /\ at' = MakeAt(kind)
    BY <1>32, <1>101 DEF Controlled, Loud
  <2> QED BY <1>32, <2>1 DEF MakeTree
<1>33. CASE Rename
  <2>1. kind' = kind /\ at = RenameAt(kind) /\ at' = RenameAt(kind) + 1
    BY <1>33, <1>101 DEF Controlled, Loud
  <2> QED BY <1>33, <2>1 DEF Rename
<1>34. CASE AnswerSuccess
  <2>1. kind' = kind /\ at = AnswerAt(kind) /\ at' = AnswerAt(kind) + 2
    BY <1>34, <1>101 DEF Controlled, Loud
  <2> QED BY <1>34, <2>1 DEF AnswerSuccess
<1>35. CASE RollBack
  <2>1. kind' = kind /\ at = AnswerAt(kind) + 1 /\ at' = AnswerAt(kind) + 1
    BY <1>35, <1>101 DEF Controlled, Loud
  <2> QED BY <1>35, <2>1 DEF RollBack
<1>36. CASE RollBackRefused
  <2>1. kind' = kind /\ at = AnswerAt(kind) + 1 /\ at' = AnswerAt(kind) + 2
    BY <1>36, <1>101 DEF Controlled, Loud
  <2> QED BY <1>36, <2>1 DEF RollBackRefused, Worsens
<1>37. CASE RollBackFails
  <2>1. kind' = kind /\ at = AnswerAt(kind) + 1 /\ at' = AnswerAt(kind) + 2
    BY <1>37, <1>101 DEF Controlled, Loud
  <2> QED BY <1>37, <2>1 DEF RollBackFails, Worsens
<1>38. CASE CloseGuard
  <2>1. kind' = kind /\ at = AnswerAt(kind) + 2 /\ at' = AnswerAt(kind) + 3
    BY <1>38, <1>101 DEF Controlled, Loud
  <2> QED BY <1>38, <2>1 DEF CloseGuard
<1>39. CASE CloseFails
  <2>1. kind' = kind /\ at = AnswerAt(kind) + 2 /\ at' = AnswerAt(kind) + 3
    BY <1>39, <1>101 DEF Controlled, Loud
  <2> QED BY <1>39, <2>1 DEF CloseFails
<1>40. CASE Kill
  <2>1. kind' = kind /\ at' = AnswerAt(kind) + 3
    BY <1>40, <1>101 DEF Controlled, Loud
  <2> QED BY <1>40, <2>1 DEF Kill
<1>41. CASE \E n \in Names : PlaceTree(n)
  <2>1. kind' = kind /\ at' = at
    BY <1>41, <1>101 DEF Controlled, Loud
  <2> QED BY <1>41, <2>1 DEF PlaceTree
<1>42. CASE IdentifyTree
  <2>1. kind' = kind /\ at = MakeAt(kind) /\ at' = MakeAt(kind) + 1
    BY <1>42, <1>101 DEF Controlled, Loud
  <2> QED BY <1>42, <2>1 DEF IdentifyTree
<1>43. CASE AnswerFails
  <2>1. /\ kind' = kind /\ at = AnswerAt(kind)
        /\ at' \in {AnswerAt(kind) + 1, AnswerAt(kind) + 2}
    BY <1>43, <1>101 DEF Controlled, Loud
  <2> QED BY <1>43, <2>1 DEF AnswerFails, Fails, Worsens
<1>44. CASE RemoveTree
  <2>1. kind' = kind /\ at = AnswerAt(kind) + 1 /\ at' = AnswerAt(kind) + 2
    BY <1>44, <1>101 DEF Controlled, Loud
  <2> QED BY <1>44, <2>1 DEF RemoveTree
<1>45. CASE CaptureLeaves
  <2>1. kind' = kind /\ at = DisposeAt(kind) - 2 /\ at' = DisposeAt(kind)
    BY <1>45, <1>101 DEF Controlled, Loud
  <2> QED BY <1>45, <2>1 DEF CaptureLeaves, Refuses, Fails
<1>46. CASE SettleFails
  <2>1. kind' = kind /\ at = DisposeAt(kind) + 4 /\ at' = AnswerAt(kind) + 2
    BY <1>46, <1>101 DEF Controlled, Loud
  <2> QED BY <1>46, <2>1 DEF SettleFails, Worsens
<1> QED BY <1>50, <1>1, <1>2, <1>3, <1>4, <1>5, <1>6, <1>7, <1>8, <1>9, <1>10, <1>11, <1>12,
      <1>13, <1>14, <1>15, <1>16, <1>17, <1>18, <1>19, <1>20, <1>21, <1>22, <1>23, <1>24,
      <1>25, <1>26, <1>27, <1>28, <1>29, <1>30, <1>31, <1>32, <1>33, <1>34, <1>35, <1>36,
      <1>37, <1>38, <1>39, <1>40, <1>41, <1>42, <1>43, <1>44, <1>45, <1>46, Moves DEF Loud

\* Only a whole sandbox that is gone leaves output.
LEMMA KeptStep ==
  ASSUME TypeOK, Placed, Standing, Kept, Next
  PROVE  Kept'
<1>100. Somewhere
  BY DEF TypeOK
<1>101. Loud => Controlled(PrepareAt(kind), DisposeAt(kind),
                           MakeAt(kind), RenameAt(kind), AnswerAt(kind))
  BY <1>100, Controls
<1> USE Numbers, <1>100
<1> USE DEF world, guarded, sandbox, place, Fault, TypeOK, Names, Runtimes, Volumes, Kept, Placed,
        Standing
<1>50. CASE Quiet
  BY <1>50, Ends DEF Quiet, GoesOn, Skips, GivesUp, Uneventful
<1>1. CASE GraphFound
  <2>1. kind' = kind /\ at = DisposeAt(kind) - 3 /\ at' = DisposeAt(kind) - 2
    BY <1>1, <1>101 DEF Controlled, Loud
  <2> QED BY <1>1, <2>1 DEF GraphFound, Check
<1>2. CASE Introduce
  <2>1. kind' = kind /\ at = PrepareAt(kind) + 6 /\ at' = PrepareAt(kind) + 7
    BY <1>2, <1>101 DEF Controlled, Loud
  <2> QED BY <1>2, <2>1 DEF Introduce, InputsIntact, Materialised
<1>3. CASE MakeVolume("inputVolume")
  <2>1. kind' = kind /\ at = PrepareAt(kind) + 1 /\ at' = PrepareAt(kind) + 2
    BY <1>3, <1>101 DEF Controlled, Loud
  <2> QED BY <1>3, <2>1 DEF MakeVolume
<1>4. CASE MakeVolume("outputVolume")
  <2>1. kind' = kind /\ at = PrepareAt(kind) + 2 /\ at' = PrepareAt(kind) + 3
    BY <1>4, <1>101 DEF Controlled, Loud
  <2> QED BY <1>4, <2>1 DEF MakeVolume
<1>5. CASE DropVolume("inputVolume")
  <2>1. kind' = kind /\ at = DisposeAt(kind) + 3 /\ at' = DisposeAt(kind) + 4
    BY <1>5, <1>101 DEF Controlled, Loud
  <2> QED BY <1>5, <2>1 DEF DropVolume, InUse, Worsens
<1>6. CASE DropVolume("outputVolume")
  <2>1. kind' = kind /\ at = DisposeAt(kind) + 2 /\ at' = DisposeAt(kind) + 3
    BY <1>6, <1>101 DEF Controlled, Loud
  <2> QED BY <1>6, <2>1 DEF DropVolume, InUse, Worsens
<1>7. CASE DropFails("inputVolume")
  <2>1. kind' = kind /\ at = DisposeAt(kind) + 3 /\ at' = DisposeAt(kind) + 4
    BY <1>7, <1>101 DEF Controlled, Loud
  <2> QED BY <1>7, <2>1 DEF DropFails, Worsens
<1>8. CASE DropFails("outputVolume")
  <2>1. kind' = kind /\ at = DisposeAt(kind) + 2 /\ at' = DisposeAt(kind) + 3
    BY <1>8, <1>101 DEF Controlled, Loud
  <2> QED BY <1>8, <2>1 DEF DropFails, Worsens
<1>9. CASE Create("preparation")
  <2>1. kind' = kind /\ at = PrepareAt(kind) + 3 /\ at' = PrepareAt(kind) + 4
    BY <1>9, <1>101 DEF Controlled, Loud
  <2> QED BY <1>9, <2>1 DEF Create
<1>10. CASE Create("build")
  <2>1. kind' = kind /\ at = PrepareAt(kind) + 7 /\ at' = PrepareAt(kind) + 8
    BY <1>10, <1>101 DEF Controlled, Loud
  <2> QED BY <1>10, <2>1 DEF Create
<1>11. CASE StartTrace("preparation")
  <2>1. kind' = kind /\ at = PrepareAt(kind) + 4 /\ at' = PrepareAt(kind) + 5
    BY <1>11, <1>101 DEF Controlled, Loud
  <2> QED BY <1>11, <2>1 DEF StartTrace
<1>12. CASE StartTrace("build")
  <2>1. kind' = kind /\ at = PrepareAt(kind) + 8 /\ at' = PrepareAt(kind) + 9
    BY <1>12, <1>101 DEF Controlled, Loud
  <2> QED BY <1>12, <2>1 DEF StartTrace
<1>13. CASE Start("preparation")
  <2>1. kind' = kind /\ at = PrepareAt(kind) + 5 /\ at' = PrepareAt(kind) + 6
    BY <1>13, <1>101 DEF Controlled, Loud
  <2> QED BY <1>13, <2>1 DEF Start
<1>14. CASE Start("build")
  <2>1. kind' = kind /\ at = PrepareAt(kind) + 9 /\ at' = PrepareAt(kind) + 10
    BY <1>14, <1>101 DEF Controlled, Loud
  <2> QED BY <1>14, <2>1 DEF Start
<1>15. CASE DisposeRuntime("preparation")
  <2>1. kind' = kind /\ at = DisposeAt(kind) + 1 /\ at' = DisposeAt(kind) + 2
    BY <1>15, <1>101 DEF Controlled, Loud
  <2> QED BY <1>15, <2>1 DEF DisposeRuntime, RemoveRuntime, Collected, Incomplete
<1>16. CASE DisposeRuntime("build")
  <2>1. kind' = kind /\ at = DisposeAt(kind) /\ at' = DisposeAt(kind) + 1
    BY <1>16, <1>101 DEF Controlled, Loud
  <2> QED BY <1>16, <2>1 DEF DisposeRuntime, RemoveRuntime, Collected, Incomplete
<1>17. CASE DisposeNothing("preparation")
  <2>1. kind' = kind /\ at = DisposeAt(kind) + 1 /\ at' = DisposeAt(kind) + 2
    BY <1>17, <1>101 DEF Controlled, Loud
  <2> QED BY <1>17, <2>1 DEF DisposeNothing
<1>18. CASE DisposeNothing("build")
  <2>1. kind' = kind /\ at = DisposeAt(kind) /\ at' = DisposeAt(kind) + 1
    BY <1>18, <1>101 DEF Controlled, Loud
  <2> QED BY <1>18, <2>1 DEF DisposeNothing
<1>19. CASE DisposeFails("preparation")
  <2>1. kind' = kind /\ at = DisposeAt(kind) + 1 /\ at' = DisposeAt(kind) + 2
    BY <1>19, <1>101 DEF Controlled, Loud
  <2> QED BY <1>19, <2>1 DEF DisposeFails, Collected, Worsens
<1>20. CASE DisposeFails("build")
  <2>1. kind' = kind /\ at = DisposeAt(kind) /\ at' = DisposeAt(kind) + 1
    BY <1>20, <1>101 DEF Controlled, Loud
  <2> QED BY <1>20, <2>1 DEF DisposeFails, Collected, Worsens
<1>21. CASE CreateLost("inputVolume")
  <2>1. kind' = kind /\ at = PrepareAt(kind) + 1 /\ at' = DisposeAt(kind)
    BY <1>21, <1>101 DEF Controlled, Loud
  <2> QED BY <1>21, <2>1 DEF CreateLost, Refuses, Fails
<1>22. CASE CreateLost("outputVolume")
  <2>1. kind' = kind /\ at = PrepareAt(kind) + 2 /\ at' = DisposeAt(kind)
    BY <1>22, <1>101 DEF Controlled, Loud
  <2> QED BY <1>22, <2>1 DEF CreateLost, Refuses, Fails
<1>23. CASE CreateLost("preparation")
  <2>1. kind' = kind /\ at = PrepareAt(kind) + 3 /\ at' = DisposeAt(kind)
    BY <1>23, <1>101 DEF Controlled, Loud
  <2> QED BY <1>23, <2>1 DEF CreateLost, Refuses, Fails
<1>24. CASE CreateLost("build")
  <2>1. kind' = kind /\ at = PrepareAt(kind) + 7 /\ at' = DisposeAt(kind)
    BY <1>24, <1>101 DEF Controlled, Loud
  <2> QED BY <1>24, <2>1 DEF CreateLost, Refuses, Fails
<1>25. CASE RemovePreparation
  <2>1. kind' = kind /\ at = PrepareAt(kind) + 10 /\ at' \in {PrepareAt(kind) + 11, DisposeAt(kind)}
    BY <1>25, <1>101 DEF Controlled, Loud
  <2> QED BY <1>25, <2>1 DEF RemovePreparation, RemoveRuntime, Collected, Incomplete, Refuses,
     Fails
<1>26. CASE RemoveFails
  <2>1. kind' = kind /\ at = PrepareAt(kind) + 10 /\ at' = DisposeAt(kind)
    BY <1>26, <1>101 DEF Controlled, Loud
  <2> QED BY <1>26, <2>1 DEF RemoveFails, Collected, Refuses, Fails
<1>27. CASE \E o \in {"validation", "build"} : RunBuild(o)
  <2>1. kind' = kind /\ at > PrepareAt(kind) + 10 /\ at < DisposeAt(kind) - 4 /\ at' = at + 1
    BY <1>27, <1>101 DEF Controlled, Loud
  <2> QED BY <1>27, <2>1 DEF RunBuild
<1>28. CASE Capture
  <2>1. kind' = kind /\ at = DisposeAt(kind) - 2 /\ at' = DisposeAt(kind) - 1
    BY <1>28, <1>101 DEF Controlled, Loud
  <2> QED BY <1>28, <2>1 DEF Capture
<1>29. CASE CaptureFiltered
  <2>1. kind' = kind /\ at = DisposeAt(kind) - 2 /\ at' = DisposeAt(kind) - 1
    BY <1>29, <1>101 DEF Controlled, Loud
  <2> QED BY <1>29, <2>1 DEF CaptureFiltered
<1>30. CASE Settle
  <2>1. /\ kind' = kind /\ at = DisposeAt(kind) + 4
        /\ at' \in {DisposeAt(kind) + 5, AnswerAt(kind) + 2}
    BY <1>30, <1>101 DEF Controlled, Loud
  <2>2. Pos("close", "guard") = AnswerAt(kind) + 2
    BY <1>100, Positions DEF Pos, Somewhere
  <2> QED BY <1>30, <2>1, <2>2 DEF Settle, Goes, Continues
<1>31. CASE Decide
  <2>1. /\ kind' = kind /\ at = DisposeAt(kind) + 6
        /\ at' \in {DisposeAt(kind) + 7, AnswerAt(kind) + 2}
    BY <1>31, <1>101 DEF Controlled, Loud
  <2>2. Pos("close", "guard") = AnswerAt(kind) + 2
    BY <1>100, Positions DEF Pos, Somewhere
  <2> QED BY <1>31, <2>1, <2>2 DEF Decide, Goes, Continues
<1>32. CASE MakeTree
  <2>1. kind' = kind /\ at = MakeAt(kind) /\ at' = MakeAt(kind)
    BY <1>32, <1>101 DEF Controlled, Loud
  <2> QED BY <1>32, <2>1 DEF MakeTree
<1>33. CASE Rename
  <2>1. kind' = kind /\ at = RenameAt(kind) /\ at' = RenameAt(kind) + 1
    BY <1>33, <1>101 DEF Controlled, Loud
  <2> QED BY <1>33, <2>1 DEF Rename
<1>34. CASE AnswerSuccess
  <2>1. kind' = kind /\ at = AnswerAt(kind) /\ at' = AnswerAt(kind) + 2
    BY <1>34, <1>101 DEF Controlled, Loud
  <2> QED BY <1>34, <2>1 DEF AnswerSuccess
<1>35. CASE RollBack
  <2>1. kind' = kind /\ at = AnswerAt(kind) + 1 /\ at' = AnswerAt(kind) + 1
    BY <1>35, <1>101 DEF Controlled, Loud
  <2> QED BY <1>35, <2>1 DEF RollBack
<1>36. CASE RollBackRefused
  <2>1. kind' = kind /\ at = AnswerAt(kind) + 1 /\ at' = AnswerAt(kind) + 2
    BY <1>36, <1>101 DEF Controlled, Loud
  <2> QED BY <1>36, <2>1 DEF RollBackRefused, Worsens
<1>37. CASE RollBackFails
  <2>1. kind' = kind /\ at = AnswerAt(kind) + 1 /\ at' = AnswerAt(kind) + 2
    BY <1>37, <1>101 DEF Controlled, Loud
  <2> QED BY <1>37, <2>1 DEF RollBackFails, Worsens
<1>38. CASE CloseGuard
  <2>1. kind' = kind /\ at = AnswerAt(kind) + 2 /\ at' = AnswerAt(kind) + 3
    BY <1>38, <1>101 DEF Controlled, Loud
  <2> QED BY <1>38, <2>1 DEF CloseGuard
<1>39. CASE CloseFails
  <2>1. kind' = kind /\ at = AnswerAt(kind) + 2 /\ at' = AnswerAt(kind) + 3
    BY <1>39, <1>101 DEF Controlled, Loud
  <2> QED BY <1>39, <2>1 DEF CloseFails
<1>40. CASE Kill
  <2>1. kind' = kind /\ at' = AnswerAt(kind) + 3
    BY <1>40, <1>101 DEF Controlled, Loud
  <2> QED BY <1>40, <2>1 DEF Kill
<1>41. CASE \E n \in Names : PlaceTree(n)
  <2>1. kind' = kind /\ at' = at
    BY <1>41, <1>101 DEF Controlled, Loud
  <2> QED BY <1>41, <2>1 DEF PlaceTree
<1>42. CASE IdentifyTree
  <2>1. kind' = kind /\ at = MakeAt(kind) /\ at' = MakeAt(kind) + 1
    BY <1>42, <1>101 DEF Controlled, Loud
  <2> QED BY <1>42, <2>1 DEF IdentifyTree
<1>43. CASE AnswerFails
  <2>1. /\ kind' = kind /\ at = AnswerAt(kind)
        /\ at' \in {AnswerAt(kind) + 1, AnswerAt(kind) + 2}
    BY <1>43, <1>101 DEF Controlled, Loud
  <2> QED BY <1>43, <2>1 DEF AnswerFails, Fails, Worsens
<1>44. CASE RemoveTree
  <2>1. kind' = kind /\ at = AnswerAt(kind) + 1 /\ at' = AnswerAt(kind) + 2
    BY <1>44, <1>101 DEF Controlled, Loud
  <2> QED BY <1>44, <2>1 DEF RemoveTree
<1>45. CASE CaptureLeaves
  <2>1. kind' = kind /\ at = DisposeAt(kind) - 2 /\ at' = DisposeAt(kind)
    BY <1>45, <1>101 DEF Controlled, Loud
  <2> QED BY <1>45, <2>1 DEF CaptureLeaves, Refuses, Fails
<1>46. CASE SettleFails
  <2>1. kind' = kind /\ at = DisposeAt(kind) + 4 /\ at' = AnswerAt(kind) + 2
    BY <1>46, <1>101 DEF Controlled, Loud
  <2> QED BY <1>46, <2>1 DEF SettleFails, Worsens
<1> QED BY <1>50, <1>1, <1>2, <1>3, <1>4, <1>5, <1>6, <1>7, <1>8, <1>9, <1>10, <1>11, <1>12,
      <1>13, <1>14, <1>15, <1>16, <1>17, <1>18, <1>19, <1>20, <1>21, <1>22, <1>23, <1>24,
      <1>25, <1>26, <1>27, <1>28, <1>29, <1>30, <1>31, <1>32, <1>33, <1>34, <1>35, <1>36,
      <1>37, <1>38, <1>39, <1>40, <1>41, <1>42, <1>43, <1>44, <1>45, <1>46, Moves DEF Loud

\* The graph is asked for after the last thing that was put into the sandbox.
LEMMA GraphedStep ==
  ASSUME TypeOK, Placed, Kept, Graphed, Next
  PROVE  Graphed'
<1>100. Somewhere
  BY DEF TypeOK
<1>101. Loud => Controlled(PrepareAt(kind), DisposeAt(kind),
                           MakeAt(kind), RenameAt(kind), AnswerAt(kind))
  BY <1>100, Controls
<1> USE Numbers, <1>100
<1> USE DEF world, guarded, sandbox, place, Fault, TypeOK, Names, Runtimes, Volumes,
        Graphed, Placed, Kept
<1>102. material' = material => (GraphApproved' <=> GraphApproved)
  BY DEF GraphApproved
<1>50. CASE Quiet
  BY <1>50, <1>102, Ends DEF Quiet, GoesOn, Skips, GivesUp, Uneventful
<1>1. CASE GraphFound
  <2>1. kind' = kind /\ at = DisposeAt(kind) - 3 /\ at' = DisposeAt(kind) - 2
    BY <1>1, <1>101 DEF Controlled, Loud
  <2>2. GraphApproved
    BY <1>1 DEF GraphFound, Check, Holds
  <2> QED BY <1>1, <2>1, <2>2, <1>102 DEF GraphFound, Check
<1>2. CASE Introduce
  <2>1. kind' = kind /\ at = PrepareAt(kind) + 6 /\ at' = PrepareAt(kind) + 7
    BY <1>2, <1>101 DEF Controlled, Loud
  <2> QED BY <1>2, <2>1, <1>102 DEF Introduce, InputsIntact, Materialised
<1>3. CASE MakeVolume("inputVolume")
  <2>1. kind' = kind /\ at = PrepareAt(kind) + 1 /\ at' = PrepareAt(kind) + 2
    BY <1>3, <1>101 DEF Controlled, Loud
  <2> QED BY <1>3, <2>1, <1>102 DEF MakeVolume
<1>4. CASE MakeVolume("outputVolume")
  <2>1. kind' = kind /\ at = PrepareAt(kind) + 2 /\ at' = PrepareAt(kind) + 3
    BY <1>4, <1>101 DEF Controlled, Loud
  <2> QED BY <1>4, <2>1, <1>102 DEF MakeVolume
<1>5. CASE DropVolume("inputVolume")
  <2>1. kind' = kind /\ at = DisposeAt(kind) + 3 /\ at' = DisposeAt(kind) + 4
    BY <1>5, <1>101 DEF Controlled, Loud
  <2> QED BY <1>5, <2>1, <1>102 DEF DropVolume, InUse, Worsens
<1>6. CASE DropVolume("outputVolume")
  <2>1. kind' = kind /\ at = DisposeAt(kind) + 2 /\ at' = DisposeAt(kind) + 3
    BY <1>6, <1>101 DEF Controlled, Loud
  <2> QED BY <1>6, <2>1, <1>102 DEF DropVolume, InUse, Worsens
<1>7. CASE DropFails("inputVolume")
  <2>1. kind' = kind /\ at = DisposeAt(kind) + 3 /\ at' = DisposeAt(kind) + 4
    BY <1>7, <1>101 DEF Controlled, Loud
  <2> QED BY <1>7, <2>1, <1>102 DEF DropFails, Worsens
<1>8. CASE DropFails("outputVolume")
  <2>1. kind' = kind /\ at = DisposeAt(kind) + 2 /\ at' = DisposeAt(kind) + 3
    BY <1>8, <1>101 DEF Controlled, Loud
  <2> QED BY <1>8, <2>1, <1>102 DEF DropFails, Worsens
<1>9. CASE Create("preparation")
  <2>1. kind' = kind /\ at = PrepareAt(kind) + 3 /\ at' = PrepareAt(kind) + 4
    BY <1>9, <1>101 DEF Controlled, Loud
  <2> QED BY <1>9, <2>1, <1>102 DEF Create
<1>10. CASE Create("build")
  <2>1. kind' = kind /\ at = PrepareAt(kind) + 7 /\ at' = PrepareAt(kind) + 8
    BY <1>10, <1>101 DEF Controlled, Loud
  <2> QED BY <1>10, <2>1, <1>102 DEF Create
<1>11. CASE StartTrace("preparation")
  <2>1. kind' = kind /\ at = PrepareAt(kind) + 4 /\ at' = PrepareAt(kind) + 5
    BY <1>11, <1>101 DEF Controlled, Loud
  <2> QED BY <1>11, <2>1, <1>102 DEF StartTrace
<1>12. CASE StartTrace("build")
  <2>1. kind' = kind /\ at = PrepareAt(kind) + 8 /\ at' = PrepareAt(kind) + 9
    BY <1>12, <1>101 DEF Controlled, Loud
  <2> QED BY <1>12, <2>1, <1>102 DEF StartTrace
<1>13. CASE Start("preparation")
  <2>1. kind' = kind /\ at = PrepareAt(kind) + 5 /\ at' = PrepareAt(kind) + 6
    BY <1>13, <1>101 DEF Controlled, Loud
  <2> QED BY <1>13, <2>1, <1>102 DEF Start
<1>14. CASE Start("build")
  <2>1. kind' = kind /\ at = PrepareAt(kind) + 9 /\ at' = PrepareAt(kind) + 10
    BY <1>14, <1>101 DEF Controlled, Loud
  <2> QED BY <1>14, <2>1, <1>102 DEF Start
<1>15. CASE DisposeRuntime("preparation")
  <2>1. kind' = kind /\ at = DisposeAt(kind) + 1 /\ at' = DisposeAt(kind) + 2
    BY <1>15, <1>101 DEF Controlled, Loud
  <2> QED BY <1>15, <2>1, <1>102 DEF DisposeRuntime, RemoveRuntime, Collected, Incomplete
<1>16. CASE DisposeRuntime("build")
  <2>1. kind' = kind /\ at = DisposeAt(kind) /\ at' = DisposeAt(kind) + 1
    BY <1>16, <1>101 DEF Controlled, Loud
  <2> QED BY <1>16, <2>1, <1>102 DEF DisposeRuntime, RemoveRuntime, Collected, Incomplete
<1>17. CASE DisposeNothing("preparation")
  <2>1. kind' = kind /\ at = DisposeAt(kind) + 1 /\ at' = DisposeAt(kind) + 2
    BY <1>17, <1>101 DEF Controlled, Loud
  <2> QED BY <1>17, <2>1, <1>102 DEF DisposeNothing
<1>18. CASE DisposeNothing("build")
  <2>1. kind' = kind /\ at = DisposeAt(kind) /\ at' = DisposeAt(kind) + 1
    BY <1>18, <1>101 DEF Controlled, Loud
  <2> QED BY <1>18, <2>1, <1>102 DEF DisposeNothing
<1>19. CASE DisposeFails("preparation")
  <2>1. kind' = kind /\ at = DisposeAt(kind) + 1 /\ at' = DisposeAt(kind) + 2
    BY <1>19, <1>101 DEF Controlled, Loud
  <2> QED BY <1>19, <2>1, <1>102 DEF DisposeFails, Collected, Worsens
<1>20. CASE DisposeFails("build")
  <2>1. kind' = kind /\ at = DisposeAt(kind) /\ at' = DisposeAt(kind) + 1
    BY <1>20, <1>101 DEF Controlled, Loud
  <2> QED BY <1>20, <2>1, <1>102 DEF DisposeFails, Collected, Worsens
<1>21. CASE CreateLost("inputVolume")
  <2>1. kind' = kind /\ at = PrepareAt(kind) + 1 /\ at' = DisposeAt(kind)
    BY <1>21, <1>101 DEF Controlled, Loud
  <2> QED BY <1>21, <2>1, <1>102 DEF CreateLost, Refuses, Fails
<1>22. CASE CreateLost("outputVolume")
  <2>1. kind' = kind /\ at = PrepareAt(kind) + 2 /\ at' = DisposeAt(kind)
    BY <1>22, <1>101 DEF Controlled, Loud
  <2> QED BY <1>22, <2>1, <1>102 DEF CreateLost, Refuses, Fails
<1>23. CASE CreateLost("preparation")
  <2>1. kind' = kind /\ at = PrepareAt(kind) + 3 /\ at' = DisposeAt(kind)
    BY <1>23, <1>101 DEF Controlled, Loud
  <2> QED BY <1>23, <2>1, <1>102 DEF CreateLost, Refuses, Fails
<1>24. CASE CreateLost("build")
  <2>1. kind' = kind /\ at = PrepareAt(kind) + 7 /\ at' = DisposeAt(kind)
    BY <1>24, <1>101 DEF Controlled, Loud
  <2> QED BY <1>24, <2>1, <1>102 DEF CreateLost, Refuses, Fails
<1>25. CASE RemovePreparation
  <2>1. kind' = kind /\ at = PrepareAt(kind) + 10 /\ at' \in {PrepareAt(kind) + 11, DisposeAt(kind)}
    BY <1>25, <1>101 DEF Controlled, Loud
  <2>2. Landing = DisposeAt(kind)
    BY <2>1, Landings
  <2> QED BY <1>25, <2>1, <2>2, <1>102 DEF RemovePreparation, RemoveRuntime, Collected,
        Incomplete, Refuses, Fails, Goes, Continues
<1>26. CASE RemoveFails
  <2>1. kind' = kind /\ at = PrepareAt(kind) + 10 /\ at' = DisposeAt(kind)
    BY <1>26, <1>101 DEF Controlled, Loud
  <2> QED BY <1>26, <2>1, <1>102 DEF RemoveFails, Collected, Refuses, Fails
<1>27. CASE \E o \in {"validation", "build"} : RunBuild(o)
  <2>1. kind' = kind /\ at > PrepareAt(kind) + 10 /\ at < DisposeAt(kind) - 4 /\ at' = at + 1
    BY <1>27, <1>101 DEF Controlled, Loud
  <2> QED BY <1>27, <2>1, <1>102 DEF RunBuild
<1>28. CASE Capture
  <2>1. kind' = kind /\ at = DisposeAt(kind) - 2 /\ at' = DisposeAt(kind) - 1
    BY <1>28, <1>101 DEF Controlled, Loud
  <2> QED BY <1>28, <2>1, <1>102 DEF Capture
<1>29. CASE CaptureFiltered
  <2>1. kind' = kind /\ at = DisposeAt(kind) - 2 /\ at' = DisposeAt(kind) - 1
    BY <1>29, <1>101 DEF Controlled, Loud
  <2> QED BY <1>29, <2>1, <1>102 DEF CaptureFiltered
<1>30. CASE Settle
  <2>1. /\ kind' = kind /\ at = DisposeAt(kind) + 4
        /\ at' \in {DisposeAt(kind) + 5, AnswerAt(kind) + 2}
    BY <1>30, <1>101 DEF Controlled, Loud
  <2> QED BY <1>30, <2>1, <1>102 DEF Settle
<1>31. CASE Decide
  <2>1. /\ kind' = kind /\ at = DisposeAt(kind) + 6
        /\ at' \in {DisposeAt(kind) + 7, AnswerAt(kind) + 2}
    BY <1>31, <1>101 DEF Controlled, Loud
  <2> QED BY <1>31, <2>1, <1>102 DEF Decide
<1>32. CASE MakeTree
  <2>1. kind' = kind /\ at = MakeAt(kind) /\ at' = MakeAt(kind)
    BY <1>32, <1>101 DEF Controlled, Loud
  <2> QED BY <1>32, <2>1, <1>102 DEF MakeTree
<1>33. CASE Rename
  <2>1. kind' = kind /\ at = RenameAt(kind) /\ at' = RenameAt(kind) + 1
    BY <1>33, <1>101 DEF Controlled, Loud
  <2> QED BY <1>33, <2>1, <1>102 DEF Rename
<1>34. CASE AnswerSuccess
  <2>1. kind' = kind /\ at = AnswerAt(kind) /\ at' = AnswerAt(kind) + 2
    BY <1>34, <1>101 DEF Controlled, Loud
  <2> QED BY <1>34, <2>1, <1>102 DEF AnswerSuccess
<1>35. CASE RollBack
  <2>1. kind' = kind /\ at = AnswerAt(kind) + 1 /\ at' = AnswerAt(kind) + 1
    BY <1>35, <1>101 DEF Controlled, Loud
  <2> QED BY <1>35, <2>1, <1>102 DEF RollBack
<1>36. CASE RollBackRefused
  <2>1. kind' = kind /\ at = AnswerAt(kind) + 1 /\ at' = AnswerAt(kind) + 2
    BY <1>36, <1>101 DEF Controlled, Loud
  <2> QED BY <1>36, <2>1, <1>102 DEF RollBackRefused, Worsens
<1>37. CASE RollBackFails
  <2>1. kind' = kind /\ at = AnswerAt(kind) + 1 /\ at' = AnswerAt(kind) + 2
    BY <1>37, <1>101 DEF Controlled, Loud
  <2> QED BY <1>37, <2>1, <1>102 DEF RollBackFails, Worsens
<1>38. CASE CloseGuard
  <2>1. kind' = kind /\ at = AnswerAt(kind) + 2 /\ at' = AnswerAt(kind) + 3
    BY <1>38, <1>101 DEF Controlled, Loud
  <2> QED BY <1>38, <2>1, <1>102 DEF CloseGuard
<1>39. CASE CloseFails
  <2>1. kind' = kind /\ at = AnswerAt(kind) + 2 /\ at' = AnswerAt(kind) + 3
    BY <1>39, <1>101 DEF Controlled, Loud
  <2> QED BY <1>39, <2>1, <1>102 DEF CloseFails
<1>40. CASE Kill
  <2>1. kind' = kind /\ at' = AnswerAt(kind) + 3
    BY <1>40, <1>101 DEF Controlled, Loud
  <2> QED BY <1>40, <2>1, <1>102 DEF Kill
<1>41. CASE \E n \in Names : PlaceTree(n)
  <2>1. kind' = kind /\ at' = at
    BY <1>41, <1>101 DEF Controlled, Loud
  <2> QED BY <1>41, <2>1, <1>102 DEF PlaceTree
<1>42. CASE IdentifyTree
  <2>1. kind' = kind /\ at = MakeAt(kind) /\ at' = MakeAt(kind) + 1
    BY <1>42, <1>101 DEF Controlled, Loud
  <2> QED BY <1>42, <2>1, <1>102 DEF IdentifyTree
<1>43. CASE AnswerFails
  <2>1. /\ kind' = kind /\ at = AnswerAt(kind)
        /\ at' \in {AnswerAt(kind) + 1, AnswerAt(kind) + 2}
    BY <1>43, <1>101 DEF Controlled, Loud
  <2> QED BY <1>43, <2>1, <1>102 DEF AnswerFails, Fails, Worsens
<1>44. CASE RemoveTree
  <2>1. kind' = kind /\ at = AnswerAt(kind) + 1 /\ at' = AnswerAt(kind) + 2
    BY <1>44, <1>101 DEF Controlled, Loud
  <2> QED BY <1>44, <2>1, <1>102 DEF RemoveTree
<1>45. CASE CaptureLeaves
  <2>1. kind' = kind /\ at = DisposeAt(kind) - 2 /\ at' = DisposeAt(kind)
    BY <1>45, <1>101 DEF Controlled, Loud
  <2> QED BY <1>45, <2>1, <1>102 DEF CaptureLeaves, Refuses, Fails
<1>46. CASE SettleFails
  <2>1. kind' = kind /\ at = DisposeAt(kind) + 4 /\ at' = AnswerAt(kind) + 2
    BY <1>46, <1>101 DEF Controlled, Loud
  <2> QED BY <1>46, <2>1, <1>102 DEF SettleFails, Worsens
<1> QED BY <1>50, <1>1, <1>2, <1>3, <1>4, <1>5, <1>6, <1>7, <1>8, <1>9, <1>10, <1>11, <1>12,
      <1>13, <1>14, <1>15, <1>16, <1>17, <1>18, <1>19, <1>20, <1>21, <1>22, <1>23, <1>24,
      <1>25, <1>26, <1>27, <1>28, <1>29, <1>30, <1>31, <1>32, <1>33, <1>34, <1>35, <1>36,
      <1>37, <1>38, <1>39, <1>40, <1>41, <1>42, <1>43, <1>44, <1>45, <1>46, Moves DEF Loud

\* The tree is made, renamed and taken back by the build alone.
LEMMA OwnedStep ==
  ASSUME TypeOK, Placed, Kept, Owned, Next
  PROVE  Owned'
<1>100. Somewhere
  BY DEF TypeOK
<1>101. Loud => Controlled(PrepareAt(kind), DisposeAt(kind),
                           MakeAt(kind), RenameAt(kind), AnswerAt(kind))
  BY <1>100, Controls
<1> USE Numbers, <1>100
<1> USE DEF world, guarded, sandbox, place, Fault, TypeOK, Names, Runtimes, Volumes, Owned, Own,
        Placed, Kept
<1>50. CASE Quiet
  BY <1>50, Ends DEF Quiet, GoesOn, Skips, GivesUp, Uneventful
<1>1. CASE GraphFound
  <2>1. kind' = kind /\ at = DisposeAt(kind) - 3 /\ at' = DisposeAt(kind) - 2
    BY <1>1, <1>101 DEF Controlled, Loud
  <2> QED BY <1>1, <2>1 DEF GraphFound, Check
<1>2. CASE Introduce
  <2>1. kind' = kind /\ at = PrepareAt(kind) + 6 /\ at' = PrepareAt(kind) + 7
    BY <1>2, <1>101 DEF Controlled, Loud
  <2> QED BY <1>2, <2>1 DEF Introduce, InputsIntact, Materialised
<1>3. CASE MakeVolume("inputVolume")
  <2>1. kind' = kind /\ at = PrepareAt(kind) + 1 /\ at' = PrepareAt(kind) + 2
    BY <1>3, <1>101 DEF Controlled, Loud
  <2> QED BY <1>3, <2>1 DEF MakeVolume
<1>4. CASE MakeVolume("outputVolume")
  <2>1. kind' = kind /\ at = PrepareAt(kind) + 2 /\ at' = PrepareAt(kind) + 3
    BY <1>4, <1>101 DEF Controlled, Loud
  <2> QED BY <1>4, <2>1 DEF MakeVolume
<1>5. CASE DropVolume("inputVolume")
  <2>1. kind' = kind /\ at = DisposeAt(kind) + 3 /\ at' = DisposeAt(kind) + 4
    BY <1>5, <1>101 DEF Controlled, Loud
  <2> QED BY <1>5, <2>1 DEF DropVolume, InUse, Worsens
<1>6. CASE DropVolume("outputVolume")
  <2>1. kind' = kind /\ at = DisposeAt(kind) + 2 /\ at' = DisposeAt(kind) + 3
    BY <1>6, <1>101 DEF Controlled, Loud
  <2> QED BY <1>6, <2>1 DEF DropVolume, InUse, Worsens
<1>7. CASE DropFails("inputVolume")
  <2>1. kind' = kind /\ at = DisposeAt(kind) + 3 /\ at' = DisposeAt(kind) + 4
    BY <1>7, <1>101 DEF Controlled, Loud
  <2> QED BY <1>7, <2>1 DEF DropFails, Worsens
<1>8. CASE DropFails("outputVolume")
  <2>1. kind' = kind /\ at = DisposeAt(kind) + 2 /\ at' = DisposeAt(kind) + 3
    BY <1>8, <1>101 DEF Controlled, Loud
  <2> QED BY <1>8, <2>1 DEF DropFails, Worsens
<1>9. CASE Create("preparation")
  <2>1. kind' = kind /\ at = PrepareAt(kind) + 3 /\ at' = PrepareAt(kind) + 4
    BY <1>9, <1>101 DEF Controlled, Loud
  <2> QED BY <1>9, <2>1 DEF Create
<1>10. CASE Create("build")
  <2>1. kind' = kind /\ at = PrepareAt(kind) + 7 /\ at' = PrepareAt(kind) + 8
    BY <1>10, <1>101 DEF Controlled, Loud
  <2> QED BY <1>10, <2>1 DEF Create
<1>11. CASE StartTrace("preparation")
  <2>1. kind' = kind /\ at = PrepareAt(kind) + 4 /\ at' = PrepareAt(kind) + 5
    BY <1>11, <1>101 DEF Controlled, Loud
  <2> QED BY <1>11, <2>1 DEF StartTrace
<1>12. CASE StartTrace("build")
  <2>1. kind' = kind /\ at = PrepareAt(kind) + 8 /\ at' = PrepareAt(kind) + 9
    BY <1>12, <1>101 DEF Controlled, Loud
  <2> QED BY <1>12, <2>1 DEF StartTrace
<1>13. CASE Start("preparation")
  <2>1. kind' = kind /\ at = PrepareAt(kind) + 5 /\ at' = PrepareAt(kind) + 6
    BY <1>13, <1>101 DEF Controlled, Loud
  <2> QED BY <1>13, <2>1 DEF Start
<1>14. CASE Start("build")
  <2>1. kind' = kind /\ at = PrepareAt(kind) + 9 /\ at' = PrepareAt(kind) + 10
    BY <1>14, <1>101 DEF Controlled, Loud
  <2> QED BY <1>14, <2>1 DEF Start
<1>15. CASE DisposeRuntime("preparation")
  <2>1. kind' = kind /\ at = DisposeAt(kind) + 1 /\ at' = DisposeAt(kind) + 2
    BY <1>15, <1>101 DEF Controlled, Loud
  <2> QED BY <1>15, <2>1 DEF DisposeRuntime, RemoveRuntime, Collected, Incomplete
<1>16. CASE DisposeRuntime("build")
  <2>1. kind' = kind /\ at = DisposeAt(kind) /\ at' = DisposeAt(kind) + 1
    BY <1>16, <1>101 DEF Controlled, Loud
  <2> QED BY <1>16, <2>1 DEF DisposeRuntime, RemoveRuntime, Collected, Incomplete
<1>17. CASE DisposeNothing("preparation")
  <2>1. kind' = kind /\ at = DisposeAt(kind) + 1 /\ at' = DisposeAt(kind) + 2
    BY <1>17, <1>101 DEF Controlled, Loud
  <2> QED BY <1>17, <2>1 DEF DisposeNothing
<1>18. CASE DisposeNothing("build")
  <2>1. kind' = kind /\ at = DisposeAt(kind) /\ at' = DisposeAt(kind) + 1
    BY <1>18, <1>101 DEF Controlled, Loud
  <2> QED BY <1>18, <2>1 DEF DisposeNothing
<1>19. CASE DisposeFails("preparation")
  <2>1. kind' = kind /\ at = DisposeAt(kind) + 1 /\ at' = DisposeAt(kind) + 2
    BY <1>19, <1>101 DEF Controlled, Loud
  <2> QED BY <1>19, <2>1 DEF DisposeFails, Collected, Worsens
<1>20. CASE DisposeFails("build")
  <2>1. kind' = kind /\ at = DisposeAt(kind) /\ at' = DisposeAt(kind) + 1
    BY <1>20, <1>101 DEF Controlled, Loud
  <2> QED BY <1>20, <2>1 DEF DisposeFails, Collected, Worsens
<1>21. CASE CreateLost("inputVolume")
  <2>1. kind' = kind /\ at = PrepareAt(kind) + 1 /\ at' = DisposeAt(kind)
    BY <1>21, <1>101 DEF Controlled, Loud
  <2> QED BY <1>21, <2>1 DEF CreateLost, Refuses, Fails
<1>22. CASE CreateLost("outputVolume")
  <2>1. kind' = kind /\ at = PrepareAt(kind) + 2 /\ at' = DisposeAt(kind)
    BY <1>22, <1>101 DEF Controlled, Loud
  <2> QED BY <1>22, <2>1 DEF CreateLost, Refuses, Fails
<1>23. CASE CreateLost("preparation")
  <2>1. kind' = kind /\ at = PrepareAt(kind) + 3 /\ at' = DisposeAt(kind)
    BY <1>23, <1>101 DEF Controlled, Loud
  <2> QED BY <1>23, <2>1 DEF CreateLost, Refuses, Fails
<1>24. CASE CreateLost("build")
  <2>1. kind' = kind /\ at = PrepareAt(kind) + 7 /\ at' = DisposeAt(kind)
    BY <1>24, <1>101 DEF Controlled, Loud
  <2> QED BY <1>24, <2>1 DEF CreateLost, Refuses, Fails
<1>25. CASE RemovePreparation
  <2>1. kind' = kind /\ at = PrepareAt(kind) + 10 /\ at' \in {PrepareAt(kind) + 11, DisposeAt(kind)}
    BY <1>25, <1>101 DEF Controlled, Loud
  <2> QED BY <1>25, <2>1 DEF RemovePreparation, RemoveRuntime, Collected, Incomplete, Refuses,
     Fails
<1>26. CASE RemoveFails
  <2>1. kind' = kind /\ at = PrepareAt(kind) + 10 /\ at' = DisposeAt(kind)
    BY <1>26, <1>101 DEF Controlled, Loud
  <2> QED BY <1>26, <2>1 DEF RemoveFails, Collected, Refuses, Fails
<1>27. CASE \E o \in {"validation", "build"} : RunBuild(o)
  <2>1. kind' = kind /\ at > PrepareAt(kind) + 10 /\ at < DisposeAt(kind) - 4 /\ at' = at + 1
    BY <1>27, <1>101 DEF Controlled, Loud
  <2> QED BY <1>27, <2>1 DEF RunBuild
<1>28. CASE Capture
  <2>1. kind' = kind /\ at = DisposeAt(kind) - 2 /\ at' = DisposeAt(kind) - 1
    BY <1>28, <1>101 DEF Controlled, Loud
  <2> QED BY <1>28, <2>1 DEF Capture
<1>29. CASE CaptureFiltered
  <2>1. kind' = kind /\ at = DisposeAt(kind) - 2 /\ at' = DisposeAt(kind) - 1
    BY <1>29, <1>101 DEF Controlled, Loud
  <2> QED BY <1>29, <2>1 DEF CaptureFiltered
<1>30. CASE Settle
  <2>1. /\ kind' = kind /\ at = DisposeAt(kind) + 4
        /\ at' \in {DisposeAt(kind) + 5, AnswerAt(kind) + 2}
    BY <1>30, <1>101 DEF Controlled, Loud
  <2> QED BY <1>30, <2>1 DEF Settle
<1>31. CASE Decide
  <2>1. /\ kind' = kind /\ at = DisposeAt(kind) + 6
        /\ at' \in {DisposeAt(kind) + 7, AnswerAt(kind) + 2}
    BY <1>31, <1>101 DEF Controlled, Loud
  <2> QED BY <1>31, <2>1 DEF Decide
<1>32. CASE MakeTree
  <2>1. kind' = kind /\ at = MakeAt(kind) /\ at' = MakeAt(kind)
    BY <1>32, <1>101 DEF Controlled, Loud
  <2> QED BY <1>32, <2>1 DEF MakeTree
<1>33. CASE Rename
  <2>1. kind' = kind /\ at = RenameAt(kind) /\ at' = RenameAt(kind) + 1
    BY <1>33, <1>101 DEF Controlled, Loud
  <2> QED BY <1>33, <2>1 DEF Rename
<1>34. CASE AnswerSuccess
  <2>1. kind' = kind /\ at = AnswerAt(kind) /\ at' = AnswerAt(kind) + 2
    BY <1>34, <1>101 DEF Controlled, Loud
  <2> QED BY <1>34, <2>1 DEF AnswerSuccess
<1>35. CASE RollBack
  <2>1. kind' = kind /\ at = AnswerAt(kind) + 1 /\ at' = AnswerAt(kind) + 1
    BY <1>35, <1>101 DEF Controlled, Loud
  <2> QED BY <1>35, <2>1 DEF RollBack
<1>36. CASE RollBackRefused
  <2>1. kind' = kind /\ at = AnswerAt(kind) + 1 /\ at' = AnswerAt(kind) + 2
    BY <1>36, <1>101 DEF Controlled, Loud
  <2> QED BY <1>36, <2>1 DEF RollBackRefused, Worsens
<1>37. CASE RollBackFails
  <2>1. kind' = kind /\ at = AnswerAt(kind) + 1 /\ at' = AnswerAt(kind) + 2
    BY <1>37, <1>101 DEF Controlled, Loud
  <2> QED BY <1>37, <2>1 DEF RollBackFails, Worsens
<1>38. CASE CloseGuard
  <2>1. kind' = kind /\ at = AnswerAt(kind) + 2 /\ at' = AnswerAt(kind) + 3
    BY <1>38, <1>101 DEF Controlled, Loud
  <2> QED BY <1>38, <2>1 DEF CloseGuard
<1>39. CASE CloseFails
  <2>1. kind' = kind /\ at = AnswerAt(kind) + 2 /\ at' = AnswerAt(kind) + 3
    BY <1>39, <1>101 DEF Controlled, Loud
  <2> QED BY <1>39, <2>1 DEF CloseFails
<1>40. CASE Kill
  <2>1. kind' = kind /\ at' = AnswerAt(kind) + 3
    BY <1>40, <1>101 DEF Controlled, Loud
  <2> QED BY <1>40, <2>1 DEF Kill
<1>41. CASE \E n \in Names : PlaceTree(n)
  <2>1. kind' = kind /\ at' = at
    BY <1>41, <1>101 DEF Controlled, Loud
  <2>2. /\ \A n \in Names : trees'[n] = trees[n] \/ trees'[n] \in {Nothing, "user"}
        /\ UNCHANGED <<output, behaviour, failed, result, name>>
    BY <1>41 DEF PlaceTree
  <2>3. \A n \in Names : Own(n)' => Own(n)
    BY <2>2, NothingAssumption
  <2> QED BY <2>1, <2>2, <2>3
<1>42. CASE IdentifyTree
  <2>1. kind' = kind /\ at = MakeAt(kind) /\ at' = MakeAt(kind) + 1
    BY <1>42, <1>101 DEF Controlled, Loud
  <2> QED BY <1>42, <2>1 DEF IdentifyTree
<1>43. CASE AnswerFails
  <2>1. /\ kind' = kind /\ at = AnswerAt(kind)
        /\ at' \in {AnswerAt(kind) + 1, AnswerAt(kind) + 2}
    BY <1>43, <1>101 DEF Controlled, Loud
  <2>2. failed' = "yes" => at' = AnswerAt(kind) + 1
    BY <1>43, <1>100, <2>1, Landings DEF AnswerFails, Fails, Goes, Worsens
  <2> QED BY <1>43, <2>1, <2>2 DEF AnswerFails
<1>44. CASE RemoveTree
  <2>1. kind' = kind /\ at = AnswerAt(kind) + 1 /\ at' = AnswerAt(kind) + 2
    BY <1>44, <1>101 DEF Controlled, Loud
  <2>2. /\ \A n \in Names : trees'[n] = IF n = name THEN Nothing ELSE trees[n]
        /\ UNCHANGED <<output, behaviour, failed, result, name>>
    BY <1>44 DEF RemoveTree
  <2>3. \A n \in Names : ~Own(n)'
    BY <2>2, NothingAssumption
  <2> QED BY <2>1, <2>2, <2>3
<1>45. CASE CaptureLeaves
  <2>1. kind' = kind /\ at = DisposeAt(kind) - 2 /\ at' = DisposeAt(kind)
    BY <1>45, <1>101 DEF Controlled, Loud
  <2> QED BY <1>45, <2>1 DEF CaptureLeaves, Refuses, Fails
<1>46. CASE SettleFails
  <2>1. kind' = kind /\ at = DisposeAt(kind) + 4 /\ at' = AnswerAt(kind) + 2
    BY <1>46, <1>101 DEF Controlled, Loud
  <2> QED BY <1>46, <2>1 DEF SettleFails, Worsens
<1> QED BY <1>50, <1>1, <1>2, <1>3, <1>4, <1>5, <1>6, <1>7, <1>8, <1>9, <1>10, <1>11, <1>12,
      <1>13, <1>14, <1>15, <1>16, <1>17, <1>18, <1>19, <1>20, <1>21, <1>22, <1>23, <1>24,
      <1>25, <1>26, <1>27, <1>28, <1>29, <1>30, <1>31, <1>32, <1>33, <1>34, <1>35, <1>36,
      <1>37, <1>38, <1>39, <1>40, <1>41, <1>42, <1>43, <1>44, <1>45, <1>46, Moves DEF Loud

\* Only a step that reads files leaves some to be read.
LEMMA ScanningStep ==
  ASSUME TypeOK, Scanning, Next
  PROVE  Scanning'
<1>100. kind' = kind => End' = End
  BY DEF End
<1> USE <1>100 DEF Scanning, Goes, Continues, Fails, Refuses, Worsens, Fault, Change, Doing,
        world, guarded, sandbox, place
<1>1. CASE TakeGuard
  BY <1>1 DEF TakeGuard
<1>2. CASE PlanControls
  BY <1>2 DEF PlanControls
<1>3. CASE BindInputs
  BY <1>3 DEF BindInputs
<1>4. CASE VerifySource
  BY <1>4 DEF VerifySource
<1>5. ASSUME NEW o \in Scans, BeginScan(o) PROVE Scanning'
  BY <1>5 DEF BeginScan
<1>6. ASSUME NEW o \in Scans, NEW i \in Items, Read(o, i) PROVE Scanning'
  BY <1>6 DEF Read
<1>7. ASSUME NEW o \in Scans, NEW i \in Items, ReadRefused(o, i) PROVE Scanning'
  BY <1>7 DEF ReadRefused
<1>8. ASSUME NEW o \in Checks, Check(o) PROVE Scanning'
  BY <1>8 DEF Check
<1>9. ASSUME NEW o \in Checks, CheckRefused(o) PROVE Scanning'
  BY <1>9 DEF CheckRefused
<1>10. ASSUME NEW o \in {"source", "cache"}, FreezeArchive(o) PROVE Scanning'
  BY <1>10 DEF FreezeArchive
<1>11. CASE PrepareInputs
  BY <1>11 DEF PrepareInputs, InputsIntact
<1>12. CASE Introduce
  BY <1>12 DEF Introduce, InputsIntact, Materialised
<1>13. CASE IntroduceRefused
  BY <1>13 DEF IntroduceRefused, InputsIntact
<1>14. ASSUME NEW v \in Volumes, MakeVolume(v) PROVE Scanning'
  BY <1>14 DEF MakeVolume
<1>15. ASSUME NEW v \in Volumes, DropVolume(v) PROVE Scanning'
  BY <1>15 DEF DropVolume, InUse, Runtimes
<1>16. ASSUME NEW v \in Volumes, DropFails(v) PROVE Scanning'
  BY <1>16 DEF DropFails
<1>17. ASSUME NEW r \in Runtimes, Create(r) PROVE Scanning'
  BY <1>17 DEF Create
<1>18. ASSUME NEW r \in Runtimes, StartTrace(r) PROVE Scanning'
  BY <1>18 DEF StartTrace
<1>19. ASSUME NEW r \in Runtimes, Start(r) PROVE Scanning'
  BY <1>19 DEF Start
<1>20. ASSUME NEW r \in Runtimes, DisposeRuntime(r) PROVE Scanning'
  BY <1>20 DEF DisposeRuntime, RemoveRuntime, Collected, Incomplete
<1>21. ASSUME NEW r \in Runtimes, DisposeNothing(r) PROVE Scanning'
  BY <1>21 DEF DisposeNothing
<1>22. ASSUME NEW r \in Runtimes, DisposeFails(r) PROVE Scanning'
  BY <1>22 DEF DisposeFails, Collected
<1>23. ASSUME NEW d \in Runtimes \cup Volumes, CreateLost(d) PROVE Scanning'
  BY <1>23 DEF CreateLost
<1>24. CASE RemovePreparation
  BY <1>24 DEF RemovePreparation, RemoveRuntime, Collected, Incomplete
<1>25. CASE RemoveFails
  BY <1>25 DEF RemoveFails, Collected
<1>26. ASSUME NEW o \in {"before", "after", "captured"}, VerifyRuntime(o) PROVE Scanning'
  BY <1>26 DEF VerifyRuntime, Verified
<1>27. CASE Configure
  BY <1>27 DEF Configure
<1>28. CASE AskRoles
  BY <1>28 DEF AskRoles
<1>29. CASE ExecRefused
  BY <1>29 DEF ExecRefused
<1>30. ASSUME NEW o \in {"validation", "build"}, RunBuild(o) PROVE Scanning'
  BY <1>30 DEF RunBuild
<1>31. CASE Capture
  BY <1>31 DEF Capture
<1>32. CASE CaptureFiltered
  BY <1>32 DEF CaptureFiltered
<1>33. CASE Settle
  BY <1>33 DEF Settle
<1>34. CASE RecordFacts
  BY <1>34 DEF RecordFacts
<1>35. CASE Decide
  BY <1>35 DEF Decide
<1>36. CASE BeginVerification
  BY <1>36 DEF BeginVerification
<1>37. CASE MakeTree
  BY <1>37 DEF MakeTree
<1>38. CASE MakeTreeRefused
  BY <1>38 DEF MakeTreeRefused
<1>39. CASE FillTree
  BY <1>39 DEF FillTree
<1>40. CASE FillRefused
  BY <1>40 DEF FillRefused
<1>41. CASE Rename
  BY <1>41 DEF Rename
<1>42. CASE RenameRefused
  BY <1>42 DEF RenameRefused
<1>43. CASE Confirm
  BY <1>43 DEF Confirm, Own
<1>44. CASE AnswerSuccess
  BY <1>44 DEF AnswerSuccess
<1>45. CASE RollBack
  BY <1>45 DEF RollBack
<1>46. CASE RollBackRefused
  BY <1>46 DEF RollBackRefused
<1>47. CASE RollBackFails
  BY <1>47 DEF RollBackFails
<1>48. CASE CloseGuard
  BY <1>48 DEF CloseGuard
<1>49. CASE CloseFails
  BY <1>49 DEF CloseFails
<1>50. CASE CallFails
  BY <1>50 DEF CallFails, Steady
<1>51. CASE Kill
  BY <1>51 DEF Kill
<1>52. ASSUME NEW i \in Items, ChangeItem(i) PROVE Scanning'
  BY <1>52 DEF ChangeItem
<1>53. ASSUME NEW n \in Names, PlaceTree(n) PROVE Scanning'
  BY <1>53 DEF PlaceTree
<1>54. CASE SpoilTree
  BY <1>54 DEF SpoilTree
<1>55. CASE IdentifyTree
  BY <1>55 DEF IdentifyTree
<1>56. CASE IdentifyRefused
  BY <1>56 DEF IdentifyRefused
<1>57. CASE CaptureLeaves
  BY <1>57 DEF CaptureLeaves
<1>58. CASE SettleFails
  BY <1>58 DEF SettleFails
<1>59. CASE AnswerFails
  BY <1>59 DEF AnswerFails
<1>60. CASE RemoveFile
  BY <1>60 DEF RemoveFile
<1>61. CASE RemoveTree
  BY <1>61 DEF RemoveTree
<1> QED BY <1>1, <1>2, <1>3, <1>4, <1>5, <1>6, <1>7, <1>8, <1>9, <1>10, <1>11, <1>12, <1>13,
      <1>14, <1>15, <1>16, <1>17, <1>18, <1>19, <1>20, <1>21, <1>22, <1>23, <1>24, <1>25,
      <1>26, <1>27, <1>28, <1>29, <1>30, <1>31, <1>32, <1>33, <1>34, <1>35, <1>36, <1>37,
      <1>38, <1>39, <1>40, <1>41, <1>42, <1>43, <1>44, <1>45, <1>46, <1>47, <1>48, <1>49,
      <1>50, <1>51, <1>52, <1>53, <1>54, <1>55, <1>56, <1>57, <1>58, <1>59, <1>60,
      <1>61 DEF Next, Build

\* Steps that do not touch what the last verification reads, or end it.
Aside ==
    /\ kind' = kind
    /\ at < RenameAt(kind) + 3 \/ UNCHANGED <<disk, since, snapshot>>
    /\ result' = "published" => result = "published" /\ UNCHANGED <<disk, since, snapshot>>
    /\ \/ at' <= RenameAt(kind) + 2
       \/ at' > AnswerAt(kind)
       \/ UNCHANGED <<at, left, disk, since, snapshot>>

\* The steps the last verification is about.
Reading ==
    \/ \E o \in Scans : BeginScan(o)
    \/ \E o \in Scans, i \in Items : Read(o, i)
    \/ \E o \in Checks : Check(o)
    \/ \E i \in Items : ChangeItem(i)
    \/ AnswerSuccess \/ BeginVerification

\* Every other step is outside the last verification or changes nothing it saw.
LEMMA Elsewhere ==
  ASSUME TypeOK, Placed, Next
  PROVE  Aside \/ Reading
<1> DEFINE P == PrepareAt(kind) D == DisposeAt(kind) M == MakeAt(kind) R == RenameAt(kind)
           A == AnswerAt(kind)
<1>100. Somewhere /\ Found(P, D, M, R, A)
  BY Located DEF TypeOK
<1>101. /\ P \in Nat /\ D \in Nat /\ M \in Nat /\ R \in Nat /\ A \in Nat /\ at \in Nat /\ at >= 1
       /\ P > 1 /\ D > P + 16 /\ M > D + 7 /\ R > M + 3 /\ A > R + 3
  BY <1>100, Numbers
<1>102. ASSUME Fails, at < A, at < D \/ at > D + 4 PROVE at' <= R + 2 \/ at' > A
  <2>1. GivesUp
    BY <1>100, <1>102, Refusals
  <2>2. at' = D \/ at' = A + 1 \/ at' = A + 2
    BY <2>1 DEF GivesUp
  <2> QED BY <2>2, <1>101
<1>103. Pos("close", "guard") = A + 2 /\ End = A + 3
  BY <1>100, Positions, Ends DEF Pos, Somewhere
<1>104. result = "published" => at > A + 1
  BY DEF Placed
<1> USE DEF Goes, Continues, Fault, Change, world, guarded, sandbox, place
<1>1. CASE TakeGuard
  <2>1. at < P
    BY <1>1, <1>100, <1>101 DEF TakeGuard, Found
  <2> QED BY <1>1, <2>1, <1>101, <1>104 DEF TakeGuard, Aside
<1>2. CASE PlanControls
  <2>1. at < P
    BY <1>2, <1>100, <1>101 DEF PlanControls, Found
  <2> QED BY <1>2, <2>1, <1>101, <1>104 DEF PlanControls, Aside
<1>3. CASE BindInputs
  <2>1. at < P
    BY <1>3, <1>100, <1>101 DEF BindInputs, Found
  <2> QED BY <1>3, <2>1, <1>101, <1>104 DEF BindInputs, Aside
<1>4. CASE VerifySource
  <2>1. at < P
    BY <1>4, <1>100, <1>101 DEF VerifySource, Found
  <2> QED BY <1>4, <2>1, <1>101, <1>104, <1>102 DEF VerifySource, Aside, Refuses
<1>5. ASSUME NEW o \in Scans, NEW i \in Items, ReadRefused(o, i) PROVE Aside
  <2>1. at < A /\ (at < D \/ at > D + 4)
    BY <1>5, <1>100, <1>101 DEF ReadRefused, Found, Scans, Verifying
  <2> QED BY <1>5, <2>1, <1>101, <1>104, <1>102 DEF ReadRefused, Aside, Refuses
<1>6. ASSUME NEW o \in Checks, CheckRefused(o) PROVE Aside
  <2>1. at < A /\ (at < D \/ at > D + 4)
    BY <1>6, <1>100, <1>101 DEF CheckRefused, Found, Checks, Verifying
  <2> QED BY <1>6, <2>1, <1>101, <1>104, <1>102 DEF CheckRefused, Aside, Refuses
<1>7. ASSUME NEW o \in {"source", "cache"}, FreezeArchive(o) PROVE Aside
  <2>1. at < P
    BY <1>7, <1>100, <1>101 DEF FreezeArchive, Found
  <2> QED BY <1>7, <2>1, <1>101, <1>104 DEF FreezeArchive, Aside
<1>8. CASE PrepareInputs
  <2>1. at = P
    BY <1>8, <1>100, <1>101 DEF PrepareInputs, Found
  <2> QED BY <1>8, <2>1, <1>101, <1>104, <1>102 DEF PrepareInputs, InputsIntact, Aside,
     Refuses
<1>9. CASE Introduce
  <2>1. at < D
    BY <1>9, <1>100, <1>101 DEF Introduce, Found
  <2> QED BY <1>9, <2>1, <1>101, <1>104 DEF Introduce, InputsIntact, Materialised, Aside
<1>10. CASE IntroduceRefused
  <2>1. at < D
    BY <1>10, <1>100, <1>101 DEF IntroduceRefused, Found
  <2> QED BY <1>10, <2>1, <1>101, <1>104, <1>102 DEF IntroduceRefused, InputsIntact, Aside,
     Refuses
<1>11. ASSUME NEW v \in Volumes, MakeVolume(v) PROVE Aside
  <2>1. at < D
    BY <1>11, <1>100, <1>101 DEF MakeVolume, Found, Volumes
  <2> QED BY <1>11, <2>1, <1>101, <1>104 DEF MakeVolume, Aside
<1>12. ASSUME NEW v \in Volumes, DropVolume(v) PROVE Aside
  <2>1. at < M
    BY <1>12, <1>100, <1>101 DEF DropVolume, Found, Volumes
  <2> QED BY <1>12, <2>1, <1>101, <1>104 DEF DropVolume, InUse, Runtimes, Worsens, Aside
<1>13. ASSUME NEW v \in Volumes, DropFails(v) PROVE Aside
  <2>1. at < M
    BY <1>13, <1>100, <1>101 DEF DropFails, Found, Volumes
  <2> QED BY <1>13, <2>1, <1>101, <1>104 DEF DropFails, Worsens, Aside
<1>14. ASSUME NEW r \in Runtimes, Create(r) PROVE Aside
  <2>1. at < D
    BY <1>14, <1>100, <1>101 DEF Create, Found, Runtimes
  <2> QED BY <1>14, <2>1, <1>101, <1>104 DEF Create, Aside
<1>15. ASSUME NEW r \in Runtimes, StartTrace(r) PROVE Aside
  <2>1. at < D
    BY <1>15, <1>100, <1>101 DEF StartTrace, Found, Runtimes
  <2> QED BY <1>15, <2>1, <1>101, <1>104 DEF StartTrace, Aside
<1>16. ASSUME NEW r \in Runtimes, Start(r) PROVE Aside
  <2>1. at < D
    BY <1>16, <1>100, <1>101 DEF Start, Found, Runtimes
  <2> QED BY <1>16, <2>1, <1>101, <1>104 DEF Start, Aside
<1>17. ASSUME NEW r \in Runtimes, DisposeRuntime(r) PROVE Aside
  <2>1. at < M
    BY <1>17, <1>100, <1>101 DEF DisposeRuntime, Found, Runtimes
  <2> QED BY <1>17, <2>1, <1>101, <1>104 DEF DisposeRuntime, RemoveRuntime, Collected,
     Incomplete, Aside
<1>18. ASSUME NEW r \in Runtimes, DisposeNothing(r) PROVE Aside
  <2>1. at < M
    BY <1>18, <1>100, <1>101 DEF DisposeNothing, Found, Runtimes
  <2> QED BY <1>18, <2>1, <1>101, <1>104 DEF DisposeNothing, Aside
<1>19. ASSUME NEW r \in Runtimes, DisposeFails(r) PROVE Aside
  <2>1. at < M
    BY <1>19, <1>100, <1>101 DEF DisposeFails, Found, Runtimes
  <2> QED BY <1>19, <2>1, <1>101, <1>104 DEF DisposeFails, Collected, Worsens, Aside
<1>20. ASSUME NEW d \in Runtimes \cup Volumes, CreateLost(d) PROVE Aside
  <2>1. at < D
    BY <1>20, <1>100, <1>101 DEF CreateLost, Found, Runtimes, Volumes
  <2> QED BY <1>20, <2>1, <1>101, <1>104, <1>102 DEF CreateLost, Aside, Refuses
<1>21. CASE RemovePreparation
  <2>1. at < D
    BY <1>21, <1>100, <1>101 DEF RemovePreparation, Found
  <2> QED BY <1>21, <2>1, <1>101, <1>104, <1>102 DEF RemovePreparation, RemoveRuntime,
     Collected, Incomplete, Aside, Refuses
<1>22. CASE RemoveFails
  <2>1. at < D
    BY <1>22, <1>100, <1>101 DEF RemoveFails, Found
  <2> QED BY <1>22, <2>1, <1>101, <1>104, <1>102 DEF RemoveFails, Collected, Aside, Refuses
<1>23. ASSUME NEW o \in {"before", "after", "captured"}, VerifyRuntime(o) PROVE Aside
  <2>1. at < D
    BY <1>23, <1>100, <1>101 DEF VerifyRuntime, Found
  <2> QED BY <1>23, <2>1, <1>101, <1>104, <1>102 DEF VerifyRuntime, Verified, Aside, Refuses
<1>24. CASE Configure
  <2>1. at < D
    BY <1>24, <1>100, <1>101 DEF Configure, Found
  <2> QED BY <1>24, <2>1, <1>101, <1>104 DEF Configure, Aside
<1>25. CASE AskRoles
  <2>1. at < D
    BY <1>25, <1>100, <1>101 DEF AskRoles, Found
  <2> QED BY <1>25, <2>1, <1>101, <1>104 DEF AskRoles, Aside
<1>26. CASE ExecRefused
  <2>1. at < A /\ (at < D \/ at > D + 4)
    BY <1>26, <1>100, Executes DEF ExecRefused
  <2> QED BY <1>26, <2>1, <1>101, <1>104, <1>102 DEF ExecRefused, Aside, Refuses
<1>27. ASSUME NEW o \in {"validation", "build"}, RunBuild(o) PROVE Aside
  <2>1. at < D
    BY <1>27, <1>100, <1>101 DEF RunBuild, Found
  <2> QED BY <1>27, <2>1, <1>101, <1>104 DEF RunBuild, Aside
<1>28. CASE Capture
  <2>1. at < D
    BY <1>28, <1>100, <1>101 DEF Capture, Found
  <2> QED BY <1>28, <2>1, <1>101, <1>104 DEF Capture, Aside
<1>29. CASE CaptureFiltered
  <2>1. at < D
    BY <1>29, <1>100, <1>101 DEF CaptureFiltered, Found
  <2> QED BY <1>29, <2>1, <1>101, <1>104 DEF CaptureFiltered, Aside
<1>30. CASE Settle
  <2>1. at < M
    BY <1>30, <1>100, <1>101 DEF Settle, Found
  <2> QED BY <1>30, <2>1, <1>101, <1>104, <1>103 DEF Settle, Aside
<1>31. CASE RecordFacts
  <2>1. at < M
    BY <1>31, <1>100, <1>101 DEF RecordFacts, Found
  <2> QED BY <1>31, <2>1, <1>101, <1>104 DEF RecordFacts, Aside
<1>32. CASE Decide
  <2>1. at < M
    BY <1>32, <1>100, <1>101 DEF Decide, Found
  <2> QED BY <1>32, <2>1, <1>101, <1>104, <1>103 DEF Decide, Aside
<1>33. CASE MakeTree
  <2>1. at = M
    BY <1>33, <1>100, <1>101 DEF MakeTree, Found
  <2> QED BY <1>33, <2>1, <1>101, <1>104 DEF MakeTree, Aside
<1>34. CASE MakeTreeRefused
  <2>1. at = M
    BY <1>34, <1>100, <1>101 DEF MakeTreeRefused, Found
  <2> QED BY <1>34, <2>1, <1>101, <1>104, <1>102 DEF MakeTreeRefused, Aside, Refuses
<1>35. CASE FillTree
  <2>1. at = M + 1
    BY <1>35, <1>100, <1>101 DEF FillTree, Found
  <2> QED BY <1>35, <2>1, <1>101, <1>104 DEF FillTree, Aside
<1>36. CASE FillRefused
  <2>1. at = M + 1
    BY <1>36, <1>100, <1>101 DEF FillRefused, Found
  <2> QED BY <1>36, <2>1, <1>101, <1>104, <1>102 DEF FillRefused, Aside, Refuses
<1>37. CASE Rename
  <2>1. at = R
    BY <1>37, <1>100, <1>101 DEF Rename, Found
  <2> QED BY <1>37, <2>1, <1>101, <1>104 DEF Rename, Aside
<1>38. CASE RenameRefused
  <2>1. at = R
    BY <1>38, <1>100, <1>101 DEF RenameRefused, Found
  <2> QED BY <1>38, <2>1, <1>101, <1>104, <1>102 DEF RenameRefused, Aside, Refuses
<1>39. CASE Confirm
  <2>1. at = R + 1
    BY <1>39, <1>100, <1>101 DEF Confirm, Found
  <2> QED BY <1>39, <2>1, <1>101, <1>104, <1>102 DEF Confirm, Own, Aside, Refuses
<1>40. CASE RollBack
  <2>1. at = A + 1
    BY <1>40, <1>100, <1>101 DEF RollBack, Found
  <2> QED BY <1>40, <2>1, <1>101, <1>104 DEF RollBack, Aside
<1>41. CASE RollBackRefused
  <2>1. at = A + 1
    BY <1>41, <1>100, <1>101 DEF RollBackRefused, Found
  <2> QED BY <1>41, <2>1, <1>101, <1>104 DEF RollBackRefused, Worsens, Aside
<1>42. CASE RollBackFails
  <2>1. at = A + 1
    BY <1>42, <1>100, <1>101 DEF RollBackFails, Found
  <2> QED BY <1>42, <2>1, <1>101, <1>104 DEF RollBackFails, Worsens, Aside
<1>43. CASE CloseGuard
  <2>1. at = A + 2
    BY <1>43, <1>100, <1>101 DEF CloseGuard, Found
  <2>2. Outcome = "published" => result = "published"
    BY DEF Outcome
  <2> QED BY <1>43, <2>1, <1>101, <1>104, <2>2 DEF CloseGuard, Aside
<1>44. CASE CloseFails
  <2>1. at = A + 2
    BY <1>44, <1>100, <1>101 DEF CloseFails, Found
  <2> QED BY <1>44, <2>1, <1>101, <1>104 DEF CloseFails, Aside
<1>45. CASE CallFails
  <2>1. at < A /\ (at < D \/ at > D + 4)
    BY <1>45, <1>100, Calls DEF CallFails
  <2> QED BY <1>45, <2>1, <1>101, <1>104, <1>102 DEF CallFails, Steady, Aside, Refuses
<1>46. CASE Kill
  BY <1>46, <1>101, <1>103 DEF Kill, Aside
<1>47. ASSUME NEW n \in Names, PlaceTree(n) PROVE Aside
  BY <1>47 DEF PlaceTree, Aside
<1>48. CASE SpoilTree
  BY <1>48 DEF SpoilTree, Aside
<1>49. CASE IdentifyTree
  <2>1. at = M
    BY <1>49, <1>100, <1>101 DEF IdentifyTree, Found
  <2> QED BY <1>49, <2>1, <1>101, <1>104 DEF IdentifyTree, Aside
<1>50. CASE IdentifyRefused
  <2>1. at = M
    BY <1>50, <1>100, <1>101 DEF IdentifyRefused, Found
  <2> QED BY <1>50, <2>1, <1>101, <1>104, <1>102 DEF IdentifyRefused, Aside, Refuses
<1>51. CASE CaptureLeaves
  <2>1. at < D
    BY <1>51, <1>100, <1>101 DEF CaptureLeaves, Found
  <2> QED BY <1>51, <2>1, <1>101, <1>104, <1>102 DEF CaptureLeaves, Aside, Refuses
<1>52. CASE SettleFails
  <2>1. at < M
    BY <1>52, <1>100, <1>101 DEF SettleFails, Found
  <2> QED BY <1>52, <2>1, <1>101, <1>104, <1>103 DEF SettleFails, Aside
<1>53. CASE AnswerFails
  <2>1. at = A /\ Landing = A + 1
    BY <1>53, <1>100, <1>101, Landings DEF AnswerFails, Found
  <2> QED BY <1>53, <2>1, <1>101, <1>104, <1>103 DEF AnswerFails, Fails, Aside
<1>54. CASE RemoveFile
  BY <1>54 DEF RemoveFile, Aside
<1>55. CASE RemoveTree
  <2>1. at = A + 1
    BY <1>55, <1>100, <1>101 DEF RemoveTree, Found
  <2> QED BY <1>55, <2>1, <1>101, <1>104 DEF RemoveTree, Aside
<1> QED BY <1>1, <1>2, <1>3, <1>4, <1>5, <1>6, <1>7, <1>8, <1>9, <1>10, <1>11, <1>12, <1>13,
      <1>14, <1>15, <1>16, <1>17, <1>18, <1>19, <1>20, <1>21, <1>22, <1>23, <1>24, <1>25,
      <1>26, <1>27, <1>28, <1>29, <1>30, <1>31, <1>32, <1>33, <1>34, <1>35, <1>36, <1>37,
      <1>38, <1>39, <1>40, <1>41, <1>42, <1>43, <1>44, <1>45, <1>46, <1>47, <1>48, <1>49,
      <1>50, <1>51, <1>52, <1>53, <1>54, <1>55 DEF Next, Build, Reading

\* What each scan reads.
LEMMA ScanSets ==
  /\ ScanSet("capture") = Files /\ ScanSet("compare") = Files
  /\ ScanSet("inventory") = Modules \cup {"receipt"} /\ ScanSet("copy") = Modules
BY DEF ScanSet

\* What the two scans of a verification compare.
LEMMA Expects ==
  ASSUME NEW i
  PROVE  /\ Expected("compare", i) => disk[i] = snapshot[i]
         /\ Expected("inventory", i) => disk[i] = 0
BY DEF Expected, SourceUnchanged, Inventoried

\* What was read stays as it was read, or is among what changed since.
LEMMA ReadAndChanged ==
  ASSUME TypeOK, NEW i \in Items, ChangeItem(i)
  PROVE  /\ \A items \in SUBSET Items : Untouched(items) => Untouched(items)'
         /\ \A files \in SUBSET Files : SourceAsBuilt(files) => SourceAsBuilt(files)'
<1>1. /\ disk' = [disk EXCEPT ![i] = 1 - disk[i]] /\ since' = since \cup {i}
      /\ UNCHANGED snapshot /\ disk \in [Items -> {0, 1}]
  BY DEF ChangeItem, guarded, TypeOK
<1>2. \A j \in Items : j # i => disk'[j] = disk[j]
  BY <1>1
<1>3. Files \subseteq Items
  BY DEF Items
<1> QED BY <1>1, <1>2, <1>3 DEF Untouched, SourceAsBuilt

\* The same for what a step of a verification established.
LEMMA SeenAndChanged ==
  ASSUME TypeOK, NEW i \in Items, ChangeItem(i), NEW CONSTANT s, Seen(s)
  PROVE  Seen(s)'
<1>1. /\ {"state"} \in SUBSET Items /\ {"evidence"} \in SUBSET Items /\ {"facts"} \in SUBSET Items
      /\ Modules \cup {"receipt"} \in SUBSET Items /\ Files \in SUBSET Files
  BY DEF Items, Records
<1>2. /\ Untouched({"state"}) => Untouched({"state"})'
      /\ Untouched({"evidence"}) => Untouched({"evidence"})'
      /\ Untouched({"facts"}) => Untouched({"facts"})'
      /\ Untouched(Modules \cup {"receipt"}) => Untouched(Modules \cup {"receipt"})'
      /\ SourceAsBuilt(Files) => SourceAsBuilt(Files)'
  BY <1>1, ReadAndChanged
<1> QED BY <1>2 DEF Seen

\* What a check compared is what a verification has seen.
LEMMA CheckedIsSeen ==
  ASSUME NEW o \in Checks, Holds(o)
  PROVE  Seen(<<"check", o>>)
<1>1. CASE o = "controls"
  BY <1>1 DEF Holds, ControlsUnchanged, Seen, Untouched
<1>2. CASE o = "evidence"
  BY <1>2 DEF Holds, EvidenceRecorded, Seen, Untouched
<1>3. CASE o = "facts"
  BY <1>3 DEF Holds, FactsRecorded, Seen, Untouched
<1>4. CASE o \notin {"controls", "evidence", "facts"}
  BY <1>4 DEF Seen
<1> QED BY <1>1, <1>2, <1>3, <1>4

\* The last verification sees everything it is about before success is told.
LEMMA WatchedStep ==
  ASSUME TypeOK, Placed, Scanning, Watched, Next
  PROVE  Watched'
<1> DEFINE R == RenameAt(kind) A == AnswerAt(kind)
<1>1. R \in Nat /\ A \in Nat /\ at \in Nat /\ A > R + 3 /\ kind \in {"go", "cargo"}
  BY Numbers DEF TypeOK, Somewhere
<1>2. Watched <=>
        /\ at > R + 2 /\ at <= A => \A j \in (R + 3)..(at - 1) : Seen(Program[kind][j])
        /\ at > R + 2 /\ at < A /\ left # {} =>
               /\ Program[kind][at] = <<"scan", "compare">> => SourceAsBuilt(Files \ left)
               /\ Program[kind][at] = <<"scan", "inventory">> =>
                      Untouched((Modules \cup {"receipt"}) \ left)
        /\ result = "published" => Fresh
  BY DEF Watched
<1>3. kind' = kind =>
       (Watched' <=>
        /\ at' > R + 2 /\ at' <= A => \A j \in (R + 3)..(at' - 1) : Seen(Program[kind][j])'
        /\ at' > R + 2 /\ at' < A /\ left' # {} =>
               /\ Program[kind][at'] = <<"scan", "compare">> => SourceAsBuilt(Files \ left)'
               /\ Program[kind][at'] = <<"scan", "inventory">> =>
                      Untouched((Modules \cup {"receipt"}) \ left)'
        /\ result' = "published" => Fresh')
  BY DEF Watched
<1>4. Found(PrepareAt(kind), DisposeAt(kind), MakeAt(kind), R, A)
  BY Located DEF TypeOK
<1>5. result = "published" => at > A + 1
  BY DEF Placed
<1>6. UNCHANGED <<disk, since, snapshot>> =>
        /\ \A step : Seen(step)' <=> Seen(step)
        /\ Fresh' <=> Fresh
        /\ UNCHANGED left => /\ SourceAsBuilt(Files \ left)' <=> SourceAsBuilt(Files \ left)
                             /\ Untouched((Modules \cup {"receipt"}) \ left)' <=>
                                Untouched((Modules \cup {"receipt"}) \ left)
  BY DEF Seen, Fresh, SourceAsBuilt, Untouched
<1>7. CASE Aside
  <2>1. kind' = kind /\ (result' = "published" => Fresh')
    BY <1>2, <1>6, <1>7 DEF Aside
  <2>2. CASE at' <= R + 2 \/ at' > A
    <3>1. ~(at' > R + 2 /\ at' <= A) /\ ~(at' > R + 2 /\ at' < A)
      <4>1. TypeOK'
        BY TypeStep
      <4>2. kind' \in {"go", "cargo"} /\ at' \in 1..(AnswerAt(kind)' + 3)
        BY <4>1 DEF TypeOK, Somewhere
      <4>3. AnswerAt(kind)' = A
        BY <2>1
      <4>4. at' \in Nat
        BY <1>1, <4>2, <4>3
      <4> QED BY <1>1, <2>2, <4>4
    <3> QED BY <1>3, <2>1, <3>1
  <2>3. CASE UNCHANGED <<at, left, disk, since, snapshot>>
    BY <1>2, <1>3, <1>6, <2>1, <2>3
  <2> QED BY <1>7, <2>2, <2>3 DEF Aside
<1>8. ASSUME NEW o \in Scans, BeginScan(o) PROVE Watched'
  <2>1. /\ UNCHANGED <<kind, at, disk, since, snapshot, result>> /\ left = {} /\ left' = ScanSet(o)
        /\ Program[kind][at] = <<"scan", o>>
    BY <1>8 DEF BeginScan, Doing, guarded, world
  <2>2. Program[kind][at] = <<"scan", "compare">> => left' = Files
    BY <2>1, ScanSets
  <2>3. Program[kind][at] = <<"scan", "inventory">> => left' = Modules \cup {"receipt"}
    BY <2>1, ScanSets
  <2>4. Program[kind][at] = <<"scan", "compare">> => SourceAsBuilt(Files \ left)'
    BY <2>2 DEF SourceAsBuilt
  <2>5. Program[kind][at] = <<"scan", "inventory">> =>
           Untouched((Modules \cup {"receipt"}) \ left)'
    BY <2>3 DEF Untouched
  <2> QED BY <1>2, <1>3, <1>6, <2>1, <2>4, <2>5
<1>9. ASSUME NEW o \in Scans, NEW i \in Items, Read(o, i) PROVE Watched'
  <2>1. /\ UNCHANGED <<kind, disk, since, result>> /\ i \in left /\ left' = left \ {i}
        /\ Program[kind][at] = <<"scan", o>> /\ Doing("scan", o) /\ Expected(o, i)
        /\ IF left = {i} THEN at' = at + 1 ELSE at' = at
    BY <1>9 DEF Read, Doing, world, Continues, Goes
  <2>2. result # "published"
    <3>1. at < PrepareAt(kind) \/ Verifying(at, DisposeAt(kind), MakeAt(kind), R, A)
      BY <1>4, <2>1 DEF Found, Scans
    <3>2. at <= A
      BY <3>1, Numbers DEF Verifying, TypeOK
    <3> QED BY <1>1, <1>5, <3>2
  <2>3. CASE at <= R + 2
    <3>1. at < R + 2
      <4>1. at < PrepareAt(kind) \/ Verifying(at, DisposeAt(kind), MakeAt(kind), R, A)
        BY <1>4, <2>1 DEF Found, Scans
      <4> QED BY <2>3, <4>1, Numbers DEF Verifying, TypeOK
    <3>2. ~(at' > R + 2)
      BY <1>1, <2>1, <3>1
    <3> QED BY <1>3, <2>1, <2>2, <3>2
  <2>4. CASE at > R + 2
    <3>1. at < A /\ o \in {"compare", "inventory"}
      <4>1. at < PrepareAt(kind) \/ Verifying(at, DisposeAt(kind), MakeAt(kind), R, A)
        BY <1>4, <2>1 DEF Found, Scans
      <4>2. Doing("scan", "capture") \/ Doing("scan", "copy") => at < PrepareAt(kind)
        BY <1>4 DEF Found
      <4>3. PrepareAt(kind) < R /\ DisposeAt(kind) < R /\ MakeAt(kind) < R
            /\ PrepareAt(kind) \in Nat /\ DisposeAt(kind) \in Nat /\ MakeAt(kind) \in Nat
        BY Numbers DEF TypeOK
      <4>4. at >= PrepareAt(kind)
        BY <1>1, <2>4, <4>3
      <4>5. at < A
        BY <1>1, <2>4, <4>1, <4>3 DEF Verifying
      <4>6. o # "capture" /\ o # "copy"
        BY <1>1, <2>1, <4>2, <4>3, <4>4
      <4> QED BY <4>5, <4>6 DEF Scans
    <3>2. UNCHANGED snapshot
      BY <1>9, <3>1 DEF Read
    <3>3. \A step : Seen(step)' <=> Seen(step)
      BY <1>6, <2>1, <3>2
    <3>4. CASE o = "compare"
      <4>1. SourceAsBuilt(Files \ left) /\ disk[i] = snapshot[i]
        BY <1>2, <2>1, <2>4, <3>1, <3>4, Expects
      <4>2. SourceAsBuilt(Files \ left)'
        BY <2>1, <3>2, <4>1 DEF SourceAsBuilt
      <4>3. CASE left = {i}
        <5>1. Seen(<<"scan", "compare">>)
          BY <4>1, <4>3 DEF Seen, SourceAsBuilt
        <5>2. at' = at + 1 /\ left' = {}
          BY <2>1, <4>3
        <5>3. \A j \in (R + 3)..(at - 1) : Seen(Program[kind][j])
          BY <1>1, <1>2, <2>4, <3>1
        <5>4. \A j \in (R + 3)..at : Seen(Program[kind][j])
          BY <1>1, <2>1, <3>4, <5>1, <5>3
        <5>5. \A j \in (R + 3)..(at' - 1) : Seen(Program[kind][j])'
          BY <1>1, <2>1, <3>3, <5>2, <5>4
        <5> QED BY <1>3, <2>1, <2>2, <5>2, <5>5
      <4>4. CASE left # {i}
        <5>1. at' = at
          BY <2>1, <4>4
        <5>2. \A j \in (R + 3)..(at' - 1) : Seen(Program[kind][j])'
          BY <1>1, <1>2, <2>1, <2>4, <3>1, <3>3, <5>1
        <5>3. Program[kind][at'] # <<"scan", "inventory">>
          BY <2>1, <3>4, <5>1
        <5> QED BY <1>3, <2>1, <2>2, <4>2, <5>2, <5>3
      <4> QED BY <4>3, <4>4
    <3>5. CASE o = "inventory"
      <4>1. Untouched((Modules \cup {"receipt"}) \ left) /\ disk[i] = 0
        BY <1>2, <2>1, <2>4, <3>1, <3>5, Expects
      <4>2. Untouched((Modules \cup {"receipt"}) \ left)'
        BY <2>1, <3>2, <4>1 DEF Untouched
      <4>3. CASE left = {i}
        <5>1. Seen(<<"scan", "inventory">>)
          BY <4>1, <4>3 DEF Seen, Untouched
        <5>2. at' = at + 1 /\ left' = {}
          BY <2>1, <4>3
        <5>3. \A j \in (R + 3)..(at - 1) : Seen(Program[kind][j])
          BY <1>1, <1>2, <2>4, <3>1
        <5>4. \A j \in (R + 3)..at : Seen(Program[kind][j])
          BY <1>1, <2>1, <3>5, <5>1, <5>3
        <5>5. \A j \in (R + 3)..(at' - 1) : Seen(Program[kind][j])'
          BY <1>1, <2>1, <3>3, <5>2, <5>4
        <5> QED BY <1>3, <2>1, <2>2, <5>2, <5>5
      <4>4. CASE left # {i}
        <5>1. at' = at
          BY <2>1, <4>4
        <5>2. \A j \in (R + 3)..(at' - 1) : Seen(Program[kind][j])'
          BY <1>1, <1>2, <2>1, <2>4, <3>1, <3>3, <5>1
        <5>3. Program[kind][at'] # <<"scan", "compare">>
          BY <2>1, <3>5, <5>1
        <5> QED BY <1>3, <2>1, <2>2, <4>2, <5>2, <5>3
      <4> QED BY <4>3, <4>4
    <3> QED BY <3>1, <3>4, <3>5
  <2> QED BY <1>1, <2>3, <2>4
<1>10. ASSUME NEW o \in Checks, Check(o) PROVE Watched'
  <2>1. /\ UNCHANGED <<kind, left, disk, since, snapshot, result>> /\ at' = at + 1
        /\ Program[kind][at] = <<"check", o>> /\ Holds(o)
    BY <1>10 DEF Check, Doing, guarded, world, Continues, Goes
  <2>2. left' = {}
    BY <2>1 DEF Scanning
  <2>3. Seen(Program[kind][at])
    BY <2>1, CheckedIsSeen
  <2>4. result' = "published" => Fresh'
    BY <1>2, <1>6, <2>1
  <2>5. CASE at > R + 2 /\ at < A
    <3>1. \A j \in (R + 3)..(at - 1) : Seen(Program[kind][j])
      BY <1>1, <1>2, <2>5
    <3>2. \A j \in (R + 3)..at : Seen(Program[kind][j])
      BY <1>1, <2>3, <3>1
    <3>3. \A j \in (R + 3)..(at' - 1) : Seen(Program[kind][j])'
      BY <1>1, <1>6, <2>1, <3>2
    <3> QED BY <1>3, <2>1, <2>2, <2>4, <3>3
  <2>6. CASE at <= R + 2
    <3>1. \A j \in (R + 3)..(at' - 1) : FALSE
      BY <1>1, <2>1, <2>6
    <3> QED BY <1>3, <2>1, <2>2, <2>4, <3>1
  <2>7. CASE at >= A
    BY <1>1, <1>3, <2>1, <2>2, <2>4, <2>7
  <2> QED BY <1>1, <2>5, <2>6, <2>7
<1>11. ASSUME NEW i \in Items, ChangeItem(i) PROVE Watched'
  <2>1. UNCHANGED <<kind, at, left, result>>
    BY <1>11 DEF ChangeItem, guarded
  <2>2. \A step : Seen(step) => Seen(step)'
    BY <1>11, SeenAndChanged
  <2>3. /\ SourceAsBuilt(Files \ left) => SourceAsBuilt(Files \ left)'
        /\ Untouched((Modules \cup {"receipt"}) \ left) =>
           Untouched((Modules \cup {"receipt"}) \ left)'
    <3>1. Files \ left \in SUBSET Files /\ (Modules \cup {"receipt"}) \ left \in SUBSET Items
      BY DEF Items, Records
    <3>2. /\ \A items \in SUBSET Items : Untouched(items) => Untouched(items)'
          /\ \A files \in SUBSET Files : SourceAsBuilt(files) => SourceAsBuilt(files)'
      BY <1>11, ReadAndChanged
    <3>3. /\ (Files \ left)' = Files \ left
          /\ ((Modules \cup {"receipt"}) \ left)' = (Modules \cup {"receipt"}) \ left
      BY <2>1
    <3> QED BY <2>1, <3>1, <3>2 DEF Untouched, SourceAsBuilt
  <2>4. result' = "published" => Fresh'
    <3>1. /\ Modules \cup {"state", "evidence", "receipt", "facts"} \in SUBSET Items
          /\ Files \in SUBSET Files
      BY DEF Items, Records
    <3>2. Fresh => Fresh'
      BY <1>11, <3>1, ReadAndChanged DEF Fresh
    <3> QED BY <1>2, <2>1, <3>2
  <2> QED BY <1>2, <1>3, <2>1, <2>2, <2>3, <2>4
<1>12. CASE AnswerSuccess
  <2>1. UNCHANGED <<kind, disk, since, snapshot>> /\ at = A /\ at' = A + 2
    BY <1>12, <1>4, Positions DEF AnswerSuccess, guarded, world, Found, Goes, Pos, TypeOK, Somewhere
  <2>2. \A j \in (R + 3)..(A - 1) : Seen(Program[kind][j])
    BY <1>1, <1>2, <2>1
  <2>3. VerifiesAll(Program[kind], R, A)
    BY <1>1, Layout DEF Laid
  <2>4. /\ Seen(<<"check", "controls">>) /\ Seen(<<"check", "evidence">>) /\ Seen(<<"check", "facts">>)
        /\ Seen(<<"scan", "compare">>) /\ Seen(<<"scan", "inventory">>)
    BY <2>2, <2>3 DEF VerifiesAll
  <2>5. /\ Untouched({"state"}) /\ Untouched({"evidence"}) /\ Untouched({"facts"})
        /\ SourceAsBuilt(Files) /\ Untouched(Modules \cup {"receipt"})
    BY <2>4 DEF Seen
  <2>6. Fresh
    BY <2>5 DEF Fresh, Untouched
  <2> QED BY <1>1, <1>3, <1>6, <2>1, <2>6
<1>13. CASE BeginVerification
  <2>1. /\ UNCHANGED <<kind, left, result>> /\ at' = at + 1
        /\ Program[kind][at] = <<"begin", "verification">>
        /\ Doing("begin", "verification")
    BY <1>13 DEF BeginVerification, Doing, guarded, Continues, Goes
  <2>2. left' = {}
    BY <2>1 DEF Scanning
  <2>3. at <= R + 2
    BY <1>4, <2>1, Numbers DEF Found, TypeOK
  <2>4. result' # "published"
    BY <1>1, <1>5, <2>1, <2>3
  <2>5. \A j \in (R + 3)..(at' - 1) : FALSE
    BY <1>1, <2>1, <2>3
  <2> QED BY <1>3, <2>1, <2>2, <2>4, <2>5
<1> QED BY <1>7, <1>8, <1>9, <1>10, <1>11, <1>12, <1>13, Elsewhere DEF Reading

-----------------------------------------------------------------------------
(* The theorems                                                            *)

\* The inductive invariant.
Inv ==
    /\ TypeOK /\ Placed /\ Standing /\ Removed /\ Kept /\ Graphed /\ Owned
    /\ Scanning /\ Watched

\* The initial state satisfies it.
LEMMA InvInit ==
  ASSUME Init
  PROVE  Inv
<1>1. TypeOK
  BY TypeInit
<1>2. /\ PrepareAt(kind) > 1 /\ DisposeAt(kind) > PrepareAt(kind) + 16
      /\ MakeAt(kind) > DisposeAt(kind) + 7 /\ RenameAt(kind) > MakeAt(kind) + 3
      /\ AnswerAt(kind) > RenameAt(kind) + 3
      /\ PrepareAt(kind) \in Nat /\ DisposeAt(kind) \in Nat /\ MakeAt(kind) \in Nat
      /\ RenameAt(kind) \in Nat /\ AnswerAt(kind) \in Nat
  BY <1>1, Numbers DEF TypeOK
<1>3. /\ at = 1 /\ left = {} /\ known = {} /\ output = "none" /\ failed = "no" /\ result = "none"
      /\ trees["private"] = Nothing /\ trees["final"] = Nothing /\ name = "private"
  BY DEF Init, Names
<1>4. Placed
  BY <1>3 DEF Placed
<1>5. Standing
  BY <1>2, <1>3 DEF Standing
<1>6. Removed
  BY <1>2, <1>3 DEF Removed
<1>7. Kept
  BY <1>2, <1>3 DEF Kept
<1>8. Graphed
  BY <1>2, <1>3 DEF Graphed
<1>9. Owned
  BY <1>3, NothingAssumption DEF Owned, Own, Names
<1>10. Scanning
  BY <1>3 DEF Scanning
<1>11. Watched
  BY <1>2, <1>3 DEF Watched
<1> QED BY <1>1, <1>4, <1>5, <1>6, <1>7, <1>8, <1>9, <1>10, <1>11 DEF Inv

\* Every step keeps it.
LEMMA InvStep ==
  ASSUME Inv, [Next]_vars
  PROVE  Inv'
<1>1. CASE Next
  <2>1. TypeOK' /\ Placed' /\ Standing' /\ Removed'
    BY <1>1, TypeStep, PlacedStep, StandingStep, RemovedStep DEF Inv
  <2>2. Kept' /\ Graphed' /\ Owned'
    BY <1>1, KeptStep, GraphedStep, OwnedStep DEF Inv
  <2>3. Scanning' /\ Watched'
    BY <1>1, ScanningStep, WatchedStep DEF Inv
  <2> QED BY <2>1, <2>2, <2>3 DEF Inv
<1>2. CASE UNCHANGED vars
  <2> USE <1>2 DEF vars, guarded, sandbox, world, place
  <2>1. TypeOK' /\ Placed' /\ Removed' /\ Kept'
    BY DEF Inv, TypeOK, Somewhere, Placed, Removed, Kept
  <2>2. Standing'
    BY DEF Inv, Standing
  <2>3. Graphed' /\ Owned' /\ Scanning'
    BY DEF Inv, Graphed, GraphApproved, Owned, Own, Scanning, End
  <2>4. Watched'
    <3>1. /\ \A step : Seen(step)' <=> Seen(step)
          /\ Fresh' <=> Fresh
          /\ SourceAsBuilt(Files \ left)' <=> SourceAsBuilt(Files \ left)
          /\ Untouched((Modules \cup {"receipt"}) \ left)' <=>
             Untouched((Modules \cup {"receipt"}) \ left)
      BY DEF Seen, Fresh, SourceAsBuilt, Untouched
    <3>2. UNCHANGED <<kind, at, left, result>>
      OBVIOUS
    <3>3. Watched
      BY DEF Inv
    <3> QED BY <3>1, <3>2, <3>3 DEF Watched
  <2> QED BY <2>1, <2>2, <2>3, <2>4 DEF Inv
<1> QED BY <1>1, <1>2

\* Every reachable state satisfies it.
LEMMA Invariant == Spec => []Inv
<1>1. Init => Inv
  BY InvInit
<1>2. Inv /\ [Next]_vars => Inv'
  BY InvStep
<1> QED BY <1>1, <1>2, PTL DEF Spec

\* Every variable keeps its type and a build stays inside its program, which is
\* the sequence of calls of BeginApproved, FreezeBuildInputs, Observe and
\* PublishBuild.
THEOREM TypeCorrect == Spec => []TypeOK
<1>1. Inv => TypeOK
  BY DEF Inv
<1> QED BY <1>1, Invariant, PTL

\* A success reported by PublishBuild is never about stale inputs: whatever was
\* changed, and changed back, by any number of changes in any order, everything
\* untouched since the last verifyBuildApproval began is what was built.
THEOREM StaleRefused == Spec => []StaleBuildRefused
<1>1. Inv => StaleBuildRefused
  BY DEF Inv, Watched, Fresh, SourceAsBuilt, Untouched, StaleBuildRefused
<1> QED BY <1>1, Invariant, PTL

\* The output of Observe leaves the sandbox only after the deferred dispose
\* removed both containers and both volumes and both traces were whole, and is
\* below .heliopause/builds only when the policy found nothing, through every
\* failing call, lost answer and kill.
THEOREM PublishedObserved == Spec => []PublishedIsObserved
<1>1. Inv => PublishedIsObserved
  BY DEF Inv, Kept, Owned, PublishedIsObserved
<1> QED BY <1>1, Invariant, PTL

\* What is kept was built from the approved controls and the approved cache:
\* the graph the container answered, checked again after the compiler ran, is
\* the approved one, however often the project changed in between.
THEOREM KeptIsApproved == Spec => [](output = "kept" => GraphApproved)
<1>1. Inv => (output = "kept" => GraphApproved)
  BY DEF Inv, Graphed
<1> QED BY <1>1, Invariant, PTL

\* A failure whose clean-ups succeeded leaves no container and no volume it
\* knows of, no captured output and, below .heliopause/builds, no directory it
\* had identified as its own, wherever in the program the call failed or the
\* deadline passed.  (A directory made by Mkdir is identified by the Lstat that
\* follows; where that fails the directory stays.)
THEOREM FailedLeavesNothing == Spec => []FailedBuildLeavesNothing
<1>1. ASSUME Inv, result = "failed" PROVE FailedBuildLeavesNothing
  <2> DEFINE P == PrepareAt(kind) D == DisposeAt(kind) A == AnswerAt(kind)
  <2>1. failed = "yes" /\ at = A + 3
    BY <1>1 DEF Inv, Placed
  <2>2. A \in Nat /\ D \in Nat /\ A > D + 10
    BY <1>1, Numbers DEF Inv, TypeOK
  <2>3. /\ at > D /\ at > D + 1 /\ at > D + 2 /\ at > D + 3 /\ ~(at <= D + 4) /\ at > A + 1
    BY <2>1, <2>2
  <2>4. \A d \in known : docker[d] = "gone"
    <3>1. known \subseteq {"build", "preparation", "outputVolume", "inputVolume"}
      BY <1>1 DEF Inv, TypeOK, Runtimes, Volumes
    <3>2. /\ "build" \in known => docker["build"] = "gone"
          /\ "preparation" \in known => docker["preparation"] = "gone"
          /\ "outputVolume" \in known => docker["outputVolume"] = "gone"
          /\ "inputVolume" \in known => docker["inputVolume"] = "gone"
      BY <1>1, <2>1, <2>3 DEF Inv, Removed
    <3> QED BY <3>1, <3>2
  <2>5. output # "captured"
    BY <1>1, <2>1, <2>3 DEF Inv, Kept
  <2>6. ~Own("private") /\ ~Own("final")
    BY <1>1, <2>1, <2>3 DEF Inv, Owned
  <2> QED BY <2>4, <2>5, <2>6 DEF FailedBuildLeavesNothing, Names
<1>2. Inv => FailedBuildLeavesNothing
  BY <1>1 DEF FailedBuildLeavesNothing
<1> QED BY <1>2, Invariant, PTL

\* What a step of the build does to the two names.
LEMMA TreesStep ==
  ASSUME Build
  PROVE  \/ UNCHANGED trees
         \/ trees["private"] = Nothing /\ trees' = [trees EXCEPT !["private"] = "unknown"]
         \/ \E d \in {"build", "adopted"} :
                /\ trees["private"] = "user" => d = "adopted"
                /\ trees' = [trees EXCEPT !["private"] = d]
         \/ trees["final"] = Nothing /\ trees' = [private |-> Nothing, final |-> trees["private"]]
         \/ condemned /\ trees' = [trees EXCEPT ![name] = Nothing]
<1>1. UNCHANGED trees \/ MakeTree \/ IdentifyTree \/ Rename \/ RemoveTree \/ RollBackFails
  <2> USE DEF place
  <2> DEFINE Stays == UNCHANGED trees
  <2>1. TakeGuard \/ PlanControls \/ BindInputs \/ VerifySource => Stays
    BY DEF TakeGuard, PlanControls, BindInputs, VerifySource
  <2>2. /\ \A o \in Scans : BeginScan(o) => Stays
        /\ \A o \in Scans, i \in Items : Read(o, i) \/ ReadRefused(o, i) => Stays
        /\ \A o \in Checks : Check(o) \/ CheckRefused(o) => Stays
        /\ \A o \in {"source", "cache"} : FreezeArchive(o) => Stays
    BY DEF BeginScan, Read, ReadRefused, Check, CheckRefused, FreezeArchive
  <2>3. PrepareInputs \/ Introduce \/ IntroduceRefused => Stays
    BY DEF PrepareInputs, Introduce, IntroduceRefused
  <2>4. \A v \in Volumes : MakeVolume(v) \/ DropVolume(v) \/ DropFails(v) => Stays
    BY DEF MakeVolume, DropVolume, DropFails
  <2>5. /\ \A r \in Runtimes : Create(r) \/ StartTrace(r) \/ Start(r) => Stays
        /\ \A r \in Runtimes : DisposeRuntime(r) \/ DisposeNothing(r) \/ DisposeFails(r) => Stays
    BY DEF Create, StartTrace, Start, DisposeRuntime, DisposeNothing, DisposeFails, RemoveRuntime
  <2>6. \A d \in Runtimes \cup Volumes : CreateLost(d) => Stays
    BY DEF CreateLost
  <2>7. RemovePreparation \/ RemoveFails => Stays
    BY DEF RemovePreparation, RemoveFails, RemoveRuntime
  <2>8. /\ \A o \in {"before", "after", "captured"} : VerifyRuntime(o) => Stays
        /\ Configure \/ AskRoles \/ ExecRefused => Stays
        /\ \A o \in {"validation", "build"} : RunBuild(o) => Stays
    BY DEF VerifyRuntime, Configure, AskRoles, ExecRefused, RunBuild
  <2>9. Capture \/ CaptureFiltered \/ CaptureLeaves \/ Settle \/ SettleFails \/ RecordFacts
        \/ Decide \/ BeginVerification => Stays
    BY DEF Capture, CaptureFiltered, CaptureLeaves, Settle, SettleFails, RecordFacts, Decide,
       BeginVerification
  <2>10. MakeTreeRefused \/ IdentifyRefused \/ FillTree \/ FillRefused \/ RenameRefused
         \/ Confirm \/ AnswerSuccess \/ AnswerFails => Stays
    BY DEF MakeTreeRefused, IdentifyRefused, FillTree, FillRefused, RenameRefused, Confirm,
       AnswerSuccess, AnswerFails
  <2>11. RollBack \/ RollBackRefused \/ RemoveFile \/ CloseGuard \/ CloseFails \/ CallFails
         \/ Kill => Stays
    BY DEF RollBack, RollBackRefused, RemoveFile, CloseGuard, CloseFails, CallFails, Kill
  <2> HIDE DEF Stays
  <2>12. Stays \/ MakeTree \/ IdentifyTree \/ Rename \/ RemoveTree \/ RollBackFails
    BY <2>1, <2>2, <2>3, <2>4, <2>5, <2>6, <2>7, <2>8, <2>9, <2>10, <2>11 DEF Build
  <2> QED BY <2>12 DEF Stays
<1>2. MakeTree => trees["private"] = Nothing /\ trees' = [trees EXCEPT !["private"] = "unknown"]
  BY DEF MakeTree
<1>3. IdentifyTree => \E d \in {"build", "adopted"} :
                          /\ trees["private"] = "user" => d = "adopted"
                          /\ trees' = [trees EXCEPT !["private"] = d]
  BY DEF IdentifyTree
<1>4. Rename => /\ trees["final"] = Nothing
                /\ trees' = [private |-> Nothing, final |-> trees["private"]]
  BY DEF Rename
<1>5. RemoveTree => condemned /\ trees' = [trees EXCEPT ![name] = Nothing]
  BY DEF RemoveTree
<1>6. RollBackFails => UNCHANGED trees \/ (condemned /\ trees' = [trees EXCEPT ![name] = Nothing])
  BY DEF RollBackFails
<1> QED BY <1>1, <1>2, <1>3, <1>4, <1>5, <1>6

\* Only the look of the rollback, which finds the directory identified,
\* condemns a name.
LEMMA CondemnedStep ==
  ASSUME Build, condemned', ~condemned
  PROVE  Own(name)
<1> USE DEF place
<1> DEFINE Stays == condemned' = condemned
<1>1. TakeGuard \/ PlanControls \/ BindInputs \/ VerifySource => Stays
  BY DEF TakeGuard, PlanControls, BindInputs, VerifySource
<1>2. /\ \A o \in Scans : BeginScan(o) => Stays
      /\ \A o \in Scans, i \in Items : Read(o, i) \/ ReadRefused(o, i) => Stays
      /\ \A o \in Checks : Check(o) \/ CheckRefused(o) => Stays
      /\ \A o \in {"source", "cache"} : FreezeArchive(o) => Stays
  BY DEF BeginScan, Read, ReadRefused, Check, CheckRefused, FreezeArchive
<1>3. PrepareInputs \/ Introduce \/ IntroduceRefused => Stays
  BY DEF PrepareInputs, Introduce, IntroduceRefused
<1>4. \A v \in Volumes : MakeVolume(v) \/ DropVolume(v) \/ DropFails(v) => Stays
  BY DEF MakeVolume, DropVolume, DropFails
<1>5. /\ \A r \in Runtimes : Create(r) \/ StartTrace(r) \/ Start(r) => Stays
      /\ \A r \in Runtimes : DisposeRuntime(r) \/ DisposeNothing(r) \/ DisposeFails(r) => Stays
  BY DEF Create, StartTrace, Start, DisposeRuntime, DisposeNothing, DisposeFails, RemoveRuntime
<1>6. \A d \in Runtimes \cup Volumes : CreateLost(d) => Stays
  BY DEF CreateLost
<1>7. RemovePreparation \/ RemoveFails => Stays
  BY DEF RemovePreparation, RemoveFails, RemoveRuntime
<1>8. /\ \A o \in {"before", "after", "captured"} : VerifyRuntime(o) => Stays
      /\ Configure \/ AskRoles \/ ExecRefused => Stays
      /\ \A o \in {"validation", "build"} : RunBuild(o) => Stays
  BY DEF VerifyRuntime, Configure, AskRoles, ExecRefused, RunBuild
<1>9. Capture \/ CaptureFiltered \/ CaptureLeaves \/ Settle \/ SettleFails \/ RecordFacts
      \/ Decide \/ BeginVerification => Stays
  BY DEF Capture, CaptureFiltered, CaptureLeaves, Settle, SettleFails, RecordFacts, Decide,
     BeginVerification
<1>10. MakeTree \/ MakeTreeRefused \/ IdentifyTree \/ IdentifyRefused \/ FillTree \/ FillRefused
       \/ Rename \/ RenameRefused \/ Confirm \/ AnswerSuccess \/ AnswerFails => Stays
  BY DEF MakeTree, MakeTreeRefused, IdentifyTree, IdentifyRefused, FillTree, FillRefused,
     Rename, RenameRefused, Confirm, AnswerSuccess, AnswerFails
<1>11. RollBackRefused \/ RemoveFile \/ CloseGuard \/ CloseFails \/ CallFails \/ Kill => Stays
  BY DEF RollBackRefused, RemoveFile, CloseGuard, CloseFails, CallFails, Kill
<1>12. RemoveTree \/ RollBackFails => ~condemned'
  BY DEF RemoveTree, RollBackFails
<1> HIDE DEF Stays
<1>13. Stays \/ RollBack \/ ~condemned'
  BY <1>1, <1>2, <1>3, <1>4, <1>5, <1>6, <1>7, <1>8, <1>9, <1>10, <1>11, <1>12 DEF Build
<1>14. Stays => condemned' = condemned
  BY DEF Stays
<1> QED BY <1>13, <1>14 DEF RollBack

\* os.Mkdir, the rename that does not replace and the rollback never replace a
\* directory somebody else put at one of the two names, and the rollback begins
\* to remove only what the build had identified: the one foreign directory it
\* removes was put at the name between its look and os.RemoveAll.
THEOREM ForeignKept == Spec => ForeignOutputKept
<1> DEFINE Spares ==
      /\ condemned' /\ ~condemned => Own(name)
      /\ \A n \in Names : trees[n] = "user" => Preserved(n) \/ (condemned /\ name = n)
    Keeps == Build => Spares
<1>1. ASSUME Inv, Build PROVE Keeps
  <2>1. /\ trees \in [Names -> {Nothing, "unknown", "build", "adopted", "user"}]
        /\ Nothing # "user" /\ name \in Names
    BY <1>1, NothingAssumption DEF Inv, TypeOK
  <2>2. condemned' /\ ~condemned => Own(name)
    BY <1>1, CondemnedStep
  <2>3. ASSUME NEW n \in Names, trees[n] = "user" PROVE Preserved(n) \/ (condemned /\ name = n)
    BY <1>1, <2>1, <2>3, TreesStep DEF Names, Preserved
  <2> QED BY <2>2, <2>3
<1>2. Inv /\ [Next]_vars => [Keeps]_vars
  BY <1>1
<1>3. ForeignOutputKept <=> [][Keeps]_vars
  BY DEF ForeignOutputKept
<1> QED BY <1>2, <1>3, Invariant, PTL DEF Spec
=============================================================================
