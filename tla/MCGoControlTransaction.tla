----------------------- MODULE MCGoControlTransaction -----------------------
(***************************************************************************)
(* Small instances of GoControlTransaction.  Two selections: one with      *)
(* dependencies and the dependency-free one a snapshot command retains.    *)
(***************************************************************************)
EXTENDS GoControlTransaction, TLC

MCBodies == {"free", "empty", "mod1", "sum1"}
MCSelections ==
    {[n \in Names |-> IF n = "go.mod" THEN "mod1" ELSE "sum1"],
     [n \in Names |-> IF n = "go.mod" THEN "free" ELSE "empty"]}
\* One selection is enough for the runs with foreign edits.
MCOneSelection == {[n \in Names |-> IF n = "go.mod" THEN "mod1" ELSE "sum1"]}

MCSymmetry == Permutations(Sessions)
=============================================================================
