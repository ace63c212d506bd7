------------------------ MODULE MCProjectTransactions ------------------------
(***************************************************************************)
(* A small instance of the four project transactions.                      *)
(***************************************************************************)
EXTENDS ProjectTransactions

MCBodies == {"t1", "t2", "l1"}
MCSelections ==
    {[n \in {"Cargo.toml", "Cargo.lock"} |-> IF n = "Cargo.toml" THEN t ELSE "l1"] :
        t \in {"t1", "t2"}}

\* Two distributions, p and q; a destination may have both as owners.
P == {"p"}
Q == {"q"}
MCUpdates ==
    {[k \in {"a"} |-> P], [k \in {"b"} |-> Q], [k \in {"a", "b"} |-> P],
     [k \in {"a", "b"} |-> IF k = "a" THEN P ELSE P \cup Q]}
MCBefore ==
    {<<>>, [k \in {"a"} |-> [owners |-> P, file |-> 1]],
     [k \in {"a", "b"} |-> [owners |-> P, file |-> 1]],
     [k \in {"a", "b"} |-> [owners |-> IF k = "a" THEN P ELSE P \cup Q, file |-> 1]]}
=============================================================================
