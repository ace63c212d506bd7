-------------------------- MODULE MCObserverAuthority --------------------------
(* Instances of ObserverAuthority for TLC. *)
EXTENDS ObserverAuthority, TLC

CONSTANTS s1, s2, c1, c2, r1, r2

\* Two commands in the container of one session.
OneSession == (c1 :> s1) @@ (c2 :> s1) @@ (r1 :> s1)

\* One command in each of two observed containers.
TwoSessions == (c1 :> s1) @@ (c2 :> s2) @@ (r1 :> s1) @@ (r2 :> s2)

\* One command.
OneCaller == (c1 :> s1) @@ (r1 :> s1)

\* The two containers with their registrars and callers are alike.
Swap == {[x \in {s1, s2, c1, c2, r1, r2} |->
            CASE x = s1 -> s2 [] x = s2 -> s1 [] x = c1 -> c2 [] x = c2 -> c1
              [] x = r1 -> r2 [] x = r2 -> r1]}

\* So are two commands in the same container.
SwapCallers == Permutations({c1, c2})
================================================================================
