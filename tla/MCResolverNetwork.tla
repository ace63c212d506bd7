--------------------------- MODULE MCResolverNetwork ---------------------------
(* Instances of ResolverNetwork for TLC: the constants are model values.  No    *)
(* symmetry is declared, since EveryRunEnds is a liveness property.             *)
EXTENDS ResolverNetwork, TLC
CONSTANTS r1, r2

\* Each resolver once, beside one of the other sort.
MCTools == {r1 :> "npm" @@ r2 :> "go", r1 :> "pypi" @@ r2 :> "cargo"}
================================================================================
