--------------------------- MODULE MCPublication ---------------------------
(***************************************************************************)
(* An instance of Publication for TLC.  The publishers are interchangeable *)
(* model values: what each publishes is a variable, and nothing orders     *)
(* them.                                                                   *)
(***************************************************************************)
EXTENDS Publication, TLC

Interchangeable == Permutations(Publishers)
=============================================================================
