--------------------------- MODULE ApprovedProject ---------------------------
(***************************************************************************)
(* What the guarded Go project promises its next user: the control files   *)
(* and the approval retained outside the project move together, in one     *)
(* step, from one coherent pair to another.  A command that fails or is    *)
(* killed half way never shows a mixed pair.  Somebody else's edit of the  *)
(* project ends the promise (`drifted').                                   *)
(***************************************************************************)
CONSTANTS
    Selections,     \* the control contents an inspection may approve
    Adoptable,      \* the contents HAA accepts without a retained approval
    NoDoc           \* no retained approval

VARIABLES
    controls,       \* contents of the control files, by name
    approved,       \* the retained approval: the contents it approves
    drifted         \* somebody outside HAA changed the project

avars == <<controls, approved, drifted>>

Coherent ==
    IF approved = NoDoc THEN controls \in Adoptable ELSE controls = approved

AInit ==
    /\ Coherent
    /\ drifted = FALSE

\* One complete update: both files and the approval, at once.
Approve ==
    /\ ~drifted
    /\ \E t \in Selections : controls' = t /\ approved' = t
    /\ UNCHANGED drifted

\* After a foreign edit nothing is promised.
Drift ==
    drifted' = TRUE

ANext == Approve \/ Drift

ASpec == AInit /\ [][ANext]_avars
=============================================================================
