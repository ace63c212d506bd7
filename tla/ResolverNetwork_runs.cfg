\* Two runs and one subnet, which Docker gives to the second run again.
SPECIFICATION Spec
CONSTANTS
    r1 = r1
    r2 = r2
    Runs = {r1, r2}
    Tools <- MCTools
    Subnets = {n1}
    None = none
INVARIANTS
    ConfinedUntilRemoval
    SuccessIsClean
PROPERTIES
    EveryRunEnds
CHECK_DEADLOCK FALSE
