CONSTANTS
    a = a
    b = b
    c = c
    Node = {a, b, c}
    Graphs <- MCGraphs
    Traces <- MCTraces
SPECIFICATION Spec
CHECK_DEADLOCK FALSE
INVARIANTS
    NoRunLeftOpen
    PromotedIsInspected
    NoBlockedWheelExecuted
    CleanInstallIsPromoted
