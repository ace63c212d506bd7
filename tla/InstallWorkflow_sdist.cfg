CONSTANTS
    a = a
    b = b
    c = c
    Node = {a, b, c}
    Graphs <- SourceGraphs
    Traces <- MCTraces
SPECIFICATION Spec
CHECK_DEADLOCK FALSE
INVARIANTS
    CleanSdistIsPromoted
