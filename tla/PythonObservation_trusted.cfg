SPECIFICATION Spec
CONSTANTS
    N = 2
    CommandUnits = {3}
    Ceiling = 3
    Reserve = 1
    MaxCPU = 4
INVARIANTS
    CompletedIsProven
    CodeIsObserved
    UndisturbedEndsAsItRan
    EverythingDisposed
PROPERTIES
    TransactionEnds
CHECK_DEADLOCK FALSE
