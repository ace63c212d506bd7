SPECIFICATION Spec
CONSTANTS
    Kinds = {"go", "cargo"}
    Files = {"control", "a", "b"}
    Control = "control"
    Modules = {"module"}
    Nothing = Nothing
    MaxChanges = 2
    MaxFaults = 1
INVARIANTS
    BuiltFromApproved
    StaleBuildRefused
    PublishedIsObserved
    FailedBuildLeavesNothing
PROPERTIES
    ForeignOutputKept
CHECK_DEADLOCK FALSE
