SPECIFICATION Spec
CONSTANTS
    Publishers = {p1, p2}
    Kinds = {"staging", "npm", "pypi", "github", "goCache", "cargoCache", "terraformCache", "evidence"}
    Nothing = Nothing
    User = User
    Target = Target
    Staged = Staged
    MaxFaults = 2
    MaxTampers = 1
    MaxCrashes = 1
SYMMETRY Interchangeable
INVARIANTS
    VisibleIsWhole
    SuccessSurvives
PROPERTIES
    ForeignTreeKept
    FailureLeavesNothing
CHECK_DEADLOCK FALSE
