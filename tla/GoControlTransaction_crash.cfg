\* Two processes, every call may fail, kills at every point, no foreign edits.
CONSTANTS
    Sessions = {s1, s2}
    Nobody = Nobody
    Bodies <- MCBodies
    FreeMod = "free"
    EmptySum = "empty"
    ForeignBody = "foreign"
    NoFile = NoFile
    NoDoc = NoDoc
    Selections <- MCSelections
    MaxEdits = 0
SPECIFICATION FairSpec
INVARIANTS TypeOK OpenMeansApproved Recoverable
PROPERTIES CommandEnds ImplementsApprovedProject
