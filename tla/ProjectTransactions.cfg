SPECIFICATION Spec
CONSTANTS
    Kinds = {"cargo", "terraform", "npm", "venv"}
    MaxCommands = 2
    MaxEdits = 1
    CargoBodies <- MCBodies
    CargoSelections <- MCSelections
    TerraformVersions = {"v1", "v2"}
    NpmSets = {"v1", "v2"}
    VenvKeys = {"a", "b"}
    VenvUpdates <- MCUpdates
    VenvBefore <- MCBefore
    NoFile = NoFile
    NoDoc = NoDoc
INVARIANTS
    OpenMeansAdmissible
    RecoverableFromJournal
PROPERTIES
    SeenFileKept
    ApprovalCoversSource
    ImplementsApprovedProject
CHECK_DEADLOCK FALSE
