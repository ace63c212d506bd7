\* Two processes and a user who saves controls or drops files into the backup.
CONSTANTS
    Sessions = {s1, s2}
    Nobody = Nobody
    Bodies <- MCBodies
    FreeMod = "free"
    EmptySum = "empty"
    ForeignBody = "foreign"
    NoFile = NoFile
    NoDoc = NoDoc
    Selections <- MCOneSelection
    MaxEdits = 2
SPECIFICATION Spec
SYMMETRY MCSymmetry
PROPERTIES UserFilesKept ClosedStaysClosed
