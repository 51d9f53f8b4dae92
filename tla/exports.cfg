\* Exports through restarts, an unreadable queue file, other programs and other
\* projects.
SPECIFICATION ExportSpec
CONSTANTS
    plain = plain
    second = second
    face = face
    None = None
    Ids = {1, 2}
    Paths = {plain, second, face}
    Protected = {face}
    Numbered <- NumberedOf
    Choices <- QueuedAs
    Foreign = {plain}
    MaxSession = 2
    MaxEpoch = 2
    QueueFaults = {"crash", "load"}
INVARIANTS
    ExportTypeOK
    DistinctDestinations
    OnlyWhatWasAsked
    SingleExporter
    MarksOwnProject
PROPERTIES
    KeepsExisting
VIEW SavedForAnother
CHECK_DEADLOCK FALSE
