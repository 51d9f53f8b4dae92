\* Exports beside batches, the exclusion between them and restarts.
SPECIFICATION FairSpec
CONSTANTS
    plain = plain
    None = None
    Ids = {1}
    Paths = {plain}
    Protected = {}
    Numbered <- NumberedOf
    Choices <- QueuedAs
    Foreign = {}
    MaxSession = 1
    MaxEpoch = 2
    QueueFaults = {"crash", "load"}
    Batches = {1, 2}
INVARIANTS
    NeverSideBySide
    PauseGivenBack
PROPERTIES
    ExportSettles
    ExclusionEnds
CHECK_DEADLOCK FALSE
