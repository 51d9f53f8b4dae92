\* The open project over two files, other programs, failures and one crash.
SPECIFICATION FairSpec
CONSTANTS
    first = first
    second = second
    Paths = {first, second}
    None = None
    Empty = Empty
    Old = Old
    Foreign = Foreign
    Broken = Broken
    OldFiles = {first}
    MaxEdits = 2
    MaxJobs = 2
    MaxFaults = 2
    MaxEvents = 3
    MaxStarts = 1
INVARIANTS
    TypeOK
    AutosavedWorkKept
    BaselineCurrent
PROPERTIES
    NoLostUpdate
    EditsKept
    SaveAndContinueEnds
CHECK_DEADLOCK FALSE
