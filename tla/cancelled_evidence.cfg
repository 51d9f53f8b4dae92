\* The same editor without faults: a question cancelled by New, and what it leaves.
SPECIFICATION Spec
CONSTANTS
    first = first
    second = second
    Paths = {first, second}
    None = None
    Empty = Empty
    Old = Old
    Foreign = Foreign
    Broken = Broken
    OldFiles = {first}
    MaxEdits = 1
    MaxJobs = 1
    MaxFaults = 0
    MaxEvents = 1
    MaxStarts = 0
INVARIANTS
    BaselineOwn
CHECK_DEADLOCK FALSE
