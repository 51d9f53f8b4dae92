\* A route migration through interruptions, cancellations and foreign changes.
SPECIFICATION FairSpec
CONSTANTS
    render1 = render1
    render2 = render2
    N = 2
    Renders = {render1, render2}
    Old = Old
    Foreign = Foreign
    None = None
    MaxFaults = 3
INVARIANTS
    TypeOK
    NothingLost
    ProjectListsOutputs
    OwnTracesRecognised
    CommitsBacked
    LeftoversOnRecord
PROPERTIES
    ForeignKept
    MigrationEnds
    AtomicRouteSpec
CHECK_DEADLOCK FALSE
