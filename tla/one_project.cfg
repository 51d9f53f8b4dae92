\* Three batches over one project; a row may be retried beside another.
SPECIFICATION WatchedSpec
CONSTANTS
    create = create
    update = update
    append = append
    shade = shade
    face1 = face1
    face2 = face2
    None = None
    Earlier = Earlier
    Foreign = Foreign
    Ids = {1, 2, 3}
    Jobs = {create, update, append}
    Tiffs = {face1, face2}
    Projects = {shade}
    FacesOf <- MixedFacesOf
    ProjectOf <- MixedProjectOf
    ModeOf <- MixedModeOf
    DiscardOf <- MixedDiscardOf
    OwnedBy <- MixedOwnedBy
    MaxEdits = 1
    AllowStart = {TRUE, FALSE}
    Faults = {"io", "lineage", "edit", "panic", "readback"}
INVARIANTS
    IInv
    OrphanOwnedUnlessForgotten
PROPERTIES
    OrphanPreserved
    LedgerKept
    RecoveryTiffUncontended
    SingleWriterUncontended
