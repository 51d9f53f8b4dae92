\* Crashes, I/O failures, failed queue saves and an unreadable queue file.
SPECIFICATION Spec
CONSTANTS
    create = create
    update = update
    append = append
    shade = shade
    face1 = face1
    face2 = face2
    None = None
    Earlier = Earlier
    Foreign = Foreign
    Ids = {1, 2}
    Jobs = {create, update}
    Tiffs = {face1, face2}
    Projects = {shade}
    FacesOf <- NewFacesOf
    ProjectOf <- NewProjectOf
    ModeOf <- NewModeOf
    DiscardOf <- NewDiscardOf
    OwnedBy <- NewOwnedBy
    MaxEdits = 0
    AllowStart = {TRUE}
    Faults = {"io", "crash", "persist", "load"}
INVARIANTS
    NoAutoStart
    CheckpointBacked
PROPERTIES
    DurableCheckpointMonotone
