\* The TIFF is in place, then its hash or the clock fails.
SPECIFICATION Spec
CONSTANTS
    create = create
    update = update
    append = append
    shade = shade
    face1 = face1
    face2 = face2
    None = None
    Earlier = Earlier
    Foreign = Foreign
    Ids = {1, 2}
    Jobs = {create, update}
    Tiffs = {face1, face2}
    Projects = {shade}
    FacesOf <- NewFacesOf
    ProjectOf <- NewProjectOf
    ModeOf <- NewModeOf
    DiscardOf <- NewDiscardOf
    OwnedBy <- NewOwnedBy
    MaxEdits = 1
    AllowStart = {TRUE, FALSE}
    Faults = {"readback"}
INVARIANTS
    OrphanOwned
