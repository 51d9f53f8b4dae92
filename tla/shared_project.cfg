\* A retried row and a row in recovery write one project at the same time.
SPECIFICATION Spec
CONSTANTS
    create = create
    update = update
    append = append
    shade = shade
    face1 = face1
    face2 = face2
    None = None
    Earlier = Earlier
    Foreign = Foreign
    Ids = {1, 2}
    Jobs = {update, append}
    Tiffs = {face1, face2}
    Projects = {shade}
    FacesOf <- RouteFacesOf
    ProjectOf <- RouteProjectOf
    ModeOf <- RouteModeOf
    DiscardOf <- RouteDiscardOf
    OwnedBy <- RouteOwnedBy
    MaxEdits = 1
    AllowStart = {TRUE, FALSE}
    Faults = {"io"}
PROPERTIES
    LinkedFaceKept
