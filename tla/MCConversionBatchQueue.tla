----------------------- MODULE MCConversionBatchQueue -----------------------
(***************************************************************************)
(* Two small instances of the batch queue over one Production project and  *)
(* two TIFF paths.                                                         *)
(*                                                                         *)
(*   New    there is no project yet: one batch creates it with both Faces, *)
(*          another later updates the second Face along the same route     *)
(*   Route  the project owns the first TIFF: one batch updates both Faces  *)
(*          of the route (the second is new to it) and may discard         *)
(*          production work, another appends the second Face               *)
(***************************************************************************)
EXTENDS ConversionBatchQueue, TLC

CONSTANTS create, update, append, shade, face1, face2

NewFacesOf == (create :> <<face1, face2>>) @@ (update :> <<face2>>)
NewProjectOf == [j \in {create, update} |-> shade]
NewModeOf == (create :> "CreateNew") @@ (update :> "UpdateExistingRoute")
NewDiscardOf == [j \in {create, update} |-> FALSE]
NewOwnedBy == shade :> {}

RouteFacesOf == (update :> <<face1, face2>>) @@ (append :> <<face2>>)
RouteProjectOf == [j \in {update, append} |-> shade]
RouteModeOf == (update :> "UpdateExistingRoute") @@ (append :> "AppendExisting")
RouteDiscardOf == [j \in {update, append} |-> TRUE]
RouteOwnedBy == shade :> {face1}
===============================================================================
