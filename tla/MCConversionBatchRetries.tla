----------------------- MODULE MCConversionBatchRetries -----------------------
(***************************************************************************)
(* Three batches over one Production project that does not exist yet: one  *)
(* creates it, one updates the route it has, one appends to it; the last   *)
(* two share a TIFF and may discard production work.  A row can fail,      *)
(* another take its place, and the first be retried beside it.             *)
(***************************************************************************)
EXTENDS ConversionBatchRetries, TLC

CONSTANTS create, update, append, shade, face1, face2

MixedFacesOf ==
    (create :> <<face1>>) @@ (update :> <<face1, face2>>) @@ (append :> <<face2>>)
MixedProjectOf == [j \in {create, update, append} |-> shade]
MixedModeOf ==
    (create :> "CreateNew") @@ (update :> "UpdateExistingRoute")
        @@ (append :> "AppendExisting")
MixedDiscardOf == [j \in {create, update, append} |-> TRUE]
MixedOwnedBy == shade :> {}
===============================================================================
