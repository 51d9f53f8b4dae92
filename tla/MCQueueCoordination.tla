------------------------ MODULE MCQueueCoordination ------------------------
(***************************************************************************)
(* Exports to one destination beside two batches.                          *)
(***************************************************************************)
EXTENDS QueueCoordination, TLC

CONSTANT plain

NumberedOf == plain :> <<>>

QueuedAs == {<<plain, "Overwrite">>}
===============================================================================
