---------------------------- MODULE MCExportQueue ----------------------------
(***************************************************************************)
(* Two exports.  The plain destination has two numbered forms; the last    *)
(* one is the path of a Face whose file is missing at the moment, so       *)
(* AutoNumber may run into it.                                             *)
(***************************************************************************)
EXTENDS ExportQueue, TLC

CONSTANTS plain, second, face

NumberedOf ==
    (plain :> <<second, face>>) @@ (second :> <<face>>) @@ (face :> <<>>)

QueuedAs == {<<plain, "AutoNumber">>, <<second, "Skip">>}

\* VIEW of the run: the last process of a behaviour saves its queue for nobody, so
\* what it writes does not tell two states apart.
SavedForAnother ==
    <<exportQueue, exportWorld, session, epoch, authorized,
      IF epoch < MaxEpoch THEN saved ELSE [rows |-> NoExports]>>
===============================================================================
