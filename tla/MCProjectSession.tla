-------------------------- MODULE MCProjectSession --------------------------
(* Two project files, one of which exists: a baseline may be armed for one *)
(* while the other is open.                                                *)
EXTENDS ProjectSession, TLC

CONSTANTS first, second
=============================================================================
