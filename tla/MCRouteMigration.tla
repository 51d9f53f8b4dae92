-------------------------- MODULE MCRouteMigration --------------------------
(***************************************************************************)
(* Two TIFFs, two renderings.                                              *)
(***************************************************************************)
EXTENDS RouteMigration, TLC

CONSTANTS render1, render2
===============================================================================
