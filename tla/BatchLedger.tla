----------------------------- MODULE BatchLedger -----------------------------
(***************************************************************************)
(* What a durable conversion batch promises, seen from the disk: the Faces *)
(* of a batch are published in Source order, and a Face is published only  *)
(* when every Face before it is linked into the Production project.  At    *)
(* most one TIFF of a batch is therefore committed but not linked, and it  *)
(* is the next one.                                                        *)
(***************************************************************************)
EXTENDS Naturals

CONSTANTS
    Batches,    \* the batches
    FacesIn(_)  \* number of Faces of a batch

VARIABLES
    rendered,   \* per batch, the Faces whose TIFF has been published
    registered  \* per batch, the Faces linked into the Production project

ledger == <<rendered, registered>>

LedgerInit ==
    /\ rendered = [b \in Batches |-> 0]
    /\ registered = [b \in Batches |-> 0]

Render(b) ==
    /\ rendered[b] = registered[b]
    /\ rendered[b] < FacesIn(b)
    /\ rendered' = [rendered EXCEPT ![b] = @ + 1]
    /\ UNCHANGED registered

Register(b) ==
    /\ registered[b] < rendered[b]
    /\ registered' = [registered EXCEPT ![b] = @ + 1]
    /\ UNCHANGED rendered

LedgerNext == \E b \in Batches : Render(b) \/ Register(b)

LedgerSpec == LedgerInit /\ [][LedgerNext]_ledger
===============================================================================
