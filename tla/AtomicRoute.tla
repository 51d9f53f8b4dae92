----------------------------- MODULE AtomicRoute -----------------------------
(***************************************************************************)
(* What a route migration promises: the TIFFs of a Production project move *)
(* to another route together with the project.  The TIFFs change one by    *)
(* one, but only while the migration is on record; the project follows     *)
(* once, when every one of them is new; the record goes last.  None of it  *)
(* is promised once somebody else has changed one of the files.            *)
(***************************************************************************)
EXTENDS Naturals

CONSTANT Faces

VARIABLES
    route,     \* the route the project lists: "old" or "new"
    outputs,   \* what is at the path of each TIFF: "old", "new" or "gone"
    pending,   \* the migration is on record
    tampered   \* somebody else has changed a file

routeVars == <<route, outputs, pending, tampered>>

All(state) == [f \in Faces |-> state]

Init ==
    /\ route = "old"
    /\ outputs = All("old")
    /\ pending = FALSE
    /\ tampered = FALSE

Begin ==
    /\ ~pending /\ route = "old" /\ outputs = All("old")
    /\ pending' = TRUE
    /\ UNCHANGED <<route, outputs>>

Swap(f) ==
    /\ pending /\ route = "old"
    /\ \/ outputs[f] = "old" /\ outputs' = [outputs EXCEPT ![f] = "gone"]
       \/ outputs[f] = "gone" /\ outputs' = [outputs EXCEPT ![f] = "new"]
    /\ UNCHANGED <<route, pending>>

Switch ==
    /\ pending /\ route = "old" /\ outputs = All("new")
    /\ route' = "new"
    /\ UNCHANGED <<outputs, pending>>

End ==
    /\ pending /\ route = "new"
    /\ pending' = FALSE
    /\ UNCHANGED <<route, outputs>>

Next ==
    \/ /\ ~tampered
       /\ Begin \/ (\E f \in Faces : Swap(f)) \/ Switch \/ End
       /\ UNCHANGED tampered
    \/ tampered'

Spec == Init /\ [][Next]_routeVars
===============================================================================
