------------------------------ MODULE QueueCore ------------------------------
(***************************************************************************)
(* What the export queue and the conversion queues share: the lifecycle    *)
(* restored from a previous process, which row is started next and what    *)
(* is in the queue file after a save.                                      *)
(***************************************************************************)
EXTENDS Naturals

Statuses == {"Waiting", "Processing", "Done", "Failed", "Cancelled",
             "NeedsRecovery"}

\* QueueLifecycle::restored; NeedsRecovery is outside the common lifecycle and
\* comes back as it was.
Interrupted(status) == status \in {"Waiting", "Processing"}
Restored(status) == IF Interrupted(status) THEN "Waiting" ELSE status

\* Faulty: rows whose TIFF still has to be linked count as finished.
FinishedAnyhow(status) == status \notin {"Absent", "Waiting", "Processing"}

\* The rows ClearFinished removes.
Finished(status) == status \in {"Done", "Failed", "Cancelled"}

\* Faulty: a row that needs recovery gives its destination up.
ReservesWhilePending(status) == status \in {"Waiting", "Processing"}

\* The rows whose destination nobody else may take.
ReservesDestination(status) ==
    status \in {"Waiting", "Processing", "NeedsRecovery"}

\* Faulty: off by one, no row is ever the first.
IsStrictlyFirst(i, ids) == i \in ids /\ \A k \in ids : i < k

\* Rows are kept in id order, so the first row of a set is its least id.
IsFirst(i, ids) == i \in ids /\ \A k \in ids : i <= k

\* The queue file after a save of `next` over `old`: safe_fs::atomic_write
\* replaces all of it or none.  A queue without a path saves nothing.
Saved(next, old, persistent, mayFail) ==
    (IF persistent THEN {next} ELSE {})
        \cup (IF ~persistent \/ mayFail THEN {old} ELSE {})
===============================================================================
