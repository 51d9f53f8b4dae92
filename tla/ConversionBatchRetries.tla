------------------------ MODULE ConversionBatchRetries ------------------------
(***************************************************************************)
(* The batch queue, watched where its reservations leak and where it       *)
(* forgets a commit.  enqueue refuses a batch whose project or TIFFs       *)
(* another row reserves; retry does not look.  A worker that fails between *)
(* the commit and the save in a way the transaction does not foresee says  *)
(* that nothing was committed.  The queue is the one of                    *)
(* ConversionBatchQueue and every action does what it does there; two      *)
(* history variables note that it has happened.                            *)
(***************************************************************************)
EXTENDS ConversionBatchQueue

VARIABLES
    contended,   \* history: a row was retried beside one that reserves its
                 \* project or one of its TIFFs
    forgotten    \* history: a worker that has published its TIFF has reported a
                 \* failure before the commit, or a process has died

watchedVars == <<vars, contended, forgotten>>

RetryContended ==
    \E i \in Ids :
        /\ Retry(i)
        /\ \E k \in Ids \ {i} : /\ ReservesDestination(items[k].status)
                               /\ SharesDestination(items[k].job, items[i].job)

\* A panic after the commit (catch_unwind), or an error of the read-back.
CommitDenied ==
    \E i \in Ids :
        /\ worker[i].pc \in {"committed", "save", "verify", "write"}
        /\ worker'[i].outcome \in {"Failed", "Cancelled"}

WatchedInit == Init /\ contended = FALSE /\ forgotten = FALSE

WatchedNext ==
    /\ Next
    /\ contended' = (contended \/ RetryContended)
    /\ forgotten' = (forgotten \/ CommitDenied \/ Restart \/ RestartWithoutFile)

WatchedSpec == WatchedInit /\ [][WatchedNext]_watchedVars
-------------------------------------------------------------------------------
(***************************************************************************)
(* What holds until a retry is contended, or a commit forgotten.           *)
(***************************************************************************)
\* A committed TIFF that is not linked yet belongs to a worker that is still going
\* to link it, or to a NeedsRecovery row that records exactly that Face, until a
\* retry is contended, a worker denies its commit or the process dies: the ways in
\* which this code forgets a TIFF (unrecorded_commit shows the read-back).
OrphanOwnedUnlessForgotten == ~contended /\ ~forgotten => OrphanOwned

\* Until a retry is contended, no row renders over the TIFF that another row, or
\* the same one, waits to link (enqueue and ReservesDestination).
RecoveryTiffUncontended == [][~contended' => KeepsWaitingTiffs]_watchedVars

\* Until a retry is contended, the Production project has one writer: a worker's
\* save and a recovery beside it never put back each other's older record.
SingleWriterUncontended == [][~contended' => KeepsLinkedFaces]_watchedVars
===============================================================================
