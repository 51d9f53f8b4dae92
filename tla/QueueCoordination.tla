-------------------------- MODULE QueueCoordination --------------------------
(***************************************************************************)
(* The export queue beside the conversion batch queue in one process.  The *)
(* batch queue takes the export queue out of play while it has work: it    *)
(* remembers in memory whether the export queue was paused, pauses it (in  *)
(* the queue file), and gives the pause back when it is done.              *)
(*                                                                         *)
(* Of the batch queue only what the coordination looks at is kept here:    *)
(* the state of each row and whether it is paused (ConversionBatchQueue    *)
(* has the rest).  The legacy conversion queue never has pending work in   *)
(* this version: nothing queues, resumes or retries its rows.              *)
(***************************************************************************)
EXTENDS ExportQueue

CONSTANT Batches   \* batch queue rows, in their order of ids

ASSUME BatchAssumption == Batches \subseteq Nat

VARIABLES
    batch,           \* the rows of the batch queue; "Held": Waiting, to be resumed
    batchPaused,     \* its QueueRuntime.paused
    owns,            \* owns_queue_exclusion
    exportWasPaused, \* export_was_paused
    wanted,          \* history: whether the operator last paused the export queue
                     \* outside an exclusion, in this process or an earlier one
    toggled,         \* history: the operator has used that button in this exclusion
    strayed          \* history: what a process that died has done to the pause since
                     \* the operator's last word: see Strays

batchVars == <<batch, batchPaused>>
exclusionVars == <<owns, exportWasPaused>>
pauseHistory == <<wanted, toggled, strayed>>
vars == <<exportVars, batchVars, exclusionVars, pauseHistory>>

BatchStates ==
    {"Absent", "Waiting", "Held", "Processing", "NeedsRecovery", "Ended"}

BatchActive == \E b \in Batches : batch[b] = "Processing"
HasRecovery == \E b \in Batches : batch[b] = "NeedsRecovery"

\* batch_queue_blocks_other_work
Blocks(rows) ==
    \E b \in Batches : rows[b] \in {"Processing", "NeedsRecovery", "Waiting"}

Init ==
    /\ ExportInit
    /\ batch = [b \in Batches |-> "Absent"]
    /\ batchPaused = FALSE
    /\ owns = FALSE
    /\ exportWasPaused = FALSE
    /\ wanted = FALSE
    /\ toggled = FALSE
    /\ strayed = "no"

-------------------------------------------------------------------------------
(***************************************************************************)
(* The batch queue, reduced to its row states.                             *)
(***************************************************************************)
SetBatch(from, to) ==
    /\ \E b \in Batches, s \in to :
           batch[b] \in from /\ batch' = [batch EXCEPT ![b] = s]
    /\ UNCHANGED <<exportVars, batchPaused, exclusionVars, pauseHistory>>

\* queue_unified_conversion_plan: not while an export is pending.
QueuePlan == ~ExportPending /\ SetBatch({"Absent"}, {"Waiting"})

BatchOperator ==
    \/ SetBatch({"Held", "Ended"}, {"Waiting"})       \* resume, retry
    \/ SetBatch({"Waiting", "Held"}, {"Ended"})       \* cancel
    \/ SetBatch({"NeedsRecovery"}, {"Waiting", "Ended"})  \* recover
    \/ SetBatch({"Ended"}, {"Absent"})                \* clear

ToggleBatchPaused ==
    /\ batchPaused' = ~batchPaused
    /\ UNCHANGED <<exportVars, batch, exclusionVars, pauseHistory>>

\* What the drain and the start of one poll leave of the rows: a Face that has
\* ended leaves its row done, waiting for its next Face or in need of recovery.
BatchSettled ==
    {batch} \cup {[batch EXCEPT ![b] = s] :
        b \in {c \in Batches : batch[c] = "Processing"},
        s \in {"Waiting", "Ended", "NeedsRecovery"}}

BatchStarted(rows, allow) ==
    LET ready == {b \in Batches : rows[b] = "Waiting"}
    IN  IF /\ allow /\ ~batchPaused /\ ready # {}
           /\ \A b \in Batches : rows[b] # "Processing"
        THEN {[rows EXCEPT ![b] = "Processing"] : b \in {c \in ready : IsFirst(c, ready)}}
        ELSE {rows}
-------------------------------------------------------------------------------
(***************************************************************************)
(* poll_conversion_batch_runtime, in every frame.                          *)
(***************************************************************************)
\* Faulty: what the export worker is doing is not looked at.
MayConvertBeside(noJob) == noJob /\ (owns \/ ~ExportPending)

MayConvert(noJob) == noJob /\ exporting = None /\ (owns \/ ~ExportPending)

\* Faulty: taken anew in every poll.
TakeAgain ==
    /\ Blocks(batch')
    /\ exportWasPaused' = paused
    /\ owns' = TRUE
    /\ SetExportPaused(TRUE)
    /\ toggled' = FALSE

TakeExclusion ==
    /\ Blocks(batch') /\ ~owns
    /\ exportWasPaused' = paused
    /\ owns' = TRUE
    /\ SetExportPaused(TRUE)
    /\ toggled' = FALSE

\* Faulty: given back only if the operator has left the pause alone.
GiveBackIfPaused ==
    /\ ~Blocks(batch') /\ owns /\ ~HasRecovery /\ paused
    /\ SetExportPaused(exportWasPaused)
    /\ owns' = FALSE
    /\ UNCHANGED <<exportWasPaused, toggled>>

\* HasRecovery is of before the poll.
GiveBack ==
    /\ ~Blocks(batch') /\ owns /\ ~HasRecovery
    /\ SetExportPaused(exportWasPaused)
    /\ owns' = FALSE
    /\ UNCHANGED <<exportWasPaused, toggled>>

Exclusion ==
    \/ TakeExclusion
    \/ GiveBack
    \/ /\ (owns <=> Blocks(batch')) \/ (owns /\ HasRecovery)
       /\ UNCHANGED <<exportVars, exclusionVars, toggled>>

PollBatches(noJob) ==
    /\ \E rows \in BatchSettled : batch' \in BatchStarted(rows, MayConvert(noJob))
    /\ Exclusion
    /\ UNCHANGED <<batchPaused, wanted, strayed>>

-------------------------------------------------------------------------------
(***************************************************************************)
(* The export queue beside it.                                             *)
(***************************************************************************)
BatchElsewhere == UNCHANGED <<batchVars, exclusionVars>>

ToggleExportPaused ==
    /\ SetExportPaused(~paused)
    /\ wanted' = IF owns THEN wanted ELSE ~paused
    /\ toggled' = (toggled \/ owns)
    /\ strayed' = IF owns THEN strayed ELSE "no"
    /\ BatchElsewhere

\* poll_export_queue: only the legacy queue could say no, and it is never active.
PollExportQueue == PollExports(TRUE)

\* The batch queue comes back from its own file, or empty from an unreadable one.
BatchReloaded ==
    [b \in Batches |-> IF batch[b] \in {"Waiting", "Processing"} THEN "Held" ELSE batch[b]]

ReloadBatches ==
    \/ batch' = BatchReloaded /\ UNCHANGED batchPaused
    \/ /\ "load" \in QueueFaults
       /\ batch' = [b \in Batches |-> "Absent"]
       /\ batchPaused' = FALSE

\* A process that dies inside an exclusion leaves the pause the exclusion took
\* ("stranded"), or whatever the operator made of it meanwhile; a queue file that
\* cannot be read or was not written brings back another pause ("lost").
Strays ==
    strayed' = IF paused' # paused \/ (owns /\ toggled) THEN "lost"
               ELSE IF owns THEN "stranded" ELSE strayed

Restart ==
    /\ ReloadExports \/ LoseExportFile
    /\ ReloadBatches
    /\ owns' = FALSE
    /\ exportWasPaused' = FALSE
    /\ UNCHANGED wanted
    /\ toggled' = FALSE
    /\ Strays

ExportsMove ==
    \/ ExportOperator
    \/ PollExportQueue
    \/ ExportBackground /\ UIElsewhere

Next ==
    \/ ExportsMove /\ BatchElsewhere /\ UNCHANGED pauseHistory
    \/ ToggleExportPaused
    \/ QueuePlan \/ BatchOperator \/ ToggleBatchPaused
    \/ \E noJob \in BOOLEAN : PollBatches(noJob)
    \/ Restart

Spec == Init /\ [][Next]_vars

\* Both polls run in every frame, the export workers are OS threads, and a Face
\* that runs comes to its end.
FaceEnds ==
    PollBatches(TRUE) /\ \A b \in Batches : batch[b] = "Processing" => batch'[b] # "Processing"

Fairness ==
    /\ WF_vars(PollExportQueue /\ BatchElsewhere /\ UNCHANGED pauseHistory)
    /\ \A i \in Ids :
           WF_vars(ExportWorker(i) /\ UIElsewhere /\ BatchElsewhere
                       /\ UNCHANGED pauseHistory)
    /\ WF_vars(FaceEnds)

FairSpec == Spec /\ Fairness
-------------------------------------------------------------------------------
(***************************************************************************)
(* What must hold.                                                         *)
(***************************************************************************)
\* The coordination's own variables and those of the export queue.
TypeOK ==
    /\ ExportTypeOK
    /\ batch \in [Batches -> BatchStates]
    /\ {batchPaused, owns, exportWasPaused, wanted, toggled} \subseteq BOOLEAN
    /\ strayed \in {"no", "stranded", "lost"}

\* A batch conversion and an export never run side by side, unless the operator
\* has taken the pause off the export queue during the exclusion: not after a
\* restart, not when held rows are resumed while an export runs.
NeverSideBySide == BatchActive /\ exporting # None => toggled

\* Outside an exclusion the export queue is paused exactly when the operator last
\* said so: the exclusion, however often it is polled, whatever happens to the
\* batches and over restarts between exclusions, gives back the pause it found.
\* What the operator asks for inside an exclusion does not count: its end overrides
\* it.  Nor does the memory of the exclusion outlive its process: the pause is in the
\* queue file, what to give back is not, so that a process that dies inside an
\* exclusion leaves exports paused, and every later exclusion gives that back, until
\* the operator says otherwise.  Of a pause brought back by an unreadable queue file,
\* or toggled in an exclusion that died, nothing is said until then.
PauseGivenBack ==
    ~owns => /\ strayed = "no" => paused = wanted
             /\ strayed = "stranded" => paused

\* A started export is settled although the queue is paused by the exclusion, the
\* operator stops it or the project is replaced under it.
ExportSettles ==
    \A i \in Ids : exports[i].status = "Processing" ~> exports[i].status # "Processing"

\* An exclusion the batches no longer need ends.
ExclusionEnds == owns ~> ~owns \/ Blocks(batch)
===============================================================================
