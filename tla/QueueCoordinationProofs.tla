----------------------- MODULE QueueCoordinationProofs -----------------------
(***************************************************************************)
(* The exclusion between the batch queue and the export queue, for every   *)
(* set of batches and every export queue.                                  *)
(*                                                                         *)
(* Every step of the composition is a step of the export queue or leaves   *)
(* it alone, so that its invariant holds here too.  On top of it           *)
(* ExclusionInv says what the exclusion has to remember between two polls: *)
(* a running batch is inside an exclusion, an exclusion nobody interfered  *)
(* with keeps the export queue paused, and the pause to give back is the   *)
(* one the operator last asked for, or the one a process that died inside  *)
(* an exclusion has left.                                                  *)
(***************************************************************************)
EXTENDS QueueCoordination, ExportQueueProofs

BatchOwns == BatchActive => owns

PausedWhileOwned == owns /\ ~toggled => paused

PauseRemembered ==
    LET remembered == IF owns THEN exportWasPaused ELSE paused
    IN  /\ strayed = "no" => remembered = wanted
        /\ strayed = "stranded" => remembered

ExclusionInv ==
    /\ ExportInv
    /\ TypeOK
    /\ BatchOwns
    /\ PausedWhileOwned
    /\ PauseRemembered
    /\ NeverSideBySide

-------------------------------------------------------------------------------
(***************************************************************************)
(* The composition and the export queue.                                   *)
(***************************************************************************)
LEMMA ExclusionInits == Init => ExclusionInv
<1> SUFFICES ASSUME Init PROVE ExclusionInv
  OBVIOUS
<1>1. ExportInv
  BY InitExports DEF Init
<1>2. TypeOK
  BY <1>1 DEF Init, TypeOK, ExportInv, BatchStates
<1>3. ~BatchActive /\ ~owns /\ paused = wanted /\ strayed = "no"
  BY DEF Init, ExportInit, BatchActive
<1> QED BY <1>1, <1>2, <1>3 DEF ExclusionInv, BatchOwns, PausedWhileOwned, PauseRemembered,
                                 NeverSideBySide

\* What a step does to the export queue.
LEMMA ExportStep ==
    ASSUME TypeOK, [Next]_vars
    PROVE  [ExportNext]_exportVars
<1> USE DEF TypeOK
<1>1. CASE ExportsMove
  BY <1>1 DEF ExportsMove, PollExportQueue, ExportNext
<1>2. CASE ToggleExportPaused
  BY <1>2 DEF ToggleExportPaused, ExportNext, ExportTypeOK
<1>3. CASE QueuePlan \/ BatchOperator \/ ToggleBatchPaused
  BY <1>3 DEF QueuePlan, BatchOperator, ToggleBatchPaused, SetBatch
<1>4. ASSUME NEW noJob \in BOOLEAN, PollBatches(noJob) PROVE [ExportNext]_exportVars
  BY <1>4 DEF PollBatches, Exclusion, TakeExclusion, GiveBack, ExportNext
<1>5. CASE Restart
  BY <1>5 DEF Restart, ExportNext
<1>6. CASE UNCHANGED vars
  BY <1>6 DEF vars
<1> QED BY <1>1, <1>2, <1>3, <1>4, <1>5, <1>6 DEF Next

\* An export step of its own keeps the pause; it starts an export only when the
\* queue is not paused.
LEMMA ExportsMoveAlone ==
    ASSUME ExportInv, ExportsMove
    PROVE  /\ paused' = paused
           /\ exporting' # None => exporting # None \/ ~paused
<1>1. CASE ExportOperator
  BY <1>1 DEF ExportOperator, EnqueueExport, CancelExport, StopAfterCurrent, RetryExport,
              ResumeHeld, ResumeExports, RetryAllFailed, ClearJobs, BumpSession, SetExports,
              exportQueue
<1>2. CASE PollExportQueue
  BY <1>2 DEF PollExportQueue, PollExports, MayStartExport, StartNothing
<1>3. CASE ExportBackground /\ UIElsewhere
  BY <1>3 DEF UIElsewhere, exportQueue
<1> QED BY <1>1, <1>2, <1>3 DEF ExportsMove

-------------------------------------------------------------------------------
(***************************************************************************)
(* The poll of the batch queue.                                            *)
(***************************************************************************)
LEMMA BatchPolled ==
    ASSUME TypeOK, NEW noJob \in BOOLEAN, PollBatches(noJob)
    PROVE  /\ batch' \in [Batches -> BatchStates]
           /\ BatchActive' => Blocks(batch')
           /\ BatchActive' => BatchActive \/ exporting = None
<1>1. PICK rows \in BatchSettled : batch' \in BatchStarted(rows, MayConvert(noJob))
  BY DEF PollBatches
<1>2. batch \in [Batches -> BatchStates]
  BY DEF TypeOK
<1>3. /\ rows \in [Batches -> BatchStates]
      /\ \A b \in Batches : rows[b] = "Processing" => batch[b] = "Processing"
  BY <1>1, <1>2 DEF BatchSettled, BatchStates
<1>4. \/ batch' = rows
      \/ /\ MayConvert(noJob)
         /\ \E b \in Batches : batch' = [rows EXCEPT ![b] = "Processing"]
  BY <1>1 DEF BatchStarted
<1>5. batch' \in [Batches -> BatchStates]
  BY <1>3, <1>4 DEF BatchStates
<1>6. BatchActive' => Blocks(batch')
  BY DEF BatchActive, Blocks
<1>7. BatchActive' => BatchActive \/ exporting = None
  BY <1>3, <1>4 DEF BatchActive, MayConvert
<1> QED BY <1>5, <1>6, <1>7

LEMMA ExclusionPolled ==
    ASSUME ExclusionInv, ExportInv', NEW noJob \in BOOLEAN, PollBatches(noJob)
    PROVE  ExclusionInv'
<1> USE DEF ExclusionInv
<1>1. /\ batch' \in [Batches -> BatchStates]
      /\ BatchActive' => Blocks(batch')
      /\ BatchActive' => BatchActive \/ exporting = None
      /\ batchPaused' = batchPaused /\ wanted' = wanted /\ strayed' = strayed
  BY BatchPolled DEF PollBatches
<1>2. ExportTypeOK' /\ paused \in BOOLEAN
  BY DEF ExportInv, ExportTypeOK
<1>3. CASE TakeExclusion
  <2>1. /\ owns' = TRUE /\ exportWasPaused' = paused /\ paused' = TRUE /\ toggled' = FALSE
        /\ ~owns /\ exporting' = exporting
    BY <1>3 DEF TakeExclusion, SetExportPaused
  <2>2. ~BatchActive
    BY <2>1 DEF BatchOwns
  <2>3. NeverSideBySide'
    BY <1>1, <2>1, <2>2 DEF NeverSideBySide
  <2> QED BY <1>1, <1>2, <2>1, <2>2, <2>3
          DEF TypeOK, BatchOwns, PausedWhileOwned, PauseRemembered
<1>4. CASE GiveBack
  <2>1. /\ owns' = FALSE /\ paused' = exportWasPaused /\ owns /\ ~Blocks(batch')
        /\ toggled' = toggled /\ exportWasPaused' = exportWasPaused
    BY <1>4 DEF GiveBack, SetExportPaused
  <2>2. ~BatchActive'
    BY <1>1, <2>1
  <2> QED BY <1>1, <1>2, <2>1, <2>2
          DEF TypeOK, BatchOwns, PausedWhileOwned, PauseRemembered, NeverSideBySide
<1>5. CASE /\ (owns <=> Blocks(batch')) \/ (owns /\ HasRecovery)
           /\ UNCHANGED <<exportVars, exclusionVars, toggled>>
  <2>1. /\ paused' = paused /\ exporting' = exporting /\ owns' = owns
        /\ exportWasPaused' = exportWasPaused /\ toggled' = toggled
    BY <1>5 DEF exportVars, exportQueue, exclusionVars
  <2>2. BatchOwns'
    BY <1>1, <1>5, <2>1 DEF BatchOwns
  <2>3. NeverSideBySide'
    BY <1>1, <2>1 DEF NeverSideBySide
  <2> QED BY <1>1, <1>2, <2>1, <2>2, <2>3 DEF TypeOK, PausedWhileOwned, PauseRemembered
<1> QED BY <1>3, <1>4, <1>5 DEF PollBatches, Exclusion

-------------------------------------------------------------------------------
(***************************************************************************)
(* The other steps.                                                        *)
(***************************************************************************)
LEMMA ExclusionMoved ==
    ASSUME ExclusionInv, ExportInv', ExportsMove, BatchElsewhere, UNCHANGED pauseHistory
    PROVE  ExclusionInv'
<1> USE DEF ExclusionInv, BatchElsewhere, batchVars, exclusionVars, pauseHistory
<1>1. /\ paused' = paused
      /\ exporting' # None => exporting # None \/ ~paused
  BY ExportsMoveAlone
<1>2. TypeOK'
  BY DEF TypeOK, ExportInv
<1>3. BatchOwns' /\ PausedWhileOwned' /\ PauseRemembered'
  BY <1>1 DEF BatchOwns, BatchActive, PausedWhileOwned, PauseRemembered
<1>4. NeverSideBySide'
  BY <1>1 DEF NeverSideBySide, BatchActive, BatchOwns, PausedWhileOwned
<1> QED BY <1>2, <1>3, <1>4

LEMMA ExclusionToggled ==
    ASSUME ExclusionInv, ExportInv', ToggleExportPaused
    PROVE  ExclusionInv'
<1> USE DEF ExclusionInv
<1>1. /\ paused' = ~paused /\ exporting' = exporting /\ batch' = batch
      /\ batchPaused' = batchPaused /\ owns' = owns /\ exportWasPaused' = exportWasPaused
      /\ wanted' = IF owns THEN wanted ELSE ~paused
      /\ toggled' = (toggled \/ owns)
      /\ strayed' = IF owns THEN strayed ELSE "no"
  BY DEF ToggleExportPaused, SetExportPaused, BatchElsewhere, batchVars, exclusionVars
<1>2. paused \in BOOLEAN /\ owns \in BOOLEAN /\ toggled \in BOOLEAN /\ wanted \in BOOLEAN
  BY DEF TypeOK, ExportTypeOK
<1>3. TypeOK'
  BY <1>1, <1>2 DEF TypeOK, ExportInv
<1>4. BatchOwns' /\ PausedWhileOwned' /\ PauseRemembered'
  BY <1>1, <1>2 DEF BatchOwns, BatchActive, PausedWhileOwned, PauseRemembered
<1>5. NeverSideBySide'
  BY <1>1, <1>2 DEF NeverSideBySide, BatchActive
<1> QED BY <1>3, <1>4, <1>5

\* No action of the operator puts a batch to work.
LEMMA ExclusionOperated ==
    ASSUME ExclusionInv, ExportInv', QueuePlan \/ BatchOperator \/ ToggleBatchPaused
    PROVE  ExclusionInv'
<1> USE DEF ExclusionInv
<1>1. UNCHANGED <<exportVars, exclusionVars, pauseHistory>>
  BY DEF QueuePlan, BatchOperator, ToggleBatchPaused, SetBatch
<1>2. batchPaused' \in BOOLEAN
  BY DEF QueuePlan, BatchOperator, ToggleBatchPaused, SetBatch, TypeOK
<1>3. \/ batch' = batch
      \/ \E b \in Batches, s \in BatchStates \ {"Processing"} :
             batch' = [batch EXCEPT ![b] = s]
  BY DEF QueuePlan, BatchOperator, ToggleBatchPaused, SetBatch, BatchStates
<1>4. batch' \in [Batches -> BatchStates] /\ (BatchActive' => BatchActive)
  BY <1>3 DEF TypeOK, BatchActive
<1>5. TypeOK'
  BY <1>1, <1>2, <1>4 DEF TypeOK, ExportInv, exclusionVars, pauseHistory
<1>6. BatchOwns' /\ PausedWhileOwned' /\ PauseRemembered' /\ NeverSideBySide'
  BY <1>1, <1>4 DEF BatchOwns, PausedWhileOwned, PauseRemembered, NeverSideBySide,
                    exportVars, exportQueue, exclusionVars, pauseHistory
<1> QED BY <1>5, <1>6

LEMMA ExclusionRestarted ==
    ASSUME ExclusionInv, ExportInv', Restart
    PROVE  ExclusionInv'
<1> USE DEF ExclusionInv
<1>1. /\ owns' = FALSE /\ exportWasPaused' = FALSE /\ wanted' = wanted /\ toggled' = FALSE
      /\ Strays
  BY DEF Restart
<1>2. /\ batch' \in [Batches -> BatchStates] /\ ~BatchActive'
      /\ batchPaused' \in BOOLEAN
  BY DEF Restart, ReloadBatches, BatchReloaded, BatchActive, TypeOK, BatchStates
<1>3. TypeOK'
  BY <1>1, <1>2 DEF TypeOK, ExportInv, ExportTypeOK, Strays
<1>4. PauseRemembered'
  BY <1>1 DEF Strays, PauseRemembered, PausedWhileOwned
<1> QED BY <1>1, <1>2, <1>3, <1>4 DEF BatchOwns, PausedWhileOwned, NeverSideBySide

LEMMA ExclusionKept ==
    ASSUME ExclusionInv, [Next]_vars
    PROVE  ExclusionInv'
<1>1. ExportInv'
  BY ExportStep, NextKeeps DEF ExclusionInv
<1>2. CASE ExportsMove /\ BatchElsewhere /\ UNCHANGED pauseHistory
  BY <1>1, <1>2, ExclusionMoved
<1>3. CASE ToggleExportPaused
  BY <1>1, <1>3, ExclusionToggled
<1>4. CASE QueuePlan \/ BatchOperator \/ ToggleBatchPaused
  BY <1>1, <1>4, ExclusionOperated
<1>5. CASE \E noJob \in BOOLEAN : PollBatches(noJob)
  BY <1>1, <1>5, ExclusionPolled
<1>6. CASE Restart
  BY <1>1, <1>6, ExclusionRestarted
<1>7. CASE UNCHANGED vars
  BY <1>1, <1>7 DEF vars, pauseHistory, exportVars, exportQueue, batchVars, exclusionVars, ExclusionInv, TypeOK,
                    ExportInv, BatchOwns, BatchActive, PausedWhileOwned, PauseRemembered,
                    NeverSideBySide
<1> QED BY <1>2, <1>3, <1>4, <1>5, <1>6, <1>7 DEF Next

-------------------------------------------------------------------------------
(***************************************************************************)
(* The theorems.                                                           *)
(***************************************************************************)
\* The exclusion is consistent with both queues in every reachable state.
THEOREM ExclusionInvHolds == Spec => []ExclusionInv
<1>1. Init => ExclusionInv
  BY ExclusionInits
<1>2. ExclusionInv /\ [Next]_vars => ExclusionInv'
  BY ExclusionKept
<1> QED BY <1>1, <1>2, PTL DEF Spec

\* Beside the batch queue the export queue still is an export queue: the exclusion
\* uses nothing but its operations.
THEOREM CoordinationIsExportQueue == Spec => ExportSpec
<1>1. Init => ExportInit
  BY DEF Init
<1>2. ExclusionInv /\ [Next]_vars => [ExportNext]_exportVars
  BY ExportStep DEF ExclusionInv
<1> QED BY <1>1, <1>2, ExclusionInvHolds, PTL DEF Spec, ExportSpec

\* Every variable of the coordination keeps its type.
THEOREM CoordinationTypes == Spec => []TypeOK
<1>1. ExclusionInv => TypeOK
  BY DEF ExclusionInv
<1> QED BY <1>1, ExclusionInvHolds, PTL

\* A batch and an export never run side by side unless the operator unpauses the
\* exports during the exclusion.
THEOREM QueuesNeverSideBySide == Spec => []NeverSideBySide
<1>1. ExclusionInv => NeverSideBySide
  BY DEF ExclusionInv
<1> QED BY <1>1, ExclusionInvHolds, PTL

\* Outside an exclusion the export queue is paused as the operator last asked outside
\* one, also over restarts; once a process has died inside an exclusion it is paused,
\* whatever the operator had asked, until the operator says otherwise.
THEOREM ExclusionGivesPauseBack == Spec => []PauseGivenBack
<1>1. ExclusionInv => PauseGivenBack
  BY DEF ExclusionInv, PauseRemembered, PauseGivenBack
<1> QED BY <1>1, ExclusionInvHolds, PTL
=============================================================================
