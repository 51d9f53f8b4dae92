---------------------- MODULE ConversionBatchFileProofs ----------------------
(***************************************************************************)
(* What the conversion batch queue leaves in its file, for every set of    *)
(* ids, captures, TIFF paths and projects: a committed Face that the file  *)
(* lists is never forgotten, and where saves succeed the file is up to     *)
(* date before the next Face is started.                                   *)
(*                                                                         *)
(* The arguments compare the rows in memory with the rows in the file, so  *)
(* what every step but a restart does to the two is proved once            *)
(* (NextSteps) and both invariants follow from that.                       *)
(***************************************************************************)
EXTENDS ConversionBatchQueueProofs

\* No row goes back behind its checkpoint, and a row that appears is new.
RowsAdvance ==
    \A i \in Ids : items'[i].status # "Absent" =>
        \/ items[i].status # "Absent" /\ items[i].done <= items'[i].done
        \/ ~(i < nextId)

\* The file holds the checkpoints of these rows, and no other.
FileHolds(file, rows, nid) ==
    /\ file.nextId = nid
    /\ \A i \in Ids : file.items[i].status # "Absent" =>
           rows[i].status # "Absent" /\ file.items[i].done = rows[i].done
    /\ \A i \in Ids : rows[i].status \notin {"Absent", "Done"} =>
           file.items[i].status # "Absent"

\* What one save leaves of the file `old`.
SavedOver(new, old, rows, nid) ==
    \/ persistent /\ FileHolds(new, rows, nid)
    \/ new = old /\ (~persistent \/ "persist" \in Faults)

\* One step of a queue that goes on running.
QueueStep ==
    /\ persistent' = persistent
    /\ nextId <= nextId'
    /\ RowsAdvance
    /\ \/ SavedOver(durable', durable, items', nextId')
       \/ durable' = durable /\ items' = items

\* The file is never ahead of the rows in memory; an unreadable file is not
\* written at all.
CheckpointBehind ==
    persistent =>
        /\ durable.nextId <= nextId
        /\ \A i \in Ids :
               items[i].status # "Absent" /\ durable.items[i].status # "Absent" =>
                   durable.items[i].done <= items[i].done

\* Every row with work left is in the file with its checkpoint.
FileCurrent ==
    /\ persistent
    /\ \A i \in Ids : items[i].status \notin {"Absent", "Done"} =>
           /\ durable.items[i].status # "Absent"
           /\ durable.items[i].done = items[i].done

-------------------------------------------------------------------------------
(***************************************************************************)
(* A save writes the rows it is given or, if it fails, nothing.            *)
(***************************************************************************)
LEMMA SaveWrites ==
    ASSUME NEW rows \in Rows, NEW nid, NEW psd, NEW old,
           NEW new \in AfterSave(rows, nid, psd, old)
    PROVE  SavedOver(new, old, rows, nid)
<1>1. \/ persistent /\ new = Snapshot(rows, nid, psd)
      \/ new = old /\ (~persistent \/ "persist" \in Faults)
  BY DEF AfterSave, Saved
<1>2. CASE persistent /\ new = Snapshot(rows, nid, psd)
  <2>1. new.nextId = nid /\ new.items = [i \in Ids |-> SavedRow(rows[i])]
    BY <1>2 DEF Snapshot
  <2>2. ASSUME NEW i \in Ids
        PROVE  /\ SavedRow(rows[i]).status # "Absent" =>
                      /\ rows[i].status # "Absent"
                      /\ SavedRow(rows[i]).done = rows[i].done
               /\ rows[i].status \notin {"Absent", "Done"} =>
                      SavedRow(rows[i]).status # "Absent"
    <3>1. CASE rows[i].status \in {"Absent", "Done"}
      BY <3>1 DEF SavedRow, Absent
    <3>2. CASE rows[i].status \notin {"Absent", "Done"}
      <4>1. rows[i] \in Item
        BY <3>2 DEF Rows, Absent
      <4>2. SavedRow(rows[i]) = [rows[i] EXCEPT !.resume = FALSE]
        BY <3>2 DEF SavedRow
      <4>3. /\ SavedRow(rows[i]).status = rows[i].status
            /\ SavedRow(rows[i]).done = rows[i].done
        BY <4>1, <4>2 DEF Item
      <4> QED BY <3>2, <4>3
    <3> QED BY <3>1, <3>2
  <2>3. FileHolds(new, rows, nid)
    BY <2>1, <2>2 DEF FileHolds
  <2> QED BY <1>2, <2>3 DEF SavedOver
<1> QED BY <1>1, <1>2 DEF SavedOver

\* Starting a row does not change what the file should hold of it.
LEMMA StartedFile ==
    ASSUME NEW rows \in Rows, NEW i \in Ids, rows[i].status = "Waiting",
           NEW file, NEW nid, FileHolds(file, rows, nid)
    PROVE  FileHolds(file, [rows EXCEPT ![i].status = "Processing"], nid)
<1> DEFINE started == [rows EXCEPT ![i].status = "Processing"]
<1>1. rows[i] \in Item
  BY DEF Rows, Absent
<1>2. started[i].status = "Processing" /\ started[i].done = rows[i].done
  BY <1>1 DEF Rows, Item
<1>3. \A k \in Ids \ {i} : started[k] = rows[k]
  BY DEF Rows
<1> HIDE DEF started
<1>4. \A k \in Ids : /\ started[k].done = rows[k].done
                     /\ started[k].status # "Absent" <=> rows[k].status # "Absent"
                     /\ started[k].status \notin {"Absent", "Done"} =>
                            rows[k].status \notin {"Absent", "Done"}
  BY <1>2, <1>3
<1>5. FileHolds(file, started, nid)
  BY <1>4 DEF FileHolds
<1> QED BY <1>5 DEF started

-------------------------------------------------------------------------------
(***************************************************************************)
(* The steps.                                                              *)
(***************************************************************************)
\* A step that saves the rows it leaves.
LEMMA SavingStep ==
    ASSUME QueueInv, items' \in Rows, Persist(items', nextId', paused'),
           persistent' = persistent, nextId <= nextId',
           \A i \in Ids : items'[i].status # "Absent" =>
               \/ items[i].status # "Absent" /\ items'[i].done = items[i].done
               \/ items[i].status # "Absent" /\ items'[i].done = items[i].done + 1
               \/ i = nextId
    PROVE  QueueStep
<1>1. SavedOver(durable', durable, items', nextId')
  BY SaveWrites DEF Persist
<1>2. ASSUME NEW i \in Ids, items'[i].status # "Absent"
      PROVE  \/ items[i].status # "Absent" /\ items[i].done <= items'[i].done
             \/ ~(i < nextId)
  <2>1. CASE i = nextId
    BY <2>1, TransactionAssumption DEF QueueInv, QueueTypeOK, TransactionAssumptions
  <2>2. CASE items[i].status # "Absent"
    <3>1. items[i].done \in Nat
      BY <2>2, PresentRow DEF Item
    <3> QED BY <1>2, <2>1, <2>2, <3>1
  <2> QED BY <1>2, <2>1, <2>2
<1> QED BY <1>1, <1>2 DEF QueueStep, RowsAdvance

\* A step that does not touch the queue.
LEMMA QuietStep ==
    ASSUME QueueInv, UNCHANGED <<items, nextId, persistent, durable>>
    PROVE  QueueStep
<1>1. \A i \in Ids : items[i].status # "Absent" => items[i].done \in Nat
  BY PresentRow DEF Item
<1>2. nextId \in Nat
  BY DEF QueueInv, QueueTypeOK
<1> QED BY <1>1, <1>2 DEF QueueStep, RowsAdvance

\* SetItems, where every row keeps its checkpoint.
LEMMA SetItemsStep ==
    ASSUME QueueInv, QueueInv', NEW rows, SetItems(rows),
           \A i \in Ids : rows[i].status # "Absent" =>
               items[i].status # "Absent" /\ rows[i].done = items[i].done
    PROVE  QueueStep
<1>1. /\ items' = rows /\ nextId' = nextId /\ paused' = paused
      /\ persistent' = persistent /\ Persist(items', nextId', paused')
  BY DEF SetItems, Persist
<1>2. items' \in Rows /\ nextId <= nextId'
  BY <1>1 DEF QueueInv, QueueTypeOK
<1> QED BY <1>1, <1>2, SavingStep

LEMMA EnqueueStep ==
    ASSUME QueueInv, QueueInv', NEW j \in Jobs, Enqueue(j)
    PROVE  QueueStep
<1>1. /\ items' \in Rows /\ nextId \in Nat /\ nextId \in Ids
      /\ nextId' = nextId + 1 /\ persistent' = persistent /\ paused' = paused
      /\ Persist(items', nextId', paused')
      /\ \A i \in Ids \ {nextId} : items'[i] = items[i]
  BY DEF Enqueue, Persist, QueueInv, QueueTypeOK, Rows
<1>2. nextId <= nextId'
  BY <1>1
<1>3. \A i \in Ids : items'[i].status # "Absent" =>
                         \/ items[i].status # "Absent" /\ items'[i].done = items[i].done
                         \/ i = nextId
  BY <1>1
<1> QED BY <1>1, <1>2, <1>3, SavingStep

LEMMA OperatorQueueStep ==
    ASSUME QueueInv, QueueInv', Operator
    PROVE  QueueStep
<1>1. ASSUME NEW j \in Jobs, Enqueue(j) PROVE QueueStep
  BY <1>1, EnqueueStep
<1>2. CASE SetPaused
  <2>1. /\ items' = items /\ nextId' = nextId /\ persistent' = persistent
        /\ Persist(items', nextId', paused')
    BY <1>2 DEF SetPaused, Persist
  <2> QED BY <2>1, SavingStep DEF QueueInv, QueueTypeOK
<1>3. CASE ResumeRecovered
  <2> DEFINE held == {i \in Ids : items[i].status = "Waiting" /\ items[i].resume}
             rows == [i \in Ids |-> IF i \in held THEN [items[i] EXCEPT !.resume = FALSE]
                                                   ELSE items[i]]
  <2>1. SetItems(rows)
    BY <1>3 DEF ResumeRecovered
  <2>2. ASSUME NEW i \in Ids, rows[i].status # "Absent"
        PROVE  items[i].status # "Absent" /\ rows[i].done = items[i].done
    <3>1. CASE i \in held
      <4>1. items[i] \in Item
        BY <3>1, PresentRow
      <4> QED BY <3>1, <4>1 DEF Item, Statuses
    <3>2. CASE i \notin held
      BY <2>2, <3>2
    <3> QED BY <3>1, <3>2
  <2> HIDE DEF rows
  <2> QED BY <2>1, <2>2, SetItemsStep
<1>4. CASE ClearFinished
  <2> DEFINE gone == {i \in Ids : Finished(items[i].status)}
             rows == [i \in Ids |-> IF i \in gone THEN Absent ELSE items[i]]
  <2>1. SetItems(rows)
    BY <1>4 DEF ClearFinished
  <2>2. \A i \in Ids : rows[i].status # "Absent" =>
                           items[i].status # "Absent" /\ rows[i].done = items[i].done
    BY DEF Absent
  <2> HIDE DEF rows
  <2> QED BY <2>1, <2>2, SetItemsStep
<1>5. ASSUME NEW i \in Ids, CancelWaiting(i) PROVE QueueStep
  <2> DEFINE rows == [items EXCEPT ![i].status = "Cancelled", ![i].resume = FALSE]
  <2>1. items[i] \in Item /\ items[i].status = "Waiting"
    BY <1>5, PresentRow DEF CancelWaiting
  <2>2. SetItems(rows)
    BY <1>5 DEF CancelWaiting
  <2>3. rows[i].done = items[i].done /\ \A k \in Ids \ {i} : rows[k] = items[k]
    BY <2>1 DEF Item, QueueInv, QueueTypeOK, Rows
  <2> HIDE DEF rows
  <2> QED BY <2>1, <2>2, <2>3, SetItemsStep
<1>6. ASSUME NEW i \in Ids, CancelActive(i) PROVE QueueStep
  BY <1>6, QuietStep DEF CancelActive, queueVars
<1>7. ASSUME NEW i \in Ids, Retry(i) PROVE QueueStep
  <2> DEFINE rows == [items EXCEPT ![i].status = "Waiting", ![i].resume = FALSE,
                                   ![i].rec = None]
  <2>1. items[i] \in Item /\ items[i].status # "Absent"
    BY <1>7, PresentRow DEF Retry
  <2>2. SetItems(rows)
    BY <1>7 DEF Retry
  <2>3. rows[i].done = items[i].done /\ \A k \in Ids \ {i} : rows[k] = items[k]
    BY <2>1 DEF Item, QueueInv, QueueTypeOK, Rows
  <2> HIDE DEF rows
  <2> QED BY <2>1, <2>2, <2>3, SetItemsStep
<1> QED BY <1>1, <1>2, <1>3, <1>4, <1>5, <1>6, <1>7 DEF Operator

\* Only an advance moves a checkpoint, by one Face.
LEMMA AdvanceDone ==
    ASSUME NEW row \in Item
    PROVE  Advance(row).done = row.done + 1
BY DEF Advance, Item

LEMMA RecoveryQueueStep ==
    ASSUME IInv, QueueInv', Recovery
    PROVE  QueueStep
<1>1. QueueInv
  BY DEF IInv
<1>2. ASSUME NEW i \in Ids, BeginRecovery(i) PROVE QueueStep
  BY <1>1, <1>2, QuietStep DEF BeginRecovery, queueVars
<1>3. ASSUME NEW i \in Ids, RecoverUncertain(i) PROVE QueueStep
  <2>1. /\ items' = items /\ nextId' = nextId /\ persistent' = persistent
        /\ Persist(items', nextId', paused')
    BY <1>3 DEF RecoverUncertain, Persist, queueVars
  <2> QED BY <1>1, <2>1, SavingStep DEF QueueInv, QueueTypeOK
<1>4. ASSUME NEW i \in Ids, RecoverFails(i) PROVE QueueStep
  BY <1>1, <1>4, SetItemsStep DEF RecoverFails
<1>5. ASSUME NEW i \in Ids, Recover(i) PROVE QueueStep
  <2>1. items[i].status = "NeedsRecovery" /\ items[i] \in Item
    BY <1>1, <1>5, RecoveredRow, PresentRow DEF RecoveryAllowed, NeedsRecovery
  <2>2. /\ items'[i].done = items[i].done + 1
        /\ \A k \in Ids \ {i} : items'[k] = items[k]
    BY <1>1, <1>5, <2>1, AdvanceDone DEF Recover, QueueInv, QueueTypeOK, Rows
  <2>3. /\ items' \in Rows /\ nextId \in Nat /\ nextId' = nextId
        /\ persistent' = persistent /\ Persist(items', nextId', paused')
    BY <1>1, <1>5 DEF Recover, Persist, QueueInv, QueueTypeOK
  <2> QED BY <1>1, <2>1, <2>2, <2>3, SavingStep
<1> QED BY <1>2, <1>3, <1>4, <1>5 DEF Recovery

\* A report moves the checkpoint of its row on by one Face or not at all.
LEMMA DrainedDone ==
    ASSUME QueueInv, NEW i \in Ids, Drained[i].status # "Absent"
    PROVE  /\ items[i].status # "Absent"
           /\ Drained[i].done \in {items[i].done, items[i].done + 1}
<1>1. CASE i \notin Reported
  BY <1>1 DEF Drained
<1>2. CASE i \in Reported
  <2>1. items[i] \in Item /\ items[i].status = "Processing"
    BY <1>2, ReportFits
  <2>2. Drained[i] = ApplyStepOutcome(items[i], worker[i])
    BY <1>2, <2>1 DEF Drained
  <2>3. \/ Drained[i] = Advance(items[i])
        \/ \E rec : Drained[i] = [items[i] EXCEPT !.status = "NeedsRecovery",
                                                  !.resume = FALSE, !.rec = rec]
        \/ Drained[i] = [items[i] EXCEPT !.status = worker[i].outcome,
                                         !.resume = FALSE, !.rec = None]
    BY <2>2 DEF ApplyStepOutcome
  <2> QED BY <2>1, <2>3, AdvanceDone DEF Item
<1> QED BY <1>1, <1>2

LEMMA PollStep ==
    ASSUME QueueInv, QueueInv', Poll
    PROVE  QueueStep
<1>1. /\ items' = Drained /\ nextId' = nextId /\ persistent' = persistent
      /\ paused' = paused /\ Persist(items', nextId', paused')
  BY DEF Poll, Persist
<1>2. items' \in Rows /\ nextId <= nextId'
  BY <1>1 DEF QueueInv, QueueTypeOK
<1>3. \A i \in Ids : items'[i].status # "Absent" =>
          \/ items[i].status # "Absent" /\ items'[i].done = items[i].done
          \/ items[i].status # "Absent" /\ items'[i].done = items[i].done + 1
  BY <1>1, DrainedDone
<1> QED BY <1>1, <1>2, <1>3, SavingStep

\* The reports are saved, and then the started row: the second save may fail
\* and leave the first one, which holds the same checkpoints.
LEMMA PollAndStartStep ==
    ASSUME QueueInv, NEW i \in Ids, PollAndStart(i)
    PROVE  QueueStep
<1> DEFINE started == [Drained EXCEPT ![i].status = "Processing"]
<1>1. /\ items' = started /\ nextId' = nextId /\ persistent' = persistent
      /\ i \in Ready(Drained)
  BY DEF PollAndStart, IsFirst
<1>2. Drained[i].status = "Waiting" /\ Drained \in Rows
  BY <1>1, DrainedSound DEF Ready
<1>3. Drained[i] \in Item
  BY <1>2 DEF Rows, Absent
<1>4. /\ started[i].status = "Processing" /\ started[i].done = Drained[i].done
      /\ \A k \in Ids \ {i} : started[k] = Drained[k]
      /\ started \in Rows
  <2>1. [Drained[i] EXCEPT !.status = "Processing"] \in Item
    BY <1>3 DEF Item, Statuses
  <2> QED BY <1>2, <1>3, <2>1 DEF Rows, Item
<1>5. PICK saved \in IF Reported = {} THEN {durable}
                     ELSE AfterSave(Drained, nextId, paused, durable) :
          durable' \in AfterSave(started, nextId, paused, saved)
  BY DEF PollAndStart
<1>6. saved = durable \/ SavedOver(saved, durable, Drained, nextId)
  BY <1>2, <1>5, SaveWrites
<1>7. \A file : FileHolds(file, Drained, nextId) => FileHolds(file, started, nextId)
  BY <1>2, StartedFile
<1>8. SavedOver(durable', saved, started, nextId)
  <2> HIDE DEF started
  <2> QED BY <1>4, <1>5, SaveWrites
<1> HIDE DEF started
<1>9. SavedOver(durable', durable, items', nextId')
  BY <1>1, <1>6, <1>7, <1>8 DEF SavedOver
<1>10. ASSUME NEW k \in Ids, items'[k].status # "Absent"
       PROVE  items[k].status # "Absent" /\ items[k].done <= items'[k].done
  <2>1. Drained[k].status # "Absent" /\ items'[k].done = Drained[k].done
    BY <1>1, <1>2, <1>4, <1>10
  <2>2. /\ items[k].status # "Absent"
        /\ Drained[k].done \in {items[k].done, items[k].done + 1}
    BY <2>1, DrainedDone
  <2>3. items[k].done \in Nat
    BY <2>2, PresentRow DEF Item
  <2> QED BY <2>1, <2>2, <2>3
<1>11. nextId <= nextId'
  BY <1>1 DEF QueueInv, QueueTypeOK
<1> QED BY <1>1, <1>9, <1>10, <1>11 DEF QueueStep, RowsAdvance

(***************************************************************************)
(* A step is one of a running queue, or the process has been replaced.     *)
(***************************************************************************)
LEMMA NextSteps ==
    ASSUME IInv, [Next]_vars
    PROVE  QueueStep \/ Restart \/ RestartWithoutFile
<1>1. IInv' /\ QueueInv /\ QueueInv'
  BY NextKeeps DEF IInv
<1>2. CASE Idling /\ Operator
  BY <1>1, <1>2, OperatorQueueStep
<1>3. CASE Recovery
  BY <1>1, <1>3, RecoveryQueueStep
<1>4. ASSUME NEW allow \in AllowStart, Frame(allow) PROVE QueueStep
  BY <1>1, <1>4, PollStep, PollAndStartStep DEF Frame, PollWithStart
<1>5. CASE Elsewhere \/ UNCHANGED vars
  BY <1>1, <1>5, QuietStep DEF Elsewhere, vars, queueVars
<1> QED BY <1>2, <1>3, <1>4, <1>5 DEF Next

-------------------------------------------------------------------------------
(***************************************************************************)
(* The checkpoints in the file.                                            *)
(***************************************************************************)
\* A row of the file that is still in memory has advanced, if at all.
LEMMA FileRowAdvances ==
    ASSUME IInv, persistent, CheckpointBehind, RowsAdvance, nextId \in Nat,
           NEW i \in Ids, durable.items[i].status # "Absent",
           items'[i].status # "Absent", items'[i].done \in Nat
    PROVE  durable.items[i].done <= items'[i].done
<1>1. i \in Nat /\ i < durable.nextId /\ durable.nextId \in Nat
  BY TransactionAssumption
     DEF IInv, QueueInv, QueueTypeOK, FreshIds, Envelope, TransactionAssumptions
<1>2. i < nextId
  BY <1>1 DEF CheckpointBehind
<1>3. items[i].status # "Absent" /\ items[i].done <= items'[i].done
  BY <1>2 DEF RowsAdvance
<1>4. items[i].done \in Nat
  BY <1>3, PresentRow DEF IInv, Item
<1>5. durable.items[i].done \in Nat
  BY DEF IInv, QueueInv, QueueTypeOK, Envelope, Rows, Absent, Item
<1>6. durable.items[i].done <= items[i].done
  BY <1>3 DEF CheckpointBehind
<1> QED BY <1>3, <1>4, <1>5, <1>6

LEMMA CheckpointBehindKept ==
    ASSUME IInv, CheckpointBehind, [Next]_vars
    PROVE  CheckpointBehind'
<1>1. IInv'
  BY NextKeeps
<1>2. /\ nextId \in Nat /\ nextId' \in Nat /\ durable.nextId \in Nat
      /\ \A i \in Ids : items'[i].status # "Absent" => items'[i].done \in Nat
  BY <1>1 DEF IInv, QueueInv, QueueTypeOK, Envelope, Rows, Absent, Item
<1>3. CASE QueueStep
  <2> SUFFICES ASSUME persistent'
               PROVE  /\ durable'.nextId <= nextId'
                      /\ \A i \in Ids :
                             /\ items'[i].status # "Absent"
                             /\ durable'.items[i].status # "Absent"
                             => durable'.items[i].done <= items'[i].done
    BY DEF CheckpointBehind
  <2>1. persistent /\ nextId <= nextId' /\ RowsAdvance
    BY <1>3 DEF QueueStep
  <2>2. CASE durable' = durable
    BY <1>2, <2>1, <2>2, FileRowAdvances DEF CheckpointBehind
  <2>3. CASE FileHolds(durable', items', nextId')
    BY <1>2, <2>3 DEF FileHolds
  <2> QED BY <1>3, <2>2, <2>3 DEF QueueStep, SavedOver
<1>4. CASE Restart
  <2>1. /\ durable' = durable /\ nextId' = durable.nextId
        /\ items' = [i \in Ids |-> LoadedRow(durable.items[i])]
    BY <1>4 DEF Restart, Died
  <2>2. ASSUME NEW i \in Ids, durable.items[i].status # "Absent"
        PROVE  /\ durable.items[i].done \in Nat
               /\ LoadedRow(durable.items[i]).done = durable.items[i].done
    BY <2>2 DEF LoadedRow, IInv, QueueInv, QueueTypeOK, Envelope, Rows, Absent, Item
  <2> QED BY <1>2, <2>1, <2>2 DEF CheckpointBehind
<1>5. CASE RestartWithoutFile
  BY <1>5 DEF RestartWithoutFile, CheckpointBehind
<1> QED BY <1>3, <1>4, <1>5, NextSteps

(***************************************************************************)
(* The queue file never forgets a committed Face of a row it keeps: not    *)
(* when a save fails, a Face fails, a row is cancelled, retried or         *)
(* recovered, nor when the process is replaced (persist, load).            *)
(***************************************************************************)
THEOREM FileNeverForgets == Spec => DurableCheckpointMonotone
<1>1. Init => CheckpointBehind
  BY DEF Init, CheckpointBehind, EmptyRows, Absent
<1>2. IInv /\ CheckpointBehind /\ [Next]_vars => CheckpointBehind'
  BY CheckpointBehindKept
<1>3. ASSUME IInv, CheckpointBehind, [Next]_vars,
             NEW i \in Present(durable.items) \cap Present(durable'.items)
      PROVE  durable.items[i].done <= durable'.items[i].done
  <2>1. /\ i \in Ids /\ durable.items[i].status # "Absent"
        /\ durable'.items[i].status # "Absent"
    BY DEF Present
  <2>2. nextId \in Nat /\ durable.items[i].done \in Nat
    BY <1>3, <2>1 DEF IInv, QueueInv, QueueTypeOK, Envelope, Rows, Absent, Item
  <2>3. CASE durable' = durable
    BY <2>2, <2>3
  <2>4. CASE QueueStep /\ persistent /\ FileHolds(durable', items', nextId')
    <3>1. /\ items'[i].status # "Absent"
          /\ durable'.items[i].done = items'[i].done
      BY <2>1, <2>4 DEF FileHolds
    <3>2. items'[i].done \in Nat
      BY <1>3, <2>1, <3>1, NextKeeps
         DEF IInv, QueueInv, QueueTypeOK, Rows, Absent, Item
    <3> QED BY <1>3, <2>1, <2>2, <2>4, <3>1, <3>2, FileRowAdvances DEF QueueStep
  <2> QED BY <1>3, <2>3, <2>4, NextSteps
          DEF QueueStep, SavedOver, Restart, RestartWithoutFile, Died
<1>4. IInv /\ CheckpointBehind /\ [Next]_vars =>
        (\A i \in Present(durable.items) \cap Present(durable'.items) :
            durable.items[i].done <= durable'.items[i].done)
  BY <1>3
<1> QED BY <1>1, <1>2, <1>4, InvariantHolds, PTL DEF Spec, DurableCheckpointMonotone

(***************************************************************************)
(* Where the queue file can be read and written, it lists every earlier    *)
(* Face of a batch before the worker of the next Face starts               *)
(* (poll_with_start saves what it drained before it starts a row).         *)
(***************************************************************************)
THEOREM FileBeforeNextFace ==
    ASSUME "persist" \notin Faults, "load" \notin Faults
    PROVE  Spec => []DurableBeforeNext
<1>1. Init => FileCurrent
  BY DEF Init, FileCurrent, EmptyRows, Absent
<1>2. ASSUME IInv, FileCurrent, [Next]_vars PROVE FileCurrent'
  <2>1. CASE QueueStep
    BY <1>2, <2>1 DEF QueueStep, SavedOver, FileHolds, FileCurrent
  <2>2. CASE Restart
    <3>1. /\ durable' = durable /\ persistent'
          /\ items' = [i \in Ids |-> LoadedRow(durable.items[i])]
      BY <2>2 DEF Restart, Died
    <3>2. ASSUME NEW i \in Ids, LoadedRow(durable.items[i]).status # "Absent"
          PROVE  /\ durable.items[i].status # "Absent"
                 /\ durable.items[i].done = LoadedRow(durable.items[i]).done
      BY <1>2, <3>2
         DEF LoadedRow, IInv, QueueInv, QueueTypeOK, Envelope, Rows, Absent, Item
    <3> QED BY <3>1, <3>2 DEF FileCurrent
  <2> QED BY <1>2, <2>1, <2>2, NextSteps DEF RestartWithoutFile
<1>3. IInv /\ FileCurrent /\ [Next]_vars => FileCurrent'
  BY <1>2
<1>4. ASSUME IInv, FileCurrent PROVE DurableBeforeNext
  <2> SUFFICES ASSUME NEW i \in Ids, worker[i].pc # "idle"
               PROVE  /\ i \in Present(durable.items)
                      /\ durable.items[i].done >= worker[i].ord
    BY DEF DurableBeforeNext
  <2>1. items[i].status = "Processing" /\ worker[i].ord = items[i].done
    BY <1>4 DEF IInv, QueueInv, SingleWorker
  <2>2. durable.items[i].status # "Absent" /\ durable.items[i].done = worker[i].ord
    BY <1>4, <2>1 DEF FileCurrent
  <2>3. worker[i].ord \in Nat
    BY <1>4, RunningWorker DEF IInv, Running
  <2> QED BY <2>2, <2>3 DEF Present
<1>5. IInv /\ FileCurrent => DurableBeforeNext
  BY <1>4
<1> QED BY <1>1, <1>3, <1>5, InvariantHolds, PTL DEF Spec
===============================================================================
