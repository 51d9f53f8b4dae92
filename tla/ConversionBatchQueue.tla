------------------------ MODULE ConversionBatchQueue ------------------------
(***************************************************************************)
(* The durable runtime of every new Production colour conversion: a FIFO   *)
(* of immutable batches, one worker thread at a time, one Face per worker, *)
(* a checkpoint of committed Faces that is saved before the next Face is   *)
(* started, and project-only recovery of a Face whose TIFF is committed    *)
(* but not linked.                                                         *)
(*                                                                         *)
(* The queue lives on the UI thread: each of its operations is one step.   *)
(* Worker threads (ProductionTransaction) run between them and report      *)
(* through the channel: pc = "finished" is a Finished event not yet polled.*)
(***************************************************************************)
EXTENDS ProductionTransaction, QueueCore, FiniteSets

CONSTANT AllowStart   \* values poll_with_start is called with: SUBSET BOOLEAN

ASSUME AllowStartAssumption == AllowStart \subseteq BOOLEAN

VARIABLES
    items,       \* the rows, by id
    nextId,      \* QueueRuntime.next_id
    active,      \* QueueRuntime.active_id
    paused,      \* QueueRuntime.paused
    persistent,  \* the queue has a persistence path
    durable,     \* the queue file
    recovering,  \* the row whose recovery has checked and not yet saved
    authorized   \* history: rows the operator queued, resumed, retried or
                 \* recovered since this process started

queueVars == <<items, nextId, active, paused, persistent>>
vars == <<transactionVars, queueVars, durable, recovering, authorized>>

Record == [ord : Nat, disp : Disposition, built : MaybeProject]

\* An absent recovery record is not a record.
ASSUME RecordAssumption == None \notin Record

Item == [job : Jobs, status : Statuses, resume : BOOLEAN, done : Nat,
         expected : MaybeProject, rec : Record \cup {None}]
Absent == [status |-> "Absent"]
Rows == [Ids -> Item \cup {Absent}]
Envelope == [items : Rows, nextId : Nat, paused : BOOLEAN]

Present(rows) == {i \in Ids : rows[i].status # "Absent"}

\* Rows that one start_next may pick.
Ready(rows) ==
    {i \in Ids : rows[i].status = "Waiting" /\ ~rows[i].resume}

TiffsOf(j) == {FacesOf[j][k] : k \in 1..FaceCount(j)}
SharesDestination(j, k) ==
    ProjectOf[j] = ProjectOf[k] \/ TiffsOf(j) \cap TiffsOf(k) # {}

-------------------------------------------------------------------------------
\* Faulty: a row is left out of the file while its worker runs.
SavedRowAtRest(row) ==
    IF row.status \in {"Absent", "Done", "Processing"} THEN Absent
    ELSE [row EXCEPT !.resume = FALSE]

\* persist: Done rows are left out, requires_resume is not part of the format.
SavedRow(row) ==
    IF row.status \in {"Absent", "Done"} THEN Absent
    ELSE [row EXCEPT !.resume = FALSE]

Snapshot(rows, nid, psd) ==
    [items |-> [i \in Ids |-> SavedRow(rows[i])], nextId |-> nid, paused |-> psd]

AfterSave(rows, nid, psd, old) ==
    Saved(Snapshot(rows, nid, psd), old, persistent, "persist" \in Faults)

Persist(rows, nid, psd) == durable' \in AfterSave(rows, nid, psd, durable)

\* Faulty: an interrupted row is ready again at once.
LoadedRowReady(row) ==
    IF row.status = "Absent" THEN Absent
    ELSE [row EXCEPT !.status = Restored(@), !.resume = FALSE]

LoadedRow(row) ==
    IF row.status = "Absent" THEN Absent
    ELSE [row EXCEPT !.status = Restored(@), !.resume = Interrupted(row.status)]

EmptyRows == [i \in Ids |-> Absent]

Init ==
    /\ TransactionInit
    /\ items = EmptyRows
    /\ nextId = 1
    /\ active = None
    /\ paused = FALSE
    /\ persistent = TRUE
    /\ durable = [items |-> EmptyRows, nextId |-> 1, paused |-> FALSE]
    /\ recovering = None
    /\ authorized = {}

-------------------------------------------------------------------------------
(***************************************************************************)
(* Operator actions on the UI thread.                                      *)
(***************************************************************************)
SetItems(rows) ==
    /\ items' = rows
    /\ Persist(rows, nextId, paused)
    /\ UNCHANGED <<transactionVars, nextId, active, paused, persistent>>

\* The plan decides between a new project and the existing one, and captures
\* the fingerprint of the latter; the queue then refuses a reserved destination.
\* (nextId \in Ids is the bound MaxId.)
Enqueue(j) ==
    /\ nextId \in Ids
    /\ ModeOf[j] = "CreateNew" <=> project[ProjectOf[j]] = None
    /\ \A i \in Ids : ReservesDestination(items[i].status) =>
           ~SharesDestination(items[i].job, j)
    /\ items' = [items EXCEPT ![nextId] =
                   [job |-> j, status |-> "Waiting", resume |-> FALSE, done |-> 0,
                    expected |-> project[ProjectOf[j]], rec |-> None]]
    /\ nextId' = nextId + 1
    /\ Persist(items', nextId', paused)
    /\ authorized' = authorized \cup {nextId}
    /\ UNCHANGED <<transactionVars, active, paused, persistent>>

SetPaused ==
    /\ paused' = ~paused
    /\ Persist(items, nextId, paused')
    /\ UNCHANGED <<transactionVars, items, nextId, active, persistent, authorized>>

ResumeRecovered ==
    LET held == {i \in Ids : items[i].status = "Waiting" /\ items[i].resume}
    IN  /\ held # {}
        /\ SetItems([i \in Ids |-> IF i \in held
                                   THEN [items[i] EXCEPT !.resume = FALSE]
                                   ELSE items[i]])
        /\ authorized' = authorized \cup held

CancelWaiting(i) ==
    /\ items[i].status = "Waiting"
    /\ SetItems([items EXCEPT ![i].status = "Cancelled", ![i].resume = FALSE])
    /\ UNCHANGED authorized

\* Only asks: the worker looks at the flag up to its commit gate.
CancelActive(i) ==
    /\ items[i].status = "Processing"
    /\ active = i
    /\ worker[i].pc # "idle"
    /\ ~worker[i].cancel
    /\ worker' = [worker EXCEPT ![i].cancel = TRUE]
    /\ UNCHANGED <<diskVars, historyVars, queueVars, durable, authorized>>

\* Faulty: a retry starts the batch again from its first Face.
RetryFromStart(i) ==
    /\ items[i].status \in {"Failed", "Cancelled"}
    /\ SetItems([items EXCEPT ![i].status = "Waiting", ![i].resume = FALSE,
                              ![i].rec = None, ![i].done = 0])
    /\ authorized' = authorized \cup {i}

\* Keeps the checkpoint; does not look at destinations.
Retry(i) ==
    /\ items[i].status \in {"Failed", "Cancelled"}
    /\ SetItems([items EXCEPT ![i].status = "Waiting", ![i].resume = FALSE,
                              ![i].rec = None])
    /\ authorized' = authorized \cup {i}

ClearFinished ==
    LET gone == {i \in Ids : Finished(items[i].status)}
    IN  /\ gone # {}
        /\ SetItems([i \in Ids |-> IF i \in gone THEN Absent ELSE items[i]])
        /\ UNCHANGED authorized

-------------------------------------------------------------------------------
(***************************************************************************)
(* Recovery of row i replays only the project save, on the UI thread: it   *)
(* checks, then saves.  The queue stands still in between; a worker of     *)
(* another row and other programs do not.                                  *)
(***************************************************************************)
NeedsRecovery(i) == items[i].status = "NeedsRecovery"
PendingTiff(row) == FacesOf[row.job][row.done + 1]

\* Faulty: the last Face does not end the batch.
AdvanceForever(row) ==
    [row EXCEPT !.done = @ + 1, !.status = "Waiting", !.rec = None, !.resume = FALSE]

\* record_committed, and Done after the last Face.
Advance(row) ==
    [row EXCEPT !.done = @ + 1,
                !.status = IF row.done + 1 = FaceCount(row.job) THEN "Done"
                           ELSE "Waiting",
                !.rec = None, !.resume = FALSE]

RecoveryAllowed(i) ==
    /\ NeedsRecovery(i)
    /\ active # i
    /\ items[i].rec # None
    /\ items[i].rec.ord = items[i].done

Linked(i) == AlreadyLinked(items[i].job, PendingTiff(items[i]), items[i].rec)
CanReplay(i) == Replayable(items[i].job, PendingTiff(items[i]), items[i].rec)

\* The checks have passed and there is something to save.
BeginRecovery(i) ==
    /\ recovering = None
    /\ RecoveryAllowed(i)
    /\ CanReplay(i)
    /\ recovering' = i
    /\ UNCHANGED <<transactionVars, queueVars, durable, authorized>>

\* The save puts the project of the record there, whatever is there by now.
Replay(i) ==
    /\ recovering = i
    /\ MayReplay(items[i].job, items[i].rec)

\* The project of the record is at its path.
Relink(i) ==
    /\ project' = [project EXCEPT ![ProjectOf[items[i].job]] = items[i].rec.built]
    /\ registered' = [registered EXCEPT
                        ![items[i].job] = AtLeast(@, items[i].done + 1)]

Recover(i) ==
    /\ \/ Replay(i)
       \/ recovering = None /\ RecoveryAllowed(i) /\ Linked(i)
    /\ Relink(i)
    /\ items' = [items EXCEPT ![i] = Advance(items[i])]
    /\ Persist(items', nextId, paused)
    /\ recovering' = None
    /\ authorized' = authorized \cup {i}
    /\ UNCHANGED <<tiff, worker, rendered, nextId, active, paused, persistent>>

\* The project is replaced, then syncing its directory fails: an error.
RecoverUncertain(i) ==
    /\ "io" \in Faults
    /\ Replay(i)
    /\ Relink(i)
    /\ Persist(items, nextId, paused)
    /\ recovering' = None
    /\ UNCHANGED <<tiff, worker, rendered, queueVars, authorized>>

\* The row only gets a new error text, which is saved.
RecoverFails(i) ==
    /\ \/ /\ recovering = None
          /\ RecoveryAllowed(i)
          /\ ~(Linked(i) \/ CanReplay(i)) \/ "io" \in Faults
       \/ /\ recovering = i
          /\ ~MayReplay(items[i].job, items[i].rec) \/ "io" \in Faults
    /\ SetItems(items)
    /\ recovering' = None
    /\ UNCHANGED authorized

-------------------------------------------------------------------------------
(***************************************************************************)
(* poll_with_start: drain the channel, save, start one row, save.          *)
(***************************************************************************)
\* Faulty: whatever is not a failure counts as a committed Face.
ApplyAsCommitted(row, w) ==
    IF w.outcome = "Failed" THEN [row EXCEPT !.status = "Failed"] ELSE Advance(row)

ApplyStepOutcome(row, w) ==
    CASE w.outcome = "Completed" -> Advance(row)
      [] w.outcome = "NeedsRecovery" ->
           [row EXCEPT !.status = "NeedsRecovery", !.resume = FALSE,
                       !.rec = [ord |-> row.done, disp |-> w.disp,
                                built |-> w.built]]
      [] OTHER ->
           [row EXCEPT !.status = w.outcome, !.resume = FALSE, !.rec = None]

\* Faulty: nobody reports a cancelled Face.
ReportedUnlessCancelled ==
    {i \in Ids : worker[i].pc = "finished" /\ worker[i].outcome # "Cancelled"}

Reported == {i \in Ids : worker[i].pc = "finished"}

Drained ==
    [i \in Ids |-> IF i \in Reported /\ items[i].status # "Absent"
                   THEN ApplyStepOutcome(items[i], worker[i]) ELSE items[i]]

Begin(row) ==
    [pc |-> "start", job |-> row.job, ord |-> row.done,
     disp |-> [mode |-> ModeOf[row.job], expected |-> row.expected],
     built |-> None, cancel |-> FALSE, outcome |-> "none"]

ActiveAfterDrain == IF Reported # {} THEN None ELSE active

\* Faulty: active_id is not consulted.
MayStartAlways(allow) == allow /\ ~paused /\ Ready(Drained) # {}

MayStart(allow) ==
    allow /\ ActiveAfterDrain = None /\ ~paused /\ Ready(Drained) # {}

Poll ==
    /\ Reported # {}
    /\ items' = Drained
    /\ active' = None
    /\ worker' = [i \in Ids |-> IF i \in Reported THEN Idle ELSE worker[i]]
    /\ Persist(Drained, nextId, paused)
    /\ UNCHANGED <<diskVars, historyVars, nextId, paused, persistent, authorized>>

PollAndStart(i) ==
    LET started == [Drained EXCEPT ![i].status = "Processing"]
    IN  /\ IsFirst(i, Ready(Drained))
        /\ items' = started
        /\ active' = i
        /\ worker' = [k \in Ids |->
                        IF k = i THEN Begin(Drained[i])
                        ELSE IF k \in Reported THEN Idle ELSE worker[k]]
        /\ \E saved \in IF Reported = {} THEN {durable}
                        ELSE AfterSave(Drained, nextId, paused, durable) :
              durable' \in AfterSave(started, nextId, paused, saved)
        /\ UNCHANGED <<diskVars, historyVars, nextId, paused, persistent,
                       authorized>>

PollWithStart(allow) == IF MayStart(allow) THEN \E i \in Ids : PollAndStart(i) ELSE Poll

-------------------------------------------------------------------------------
(***************************************************************************)
(* The process ends, at any point, and a new one loads the queue file.     *)
(***************************************************************************)
Died ==
    /\ "crash" \in Faults
    /\ worker' = [i \in Ids |-> Idle]
    /\ active' = None
    /\ recovering' = None
    /\ authorized' = {}
    /\ UNCHANGED <<diskVars, historyVars, durable>>

Restart ==
    /\ Died
    /\ items' = [i \in Ids |-> LoadedRow(durable.items[i])]
    /\ nextId' = durable.nextId
    /\ paused' = durable.paused
    /\ persistent' = TRUE

\* An unreadable queue file: an empty queue that saves nothing.
RestartWithoutFile ==
    /\ "load" \in Faults
    /\ Died
    /\ items' = EmptyRows
    /\ nextId' = 1
    /\ paused' = FALSE
    /\ persistent' = FALSE

\* What the operator does between two frames.
Operator ==
    \/ \E j \in Jobs : Enqueue(j)
    \/ SetPaused \/ ResumeRecovered \/ ClearFinished
    \/ \E i \in Ids : CancelWaiting(i) \/ CancelActive(i) \/ Retry(i)

\* The UI thread does nothing else while it is inside a recovery.
Idling == recovering = None /\ recovering' = None
Frame(allow) == Idling /\ PollWithStart(allow)

Recovery ==
    \E i \in Ids : \/ BeginRecovery(i)
                  \/ Recover(i) \/ RecoverUncertain(i) \/ RecoverFails(i)

Elsewhere == UNCHANGED <<queueVars, durable, recovering, authorized>>

Next ==
    \/ Idling /\ Operator
    \/ Recovery
    \/ \E allow \in AllowStart : Frame(allow)
    \/ \E i \in Ids : WorkerStep(i) /\ Elsewhere
    \/ Environment /\ Elsewhere
    \/ Restart \/ RestartWithoutFile

Spec == Init /\ [][Next]_vars

\* The UI polls in every frame, whatever the operator does between two frames; a
\* recovery ends; an OS thread keeps running.
Fairness ==
    /\ \A allow \in AllowStart : SF_vars(Frame(allow))
    /\ \A i \in Ids : WF_vars(recovering = i /\ Recovery)
    /\ \A i \in Ids : WF_vars(WorkerStep(i) /\ Elsewhere)

FairSpec == Spec /\ Fairness
-------------------------------------------------------------------------------
(***************************************************************************)
(* Safety.                                                                 *)
(***************************************************************************)
\* The files, the workers and the queue.
QueueTypeOK ==
    /\ tiff \in [Tiffs -> Bytes \cup {None}]
    /\ project \in [Projects -> MaybeProject]
    /\ worker \in [Ids -> Running \cup {Idle}]
    /\ rendered \in [Jobs -> Nat]
    /\ registered \in [Jobs -> Nat]
    /\ items \in Rows
    /\ nextId \in Nat
    /\ active \in Ids \cup {None}
    /\ paused \in BOOLEAN
    /\ persistent \in BOOLEAN
    /\ durable \in Envelope
    /\ authorized \subseteq Ids

\* Every variable has the shape its Rust type gives it.
TypeOK == QueueTypeOK /\ recovering \in Ids \cup {None}

\* At most one worker thread exists, it is the one active_id names, its row is
\* Processing, and it works on the first Face the row's checkpoint does not list.
\* (So start_next never meets the AlreadyComplete outcome of a full checkpoint.)
SingleWorker ==
    \A i \in Ids :
        LET busy == worker[i].pc # "idle"
        IN  /\ busy <=> active = i
            /\ busy <=> items[i].status = "Processing"
            /\ busy => /\ worker[i].job = items[i].job
                       /\ worker[i].ord = items[i].done
                       /\ worker[i].ord < FaceCount(worker[i].job)

\* A checkpoint, in memory or in the queue file, never lists a Face that is not
\* linked into the Production project, whatever crashes, failed saves and
\* recoveries lie in between: a Face it lists is never converted again, so a
\* checkpoint that ran ahead would lose the Face for good.
CheckpointBacked ==
    \A i \in Ids :
        /\ i \in Present(items) => items[i].done <= registered[items[i].job]
        /\ i \in Present(durable.items) =>
               durable.items[i].done <= registered[durable.items[i].job]

\* "Restored work must never auto-start": a worker only ever runs for a row the
\* operator queued, resumed, retried or recovered in this process.
NoAutoStart == \A i \in Ids : worker[i].pc # "idle" => i \in authorized

\* When a worker runs for a Face, the queue file already lists every earlier
\* Face of the row as committed.
DurableBeforeNext ==
    \A i \in Ids : worker[i].pc # "idle" =>
        /\ i \in Present(durable.items)
        /\ durable.items[i].done >= worker[i].ord

\* "The checkpoint from a completed Face must hit durable storage before another
\* Face can start" (conversion_batch_queue.rs:587-588): while a later Face of a
\* batch is worked on, its row in the queue file lists the Faces completed before.
CheckpointSavedFirst ==
    \A i \in Present(durable.items) :
        worker[i].pc # "idle" => durable.items[i].done >= worker[i].ord

\* t holds a TIFF of a batch that no Production project records.
Orphan(t) ==
    /\ tiff[t] \in Jobs
    /\ \A p \in Projects : project[p] # None => project[p].faces[t] # tiff[t]

InFlight(i, t) ==
    /\ worker[i].pc # "idle"
    /\ Path(worker[i]) = t
    /\ worker[i].pc \in {"committed", "save", "verify", "write"}
           \/ worker[i].outcome = "NeedsRecovery"

\* A committed TIFF that is not linked yet belongs to a worker that is still
\* going to link it, or to a NeedsRecovery row that records exactly that Face.
OrphanOwned ==
    \A t \in Tiffs : Orphan(t) =>
        \E i \in Ids :
            \/ InFlight(i, t)
            \/ /\ NeedsRecovery(i)
               /\ items[i].rec # None
               /\ items[i].rec.ord = items[i].done
               /\ PendingTiff(items[i]) = t

\* A committed TIFF that no project records is never replaced by a conversion:
\* neither a retry of its own row nor another batch renders over it.
OrphanPreserved ==
    [][\A t \in Tiffs : Orphan(t) => tiff'[t] \in {tiff[t], None}]_vars

\* Nobody replaces the TIFF a NeedsRecovery row is waiting to link.
KeepsWaitingTiffs ==
    \A i \in Ids :
        NeedsRecovery(i) /\ tiff[PendingTiff(items[i])] = items[i].job =>
            tiff'[PendingTiff(items[i])] \in {items[i].job, None}

\* The queue file never forgets a committed Face of a row it keeps, over
\* failures, cancellations, retries and restarts.
DurableCheckpointMonotone ==
    [][\A i \in Present(durable.items) \cap Present(durable'.items) :
          durable.items[i].done <= durable'.items[i].done]_vars

\* A NeedsRecovery row keeps the exact project state that recovery replays.
RecoveryStateKept ==
    \A i \in Ids : NeedsRecovery(i) => items[i].rec # None /\ items[i].rec.built # None

\* Where the TIFF of a conversion is at its path, the record of that Face in a
\* Production project changes only to name it: a save never puts back an older
\* record of a Face that another save has linked.
KeepsLinkedFaces ==
    \A p \in Projects, t \in Tiffs :
        project[p] # None /\ project'[p] # None /\ tiff[t] \in Jobs =>
            project'[p].faces[t] \in {project[p].faces[t], tiff[t]}

\* "Current/Selected/All share checkpoint/recovery and one Production-project
\* single-writer behavior" (ui/conversion_batch.rs:111-113), whatever is retried.
LinkedFaceKept == [][KeepsLinkedFaces]_vars

\* "A destination created after capture is never overwritten by a new-only
\* conversion commit": only a route update replaces an existing file.
NewOnlyCommit ==
    [][\A t \in Tiffs :
          tiff[t] # None /\ tiff'[t] \in Jobs \ {tiff[t]} =>
              ModeOf[tiff'[t]] = "UpdateExistingRoute"]_vars

-------------------------------------------------------------------------------
(***************************************************************************)
(* The inductive invariant behind the safety theorems.                     *)
(***************************************************************************)
\* What a row may claim, in memory or in the queue file.
RowSound(row, linked, published) ==
    row.status # "Absent" =>
        /\ row.status # "Done" => row.done < FaceCount(row.job)
        /\ row.done <= linked[row.job]
        /\ row.status = "NeedsRecovery" => row.done < published[row.job]
        /\ ModeOf[row.job] # "CreateNew" => row.expected # None

\* What a worker has done when it is at a step.
WorkerSound(w, linked, published) ==
    w.pc # "idle" =>
        /\ w.disp.mode # "CreateNew" => w.disp.expected # None
        /\ w.pc = "finished" => w.outcome # "none"
        /\ \/ w.pc \in {"committed", "save", "verify", "write"}
           \/ w.pc = "finished" /\ w.outcome \in {"Completed", "NeedsRecovery"}
           => w.ord < published[w.job]
        /\ w.pc = "finished" /\ w.outcome = "Completed" => w.ord < linked[w.job]

\* A row that runs or may be started is one the operator let go.
ReadyAuthorized ==
    \A i \in Ids :
        \/ items[i].status = "Processing"
        \/ items[i].status = "Waiting" /\ ~items[i].resume
        => i \in authorized

\* allocate_id never hands out the id of a row that is still there.
FreshIds ==
    \A i \in Ids : /\ items[i].status # "Absent" => i < nextId
                   /\ durable.items[i].status # "Absent" => i < durable.nextId

\* Everything said above, of every row and worker.
QueueInv ==
    /\ QueueTypeOK
    /\ SingleWorker
    /\ ReadyAuthorized
    /\ FreshIds
    /\ \A i \in Ids : RowSound(items[i], registered, rendered)
    /\ \A i \in Ids : RowSound(durable.items[i], registered, rendered)
    /\ \A i \in Ids : WorkerSound(worker[i], registered, rendered)
    /\ \A j \in Jobs : registered[j] <= rendered[j]

\* Nothing takes the row away from a recovery that has passed its checks.
RecoveryUndisturbed ==
    /\ recovering \in Ids \cup {None}
    /\ recovering # None => RecoveryAllowed(recovering)

\* The queue is sound in every reachable state, also in the middle of a recovery.
IInv == QueueInv /\ RecoveryUndisturbed

-------------------------------------------------------------------------------
(***************************************************************************)
(* The queue implements the ledger of a durable batch: Faces are published *)
(* in Source order, each one linked before the next is published.          *)
(***************************************************************************)
Ledger == INSTANCE BatchLedger WITH Batches <- Jobs, FacesIn <- FaceCount

LedgerKept == Ledger!LedgerSpec

-------------------------------------------------------------------------------
(***************************************************************************)
(* Liveness.                                                               *)
(***************************************************************************)
\* A started Face always reaches an outcome that is applied to its row, whatever
\* fails and whenever the operator cancels.
ProcessingEnds ==
    \A i \in Ids : items[i].status = "Processing" ~> items[i].status # "Processing"

\* A ready row is eventually started, cancelled or held back by a pause, unless
\* the operator retries rows before it for ever: a retried row keeps its place.
WaitingServed ==
    <>[][\A i \in Ids : ~Retry(i)]_vars =>
        \A i \in Ids : i \in Ready(items) ~> (i \notin Ready(items) \/ paused)
===============================================================================
