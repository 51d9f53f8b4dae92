----------------------------- MODULE ExportQueue -----------------------------
(***************************************************************************)
(* The queue of TIFF exports: rows restored from the previous process are  *)
(* held, one worker thread at a time, a destination is reserved while its  *)
(* row waits or runs, a conflict policy decides at the start what happens  *)
(* to a file that is already there, and a running export is never          *)
(* interrupted: a request to cancel it stops the queue after it.           *)
(*                                                                         *)
(* The queue lives on the UI thread: each of its operations is one step.   *)
(* A worker publishes its TIFF and reports at moments of its own.          *)
(***************************************************************************)
EXTENDS QueueCore, Sequences

CONSTANTS
    Ids,         \* row ids, an initial segment of the positive numbers
    Paths,       \* destinations
    Protected,   \* the Face files of the open projects: never a destination
    Numbered,    \* path -> the "name (2)", "name (3)"... AutoNumber tries
    Choices,     \* the destinations and conflict policies the operator uses
    Foreign,     \* destinations other programs create and delete files at
    MaxSession,  \* bound on project sessions of one process
    MaxEpoch,    \* bound on processes
    QueueFaults, \* what may fail: "crash", "persist", "load"
    None

Policies == {"Overwrite", "Skip", "AutoNumber"}

ASSUME ExportAssumption ==
    /\ Ids \subseteq Nat \ {0}
    /\ Protected \subseteq Paths
    /\ Numbered \in [Paths -> Seq(Paths)]
    /\ Choices \subseteq Paths \X Policies
    /\ Foreign \subseteq Paths
    /\ None \notin Ids
    /\ {MaxSession, MaxEpoch} \subseteq Nat \ {0}

VARIABLES
    exports,     \* ExportQueue.items, by id
    nextExport,  \* QueueRuntime.next_id
    exporting,   \* QueueRuntime.active_id
    stop,        \* stop_after_current
    paused,      \* QueueRuntime.paused
    persistent,  \* the queue has a persistence path
    saved,       \* the queue file
    exporter,    \* the worker thread of a row
    files,       \* the destinations that exist on disk
    session,     \* ProjectLifecycleController.session_id
    epoch,       \* history: which process this is
    authorized,  \* history: rows the operator queued, resumed or retried in this
                 \* process and has not cancelled or stopped since
    appeared     \* history: files somebody else created since the last start

exportQueue == <<exports, nextExport, exporting, stop, paused, persistent>>
exportWorld == <<exporter, files, appeared>>
exportVars == <<exportQueue, saved, exportWorld, session, epoch, authorized>>

\* A project as it is open in one process.  The rows carry `owner`, the session
\* number the code stores (0: none), and `origin`, the project it stood for.
OpenProjects == [epoch : 1..MaxEpoch, session : 1..MaxSession]
Here == [epoch |-> epoch, session |-> session]

NoExport == [status |-> "Absent"]
Export == [status : Statuses \ {"NeedsRecovery"}, held : BOOLEAN, dest : Paths,
           policy : Policies, owner : 0..MaxSession, origin : OpenProjects]
Exports == [Ids -> Export \cup {NoExport}]
ExportFile == [rows : Exports, nextExport : Nat, paused : BOOLEAN]

ExporterStates == {"idle", "refused", "skipped", "running", "written",
                   "sent failure", "sent skip", "sent success"}

\* The rows that are to run without a further word of the operator.
ReadyExports(rows) ==
    {i \in Ids : rows[i].status = "Waiting" /\ ~rows[i].held}

ExportPending ==
    ReadyExports(exports) # {} \/ \E i \in Ids : exports[i].status = "Processing"

Reserving(rows) == {i \in Ids : ReservesDestination(rows[i].status)}
Reserved(rows) == {rows[i].dest : i \in Reserving(rows)}

-------------------------------------------------------------------------------
\* persist: Done rows are left out, requires_resume is not part of the format.
SavedExport(row) ==
    IF row.status \in {"Absent", "Done"} THEN NoExport
    ELSE [row EXCEPT !.held = FALSE]

ExportSnapshot(rows, nid, psd) ==
    [rows |-> [i \in Ids |-> SavedExport(rows[i])], nextExport |-> nid,
     paused |-> psd]

PersistExports(rows, nid, psd) ==
    saved' \in Saved(ExportSnapshot(rows, nid, psd), saved, persistent,
                     "persist" \in QueueFaults)

\* Faulty: a restored row keeps the session number of the previous process.
LoadedExportWithSession(row) ==
    IF row.status = "Absent" THEN NoExport
    ELSE [row EXCEPT !.status = Restored(@), !.held = Interrupted(row.status)]

LoadedExport(row) ==
    IF row.status = "Absent" THEN NoExport
    ELSE [row EXCEPT !.status = Restored(@), !.held = Interrupted(row.status),
                     !.owner = 0]

NoExports == [i \in Ids |-> NoExport]

ExportInit ==
    /\ exports = NoExports
    /\ nextExport = 1
    /\ exporting = None
    /\ stop = FALSE
    /\ paused = FALSE
    /\ persistent = TRUE
    /\ saved = [rows |-> NoExports, nextExport |-> 1, paused |-> FALSE]
    /\ exporter = [i \in Ids |-> "idle"]
    /\ files \in SUBSET Foreign
    /\ session = 1
    /\ epoch = 1
    /\ authorized = {}
    /\ appeared = {}

-------------------------------------------------------------------------------
(***************************************************************************)
(* Operator actions on the UI thread.                                      *)
(***************************************************************************)
SetExports(rows) ==
    /\ exports' = rows
    /\ PersistExports(rows, nextExport, paused)
    /\ UNCHANGED <<nextExport, exporting, stop, paused, persistent, exportWorld,
                   session, epoch>>

\* enqueue_for_project, with the session the project is open in.
\* (nextExport \in Ids bounds the rows of one run.)
EnqueueExport(p, policy) ==
    /\ nextExport \in Ids
    /\ p \notin Protected
    /\ p \notin Reserved(exports)
    /\ exports' = [exports EXCEPT ![nextExport] =
                     [status |-> "Waiting", held |-> FALSE, dest |-> p,
                      policy |-> policy, owner |-> session, origin |-> Here]]
    /\ nextExport' = nextExport + 1
    /\ PersistExports(exports', nextExport', paused)
    /\ authorized' = authorized \cup {nextExport}
    /\ UNCHANGED <<exporting, stop, paused, persistent, exportWorld, session,
                   epoch>>

\* resume and resume_recovered: one held row or all of them.
ResumeExports(held) ==
    /\ SetExports([i \in Ids |-> IF i \in held
                                 THEN [exports[i] EXCEPT !.held = FALSE]
                                 ELSE exports[i]])
    /\ authorized' = authorized \cup held

ResumeHeld ==
    LET held == {i \in Ids : exports[i].status = "Waiting" /\ exports[i].held}
    IN  \/ held # {} /\ ResumeExports(held)
        \/ \E i \in held : ResumeExports({i})

CancelExport(i) ==
    /\ exports[i].status = "Waiting"
    /\ SetExports([exports EXCEPT ![i].status = "Cancelled", ![i].held = FALSE])
    /\ authorized' = authorized \ {i}

\* The active export goes on to its end; the queue stops after it.
StopAfterCurrent(i) ==
    /\ exports[i].status = "Processing"
    /\ stop' = TRUE
    /\ PersistExports(exports, nextExport, paused)
    /\ authorized' = authorized \cap {i}
    /\ UNCHANGED <<exports, nextExport, exporting, paused, persistent, exportWorld,
                   session, epoch>>

Requeued(rows, again) ==
    [i \in Ids |-> IF i \in again
                   THEN [rows[i] EXCEPT !.status = "Waiting", !.held = FALSE]
                   ELSE rows[i]]

\* Faulty: the destination is not checked again.
RetryAnyway(i) ==
    /\ exports[i].status \in {"Failed", "Cancelled"}
    /\ SetExports(Requeued(exports, {i}))
    /\ authorized' = authorized \cup {i}

RetryExport(i) ==
    /\ exports[i].status \in {"Failed", "Cancelled"}
    /\ exports[i].dest \notin Reserved(exports)
    /\ SetExports(Requeued(exports, {i}))
    /\ authorized' = authorized \cup {i}

\* The failed rows in their order, each taking its destination for itself.
Retriable ==
    LET failed == {i \in Ids : exports[i].status = "Failed"}
    IN  {i \in failed :
            /\ exports[i].dest \notin Reserved(exports)
            /\ \A k \in failed : exports[k].dest = exports[i].dest => i <= k}

RetryAllFailed ==
    /\ Retriable # {}
    /\ SetExports(Requeued(exports, Retriable))
    /\ authorized' = authorized \cup Retriable

ClearJobs ==
    /\ SetExports([i \in Ids |-> IF Finished(exports[i].status) THEN NoExport
                                 ELSE exports[i]])
    /\ UNCHANGED authorized

\* set_paused saves only a change; so does the button that toggles it.
SetExportPaused(value) ==
    /\ paused' = value
    /\ IF value = paused THEN UNCHANGED saved
       ELSE PersistExports(exports, nextExport, value)
    /\ UNCHANGED <<exports, nextExport, exporting, stop, persistent, exportWorld,
                   session, epoch, authorized>>

\* New, Open and Recover bump the session whatever the queue is doing.
\* (MaxSession bounds the sessions of one process.)
BumpSession ==
    /\ session < MaxSession
    /\ session' = session + 1
    /\ UNCHANGED <<exportQueue, saved, exportWorld, epoch, authorized>>

-------------------------------------------------------------------------------
(***************************************************************************)
(* poll_with_start: drain the channel, start one row, save once.           *)
(***************************************************************************)
Sent(i) == exporter[i] \in {"sent failure", "sent skip", "sent success"}
SentAny == \E i \in Ids : Sent(i)

\* Faulty: rows that wait while a stop is requested are left alone.
SettledRunning ==
    [i \in Ids |->
        IF Sent(i) /\ exports[i].status # "Absent"
        THEN [exports[i] EXCEPT !.status = IF exporter[i] = "sent failure"
                                           THEN "Failed" ELSE "Done"]
        ELSE exports[i]]

\* A finished row is Done or Failed; a requested stop then cancels every row
\* that waits, the held ones too.
Settled ==
    [i \in Ids |->
        IF Sent(i) /\ exports[i].status # "Absent"
        THEN [exports[i] EXCEPT !.status = IF exporter[i] = "sent failure"
                                           THEN "Failed" ELSE "Done"]
        ELSE IF SentAny /\ stop /\ exports[i].status = "Waiting"
        THEN [exports[i] EXCEPT !.status = "Cancelled"]
        ELSE exports[i]]

\* The exports a poll hands to the open project, which records them: those of the
\* session that is open.
Marks == {i \in Ids : exporter[i] = "sent success" /\ exports[i].owner = session}

\* Faulty: an existing file does not make a number taken.
FirstUnreserved(p, taken) ==
    LET free == {k \in DOMAIN Numbered[p] : Numbered[p][k] \notin taken}
    IN  {Numbered[p][k] : k \in {n \in free : IsFirst(n, free)}}

\* resolve_destination_reserved for AutoNumber, the plain name being taken.
\* (Numbered is cut off where the code counts on.)
FirstFree(p, taken) ==
    LET free == {k \in DOMAIN Numbered[p] : Numbered[p][k] \notin files \cup taken}
    IN  {Numbered[p][k] : k \in {n \in free : IsFirst(n, free)}}

\* What start_next decides for a row: how its thread begins, and where it writes.
\* Any start may be refused: the source is gone or no longer the one captured.
MayBegin(row, others, state, p) ==
    \/ state = "refused" /\ p = row.dest
    \/ /\ row.dest \notin Protected
       /\ \/ /\ row.dest \notin files \/ row.policy = "Overwrite"
             /\ state = "running" /\ p = row.dest
          \/ /\ row.dest \in files /\ row.policy = "Skip"
             /\ state = "skipped" /\ p = row.dest
          \/ /\ row.dest \in files /\ row.policy = "AutoNumber"
             /\ p \in FirstFree(row.dest, others)
             /\ state = IF p \in Protected THEN "refused" ELSE "running"

Drained == [i \in Ids |-> IF Sent(i) THEN "idle" ELSE exporter[i]]

StartExport(i) ==
    \E state \in {"refused", "skipped", "running"}, p \in Paths :
        /\ IsFirst(i, ReadyExports(Settled))
        /\ MayBegin(Settled[i],
                    {Settled[k].dest : k \in Reserving(Settled) \ {i}}, state, p)
        /\ exports' = [Settled EXCEPT ![i].status = "Processing", ![i].dest = p]
        /\ exporter' = [Drained EXCEPT ![i] = state]
        /\ exporting' = i
        /\ appeared' = {}

StartNothing ==
    /\ exports' = Settled
    /\ exporter' = Drained
    /\ exporting' = IF SentAny THEN None ELSE exporting
    /\ UNCHANGED appeared

\* Faulty: active_id is not consulted.
MayStartBeside(allow) == allow /\ ~paused /\ ~stop /\ ReadyExports(Settled) # {}

MayStartExport(allow) ==
    /\ allow /\ ~paused
    /\ SentAny \/ (exporting = None /\ ~stop)
    /\ ReadyExports(Settled) # {}

\* The completions go to the project of the moment (Marks).
PollExports(allow) ==
    /\ IF MayStartExport(allow) THEN \E i \in Ids : StartExport(i)
       ELSE SentAny /\ StartNothing
    /\ stop' = (stop /\ ~SentAny)
    /\ PersistExports(exports', nextExport, paused)
    /\ authorized' = {i \in authorized : exports'[i].status # "Cancelled"}
    /\ UNCHANGED <<nextExport, paused, persistent, files, session, epoch>>

-------------------------------------------------------------------------------
(***************************************************************************)
(* Worker threads, other programs, the end of the process.                 *)
(***************************************************************************)
UIElsewhere == UNCHANGED <<exportQueue, saved, session, epoch, authorized>>

\* The export replaces whatever is at its destination by then.
PublishExport(i) ==
    /\ exporter[i] = "running"
    /\ exporter' = [exporter EXCEPT ![i] = "written"]
    /\ files' = files \cup {exports[i].dest}
    /\ UNCHANGED appeared

\* Faulty: a row refused before its start reports nothing.
AnswersOnceStarted(state) ==
    CASE state = "running" -> {"sent failure"}
      [] state = "skipped" -> {"sent skip"}
      [] state = "written" -> {"sent success", "sent failure"}
      [] OTHER -> {}

\* An error or a panic before the publication, a validation after it.
Answers(state) ==
    CASE state \in {"refused", "running"} -> {"sent failure"}
      [] state = "skipped" -> {"sent skip"}
      [] state = "written" -> {"sent success", "sent failure"}
      [] OTHER -> {}

ReportExport(i) ==
    /\ \E answer \in Answers(exporter[i]) : exporter' = [exporter EXCEPT ![i] = answer]
    /\ UNCHANGED <<files, appeared>>

ExportWorker(i) == PublishExport(i) \/ ReportExport(i)

\* Another program creates or deletes a file.
TouchFile(p) ==
    /\ files' = IF p \in files THEN files \ {p} ELSE files \cup {p}
    /\ appeared' = IF p \in files THEN appeared ELSE appeared \cup {p}
    /\ UNCHANGED exporter

\* Faulty: the new process numbers its sessions from 0, like the restored rows.
DiedToSessionZero ==
    /\ "crash" \in QueueFaults
    /\ epoch < MaxEpoch
    /\ epoch' = epoch + 1
    /\ session' = 0
    /\ exporting' = None
    /\ stop' = FALSE
    /\ exporter' = [i \in Ids |-> "idle"]
    /\ authorized' = {}
    /\ appeared' = {}
    /\ UNCHANGED <<saved, files>>

\* (MaxEpoch bounds the processes.)
ExportsDied ==
    /\ "crash" \in QueueFaults
    /\ epoch < MaxEpoch
    /\ epoch' = epoch + 1
    /\ session' = 1
    /\ exporting' = None
    /\ stop' = FALSE
    /\ exporter' = [i \in Ids |-> "idle"]
    /\ authorized' = {}
    /\ appeared' = {}
    /\ UNCHANGED <<saved, files>>

ReloadExports ==
    /\ ExportsDied
    /\ exports' = [i \in Ids |-> LoadedExport(saved.rows[i])]
    /\ nextExport' = saved.nextExport
    /\ paused' = saved.paused
    /\ persistent' = TRUE

\* An unreadable queue file: an empty queue that saves nothing.
LoseExportFile ==
    /\ "load" \in QueueFaults
    /\ ExportsDied
    /\ exports' = NoExports
    /\ nextExport' = 1
    /\ paused' = FALSE
    /\ persistent' = FALSE

ExportOperator ==
    \/ \E choice \in Choices : EnqueueExport(choice[1], choice[2])
    \/ \E i \in Ids : CancelExport(i) \/ StopAfterCurrent(i) \/ RetryExport(i)
    \/ ResumeHeld \/ RetryAllFailed \/ ClearJobs \/ BumpSession

ExportBackground ==
    \/ \E i \in Ids : ExportWorker(i)
    \/ \E p \in Foreign : TouchFile(p)

ExportNext ==
    \/ ExportOperator
    \/ \E value \in BOOLEAN : SetExportPaused(value)
    \/ \E allow \in BOOLEAN : PollExports(allow)
    \/ ExportBackground /\ UIElsewhere
    \/ ReloadExports \/ LoseExportFile

ExportSpec == ExportInit /\ [][ExportNext]_exportVars
-------------------------------------------------------------------------------
(***************************************************************************)
(* What must hold.                                                         *)
(***************************************************************************)
\* Every variable has the shape its Rust type gives it.
ExportTypeOK ==
    /\ exports \in Exports
    /\ nextExport \in Nat \ {0}
    /\ exporting \in Ids \cup {None}
    /\ {stop, paused, persistent} \subseteq BOOLEAN
    /\ saved \in ExportFile
    /\ exporter \in [Ids -> ExporterStates]
    /\ files \subseteq Paths
    /\ session \in 1..MaxSession
    /\ epoch \in 1..MaxEpoch
    /\ authorized \subseteq Ids
    /\ appeared \subseteq Paths

\* Two exports that wait or run never have one destination, although rows come
\* back from the file, are retried one by one or all at once, and AutoNumber
\* gives a row another destination when it starts: the second export would
\* replace the result of the first.
DistinctDestinations ==
    \A i, k \in Reserving(exports) : exports[i].dest = exports[k].dest => i = k

\* A worker runs only for a row the operator queued, resumed or retried in this
\* process and neither cancelled nor stopped since: not for a restored row, not
\* for one that waited when the operator asked to stop after the current export.
OnlyWhatWasAsked == \A i \in Ids : exporter[i] # "idle" => i \in authorized

\* One worker at a time; it is the one active_id names and its row is Processing.
SingleExporter ==
    \A i \in Ids : LET busy == exporter[i] # "idle"
                   IN  /\ busy <=> exporting = i
                       /\ busy <=> exports[i].status = "Processing"

\* An exported snapshot is recorded only in the project it was taken from, though
\* the project is replaced while the export runs and the session numbers start
\* over in the next process.
MarksOwnProject == \A i \in Marks : exports[i].origin = Here

\* A worker never writes to a Face file, and replaces a file only when the
\* operator said Overwrite or the file came from elsewhere after the start: in
\* particular never the result of another export.
KeepsExisting ==
    [][\A i \in Ids : exporter[i] = "running" /\ exporter'[i] = "written" =>
          /\ exports[i].dest \notin Protected
          /\ exports[i].dest \in files =>
                exports[i].policy = "Overwrite" \/ exports[i].dest \in appeared]_exportVars
===============================================================================
