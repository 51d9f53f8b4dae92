# Shade Editor: TLA+ models, checks and proofs

This directory holds the formal verification of the parts of Shade Editor
whose correctness depends on the order of events: the queues that turn Source
Faces into production TIFFs and exports, the worker threads they start, the
migration of a Production project to another route, the Source project open in
the editor, the files all of these leave on disk, and what happens when a step
fails, the operator cancels, another program interferes, or the process dies.
Source paths below are relative to the repository.

Contents: [the system](#the-system), [the plan](#the-plan),
[the modules](#the-modules), [the runs](#the-runs), [the proofs](#the-proofs),
[disagreements found](#where-the-code-and-its-documents-disagree),
[limits](#what-is-not-modelled).

## The system

Shade Editor is a single-process desktop program (egui). One UI thread draws,
takes operator actions and polls the background work in every frame; each
background job is a thread that talks back over an mpsc channel. State that
must survive is kept in JSON files written whole through `safe_fs`.

| component | state | operations | what makes it hard | what makes it correct |
|---|---|---|---|---|
| **Conversion batch queue** (`src/conversion_batch_queue.rs`, `src/queue_core.rs`) | rows (status, `requires_resume`, checkpoint, recovery record), `next_id`, `active_id`, `paused`, persistence path, queue file | enqueue, pause, resume recovered, cancel, retry, recover, clear finished, poll and start, load | failures of the save, crash between any two steps, retry after partial success, reports that race cancellations | one worker; a checkpoint never runs ahead of the project; nothing starts by itself after a restart; every committed TIFF is linked or known to need linking |
| **One-Face execution, production transaction** (`src/conversion_batch_execution.rs`, `src/conversion_transaction.rs`, `src/conversion_transaction_disposition.rs`, `src/icc_conversion_worker_core.rs`) | the step a worker is at, captured disposition, prepared project, cancellation flag | choose the disposition, check ownership, render and publish, read back, build and save the project | two files, two commits; state checked before a long render and used after it; panics | never overwrite what the capture did not allow; after the first commit the outcome says so |
| **Project-only recovery** (`src/conversion_recovery_route.rs`) | the recovery record of a row | replay of the project save | runs on the UI thread while a worker of another row may run | replays exactly the captured state or refuses; never renders |
| **Production project ownership** (`src/production_project_compat.rs`, `src/reconversion_policy.rs`) | Faces and provenance in the project file | append, replace in place | stale fingerprints | one provenance record per TIFF; production work is discarded only with consent |
| **Safe file publication** (`src/safe_fs_impl.rs`, `src/tiff_output_impl.rs`) | temp, backup and final file | atomic write, no-replace write, staged commit | a fixed temp name per file, directory sync after the rename | all or nothing; the backup is a complete earlier version |
| **Export queue** (`src/export_queue.rs`) | rows, stop-after-current flag, queue file | enqueue, cancel, retry, resume, clear, poll | source changed while queued, cancelled export that finishes | reservations are unique also after retries; nothing restarts by itself |
| **Legacy conversion queue** (`src/conversion_queue.rs`) | rows from older builds | poll, recover | only drained, never filled | as the batch queue |
| **Queue coordination, project lifecycle** (`src/main.rs`, `src/ui/conversion_batch.rs`, `src/project_lifecycle.rs`) | exclusion flag, saved pause flags, pending transition | take and give back the exclusion, allow or block starts and transitions | the flag is volatile, the pauses are durable | at most one queue works; pauses are given back |
| **Source project persistence** (`src/project_persistence.rs`) | baseline of the open project, prepared open | open, accept, save guarded, rotate | external change between check and save | a changed file is never overwritten silently |
| **Route migration** (`src/conversion_route_migration_*.rs`) | journal, staged TIFFs, backups, project | stage, commit outputs, commit project, clean up, resume | crash between any two file operations | resumes from every intermediate state; the old outputs stay recoverable |
| **Previews, file observer, autosave, history, stores, updater** | caches by generation, ring buffers, small files | request, answer, drop late answers | late answers | a late answer never replaces a newer one |
| **Colour engines, optimizers, codecs, panels** | images and tables | numerical processing, drawing | — | not a matter for a model checker |

How they interact: an operator action queues an immutable capture; the queue,
polled by `ui/status_bar.rs` in every frame, starts a thread that executes
*one* Face; the thread reads and writes TIFF and project files through the
transaction, and reports one `Finished` event; the next poll applies it to the
row, saves the queue file and starts the next Face. Recovery is the one place
where the UI thread itself writes a Production project. Operator and other
programs may change the same files at any time.

## The plan

1. **Core (done)** — `QueueCore`, `ProductionTransaction`,
   `ConversionBatchQueue`, the abstract `BatchLedger`, the proofs.
2. **Export queue (done)** — `ExportQueue`, the second client of `QueueCore`.
3. **Coordination (done)** — `QueueCoordination` composes the export queue with
   the batch queue, reduced to the states of its rows.
4. **Route migration (done)** — `RouteMigration` and the promise it keeps,
   `AtomicRoute`.
5. **Source project (done)** — `ProjectSession`: transitions, save authority,
   guarded save, autosave and recovery in one module, because what goes wrong
   goes wrong between them.
6. **Proofs** — the batch queue, the export queue, the exclusion between them,
   the route migration and the Source project, and what the batch queue leaves
   behind in its file and on disk (done). Three properties need a single writer
   per project, which `retry` does not guarantee (see `shared_project`);
   `ConversionBatchRetries` watches the same queue and says that they hold until
   such a retry happens (done).

Left out after a closer look: the legacy conversion queue, whose rows nothing in
this version queues, resumes or retries; the steps inside `atomic_write` as a
module of their own, because the components that rely on them show the steps
that matter to them (the `.bak` copy before the replacement, the no-replace
rename, the directory sync that fails after the rename).

## The modules

| module | what it is |
|---|---|
| `QueueCore` | what the queues share: restored lifecycle, which rows reserve, finish or come first, what a save leaves on disk |
| `ProductionTransaction` | the steps of one worker, the TIFFs and projects on disk, project-only recovery, other programs |
| `ConversionBatchQueue` | the queue on the UI thread, composed with the workers; restart; all properties; the inductive invariant |
| `BatchLedger` | abstract specification: Faces published in Source order, each linked before the next is published |
| `ConversionBatchRetries` | the same queue with two history variables: whether a row was retried beside one that reserves its destinations, whether a commit was forgotten |
| `MCConversionBatchQueue`, `MCConversionBatchRetries` | three small instances for TLC |
| `ConversionBatchQueueProofs` | theorems about the batch queue and their proofs |
| `ConversionBatchFileProofs` | theorems about the queue file and the checkpoints in it |
| `ConversionBatchOrphanProofs` | the theorem about committed TIFFs that no project records |
| `ConversionBatchWriterProofs` | theorems about the single writer of a Production project, of `ConversionBatchRetries` |
| `ExportQueue` | the export queue with its workers, its file and other programs |
| `ExportQueueProofs` | theorems about the export queue and their proofs |
| `QueueCoordination` | extends `ExportQueue` by the batch queue's row states and the exclusion |
| `QueueCoordinationProofs` | theorems about the exclusion and their proofs |
| `AtomicRoute` | abstract specification: TIFFs and project change route together, while the migration is on record |
| `RouteMigration` | the worker of a migration, one file operation per step, and its journal |
| `RouteMigrationProofs` | theorems about the migration and their proofs |
| `ProjectSession` | the open Source project: lifecycle, save authority, background job, autosave |
| `ProjectSessionProofs` | theorems about the Source project and their proofs |
| `MCExportQueue`, `MCQueueCoordination`, `MCRouteMigration`, `MCProjectSession` | their instances for TLC |

### Batch queue: state and code

| variable | code |
|---|---|
| `tiff` | the file at each output TIFF path. Its bytes are named by the capture that rendered them, `Earlier` or `Foreign`; a SHA-256 comparison is equality |
| `project` | the `.shade` file at each Production project path: the TIFF bytes its provenance records per path, and a count of production-side edits |
| `worker[i]` | the thread of row `i`: program counter, Face ordinal, disposition, prepared project, cancellation flag. `finished` is a `Finished` event in the channel |
| `items`, `nextId`, `active`, `paused`, `persistent` | `ConversionBatchQueue.items` and `QueueRuntime` |
| `durable` | the queue file |
| `recovering` | the row whose recovery the UI thread is in, between its checks and its save |
| `rendered`, `registered`, `authorized` | history: Faces ever published, Faces ever linked, rows the operator let go since this process started |

Captures are constants (`FacesOf`, `ProjectOf`, `ModeOf`, `DiscardOf`), as
`ConversionBatchCapture::validate` freezes them: at least one Face, distinct
outputs, one project, one policy.

### Batch queue: actions and code

| action | code |
|---|---|
| `Enqueue`, `SetPaused`, `ResumeRecovered`, `CancelWaiting`, `CancelActive`, `Retry`, `ClearFinished` | the methods of the same names, each with the save it ends in |
| `BeginRecovery`, `Recover`, `RecoverUncertain`, `RecoverFails` | `recover_with` and `recover_production_project`: the checks passed; linked (now or before); saved but the directory sync failed; refused or failed |
| `Poll`, `PollAndStart` | `poll_with_start` (called by `Frame`): drain, save, and — second form — `start_next` and the second save, in one step of the UI thread |
| `DispositionForFace`, `HaltBeforeFace` | `run_next_conversion_batch_face` up to the transaction |
| `Prepare`, `RefuseToRender` | the ownership checks and everything that may fail before publication |
| `Publish`, `AbandonRender` | `write_atomic_with_precommit`: cancellation gate, then replace or no-replace publication |
| `ReadBack`, `ReadBackFails`, `LineageFails` | what runs between the publication and the project save |
| `BuildProject`, `RefuseToBuild`, `VerifyProject`, `WriteProject`, `WriteUncertain`, `SaveFails` | `save_production_project` for the three dispositions; the check and the write are two steps, because nothing locks the file in between |
| `Panic` | `catch_unwind` around the worker |
| `Restart`, `RestartWithoutFile` | the process dies; a new one loads the queue file, or starts with an empty queue that has no file |
| `ForeignEdit`, `ForeignCreate`, `ForeignRemove` | other programs |

A step of the UI thread is atomic with respect to itself only: a worker may
take any number of steps between two of them, and the operator may act at any
moment. A poll or an operator action other than a recovery writes no file but
the queue file, which nobody else writes, so it is one step. A recovery checks
the Production project and then saves it, with nothing locked in between, so it
is two steps: `recovering` names the row, and until its recovery is over the UI
thread does nothing else. The two fingerprint checks that a recovery makes one
after the other are one: a change that falls between them can only make it fail.

Operators introduced by a comment `Faulty:` are not part of the model. Each is
the definition that follows it with a plausible programming error; a run whose
definition is replaced by it must find the property violated. They show that
the properties can fail.

### Batch queue: properties

* `TypeOK` — types.
* `SingleWorker` — one worker, named by `active_id`, on the first unlisted Face.
* `CheckpointBacked` — no checkpoint in memory or on disk lists a Face that is
  not linked. A listed Face is never converted again, so this is what keeps
  Faces from getting lost.
* `DurableBeforeNext` — a worker runs only when the queue file lists every
  earlier Face.
* `NoAutoStart` — after a restart only what the operator let go runs.
* `OrphanPreserved` — a published TIFF that no project records is rendered over by
  nobody.
* `OrphanOwnedUnlessForgotten` — such a TIFF has a worker that will still link it
  or a row whose record names it (`OrphanOwned`), until a row was retried beside
  one that reserves its destinations (`contended`), or a commit was `forgotten`: a
  worker that has published reports a failure before the commit, or the process
  dies.
* `RecoveryTiffUncontended` — until a retry is contended, nobody renders over the
  TIFF that a row waits to link.
* `SingleWriterUncontended` — until a retry is contended, no save puts back an
  older record of a Face whose TIFF is in place.
* `NewOnlyCommit` — only a route update replaces an existing file.
* `DurableCheckpointMonotone` — the queue file never forgets a Face.
* `RecoveryStateKept`, `LinkedFaceKept`, `CheckpointSavedFirst` and `OrphanOwned`
  without conditions — see the disagreements.
* `LedgerKept` — the queue implements `BatchLedger`, with the history variables
  as the refinement mapping.
* `ProcessingEnds`, `WaitingServed` — liveness.

### Export queue and coordination

| variable | code |
|---|---|
| `exports`, `nextExport`, `exporting`, `paused`, `persistent` | `ExportQueue.items` and its `QueueRuntime`; `owner` is `project_session_id` |
| `stop` | `stop_after_current` |
| `saved` | the queue file; a `Done` row is not in it, nor is `requires_resume` |
| `exporter[i]` | the thread of row `i` up to the `Finished` event it sends; `refused` is the thread that only reports a failed preflight |
| `files` | the destinations at which a file exists |
| `session` | `ProjectLifecycleController.session_id` |
| `batch`, `batchPaused` | the rows of the batch queue, `Held` for Waiting with `requires_resume`, and its pause |
| `owns`, `exportWasPaused` | `owns_queue_exclusion`, `export_was_paused` |
| `origin`, `epoch`, `authorized`, `appeared` | history of the exports |
| `wanted`, `toggled`, `strayed` | history of the pause: what the operator last asked for outside an exclusion, in whatever process; whether the button was used in this exclusion; what a process that died has done to the pause since the operator's last word |

Each button of the queue window is an action (`EnqueueExport`, `ResumeHeld`,
`CancelExport`, `StopAfterCurrent`, `RetryExport`, `RetryAllFailed`,
`ClearJobs`, `SetExportPaused`). `PollExports` is `poll_with_start`: settle what
was sent, cancel the waiting rows if a stop was requested, start one row
(`MayBegin` is the preflight and the conflict policy of `start_next`), save
once. `PublishExport` and `ReportExport` are the worker. `PollBatches` is
`poll_conversion_batch_runtime`: the poll of the batch queue with the answer
`MayConvert`, then `TakeExclusion`, `GiveBack` or neither.

* `DistinctDestinations` — two rows that wait or run never share a destination,
  through restarts, retries and numbered names.
* `OnlyWhatWasAsked` — no worker runs for a row that was restored and not
  resumed, cancelled, or waiting when the operator asked to stop.
* `SingleExporter` — one worker, the active one, Processing.
* `MarksOwnProject` — an export is recorded only in the project it was taken
  from. Restored rows get session 0, which no project has.
* `KeepsExisting` — no Face file is written, and no file is replaced that was
  there at the start, unless the policy is Overwrite. A file that appears
  between start and publication is replaced whatever the policy
  (`export_impl.rs:91`): the property leaves that out.
* `NeverSideBySide`, `PauseGivenBack`, `ExclusionEnds`, `ExportSettles` — the
  exclusion. If the operator takes the pause off during an exclusion, exports
  and conversions may meet: nothing but the pause keeps the export queue from
  starting, and what the button says is overridden when the exclusion ends.
  `PauseGivenBack` holds over restarts: outside an exclusion the exports are
  paused as the operator last asked, in this process or an earlier one. Its memory
  dies with its process, though: a crash inside an exclusion strands the pause
  (`strayed`), since the file has it (`ui/conversion_batch.rs:144`) and what to give
  back is gone. Then the property says what the code does: exports stay paused,
  every later exclusion gives that back, until the operator says otherwise. After
  a queue file that was not written or not read, or a button used in the exclusion
  that died, it says nothing until then.

### Route migration

Contents of files are `Old` (the captured bytes), one of `Renders`, `Foreign` or
`None`; a hash comparison is equality. `final`, `staged`, `backup` are the three
paths of each TIFF, `project` and `projectBackup` the `.shade` file and its
`.bak`, `journal` the journal file and `mem` the one the run works with. `pc` is
the place in `drive_route_migration` between two file operations; a check and
the operation that relies on it are two steps. `Start` and `Resume` are the two
ways to begin, `Enter` is where a run takes up its journal, and the actions in
`Step` follow `continue_route_migration_outputs`,
`recover_or_commit_one_output`, `complete_route_migration_project` and
`cleanup_completed_route_migration_outputs` line by line. `Interrupt` ends a run
after any step: a crash, a panic or an error. `TouchOutput` and `TouchProject`
are everybody else.

* `NothingLost` — while the project is the captured one, the captured bytes of
  each TIFF exist.
* `ProjectListsOutputs` — a migrated project lists what is on disk.
* `OwnTracesRecognised` — a run is refused only if somebody else changed a file:
  every state an interruption leaves is recognised.
* `CommitsBacked`, `LeftoversOnRecord` — the journal is true, and nothing is
  left without one.
* `ForeignKept` — foreign bytes are not replaced, except when they came after
  the run last looked at the file. Nothing locks it in between.
* `MigrationEnds` — resumed often enough, it ends in the migrated project.
* `AtomicRouteSpec` — the refinement: the route the project lists, the state of
  each TIFF, whether a journal exists.

### Source project

`editor` is the project in memory, `life` the pending question, the transition
that waits for a save and the offered backup (`ProjectLifecycleController`),
`authority` the three baselines of `project_persistence.rs`, `job` the one
background job with the step its worker is at, `autosave`, `recovery` and
`candidate` the autosave thread, its file and what the start offered. The file
generation that `project_persistence.rs` compares is the flag `same`, which the
next write of the file ends.

A dialog of the program does not keep the mouse off the toolbar, so a request,
a save or an answer is possible at any time the code does not refuse it. A frame
polls the job and executes the transition that waited for it before the operator
can act (`Acting`).

* `NoLostUpdate` — a save replaces only bytes this process has itself opened
  from, or saved to, that file.
* `BaselineCurrent` — the armed baseline is of the open project's own file and of
  bytes this process knows, unless a stray question armed it (below).
* `BaselineOwn` — the same without that exemption, as the comment in
  `project_lifecycle.rs` has it; see the disagreements.
* `EditsKept` — the project is left only saved or with an explicit Discard, also
  when it was edited during the save.
* `AutosavedWorkKept` — autosaved work stays in the recovery file until it, or
  something newer, is saved or given up. It outlives its process (`inherited`):
  after a crash it is there through starts, opens and failed jobs, and when it is
  recovered, until the next save or autosave of whatever is open then, or a
  Discard. That next save need not be of the recovered work: a start that names a
  project does not offer the recovery file (`main.rs:111`, `707`), and a save of any
  project clears it (`main.rs:2242`).
* `SaveAndContinueEnds` — a transition never waits for a job that is gone.

What these leave out is what TLC showed when they were stated without it:

* *A stray question arms a baseline* (`misarmed`). Open B asks about unsaved
  changes; with the question on screen the operator saves and presses New in the
  toolbar. `reset_to_new_project` cancels the question, and `cancel_pending`
  takes fresh evidence of B, which the session of the new project then rotates
  into its baseline: a Save As to B replaces B, which was never opened.
  The comment in `project_lifecycle.rs:173-183` intends the opposite. The same happens when a
  question is answered while the job of another transition runs, and when a
  backup is restored after a question was cancelled.
* *The guard excludes writers only* (`slipped`). It grants `FILE_SHARE_DELETE`,
  which its own rename needs, so a program that replaces the file by a rename
  while the guard is held loses its version. On other systems there is no guard
  at all; that branch is not modelled.
* *Edits while an Open or a Recover runs* are gone when it arrives; restoring a
  backup asks nothing about edits made while the offer is shown.
* *Save and continue is left behind* by edits made during the save and by a
  panic; the next save of the project then executes it.
* *An autosave thread that ends after the recovery file was removed* writes it
  again, and a later start offers what has been saved or discarded.

## The runs

| run | instance | faults | checks | distinct states |
|---|---|---|---|---|
| `new_project` | New, 2 rows, fair | io, lineage, panic, readback, create, remove | `TypeOK` `SingleWorker` `DurableBeforeNext` `NewOnlyCommit` `ProcessingEnds` `WaitingServed` | 65,316 |
| `one_project` | Mixed, 3 rows | io, lineage, edit, panic, readback | `IInv` `OrphanOwnedUnlessForgotten` `OrphanPreserved` `LedgerKept` `RecoveryTiffUncontended` `SingleWriterUncontended` | 213,746 |
| `restart` | New, 2 rows | io, crash, persist, load | `NoAutoStart` `CheckpointBacked` `DurableCheckpointMonotone` | 2,388,736 |
| `exports` | 2 rows, 3 paths | crash, load, others' files | `ExportTypeOK` `DistinctDestinations` `OnlyWhatWasAsked` `SingleExporter` `MarksOwnProject` `KeepsExisting` | 541,424 |
| `exclusion` | 1 export, 2 batches, fair | crash, load | `NeverSideBySide` `PauseGivenBack` `ExportSettles` `ExclusionEnds` | 558,968 |
| `route_migration` | 2 Faces, 2 renders, fair | 3 interruptions, cancellations or foreign changes | `TypeOK` `NothingLost` `ProjectListsOutputs` `OwnTracesRecognised` `CommitsBacked` `LeftoversOnRecord` `ForeignKept` `MigrationEnds` `AtomicRouteSpec` | 415,381 |
| `project_session` | 2 files, 2 jobs, fair | 2 foreign changes, failures, panics or crashes | `TypeOK` `NoLostUpdate` `EditsKept` `AutosavedWorkKept` `BaselineCurrent` `SaveAndContinueEnds` | 1,102,850 |
| `shared_project` | Route, 2 rows | io | `LinkedFaceKept` is violated | |
| `unsaved_checkpoint` | New, 2 rows | persist | `CheckpointSavedFirst` is violated | |
| `unrecorded_commit` | New, 2 rows | readback | `OrphanOwned` is violated | |
| `lost_recovery_state` | New, 2 rows | edit | `RecoveryStateKept` is violated | |
| `cancelled_evidence` | 2 files, 1 job | none | `BaselineOwn` is violated | |

The instances of the batch queue have one Production project and two TIFF paths.
In *New* nothing exists: one batch creates the project with two Faces — so its
second Face is an append with a disposition of its own — and another, queued
when the project is there, updates the second Face. In *Route* the project owns
the first TIFF: one batch updates both Faces (the second is new to the project),
another appends the second. In *Mixed* three batches share the project: one
creates it with the first Face, one updates both, one appends the second; so a
row can fail, another take its place, and the first be retried beside it. All
three dispositions, the switch of disposition inside a batch, the last Face of a
batch, and two rows that want the same project and TIFF occur.

Bounds. `Ids` is the set of row ids that may be handed out: two rows are enough
for every property that relates two rows, also one that is cleared before the
other is queued, or that starves behind the other; in *Mixed* the third lets two
batches meet over a project that a first one had to create. `MaxEdits` is one
foreign edit: it already makes every fingerprint stale. Two Faces are the
smallest batch with an "earlier" and a "next" Face. The faults of a run are
those its properties hold under; which property needs which fault to be absent
is said below.
`AllowStart` is what the coordination of the queues may answer: both values for
safety, `TRUE` for liveness (other queues are idle); `restart` takes `TRUE`
only, to stay small, since a poll that may not start is a poll of a paused
queue. The runs of the batch queue check for deadlock; the others may stop, with
no row left, the migration done or the process ended.

`exports`: the policies AutoNumber and Skip, which have to look at what is there
(Overwrite is in `exclusion`); the paths are a plain name, the number that follows it and a Face
file, which is the number after that; so a numbered name can be refused, and the
list `Numbered` is cut off there, where the code counts on. Two sessions and two
processes (`MaxSession`, `MaxEpoch`) suffice for a completion to arrive in
another project. `Foreign` is the plain name. A save of the queue file that
fails is not in the run (it leaves the file behind, as if the process had died
before it) but in the theorems. The `VIEW` leaves the queue file of the last
process out of the state: nothing reads it any more. `exclusion`: two batches, so that the exclusion lasts
over the end of one and a recovery of the other; one export is enough to be
paused, running or waiting.

`route_migration`: with two Faces there is one committed and one to be
committed; two renders tell a replacement from one rendered again. Three events
(`MaxFaults`) interrupt a run, its resumption and the one after it.

`project_session`: one file exists and one does not; two jobs are an Open and a
save or two saves; `MaxEvents` bounds edits and faults together at three, so
that a foreign change may precede an edit during a save that fails. `MaxStarts`
is one further start. Longer histories repeat these: every baseline, question
and job is replaced as a whole by the next.

Faults under which a property is not claimed:

* `DurableBeforeNext` and `persist`, `load`: see the disagreements.
* `OrphanOwned` needs more than the absence of faults, as do the two properties
  about one writer: a row that is retried beside another with the same
  destinations breaks them (`shared_project`), and a commit that its worker denies
  or a crash forgets leaves a TIFF that nobody knows of. `ConversionBatchRetries`
  states them until that happens, with the faults in the run, so `one_project`
  also goes on past it: from there `OrphanPreserved`, `LedgerKept` and `IInv` are
  what is left. The code leaves a forgotten TIFF alone and refuses to render over
  it, which is `OrphanPreserved`.

`one_project` has no crashes and removes no TIFF, to stay small; the theorems
cover every fault.

Fairness (`FairSpec`): strong fairness of the poll, because `ui/status_bar.rs`
polls in every frame, so also when the operator starts one recovery after the
other and the poll is possible only now and then; weak fairness of a recovery
under way and of every worker's steps, because they are straight code on a
thread that the operating system keeps running. A worker never waits for
anybody. Nothing is assumed of the operator, so `WaitingServed` is stated under the condition that the
operator does not retry rows for ever: a retried row keeps its place in the list
and `start_next` takes the first ready one, so an operator who keeps retrying a
failing row starves the rows behind it.

`QueueCoordination`, `RouteMigration` and `ProjectSession` state weak fairness of
the polls of every frame and of the worker threads. `RouteMigration` also
assumes that the operator, to whom the program offers an unfinished migration,
resumes it; without that nobody does. `ProjectSession` assumes nothing of the
operator. Of the batch queue `QueueCoordination` assumes that a Face comes to its
end, which `ProcessingEnds` shows.

## The proofs

`ConversionBatchQueueProofs` proves, for every value of the constants that the
assumptions of the modules allow, with TLAPS:

| theorem | statement |
|---|---|
| `InvariantHolds` | `Spec => []IInv` |
| `TypeCorrect` | `Spec => []TypeOK` |
| `OneWorker` | `Spec => []SingleWorker` |
| `CheckpointsBacked` | `Spec => []CheckpointBacked` |
| `NeverAutoStarts` | `Spec => []NoAutoStart` |
| `LedgerRefinement` | `Spec => LedgerKept` |
| `NewOnlyNeverReplaces` | `Spec => NewOnlyCommit` |

The assumptions are `TransactionAssumption` (`ProductionTransaction`), which is
what `ConversionBatchCapture::validate` and the destination plan guarantee of a
capture, `NoneAssumption` and `RecordAssumption`, that an absent project is not a
project and an absent recovery record not a record, and `AllowStartAssumption`. All faults are allowed.

The invariant. `CheckpointBacked` is not inductive: that a checkpoint may be
advanced when a worker reports `Completed` needs to know that the worker did
link its Face and that it worked on the row's next Face. `IInv` therefore adds

* `SingleWorker`, which ties a report to the row, capture and Face it is about;
* `WorkerSound`: past the publication the Face counts as published, and a
  `Completed` report means it is linked;
* `RowSound`, of the rows in memory *and* of those in the queue file: a row that
  is not Done has a next Face, its checkpoint is backed, a row under recovery
  has its next Face published. The queue file is included because a restart
  makes its rows the rows in memory;
* `ReadyAuthorized`, from which `NoAutoStart` follows;
* `FreshIds`: an id is never handed out while a row has it, also after a restart
  from a stale file;
* `registered[j] <= rendered[j]`, which the refinement needs;
* `RecoveryUndisturbed`: the row of a recovery under way still waits for it.

One lemma per action shows that it keeps `QueueInv`, which is `IInv` without
`RecoveryUndisturbed`; `NextKeeps` combines them. The
refinement needs `IInv` in every step: a publication is a step of the ledger
only because the worker's ordinal is at most the number of linked Faces, and a
publication of an already published Face leaves the ledger unchanged.
`NewOnlyNeverReplaces` goes through the actions once more: only `Publish` puts
other bytes in the place of a TIFF (`OnlyPublishReplaces`).

Two modules build on `IInv`, from the same assumptions:

| theorem | statement | under |
|---|---|---|
| `FileNeverForgets` | `Spec => DurableCheckpointMonotone` | all faults |
| `FileBeforeNextFace` | `Spec => []DurableBeforeNext` | no fault of reading or writing the queue file |
| `OrphansSurvive` | `Spec => OrphanPreserved` | all faults |

`ConversionBatchFileProofs` compares the rows in memory with those in the file.
Lemma `NextSteps` says once what every step but a restart does to the two: rows
go forward, and the file is left alone or becomes the rows. From it follow
`CheckpointBehind`, that the file is never ahead of the rows while it is written
at all, and `FileCurrent`, that it is up to date where saves succeed. The
hypothesis of `FileBeforeNextFace` is necessary: `unsaved_checkpoint` shows the
violation without it. Crashes are allowed: a restart reads what the file holds.

`ConversionBatchOrphanProofs`. Only a route update may publish over a TIFF, and
`render_convert_and_commit` has seen that its project records that TIFF.
Between that look and the publication a recovery on the UI thread may replace the
project. `OrphanInv` says why the look is still good:

* `Exact`: the project a worker or a recovery is about to save is the one that was
  found plus its own Face, and a row that needs recovery has a record of its next
  Face. It holds of the rows in the queue file too, since a restart takes the
  recovery up from there;
* `RenderRecorded`: the project of a route update that is about to publish records
  the TIFF at its path;
* `ReplaySafe`: the recovery under way expects the Faces that the project still
  has, and its own TIFF is at its path. It holds until a worker publishes: after
  that the save may drop a Face (`shared_project`), but the worker of that Face
  has its publication behind it. Without the limit the invariant is false.

`ConversionBatchWriterProofs` says what the missing check of `retry` costs, of
`WatchedSpec`: the queue as it is, every retry included, and two history variables.

| theorem | statement | under |
|---|---|---|
| `WaitingTiffIsKept` | `WatchedSpec => RecoveryTiffUncontended` | all faults |
| `SingleWriterBehavior` | `WatchedSpec => SingleWriterUncontended` | all faults |
| `OrphansHaveAnOwner` | `WatchedSpec => []OrphanOwnedUnlessForgotten` | all faults |

The conditions are necessary: `shared_project` is a behaviour with a contended
retry that violates `LinkedFaceKept`, and `unrecorded_commit` one with a forgotten
commit that violates `OrphanOwned`. A Face that is linked after its TIFF was
removed is named by its project without being on disk; `KeepsLinkedFaces`
therefore speaks of Faces whose TIFF is in place. `RetryReserves` says that a step
is no contended retry, `WatchedStep` that the watched queue takes only such steps
until it is `contended`. Up to then the invariant is `CarefulInv`; afterwards
`IInv` and `OrphanInv` are left of it (`WatchedInv`). `CarefulInv` adds to them

* `Apart`: two rows that reserve destinations share none, in memory and, because
  of a restart, in the queue file. Every step but `enqueue` and `retry` only gives
  reservations up (`Follows`), which is why those two are the ones that must look;
* `CommitHeld`: past the commit the TIFF of a worker is at its path unless it
  was removed;
* `WriteFits` and `ReplayHeld`: a worker that has verified the project, and a
  recovery that has checked it, still find the Faces they have seen. This is the
  check-then-save window of `save_existing_production_project` and
  `recover_production_project`. Other programs may still edit the project in
  that window, and their edit is lost; they cannot take a Face away.

`SavesFace` is what the last two give: a save puts one Face in its place and keeps
all others. `OrphanOwned` is itself inductive together with `CarefulInv` as long as
nothing is forgotten; the
report of a worker passes the Face on to its row (`DrainedWaits`).

`ExportQueueProofs` proves of the export queue, for every set of rows, paths,
Face files, numbered names and choices of the operator, and for every fault:

| theorem | statement |
|---|---|
| `ExportInvHolds` | `ExportSpec => []ExportInv` |
| `ExportTypes` | `ExportSpec => []ExportTypeOK` |
| `ExportDestinationsDistinct` | `ExportSpec => []DistinctDestinations` |
| `ExportOnlyWhatWasAsked` | `ExportSpec => []OnlyWhatWasAsked` |
| `ExportSingleWorker` | `ExportSpec => []SingleExporter` |
| `ExportMarksOwnProject` | `ExportSpec => []MarksOwnProject` |
| `ExportKeepsExisting` | `ExportSpec => KeepsExisting` |

The assumption is `ExportAssumption`. `ExportInv` adds to the properties

* `RowsSound`, of the rows in memory and of those in the queue file:
  destinations are distinct, and an id still to be handed out names no row. Most
  operations only take destinations out of use (lemma `Narrowed`); those that
  put one into use look first (`Taken`);
* `OwnersMeant`: a session number other than 0 means a project of this process;
* `ReadyAsked`: what may start was asked for, unless a stop that will cancel it is
  pending — without it `OnlyWhatWasAsked` is not inductive;
* `MayPublish`: what `KeepsExisting` asks of a publication holds from the start of
  the worker to the end, whatever others do to the files.

`QueueCoordinationProofs` builds on it, for every set of batches
(`BatchAssumption`):

| theorem | statement |
|---|---|
| `ExclusionInvHolds` | `Spec => []ExclusionInv` |
| `CoordinationIsExportQueue` | `Spec => ExportSpec` |
| `CoordinationTypes` | `Spec => []TypeOK` |
| `QueuesNeverSideBySide` | `Spec => []NeverSideBySide` |
| `ExclusionGivesPauseBack` | `Spec => []PauseGivenBack` |

`NeverSideBySide` rests on two facts about the moments between two polls: a
running batch is inside an exclusion (`BatchOwns`: `TakeExclusion` is part of the
poll that starts it), and during an exclusion the exports stay paused unless the
operator intervenes (`PausedWhileOwned`). `PauseGivenBack` needs that the pause
remembered is the one the operator wanted, or a stranded one (`PauseRemembered`).

`RouteMigrationProofs` proves of the migration, for every number of Faces, every
outcome of a rendering and every number of interruptions, cancellations and
foreign changes:

| theorem | statement |
|---|---|
| `MigrationInvHolds` | `Spec => []MigrationInv` |
| `MigrationTypes` | `Spec => []TypeOK` |
| `NothingIsLost` | `Spec => []NothingLost` |
| `ProjectListsItsOutputs` | `Spec => []ProjectListsOutputs` |
| `OwnTracesAreRecognised` | `Spec => []OwnTracesRecognised` |
| `CommitsAreBacked` | `Spec => []CommitsBacked` |
| `LeftoversAreOnRecord` | `Spec => []LeftoversOnRecord` |
| `ForeignIsKept` | `Spec => ForeignKept` |
| `MigrationIsAtomic` | `Spec => AtomicRouteSpec` |

The assumptions are `MigrationAssumption`, that the contents the model tells apart
are different, and `JournalAssumption`, that a missing journal is not a journal.
`MigrationInv` adds to the properties

* `OutputsSound`: what the journal on disk says about the three files of a TIFF
  nobody else has changed. During the swap three combinations are possible for
  the TIFF after the last one on record, and exactly one for every other;
* `ProjectSound`: the project is the captured one until the journal says that its
  save is pending, from then on it may also be the migrated one, and then the
  `.bak` is the captured one — what `CheckOutputs` relies on when it takes up a
  save that could not be recorded;
* `PlaceSound` and `MemSound`: a run is where the stage of its journal puts it, and
  its memory is the journal on disk except between a rendering and its checkpoint;
* `SeenSound`: what the run has checked or done still holds if nobody has changed
  it since. It is the reason why a refusal proves a foreign change
  (`OwnTracesRecognised`);
* `LateSound`: what foreign bytes a step is about to replace came after the last
  look, from which `ForeignKept` follows.

An interruption takes away only what the run knows (lemma `RunEnds`), so
`OutputsSound` and `ProjectSound` are what a run that resumes starts from. The
refinement uses the same facts with nothing touched: then each file operation is
a swap of one TIFF, the switch of the project, the begin or the end, or invisible.

`ProjectSessionProofs` proves of the Source project, for every set of project
files, every number of edits, jobs and starts, and for every fault:

| theorem | statement |
|---|---|
| `SessionInvHolds` | `Spec => []SessionInv` |
| `SessionTypeCorrect` | `Spec => []TypeOK` |
| `AutosavedWorkIsKept` | `Spec => []AutosavedWorkKept` |
| `BaselineIsCurrent` | `Spec => []BaselineCurrent` |
| `NoUpdateIsLost` | `Spec => NoLostUpdate` |
| `EditsAreKept` | `Spec => EditsKept` |

The assumptions are `SessionAssumption`, that an empty project is told apart from
every other content, and `NoneAssumption`, that no record is `None`. `SessionInv`
adds to the properties

* `JobSound`: an Open that has read the file, a save and a recovery carry a project
  that is not empty, and nothing in memory outlives the process;
* `EditorSound`: a project that is not dirty is the content of its own file, and a
  save that runs may make it clean only with the content it writes. `EditsKept`
  rests on it: no question is asked of a project that is not dirty;
* `EvidenceSound`: evidence whose file generation still matches tells the bytes on
  disk, and while an Open runs it is of the file being opened, unless its question
  was overtaken. Hence the baseline that `Opened` arms is what was opened;
* `BaselineSound`: between the acceptance of a save and the poll that reports it
  the baseline is of the new name, otherwise of the editor's. `BaselineCurrent`
  alone, which says nothing while a save runs, is not inductive;
* `GuardSound`: what a save expects to replace is known to the process. Under the
  guard the file still is that or was replaced by another program, and its `.bak`
  is that too: without the `.bak` the invariant is not inductive, because a backup
  may be restored to the same path while the save runs;
* `AutosaveSound`: no autosaved state is newer than the project or than the
  save in progress, and a thread whose work was given up can no longer owe
  anything. Without it a finished save could remove a recovery file that is
  newer than what it saved.

Only model-checked: liveness (`ProcessingEnds`, `WaitingServed`, `ExportSettles`,
`ExclusionEnds`, `MigrationEnds`, `SaveAndContinueEnds`), which is out of the
prover's reach.

## Where the code and its documents disagree

* **`shared_project`.** `retry` does not check reservations, `enqueue` does. A
  row fails, another is queued for the same project and ends in recovery, the
  first is retried; its worker has verified the project when the recovery of the
  other saves it; the worker's save then drops the Face just linked, or the
  recovery's save drops the worker's. Both Faces are reported complete.
* **`unsaved_checkpoint`.** The comment in `poll_with_start` says the checkpoint
  from a completed Face must hit durable storage before another Face starts. The
  first Face is linked and settled, the save of its checkpoint fails, and the same
  poll starts the second Face. `CheckpointBacked` still holds: the file lags behind.
* **`unrecorded_commit`.** Errors of hashing the published TIFF or of the clock
  (and of the directory sync, outside Windows) are reported as failures before
  the commit; the operator guide promises recovery state.
* **`lost_recovery_state`.** If the project changes between commit and append,
  the row needs recovery but its record has no project: it can be neither
  recovered, retried, cancelled nor cleared. `QUEUE_CORE.md` requires it to
  remain recoverable.
* **`cancelled_evidence`.** The comment in `cancel_pending` says that the evidence
  a plain Cancel leaves cannot arm Save authority, because every later transition
  replaces or disarms it. New disarms it and then cancels the open question, which
  takes it again, before the new session arms it.

One more shows in `AutosavedWorkKept` and has no run of its own: the release notes
(`RELEASE_NOTES.md:436`) say that on restart the app offers Recover or Discard
recovery. A start that names a project does not, and a save of that project
clears the file.

## What is not modelled

* The legacy conversion queue: this version never fills it.
* The steps inside `atomic_write` with its fixed temp name; two writers of one
  file on two threads of the program meet only in a recovery beside a worker.
* Of the export queue: progress and metrics, recipes; that a source changed
  since it was queued is a start that is refused for no further reason.
* Of the route migration: how a plan is built from recipes and compatibility
  keys. The journal file is not changed by others.
* Of the Source project: the question about an unsaved snapshot before a save,
  jobs other than Open, Save and Recover, pending exports blocking Exit, the
  build for systems other than Windows, the two older generations of the
  recovery file, a backup restore that fails.
* The content of recipes, profiles, audits and compatibility keys (captures of
  one batch are taken to be compatible, as the plan checks); progress texts; ids
  wrapping around; rows written by versions that did not capture the
  disposition; the `AlreadyComplete` outcome, which `SingleWorker` shows to be
  unreachable. A project that is saved without a change of content keeps its
  fingerprint in the model.
* Previews, caches and the file observer, whose late answers are dropped by
  generation and leave nothing durable; undo history, settings and preset
  stores, which one thread edits; the updater.
* Numerical colour processing, codecs and drawing, which are most of the code:
  not a matter for TLC.
