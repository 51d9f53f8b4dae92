--------------------- MODULE ConversionBatchOrphanProofs ---------------------
(***************************************************************************)
(* A committed TIFF that no Production project records is never rendered   *)
(* over, for every set of ids, captures, TIFF paths and projects and every *)
(* set of faults.                                                          *)
(*                                                                         *)
(* Only a route update may replace a TIFF, and it has checked that the     *)
(* project at its path records that TIFF.  What has to be shown is that    *)
(* this stays so until the TIFF is published although a recovery on the UI *)
(* thread may save the same project in between: the project it saves is    *)
(* the one it found plus the Face it recovers (Exact), and that Face is    *)
(* the TIFF at its path.                                                   *)
(***************************************************************************)
EXTENDS ConversionBatchQueueProofs

\* The project a save produces has the Face in place, and otherwise the Faces of
\* the captured one.
BuiltFrom(built, disp, t, j) ==
    built # None =>
        /\ built.faces[t] = j
        /\ disp.mode # "CreateNew" =>
               built.faces = [disp.expected.faces EXCEPT ![t] = j]

\* What a worker intends to do with the project.
WorkerExact(w) ==
    w.pc # "idle" =>
        /\ ~MustNotExist(w.job) => w.disp.mode = "UpdateExistingRoute"
        /\ w.pc = "start" => w.built = None
        /\ w.pc \in {"verify", "write"} => w.built # None
        /\ w.pc # "finished" => w.outcome = "none"
        /\ BuiltFrom(w.built, w.disp, Path(w), w.job)

\* A row that needs recovery has a record of its next Face, which says what may
\* be put in place of the project.
RowExact(row) ==
    row.status = "NeedsRecovery" =>
        /\ row.rec # None
        /\ row.rec.ord = row.done
        /\ row.rec.disp.mode # "CreateNew" => row.rec.disp.expected # None
        /\ BuiltFrom(row.rec.built, row.rec.disp, PendingTiff(row), row.job)

Exact ==
    /\ \A i \in Ids : WorkerExact(worker[i])
    /\ \A i \in Ids : RowExact(items[i]) /\ RowExact(durable.items[i])

\* Project p records the TIFF of a batch that is at t, if there is one.
Recorded(p, t) ==
    tiff[t] \in Jobs => project[p] # None /\ project[p].faces[t] = tiff[t]

\* A route update that is about to publish replaces a TIFF its project records.
RenderRecorded ==
    \A i \in Ids : worker[i].pc = "render" /\ ~MustNotExist(worker[i].job) =>
        Recorded(Target(worker[i]), Path(worker[i]))

\* The project still has the Faces that the recovery of row k expects.
ReplayFits(k) ==
    LET row == items[k]
        p == ProjectOf[row.job]
        t == PendingTiff(row)
    IN  /\ row.rec.built # None
        /\ row.rec.disp.mode # "CreateNew" =>
               project[p] # None /\ project[p].faces = row.rec.disp.expected.faces
        /\ tiff[t] \in Jobs => tiff[t] = row.job

\* As long as no worker has published since the recovery was checked.
ReplaySafe ==
    recovering # None /\ (\E i \in Ids : worker[i].pc \in {"start", "prepare", "render"}) =>
        ReplayFits(recovering)

OrphanInv == Exact /\ RenderRecorded /\ ReplaySafe

\* Every project keeps the Faces it records.
SameFaces ==
    \A p \in Projects : /\ project'[p] # None <=> project[p] # None
                        /\ project[p] # None => project'[p].faces = project[p].faces

\* The new row and the old one are the same if either needs recovery.
SameRecord(new, old) ==
    new.status = "NeedsRecovery" \/ old.status = "NeedsRecovery" => new = old

\* What other programs do to the files.
EnvironmentTouches ==
    /\ UNCHANGED worker
    /\ SameFaces
    /\ \A t \in Tiffs : /\ tiff'[t] \in Jobs => tiff'[t] = tiff[t]
                        /\ tiff'[t] # tiff[t] => tiff[t] = None \/ "remove" \in Faults

-------------------------------------------------------------------------------
(***************************************************************************)
(* Rows, saves and loads.                                                  *)
(***************************************************************************)
\* The queue file keeps the record of a row that needs recovery.
LEMMA SavedRowExact ==
    ASSUME NEW row \in Item \cup {Absent}, RowExact(row)
    PROVE  RowExact(SavedRow(row))
<1>1. CASE row.status \in {"Absent", "Done"}
  BY <1>1 DEF SavedRow, RowExact, Absent
<1>2. CASE row.status \notin {"Absent", "Done"}
  <2>1. row \in Item /\ SavedRow(row) = [row EXCEPT !.resume = FALSE]
    BY <1>2 DEF SavedRow, Absent
  <2>2. /\ SavedRow(row).status = row.status /\ SavedRow(row).rec = row.rec
        /\ SavedRow(row).job = row.job /\ SavedRow(row).done = row.done
    BY <2>1 DEF Item
  <2> QED BY <2>2 DEF RowExact, PendingTiff
<1> QED BY <1>1, <1>2

\* So does the queue that loads the file.
LEMMA LoadedRowExact ==
    ASSUME NEW row \in Item \cup {Absent}, RowExact(row)
    PROVE  RowExact(LoadedRow(row))
<1>1. CASE row.status = "Absent"
  BY <1>1 DEF LoadedRow, RowExact, Absent
<1>2. CASE row.status # "Absent"
  <2> DEFINE status == Restored(row.status)
             resume == Interrupted(row.status)
  <2>1. row \in Item /\ LoadedRow(row) = [row EXCEPT !.status = status, !.resume = resume]
    BY <1>2 DEF LoadedRow, Absent
  <2>2. status = "NeedsRecovery" => row.status = "NeedsRecovery"
    BY DEF Restored, Interrupted
  <2> HIDE DEF status, resume
  <2>3. /\ LoadedRow(row).status = status /\ LoadedRow(row).rec = row.rec
        /\ LoadedRow(row).job = row.job /\ LoadedRow(row).done = row.done
    BY <2>1 DEF Item
  <2> QED BY <2>2, <2>3 DEF RowExact, PendingTiff
<1> QED BY <1>1, <1>2

LEMMA SaveExact ==
    ASSUME NEW rows \in Rows, NEW nid, NEW psd, NEW old,
           \A i \in Ids : RowExact(rows[i]),
           \A i \in Ids : RowExact(old.items[i]),
           NEW new \in AfterSave(rows, nid, psd, old)
    PROVE  \A i \in Ids : RowExact(new.items[i])
<1>1. new = Snapshot(rows, nid, psd) \/ new = old
  BY DEF AfterSave, Saved
<1>2. CASE new = Snapshot(rows, nid, psd)
  <2>1. new.items = [i \in Ids |-> SavedRow(rows[i])]
    BY <1>2 DEF Snapshot
  <2>2. \A i \in Ids : RowExact(SavedRow(rows[i]))
    BY SavedRowExact DEF Rows
  <2> QED BY <2>1, <2>2
<1> QED BY <1>1, <1>2

\* A step that saves the rows it leaves, where every row that still needs
\* recovery is one that did before.
LEMMA RowsStayExact ==
    ASSUME Exact, NEW rows \in Rows, items' = rows,
           \A i \in Ids : rows[i].status = "NeedsRecovery" => rows[i] = items[i],
           Persist(rows, nextId', paused')
    PROVE  \A i \in Ids : RowExact(items'[i]) /\ RowExact(durable'.items[i])
<1>1. \A i \in Ids : RowExact(items'[i])
  BY DEF Exact, RowExact
<1>2. \A i \in Ids : RowExact(durable.items[i])
  BY DEF Exact
<1>3. \A i \in Ids : RowExact(durable'.items[i])
  BY <1>1, <1>2, SaveExact DEF Persist
<1> QED BY <1>1, <1>3

\* A report of a committed Face that is not linked yet keeps what the worker knew.
LEMMA OutcomeExact ==
    ASSUME QueueInv, Exact, NEW i \in Reported
    PROVE  RowExact(ApplyStepOutcome(items[i], worker[i]))
<1> DEFINE w == worker[i]
           row == ApplyStepOutcome(items[i], w)
<1>1. /\ i \in Ids /\ w \in Running /\ w.pc = "finished" /\ items[i] \in Item
      /\ items[i].job = w.job /\ items[i].done = w.ord
      /\ WorkerSound(w, registered, rendered) /\ WorkerExact(w)
  BY ReportFits DEF Exact
<1>2. CASE w.outcome = "NeedsRecovery"
  <2> DEFINE rec == [ord |-> items[i].done, disp |-> w.disp, built |-> w.built]
  <2>1. row = [items[i] EXCEPT !.status = "NeedsRecovery", !.resume = FALSE, !.rec = rec]
    BY <1>2 DEF ApplyStepOutcome
  <2>2. /\ rec.disp = w.disp /\ rec.built = w.built /\ rec.ord = items[i].done
        /\ rec # None
    <3>1. rec \in Record
      BY <1>1 DEF Record, Running, Item
    <3> QED BY <3>1, RecordAssumption
  <2> HIDE DEF rec
  <2>3. row.rec = rec /\ row.job = w.job /\ row.done = w.ord
    BY <1>1, <2>1 DEF Item
  <2> HIDE DEF row
  <2>4. PendingTiff(row) = Path(w)
    BY <2>3 DEF PendingTiff, Path
  <2>5. RowExact(row)
    BY <1>1, <2>2, <2>3, <2>4 DEF RowExact, WorkerExact, WorkerSound, BuiltFrom
  <2> QED BY <2>5 DEF row
<1>3. CASE w.outcome = "Completed"
  <2>1. Advance(items[i]).status \in {"Done", "Waiting"}
    BY <1>1 DEF Advance, Item
  <2>2. row = Advance(items[i])
    BY <1>3 DEF ApplyStepOutcome
  <2> QED BY <2>1, <2>2 DEF RowExact
<1>4. CASE w.outcome \notin {"Completed", "NeedsRecovery"}
  <2>1. row = [items[i] EXCEPT !.status = w.outcome, !.resume = FALSE, !.rec = None]
    BY <1>4 DEF ApplyStepOutcome
  <2>2. row.status = w.outcome
    BY <1>1, <2>1 DEF Item
  <2> QED BY <1>4, <2>2 DEF RowExact
<1> QED BY <1>2, <1>3, <1>4

LEMMA DrainedExact ==
    ASSUME QueueInv, Exact
    PROVE  \A i \in Ids : RowExact(Drained[i])
<1>1. ASSUME NEW i \in Ids, i \in Reported PROVE RowExact(Drained[i])
  <2>1. Drained[i] = ApplyStepOutcome(items[i], worker[i])
    BY <1>1, ReportFits DEF Drained, Item, Statuses
  <2> QED BY <1>1, <2>1, OutcomeExact
<1>2. ASSUME NEW i \in Ids, i \notin Reported PROVE RowExact(Drained[i])
  BY <1>2 DEF Drained, Exact
<1> QED BY <1>1, <1>2

-------------------------------------------------------------------------------
(***************************************************************************)
(* Workers.                                                                *)
(***************************************************************************)
\* The worker's row, Face and disposition after a step that does not set them.
LEMMA FieldsAfter ==
    ASSUME QueueInv, NEW i \in Ids, worker[i].pc # "idle",
           NEW pc \in Pcs,
           \/ \E outcome \in Outcomes : Finish(i, outcome) /\ pc = "finished"
           \/ Goto(i, pc) /\ worker[i].pc # "finished"
    PROVE  /\ worker'[i].job = worker[i].job /\ worker'[i].ord = worker[i].ord
           /\ worker'[i].disp = worker[i].disp /\ worker'[i].built = worker[i].built
           /\ worker'[i].pc = pc
           /\ pc = "finished" \/ worker'[i].outcome = worker[i].outcome
<1>1. worker[i] \in Running /\ worker \in [Ids -> Running \cup {Idle}]
  BY RunningWorker DEF QueueInv, QueueTypeOK
<1>2. ASSUME NEW outcome \in Outcomes, Finish(i, outcome)
      PROVE  worker'[i] = [worker[i] EXCEPT !.pc = "finished", !.outcome = outcome]
  BY <1>1, <1>2 DEF Finish
<1>3. ASSUME Goto(i, pc)
      PROVE  worker'[i] = [worker[i] EXCEPT !.pc = pc]
  BY <1>1, <1>3 DEF Goto
<1>4. ASSUME NEW outcome \in Outcomes, Finish(i, outcome), pc = "finished"
      PROVE  /\ worker'[i].job = worker[i].job /\ worker'[i].ord = worker[i].ord
             /\ worker'[i].disp = worker[i].disp /\ worker'[i].built = worker[i].built
             /\ worker'[i].pc = "finished"
  BY <1>1, <1>2, <1>4 DEF Running
<1>5. ASSUME Goto(i, pc)
      PROVE  /\ worker'[i].job = worker[i].job /\ worker'[i].ord = worker[i].ord
             /\ worker'[i].disp = worker[i].disp /\ worker'[i].built = worker[i].built
             /\ worker'[i].pc = pc /\ worker'[i].outcome = worker[i].outcome
  BY <1>1, <1>3, <1>5 DEF Running
<1> QED BY <1>4, <1>5

\* Only Face 0 uses the captured disposition; a later Face of a route update
\* updates the same route.
LEMMA DispositionExact ==
    ASSUME QueueInv, NEW i \in Ids, WorkerExact(worker[i]), DispositionForFace(i)
    PROVE  WorkerExact(worker'[i])
<1>1. worker[i] \in Running /\ worker \in [Ids -> Running \cup {Idle}]
  BY RunningWorker DEF DispositionForFace, QueueInv, QueueTypeOK
<1> DEFINE fresh == [mode |-> IF MustNotExist(worker[i].job) THEN "AppendExisting"
                               ELSE "UpdateExistingRoute",
                      expected |-> project[Target(worker[i])]]
           d == IF worker[i].ord = 0 THEN worker[i].disp ELSE fresh
<1>2. ~MustNotExist(worker[i].job) => d.mode = "UpdateExistingRoute"
  BY DEF WorkerExact, DispositionForFace
<1>3. worker' = [worker EXCEPT ![i].pc = "prepare", ![i].disp = d]
  BY DEF DispositionForFace
<1> HIDE DEF d
<1>4. worker'[i] = [worker[i] EXCEPT !.pc = "prepare", !.disp = d]
  BY <1>1, <1>3
<1>5. /\ worker'[i].job = worker[i].job /\ worker'[i].disp = d
      /\ worker'[i].built = worker[i].built /\ worker'[i].pc = "prepare"
      /\ worker'[i].outcome = worker[i].outcome
  BY <1>1, <1>4 DEF Running
<1>6. worker[i].built = None /\ worker[i].outcome = "none"
  BY DEF WorkerExact, DispositionForFace
<1> QED BY <1>2, <1>5, <1>6 DEF WorkerExact, BuiltFrom

\* build_production_project: the captured project with the converted Face.
LEMMA BuildExact ==
    ASSUME QueueInv, NEW i \in Ids, WorkerExact(worker[i]), BuildProject(i)
    PROVE  WorkerExact(worker'[i])
<1> DEFINE w == worker[i]
           pc == IF w.disp.mode = "CreateNew" THEN "write" ELSE "verify"
           built == Deterministic(w)
<1>1. /\ w \in Running /\ WorkerSound(w, registered, rendered) /\ w.pc # "idle"
      /\ worker \in [Ids -> Running \cup {Idle}] /\ Path(w) \in Tiffs
  BY RunningWorker DEF BuildProject, QueueInv, QueueTypeOK
<1>2. ASSUME w.disp.mode # "CreateNew"
      PROVE  built.faces = [w.disp.expected.faces EXCEPT ![Path(w)] = w.job]
  <2>1. w.disp.expected \in Project
    BY <1>1, <1>2 DEF WorkerSound, Running, Disposition, MaybeProject
  <2>2. built = [w.disp.expected EXCEPT
                    !.faces = [w.disp.expected.faces EXCEPT ![Path(w)] = w.job]]
    BY <1>2, <2>1 DEF Deterministic, WithFace, Project
  <2> HIDE DEF built
  <2> QED BY <2>1, <2>2 DEF Project
<1>8. built.faces[Path(w)] = w.job
  <2>1. CASE w.disp.mode = "CreateNew"
    BY <1>1, <2>1 DEF Deterministic, NewProject
  <2>2. CASE w.disp.mode # "CreateNew"
    <3>1. w.disp.expected \in Project
      BY <1>1, <2>2 DEF WorkerSound, Running, Disposition, MaybeProject
    <3>2. w.disp.expected.faces \in [Tiffs -> Bytes \cup {None}]
      BY <3>1 DEF Project
    <3> HIDE DEF built
    <3> QED BY <1>1, <1>2, <2>2, <3>2
  <2> QED BY <2>1, <2>2
<1>9. built # None
  BY <1>1, BuiltProject, NoneAssumption DEF WorkerSound
<1> HIDE DEF built
<1>3. worker'[i] = [w EXCEPT !.pc = pc, !.built = built]
  BY <1>1 DEF BuildProject, built
<1>4. /\ worker'[i].job = w.job /\ worker'[i].ord = w.ord /\ worker'[i].disp = w.disp
      /\ worker'[i].built = built /\ worker'[i].pc # "start"
      /\ worker'[i].outcome = w.outcome
  BY <1>1, <1>3 DEF Running
<1>5. Path(worker'[i]) = Path(w)
  BY <1>4 DEF Path
<1>6. BuiltFrom(built, w.disp, Path(w), w.job) /\ w.outcome = "none"
  BY <1>1, <1>2, <1>8 DEF BuiltFrom, WorkerExact, BuildProject
<1>7. ~MustNotExist(w.job) => w.disp.mode = "UpdateExistingRoute"
  BY <1>1 DEF WorkerExact
<1> QED BY <1>4, <1>5, <1>6, <1>7, <1>9 DEF WorkerExact

LEMMA WorkerStepExact ==
    ASSUME QueueInv, NEW i \in Ids, WorkerExact(worker[i]), WorkerStep(i)
    PROVE  WorkerExact(worker'[i])
<1>1. ASSUME NEW pc \in Pcs \ {"start"}, Goto(i, pc),
             worker[i].pc \notin {"idle", "finished"},
             \/ pc \notin {"verify", "write"}
             \/ worker[i].pc = "verify" /\ pc = "write"
      PROVE  WorkerExact(worker'[i])
  <2>1. /\ worker'[i].job = worker[i].job /\ worker'[i].ord = worker[i].ord
        /\ worker'[i].disp = worker[i].disp /\ worker'[i].built = worker[i].built
        /\ worker'[i].pc = pc
        /\ pc = "finished" \/ worker'[i].outcome = worker[i].outcome
    BY <1>1, FieldsAfter
  <2>2. /\ worker[i].pc # "idle"
        /\ \/ worker'[i].pc \notin {"start", "verify", "write"}
           \/ worker[i].pc = "verify" /\ worker'[i].pc = "write"
        /\ \/ worker'[i].pc = "finished"
           \/ worker[i].pc # "finished" /\ worker'[i].outcome = worker[i].outcome
    BY <1>1, <2>1
  <2> QED BY <2>1, <2>2 DEF WorkerExact, Path
<1>2. ASSUME NEW outcome \in Outcomes, Finish(i, outcome), worker[i].pc # "idle"
      PROVE  WorkerExact(worker'[i])
  <2>1. /\ worker'[i].job = worker[i].job /\ worker'[i].ord = worker[i].ord
        /\ worker'[i].disp = worker[i].disp /\ worker'[i].built = worker[i].built
        /\ worker'[i].pc = "finished"
    BY <1>2, FieldsAfter DEF Pcs
  <2> QED BY <1>2, <2>1 DEF WorkerExact, Path
<1>3. CASE DispositionForFace(i)
  BY <1>3, DispositionExact
<1>4. CASE BuildProject(i)
  BY <1>4, BuildExact
<1>5. CASE HaltBeforeFace(i) \/ RefuseToRender(i) \/ AbandonRender(i) \/ ReadBackFails(i)
  <2>1. FailOrCancel(i) /\ worker[i].pc # "idle"
    BY <1>5 DEF HaltBeforeFace, RefuseToRender, AbandonRender, ReadBackFails
  <2> QED BY <1>2, <2>1 DEF FailOrCancel, Outcomes
<1>6. CASE Prepare(i) \/ Publish(i) \/ ReadBack(i)
  <2>1. \E pc \in {"render", "committed", "save"} : Goto(i, pc)
    BY <1>6 DEF Prepare, Publish, ReadBack
  <2>2. worker[i].pc \notin {"idle", "finished"}
    BY <1>6 DEF Prepare, Publish, ReadBack
  <2>3. \A pc \in {"render", "committed", "save"} :
            pc \in Pcs \ {"start"} /\ pc \notin {"verify", "write"}
    BY DEF Pcs
  <2> QED BY <1>1, <2>1, <2>2, <2>3
<1>7. CASE LineageFails(i) \/ RefuseToBuild(i) \/ SaveFails(i)
  <2>1. Finish(i, "NeedsRecovery") /\ worker[i].pc # "idle"
    BY <1>7 DEF LineageFails, RefuseToBuild, SaveFails
  <2> QED BY <1>2, <2>1 DEF Outcomes
<1>8. CASE WriteProject(i) \/ WriteUncertain(i)
  <2>1. /\ Finish(i, "Completed") \/ Finish(i, "NeedsRecovery")
        /\ worker[i].pc # "idle"
    BY <1>8 DEF WriteProject, WriteUncertain
  <2> QED BY <1>2, <2>1 DEF Outcomes
<1>9. CASE Panic(i)
  <2>1. Finish(i, "Failed") /\ worker[i].pc # "idle"
    BY <1>9 DEF Panic, Pcs
  <2> QED BY <1>2, <2>1 DEF Outcomes
<1>10. CASE VerifyProject(i)
  <2>1. Goto(i, "write") /\ worker[i].pc = "verify"
    BY <1>10 DEF VerifyProject
  <2> QED BY <1>1, <2>1 DEF Pcs
<1> QED BY <1>3, <1>4, <1>5, <1>6, <1>7, <1>8, <1>9, <1>10 DEF WorkerStep

\* The worker of one row is the only one.
LEMMA OnlyWorker ==
    ASSUME QueueInv, NEW i \in Ids, worker[i].pc # "idle", NEW k \in Ids \ {i}
    PROVE  worker[k] = Idle
BY DEF QueueInv, SingleWorker, QueueTypeOK, Running, Pcs

\* The steps before the publication.
LEMMA EarlySteps ==
    ASSUME QueueInv, NEW i \in Ids, WorkerStep(i),
           worker'[i].pc \in {"start", "prepare", "render"}
    PROVE  DispositionForFace(i) \/ Prepare(i)
<1>1. worker[i] \in Running /\ worker \in [Ids -> Running \cup {Idle}]
  <2>1. worker[i].pc # "idle"
    BY WorkerStepSound DEF WorkerKept, Running, Pcs
  <2> QED BY <2>1, RunningWorker DEF QueueInv, QueueTypeOK
<1>2. ASSUME NEW outcome, Finish(i, outcome) PROVE FALSE
  BY <1>1, <1>2 DEF Finish, Running
<1>3. ASSUME NEW pc \in {"committed", "save", "write"}, Goto(i, pc) PROVE FALSE
  BY <1>1, <1>3 DEF Goto, Running
<1>4. ~BuildProject(i)
  <2> SUFFICES ASSUME BuildProject(i) PROVE FALSE
    OBVIOUS
  <2> DEFINE pc == IF worker[i].disp.mode = "CreateNew" THEN "write" ELSE "verify"
             built == Deterministic(worker[i])
  <2>1. worker'[i] = [worker[i] EXCEPT !.pc = pc, !.built = built]
    BY <1>1 DEF BuildProject
  <2> HIDE DEF built
  <2> QED BY <1>1, <2>1 DEF Running
<1> QED BY <1>2, <1>3, <1>4
        DEF WorkerStep, HaltBeforeFace, RefuseToRender, Publish, AbandonRender, ReadBack,
            ReadBackFails, LineageFails, RefuseToBuild, VerifyProject, WriteProject,
            WriteUncertain, SaveFails, Panic, FailOrCancel

\* The checks before a route update: the TIFF it replaces is the recorded one.
LEMMA PrepareRecords ==
    ASSUME QueueInv, NEW i \in Ids, WorkerExact(worker[i]), Prepare(i),
           ~MustNotExist(worker[i].job)
    PROVE  Recorded(Target(worker[i]), Path(worker[i]))
<1> DEFINE w == worker[i]
<1>1. /\ w \in Running /\ WorkerSound(w, registered, rendered) /\ w.pc # "idle"
  BY RunningWorker DEF Prepare
<1>2. w.disp.mode = "UpdateExistingRoute"
  BY <1>1 DEF WorkerExact
<1>3. /\ project[Target(w)] = w.disp.expected /\ w.disp.expected # None
      /\ tiff[Path(w)] \in {None, w.disp.expected.faces[Path(w)]}
  BY <1>1, <1>2 DEF Prepare, MayRender, OwnsDestination, WorkerSound
<1>4. None \notin Jobs
  BY TransactionAssumption DEF TransactionAssumptions
<1> QED BY <1>3, <1>4 DEF Recorded

LEMMA WorkerKeepsOrphanInv ==
    ASSUME QueueInv, OrphanInv, NEW i \in Ids, WorkerStep(i), Elsewhere
    PROVE  OrphanInv'
<1>1. /\ worker[i] \in Running /\ worker'[i] \in Running
      /\ worker' = [worker EXCEPT ![i] = worker'[i]]
      /\ worker'[i].job = worker[i].job /\ worker'[i].ord = worker[i].ord
  BY WorkerStepSound DEF WorkerKept
<1>2. /\ worker[i].pc # "idle"
      /\ \A k \in Ids \ {i} : worker'[k] = worker[k] /\ worker[k] = Idle
  <2>1. worker[i].pc # "idle"
    BY <1>1 DEF Running, Pcs
  <2> QED BY <1>1, <2>1, OnlyWorker DEF QueueInv, QueueTypeOK
<1>3. UNCHANGED <<items, durable, recovering>>
  BY DEF Elsewhere, queueVars
<1>4. Exact'
  <2>1. WorkerExact(worker'[i])
    BY WorkerStepExact DEF OrphanInv, Exact
  <2> QED BY <1>2, <1>3, <2>1 DEF OrphanInv, Exact
<1>5. RenderRecorded'
  <2> SUFFICES ASSUME NEW k \in Ids, worker'[k].pc = "render",
                      ~MustNotExist(worker'[k].job)
               PROVE  Recorded(Target(worker[k]), Path(worker[k]))'
    BY DEF RenderRecorded
  <2>1. k = i
    BY <1>2 DEF Idle
  <2>2. ~DispositionForFace(i)
    BY <1>1, <2>1 DEF DispositionForFace, Running, QueueInv, QueueTypeOK
  <2>3. Prepare(i)
    BY <2>1, <2>2, EarlySteps
  <2>4. Recorded(Target(worker[i]), Path(worker[i]))
    BY <1>1, <2>1, <2>3, PrepareRecords DEF OrphanInv, Exact
  <2>5. UNCHANGED <<tiff, project>> /\ Target(worker'[i]) = Target(worker[i])
        /\ Path(worker'[i]) = Path(worker[i])
    BY <1>1, <2>3 DEF Prepare, Target, Path
  <2> QED BY <2>1, <2>4, <2>5 DEF Recorded
<1>6. ReplaySafe'
  <2> SUFFICES ASSUME recovering' # None,
                      NEW k \in Ids, worker'[k].pc \in {"start", "prepare", "render"}
               PROVE  ReplayFits(recovering)'
    BY DEF ReplaySafe
  <2>1. k = i
    BY <1>2 DEF Idle
  <2>2. DispositionForFace(i) \/ Prepare(i)
    BY <2>1, EarlySteps
  <2>3. worker[i].pc \in {"start", "prepare"} /\ UNCHANGED <<tiff, project>>
    BY <2>2 DEF DispositionForFace, Prepare
  <2>4. ReplayFits(recovering)
    BY <1>3, <2>3 DEF OrphanInv, ReplaySafe
  <2> QED BY <1>3, <2>3, <2>4 DEF ReplayFits
<1> QED BY <1>4, <1>5, <1>6 DEF OrphanInv

\* The row of a recovery.
LEMMA RecoveryRow ==
    ASSUME QueueInv, NEW i \in Ids, RecoveryAllowed(i)
    PROVE  /\ items[i] \in Item /\ items[i].rec \in Record
           /\ items[i].status = "NeedsRecovery" /\ items[i].rec # None
           /\ PendingTiff(items[i]) \in Tiffs
           /\ ProjectOf[items[i].job] \in Projects
<1> USE TransactionAssumption DEF TransactionAssumptions
<1>1. items[i].status = "NeedsRecovery" /\ items[i].rec # None
  BY DEF RecoveryAllowed, NeedsRecovery
<1>2. items[i] \in Item /\ RowSound(items[i], registered, rendered)
  BY <1>1, PresentRow
<1>3. items[i].job \in Jobs /\ items[i].done \in Nat /\ items[i].rec \in Record
  BY <1>1, <1>2 DEF Item
<1>4. items[i].done < FaceCount(items[i].job)
  BY <1>1, <1>2 DEF RowSound
<1>5. items[i].done + 1 \in 1..Len(FacesOf[items[i].job])
  BY <1>3, <1>4 DEF FaceCount
<1>6. PendingTiff(items[i]) \in Tiffs /\ ProjectOf[items[i].job] \in Projects
  BY <1>3, <1>5 DEF PendingTiff
<1> QED BY <1>1, <1>2, <1>3, <1>6

-------------------------------------------------------------------------------
(***************************************************************************)
(* Other programs: an edit keeps the recorded Faces, and nobody puts the   *)
(* TIFF of a batch at a path.                                              *)
(***************************************************************************)
LEMMA EnvironmentSteps ==
    ASSUME QueueInv, Environment
    PROVE  EnvironmentTouches
<1>1. ASSUME NEW p \in Projects, ForeignEdit(p)
      PROVE  /\ UNCHANGED <<worker, tiff>>
             /\ \A q \in Projects :
                    /\ project'[q] # None <=> project[q] # None
                    /\ project[q] # None => project'[q].faces = project[q].faces
  <2> DEFINE edited == [project[p] EXCEPT !.edits = @ + 1]
  <2>1. project[p] \in Project /\ project[p] # None
    BY <1>1 DEF ForeignEdit, QueueInv, QueueTypeOK, MaybeProject
  <2>2. project' = [project EXCEPT ![p] = edited] /\ UNCHANGED <<worker, tiff>>
    BY <1>1, <2>1 DEF ForeignEdit, QueueInv, QueueTypeOK
  <2>3. edited.faces = project[p].faces /\ edited \in Project
    <3>1. project[p].edits < MaxEdits /\ MaxEdits \in Nat
      BY <1>1, TransactionAssumption DEF ForeignEdit, TransactionAssumptions
    <3> QED BY <2>1, <3>1 DEF Project
  <2> HIDE DEF edited
  <2>4. edited # None
    BY <2>3, NoneAssumption
  <2> QED BY <2>1, <2>2, <2>3, <2>4 DEF QueueInv, QueueTypeOK
<1>2. ASSUME NEW t \in Tiffs, ForeignCreate(t) \/ ForeignRemove(t)
      PROVE  /\ UNCHANGED <<worker, project>>
             /\ \A u \in Tiffs :
                    /\ tiff'[u] \in Jobs => tiff'[u] = tiff[u]
                    /\ tiff'[u] # tiff[u] => tiff[u] = None \/ "remove" \in Faults
  BY <1>2, TransactionAssumption
     DEF ForeignCreate, ForeignRemove, TransactionAssumptions, QueueInv, QueueTypeOK
<1> QED BY <1>1, <1>2 DEF Environment, EnvironmentTouches, SameFaces

LEMMA EnvironmentKeepsOrphanInv ==
    ASSUME IInv, OrphanInv, Environment, Elsewhere
    PROVE  OrphanInv'
<1> USE DEF IInv
<1>1. UNCHANGED <<items, durable, recovering>>
  BY DEF Elsewhere, queueVars
<1>2. /\ UNCHANGED worker
      /\ \A p \in Projects : /\ project'[p] # None <=> project[p] # None
                             /\ project[p] # None => project'[p].faces = project[p].faces
      /\ \A t \in Tiffs : tiff'[t] \in Jobs => tiff'[t] = tiff[t]
  BY EnvironmentSteps DEF EnvironmentTouches, SameFaces
<1>3. Exact'
  BY <1>1, <1>2 DEF OrphanInv, Exact
<1>4. RenderRecorded'
  <2> SUFFICES ASSUME NEW i \in Ids, worker[i].pc = "render",
                      ~MustNotExist(worker[i].job)
               PROVE  Recorded(Target(worker[i]), Path(worker[i]))'
    BY <1>2 DEF RenderRecorded
  <2>1. Path(worker[i]) \in Tiffs /\ Target(worker[i]) \in Projects
    BY RunningWorker
  <2>2. Recorded(Target(worker[i]), Path(worker[i]))
    BY DEF OrphanInv, RenderRecorded
  <2>3. UNCHANGED <<Target(worker[i]), Path(worker[i])>>
    BY <1>2
  <2> QED BY <1>2, <2>1, <2>2, <2>3 DEF Recorded
<1>5. ReplaySafe'
  <2> SUFFICES ASSUME recovering' # None,
                      NEW k \in Ids, worker'[k].pc \in {"start", "prepare", "render"}
               PROVE  ReplayFits(recovering)'
    BY DEF ReplaySafe
  <2> DEFINE row == items[recovering]
  <2>1. PendingTiff(row) \in Tiffs /\ ProjectOf[row.job] \in Projects
    BY <1>1, RecoveryRow DEF RecoveryUndisturbed
  <2>2. ReplayFits(recovering)
    BY <1>1, <1>2 DEF OrphanInv, ReplaySafe
  <2>3. UNCHANGED row
    BY <1>1
  <2> HIDE DEF row
  <2>4. /\ row.rec.built # None
        /\ row.rec.disp.mode # "CreateNew" =>
               /\ project[ProjectOf[row.job]] # None
               /\ project[ProjectOf[row.job]].faces = row.rec.disp.expected.faces
        /\ tiff[PendingTiff(row)] \in Jobs => tiff[PendingTiff(row)] = row.job
    BY <2>2 DEF ReplayFits, row
  <2>5. /\ row'.rec.built # None
        /\ row'.rec.disp.mode # "CreateNew" =>
               /\ project'[ProjectOf[row'.job]] # None
               /\ project'[ProjectOf[row'.job]].faces = row'.rec.disp.expected.faces
        /\ tiff'[PendingTiff(row')] \in Jobs => tiff'[PendingTiff(row')] = row'.job
    BY <1>2, <2>1, <2>3, <2>4
  <2> QED BY <2>5 DEF ReplayFits, row
<1> QED BY <1>3, <1>4, <1>5 DEF OrphanInv

-------------------------------------------------------------------------------
(***************************************************************************)
(* Recovery.                                                               *)
(***************************************************************************)
\* The checks of a recovery, when it begins.
LEMMA BeginRecoveryKeepsOrphanInv ==
    ASSUME QueueInv, OrphanInv, NEW i \in Ids, BeginRecovery(i)
    PROVE  OrphanInv'
<1>1. /\ UNCHANGED <<tiff, project, worker, items, durable>> /\ recovering' = i
      /\ RecoveryAllowed(i) /\ CanReplay(i)
  BY DEF BeginRecovery, transactionVars, queueVars
<1>2. Exact' /\ RenderRecorded'
  BY <1>1 DEF OrphanInv, Exact, RenderRecorded, Recorded
<1> DEFINE row == items[i]
<1>3. RowExact(row) /\ row.status = "NeedsRecovery" /\ row.rec # None
  BY <1>1, RecoveryRow DEF OrphanInv, Exact
<1>4. /\ row.rec.built # None /\ tiff[PendingTiff(row)] = row.job
      /\ row.rec.disp.mode # "CreateNew" =>
             project[ProjectOf[row.job]] = row.rec.disp.expected
  BY <1>1 DEF CanReplay, Replayable, Recoverable
<1>5. ReplayFits(i)
  BY <1>3, <1>4 DEF ReplayFits, RowExact
<1>6. ReplaySafe'
  BY <1>1, <1>5 DEF ReplaySafe, ReplayFits
<1> QED BY <1>2, <1>6 DEF OrphanInv

\* The project a recovery saves still records what a route update is about to
\* replace.
LEMMA RelinkKeepsRecorded ==
    ASSUME IInv, OrphanInv, NEW i \in Ids, Recover(i) \/ RecoverUncertain(i)
    PROVE  RenderRecorded'
<1> DEFINE row == items[i]
           p == ProjectOf[row.job]
<1>1. /\ RecoveryAllowed(i) /\ QueueInv /\ RowExact(row)
      /\ UNCHANGED <<tiff, worker>>
      /\ project' = [project EXCEPT ![p] = row.rec.built]
  BY RecoveredRow DEF Recover, RecoverUncertain, Relink, IInv, OrphanInv, Exact
<1>2. /\ row \in Item /\ row.rec \in Record /\ row.status = "NeedsRecovery"
      /\ row.rec # None /\ PendingTiff(row) \in Tiffs /\ p \in Projects
  BY <1>1, RecoveryRow
<1> SUFFICES ASSUME NEW k \in Ids, worker[k].pc = "render", ~MustNotExist(worker[k].job),
                    tiff[Path(worker[k])] \in Jobs
             PROVE  /\ project'[Target(worker[k])] # None
                    /\ project'[Target(worker[k])].faces[Path(worker[k])] =
                           tiff[Path(worker[k])]
  BY <1>1 DEF RenderRecorded, Recorded
<1> DEFINE t == Path(worker[k])
<1>3. t \in Tiffs /\ Target(worker[k]) \in Projects
  BY <1>1, RunningWorker
<1>4. /\ project[Target(worker[k])] # None
      /\ project[Target(worker[k])].faces[t] = tiff[t]
  BY DEF OrphanInv, RenderRecorded, Recorded
<1>5. project \in [Projects -> MaybeProject]
  BY <1>1 DEF QueueInv, QueueTypeOK
<1>6. CASE Target(worker[k]) # p
  BY <1>1, <1>2, <1>3, <1>4, <1>5, <1>6
<1>7. CASE Target(worker[k]) = p /\ Linked(i)
  BY <1>1, <1>2, <1>4, <1>5, <1>7 DEF Linked, AlreadyLinked
<1>8. CASE Target(worker[k]) = p /\ Replay(i)
  <2>1. recovering = i /\ i # None
    BY <1>8, TransactionAssumption DEF Replay, TransactionAssumptions
  <2>2. ReplayFits(i)
    BY <2>1 DEF OrphanInv, ReplaySafe
  <2>3. row.rec.disp.mode # "CreateNew"
    BY <1>4, <1>8 DEF Replay, MayReplay
  <2>4. /\ row.rec.built # None
        /\ project[p].faces = row.rec.disp.expected.faces
        /\ tiff[PendingTiff(row)] \in Jobs => tiff[PendingTiff(row)] = row.job
    BY <2>2, <2>3 DEF ReplayFits
  <2>5. /\ row.rec.disp.expected # None
        /\ row.rec.built.faces =
               [row.rec.disp.expected.faces EXCEPT ![PendingTiff(row)] = row.job]
    BY <1>1, <1>2, <2>3, <2>4 DEF RowExact, BuiltFrom
  <2>6. row.rec.disp.expected.faces \in [Tiffs -> Bytes \cup {None}]
    <3>1. row.rec.disp.expected \in Project
      BY <1>2, <2>5 DEF Record, Disposition, MaybeProject
    <3> QED BY <3>1 DEF Project
  <2>7. row.rec.built.faces[t] = tiff[t]
    <3>1. CASE t = PendingTiff(row)
      BY <1>3, <2>4, <2>5, <2>6, <3>1
    <3>2. CASE t # PendingTiff(row)
      <4>1. project[p].faces[t] = tiff[t]
        BY <1>4, <1>8
      <4> QED BY <1>3, <2>4, <2>5, <2>6, <3>2, <4>1
    <3> QED BY <3>1, <3>2
  <2>8. project'[p] = row.rec.built
    BY <1>1, <1>2, <1>5
  <2> QED BY <1>8, <2>4, <2>7, <2>8
<1> QED BY <1>6, <1>7, <1>8 DEF Recover, RecoverUncertain

LEMMA RecoveryKeepsOrphanInv ==
    ASSUME IInv, IInv', OrphanInv, Recovery
    PROVE  OrphanInv'
<1>1. QueueInv /\ Exact /\ items' \in Rows
  BY DEF IInv, QueueInv, QueueTypeOK, OrphanInv
<1>2. ASSUME NEW i \in Ids, BeginRecovery(i) PROVE OrphanInv'
  BY <1>1, <1>2, BeginRecoveryKeepsOrphanInv
<1>3. ASSUME NEW i \in Ids, Recover(i) \/ RecoverUncertain(i) \/ RecoverFails(i)
      PROVE  OrphanInv'
  <2>1. UNCHANGED worker /\ recovering' = None /\ Persist(items', nextId', paused')
    BY <1>3 DEF Recover, RecoverUncertain, RecoverFails, SetItems, Persist, transactionVars,
                queueVars
  <2>2. \A k \in Ids : items'[k].status = "NeedsRecovery" => items'[k] = items[k]
    <3>1. CASE Recover(i)
      <4>1. items[i] \in Item
        BY <1>1, <3>1, RecoveredRow, RecoveryRow
      <4>2. Advance(items[i]).status \in {"Done", "Waiting"}
        BY <4>1 DEF Advance, Item
      <4>3. items' = [items EXCEPT ![i] = Advance(items[i])] /\ items \in Rows
        BY <1>1, <3>1 DEF Recover, QueueInv, QueueTypeOK
      <4> QED BY <4>2, <4>3 DEF Rows
    <3>2. CASE RecoverUncertain(i) \/ RecoverFails(i)
      BY <3>2 DEF RecoverUncertain, RecoverFails, SetItems, queueVars
    <3> QED BY <1>3, <3>1, <3>2
  <2>3. Exact'
    <3>1. \A k \in Ids : RowExact(items'[k]) /\ RowExact(durable'.items[k])
      BY <1>1, <2>1, <2>2, RowsStayExact
    <3> QED BY <1>1, <2>1, <3>1 DEF Exact
  <2>4. RenderRecorded'
    <3>1. CASE RecoverFails(i)
      BY <3>1 DEF RecoverFails, SetItems, transactionVars, OrphanInv, RenderRecorded, Recorded
    <3> QED BY <1>3, <3>1, RelinkKeepsRecorded
  <2>5. ReplaySafe'
    BY <2>1 DEF ReplaySafe
  <2> QED BY <2>3, <2>4, <2>5 DEF OrphanInv
<1> QED BY <1>2, <1>3 DEF Recovery

-------------------------------------------------------------------------------
(***************************************************************************)
(* The operator and the poll: no recovery is under way.                    *)
(***************************************************************************)
\* An operator's action leaves every row that needs recovery as it was.
LEMMA OperatorLeavesRecords ==
    ASSUME QueueInv, Operator
    PROVE  /\ UNCHANGED <<tiff, project>>
           /\ UNCHANGED <<items, durable>> \/ Persist(items', nextId', paused')
           /\ \A k \in Ids : SameRecord(items'[k], items[k])
           /\ UNCHANGED worker \/ \E i \in Ids : CancelActive(i)
<1> USE DEF transactionVars
<1>1. ASSUME NEW j \in Jobs, Enqueue(j)
      PROVE  /\ UNCHANGED <<tiff, project, worker>> /\ Persist(items', nextId', paused')
             /\ \A k \in Ids : SameRecord(items'[k], items[k])
  <2> DEFINE row == [job |-> j, status |-> "Waiting", resume |-> FALSE, done |-> 0,
                     expected |-> project[ProjectOf[j]], rec |-> None]
  <2>1. /\ UNCHANGED <<tiff, project, worker, paused>> /\ nextId \in Ids
        /\ items' = [items EXCEPT ![nextId] = row] /\ Persist(items', nextId', paused)
    BY <1>1 DEF Enqueue
  <2>2. items[nextId].status = "Absent"
    BY <2>1, TransactionAssumption DEF QueueInv, FreshIds, TransactionAssumptions
  <2>3. row.status = "Waiting"
    OBVIOUS
  <2> HIDE DEF row
  <2>4. \A k \in Ids : SameRecord(items'[k], items[k])
    BY <2>1, <2>2, <2>3 DEF SameRecord, QueueInv, QueueTypeOK, Rows
  <2> QED BY <2>1, <2>4 DEF Persist
<1>2. ASSUME SetPaused
      PROVE  /\ UNCHANGED <<tiff, project, worker, items>>
             /\ Persist(items', nextId', paused')
  BY <1>2 DEF SetPaused, Persist
<1>3. ASSUME NEW rows, SetItems(rows)
      PROVE  /\ UNCHANGED <<tiff, project, worker>> /\ Persist(items', nextId', paused')
             /\ items' = rows
  BY <1>3 DEF SetItems, Persist
<1>4. CASE ResumeRecovered
  <2> DEFINE held == {i \in Ids : items[i].status = "Waiting" /\ items[i].resume}
             rows == [i \in Ids |-> IF i \in held THEN [items[i] EXCEPT !.resume = FALSE]
                                                   ELSE items[i]]
  <2>1. SetItems(rows)
    BY <1>4 DEF ResumeRecovered
  <2>2. \A k \in Ids : SameRecord(rows[k], items[k])
    <3> SUFFICES ASSUME NEW k \in Ids, k \in held PROVE rows[k].status # "NeedsRecovery"
      BY DEF SameRecord
    <3>1. items[k] \in Item /\ rows[k] = [items[k] EXCEPT !.resume = FALSE]
      BY PresentRow
    <3> QED BY <3>1 DEF Item
  <2> HIDE DEF rows
  <2> QED BY <1>3, <2>1, <2>2
<1>5. CASE ClearFinished
  <2> DEFINE gone == {i \in Ids : Finished(items[i].status)}
             rows == [i \in Ids |-> IF i \in gone THEN Absent ELSE items[i]]
  <2>1. SetItems(rows)
    BY <1>5 DEF ClearFinished
  <2>2. \A k \in Ids : SameRecord(rows[k], items[k])
    BY DEF Absent, Finished, SameRecord
  <2> HIDE DEF rows
  <2> QED BY <1>3, <2>1, <2>2
<1>6. ASSUME NEW i \in Ids, CancelWaiting(i) \/ Retry(i)
      PROVE  /\ UNCHANGED <<tiff, project, worker>> /\ Persist(items', nextId', paused')
             /\ \A k \in Ids : SameRecord(items'[k], items[k])
  <2>1. items[i] \in Item /\ items \in [Ids -> Item \cup {Absent}]
    BY <1>6, PresentRow DEF CancelWaiting, Retry, QueueInv, QueueTypeOK, Rows
  <2>2. PICK rows : /\ SetItems(rows) /\ rows[i].status # "NeedsRecovery"
                    /\ \A k \in Ids \ {i} : rows[k] = items[k]
    <3>1. CASE CancelWaiting(i)
      <4> DEFINE rows == [items EXCEPT ![i].status = "Cancelled", ![i].resume = FALSE]
      <4>1. SetItems(rows)
        BY <3>1 DEF CancelWaiting
      <4>2. rows[i].status = "Cancelled" /\ \A k \in Ids \ {i} : rows[k] = items[k]
        BY <2>1 DEF Item
      <4> HIDE DEF rows
      <4> QED BY <4>1, <4>2
    <3>2. CASE Retry(i)
      <4> DEFINE rows == [items EXCEPT ![i].status = "Waiting", ![i].resume = FALSE,
                                       ![i].rec = None]
      <4>1. SetItems(rows)
        BY <3>2 DEF Retry
      <4>2. rows[i].status = "Waiting" /\ \A k \in Ids \ {i} : rows[k] = items[k]
        BY <2>1 DEF Item
      <4> HIDE DEF rows
      <4> QED BY <4>1, <4>2
    <3> QED BY <1>6, <3>1, <3>2
  <2>3. items[i].status # "NeedsRecovery"
    BY <1>6 DEF CancelWaiting, Retry
  <2> QED BY <1>3, <2>2, <2>3 DEF SameRecord
<1>7. ASSUME NEW i \in Ids, CancelActive(i)
      PROVE  UNCHANGED <<tiff, project, items, durable>>
  BY <1>7 DEF CancelActive, diskVars, queueVars
<1> QED BY <1>1, <1>2, <1>4, <1>5, <1>6, <1>7 DEF Operator, SameRecord

\* A request to cancel does not change what the worker knows.
LEMMA CancelledWorker ==
    ASSUME QueueInv, NEW i \in Ids, CancelActive(i)
    PROVE  \A k \in Ids :
               /\ worker'[k].pc = worker[k].pc
               /\ worker[k].pc # "idle" =>
                      /\ worker'[k].job = worker[k].job
                      /\ worker'[k].ord = worker[k].ord
                      /\ worker'[k].disp = worker[k].disp
                      /\ worker'[k].built = worker[k].built
                      /\ worker'[k].outcome = worker[k].outcome
<1>1. worker[i] \in Running /\ worker \in [Ids -> Running \cup {Idle}]
  BY RunningWorker DEF CancelActive, QueueInv, QueueTypeOK
<1>2. worker' = [worker EXCEPT ![i].cancel = TRUE]
  BY DEF CancelActive
<1>3. /\ worker'[i] = [worker[i] EXCEPT !.cancel = TRUE]
      /\ \A k \in Ids \ {i} : worker'[k] = worker[k]
  BY <1>1, <1>2
<1> QED BY <1>1, <1>3 DEF Running

LEMMA OperatorKeepsOrphanInv ==
    ASSUME QueueInv, QueueInv', OrphanInv, Idling, Operator
    PROVE  OrphanInv'
<1>1. \A k \in Ids :
          /\ worker'[k].pc = worker[k].pc
          /\ worker[k].pc # "idle" =>
                 /\ worker'[k].job = worker[k].job /\ worker'[k].ord = worker[k].ord
                 /\ worker'[k].disp = worker[k].disp /\ worker'[k].built = worker[k].built
                 /\ worker'[k].outcome = worker[k].outcome
  BY OperatorLeavesRecords, CancelledWorker
<1>2. \A k \in Ids : WorkerExact(worker'[k])
  BY <1>1 DEF WorkerExact, Path, OrphanInv, Exact
<1>3. \A k \in Ids : RowExact(items'[k]) /\ RowExact(durable'.items[k])
  <2>1. CASE UNCHANGED <<items, durable>>
    BY <2>1 DEF OrphanInv, Exact
  <2>2. CASE Persist(items', nextId', paused')
    BY <2>2, OperatorLeavesRecords, RowsStayExact
       DEF OrphanInv, QueueInv, QueueTypeOK, SameRecord
  <2> QED BY <2>1, <2>2, OperatorLeavesRecords
<1>4. RenderRecorded'
  BY <1>1, OperatorLeavesRecords DEF OrphanInv, RenderRecorded, Recorded, Path, Target
<1>5. ReplaySafe'
  BY DEF Idling, ReplaySafe
<1> QED BY <1>2, <1>3, <1>4, <1>5 DEF OrphanInv, Exact

\* A worker that starts takes the disposition its batch was captured with.
LEMMA BeginExact ==
    ASSUME NEW row \in Item
    PROVE  WorkerExact(Begin(row)) /\ Begin(row).pc = "start"
BY DEF WorkerExact, Begin, BuiltFrom, MustNotExist

LEMMA PollKeepsOrphanInv ==
    ASSUME QueueInv, QueueInv', OrphanInv, Idling, NEW allow \in AllowStart,
           PollWithStart(allow)
    PROVE  OrphanInv'
<1>1. /\ UNCHANGED <<tiff, project>>
      /\ \A k \in Ids : RowExact(Drained[k])
      /\ \A k \in Ids : RowExact(durable.items[k])
      /\ Drained \in Rows
  BY DrainedExact, DrainedSound
     DEF PollWithStart, Poll, PollAndStart, diskVars, OrphanInv, Exact
<1>2. /\ \A k \in Ids : RowExact(items'[k]) /\ RowExact(durable'.items[k])
      /\ \A k \in Ids : \/ worker'[k] \in {worker[k], Idle}
                        \/ WorkerExact(worker'[k]) /\ worker'[k].pc = "start"
  <2>1. CASE Poll
    <3>1. /\ items' = Drained /\ durable' \in AfterSave(Drained, nextId, paused, durable)
          /\ \A k \in Ids : worker'[k] \in {worker[k], Idle}
      BY <2>1 DEF Poll, Persist
    <3> QED BY <1>1, <3>1, SaveExact
  <2>2. ASSUME NEW i \in Ids, PollAndStart(i)
        PROVE  /\ \A k \in Ids : RowExact(items'[k]) /\ RowExact(durable'.items[k])
               /\ \A k \in Ids : \/ worker'[k] \in {worker[k], Idle}
                                 \/ WorkerExact(worker'[k]) /\ worker'[k].pc = "start"
    <3> DEFINE started == [Drained EXCEPT ![i].status = "Processing"]
    <3>1. /\ items' = started /\ Drained[i].status = "Waiting"
          /\ worker' = [k \in Ids |-> IF k = i THEN Begin(Drained[i])
                                      ELSE IF k \in Reported THEN Idle ELSE worker[k]]
      BY <2>2 DEF PollAndStart, IsFirst, Ready
    <3>2. Drained[i] \in Item
      BY <1>1, <3>1 DEF Rows, Absent
    <3>3. started[i].status = "Processing" /\ \A k \in Ids \ {i} : started[k] = Drained[k]
      BY <1>1, <3>2 DEF Rows, Item
    <3>4. PICK saved \in IF Reported = {} THEN {durable}
                         ELSE AfterSave(Drained, nextId, paused, durable) :
              durable' \in AfterSave(started, nextId, paused, saved)
      BY <2>2 DEF PollAndStart
    <3> HIDE DEF started
    <3>5. started \in Rows
      BY <3>1 DEF QueueInv, QueueTypeOK
    <3>6. \A k \in Ids : RowExact(started[k])
      BY <1>1, <3>3 DEF RowExact
    <3>7. \A k \in Ids : RowExact(saved.items[k])
      BY <1>1, <3>4, SaveExact
    <3>8. \A k \in Ids : RowExact(durable'.items[k])
      BY <3>4, <3>5, <3>6, <3>7, SaveExact
    <3>9. WorkerExact(worker'[i]) /\ worker'[i].pc = "start"
      BY <3>1, <3>2, BeginExact
    <3> QED BY <3>1, <3>6, <3>8, <3>9
  <2> QED BY <2>1, <2>2 DEF PollWithStart
<1>3. Exact'
  BY <1>2 DEF OrphanInv, Exact, WorkerExact, Idle
<1>4. RenderRecorded'
  BY <1>1, <1>2 DEF OrphanInv, RenderRecorded, Recorded, Idle
<1>5. ReplaySafe'
  BY DEF Idling, ReplaySafe
<1> QED BY <1>3, <1>4, <1>5 DEF OrphanInv

LEMMA RestartKeepsOrphanInv ==
    ASSUME QueueInv, OrphanInv, Restart \/ RestartWithoutFile
    PROVE  OrphanInv'
<1>1. /\ \A k \in Ids : worker'[k] = Idle
      /\ durable' = durable /\ recovering' = None
  BY DEF Restart, RestartWithoutFile, Died
<1>2. \A k \in Ids : RowExact(items'[k])
  <2>1. CASE Restart
    <3>1. \A k \in Ids : durable.items[k] \in Item \cup {Absent}
                         /\ RowExact(durable.items[k])
      BY DEF QueueInv, QueueTypeOK, Envelope, Rows, OrphanInv, Exact
    <3>2. \A k \in Ids : RowExact(LoadedRow(durable.items[k]))
      BY <3>1, LoadedRowExact
    <3> QED BY <2>1, <3>2 DEF Restart
  <2>2. CASE RestartWithoutFile
    BY <2>2 DEF RestartWithoutFile, EmptyRows, Absent, RowExact
  <2> QED BY <2>1, <2>2
<1>3. Exact'
  BY <1>1, <1>2 DEF OrphanInv, Exact, WorkerExact, Idle
<1>4. RenderRecorded' /\ ReplaySafe'
  BY <1>1 DEF RenderRecorded, ReplaySafe, Idle
<1> QED BY <1>3, <1>4 DEF OrphanInv

-------------------------------------------------------------------------------
LEMMA InitOrphanInv == Init => OrphanInv
BY DEF Init, TransactionInit, EmptyRows, Absent, Idle, OrphanInv, Exact, WorkerExact,
       RowExact, RenderRecorded, ReplaySafe

LEMMA NextKeepsOrphanInv == IInv /\ OrphanInv /\ [Next]_vars => OrphanInv'
<1> SUFFICES ASSUME IInv, OrphanInv, [Next]_vars PROVE OrphanInv'
  OBVIOUS
<1>1. IInv' /\ QueueInv /\ QueueInv'
  BY NextKeeps DEF IInv
<1>2. CASE Idling /\ Operator
  BY <1>1, <1>2, OperatorKeepsOrphanInv
<1>3. CASE Recovery
  BY <1>1, <1>3, RecoveryKeepsOrphanInv
<1>4. ASSUME NEW allow \in AllowStart, Frame(allow) PROVE OrphanInv'
  BY <1>1, <1>4, PollKeepsOrphanInv DEF Frame
<1>5. ASSUME NEW i \in Ids, WorkerStep(i), Elsewhere PROVE OrphanInv'
  BY <1>1, <1>5, WorkerKeepsOrphanInv
<1>6. CASE Environment /\ Elsewhere
  BY <1>6, EnvironmentKeepsOrphanInv
<1>7. CASE Restart \/ RestartWithoutFile
  BY <1>1, <1>7, RestartKeepsOrphanInv
<1>8. CASE UNCHANGED vars
  BY <1>8 DEF vars, transactionVars, queueVars, OrphanInv, Exact, RenderRecorded, Recorded,
              ReplaySafe, ReplayFits
<1> QED BY <1>2, <1>3, <1>4, <1>5, <1>6, <1>7, <1>8 DEF Next

(***************************************************************************)
(* A committed TIFF that no project records is never rendered over: not by *)
(* a retry of its own row, nor by another batch, nor by a route update     *)
(* whose project a recovery replaces while it renders                      *)
(* (render_convert_and_commit, recover_production_project).                *)
(***************************************************************************)
THEOREM OrphansSurvive == Spec => OrphanPreserved
<1>1. ASSUME IInv, OrphanInv, [Next]_vars, NEW t \in Tiffs, Orphan(t),
             tiff'[t] \notin {tiff[t], None}
      PROVE  FALSE
  <2>1. tiff[t] \in Jobs /\ tiff[t] # None
    BY <1>1, TransactionAssumption DEF Orphan, TransactionAssumptions
  <2>2. PICK i \in Ids : Publish(i)
    BY <1>1, <2>1, OnlyPublishReplaces
  <2>3. /\ worker[i].pc = "render"
        /\ MustNotExist(worker[i].job) => tiff[Path(worker[i])] = None
        /\ tiff' = [tiff EXCEPT ![Path(worker[i])] = worker[i].job]
    BY <2>2 DEF Publish
  <2>4. tiff \in [Tiffs -> Bytes \cup {None}] /\ Target(worker[i]) \in Projects
    BY <1>1, <2>3, RunningWorker DEF IInv, QueueInv, QueueTypeOK
  <2>5. Path(worker[i]) = t
    BY <1>1, <2>3, <2>4
  <2>6. Recorded(Target(worker[i]), t)
    BY <1>1, <2>1, <2>3, <2>5 DEF OrphanInv, RenderRecorded
  <2> QED BY <1>1, <2>1, <2>4, <2>6 DEF Orphan, Recorded
<1>2. IInv /\ OrphanInv /\ [Next]_vars =>
        (\A t \in Tiffs : Orphan(t) => tiff'[t] \in {tiff[t], None})
  BY <1>1
<1> QED BY <1>2, InitOrphanInv, NextKeepsOrphanInv, InvariantHolds, PTL
        DEF Spec, OrphanPreserved
===============================================================================
