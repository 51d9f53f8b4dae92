--------------------- MODULE ConversionBatchQueueProofs ---------------------
(***************************************************************************)
(* Safety of the durable conversion batch queue, for every set of ids,     *)
(* captures, TIFF paths and projects and every set of faults.              *)
(*                                                                         *)
(* Everything follows from the inductive invariant IInv.  Its proof looks  *)
(* first at what a worker step may change (WorkerStepSound), then at what  *)
(* a save may leave in the queue file (SaveKeeps), and then goes through   *)
(* the actions one by one.                                                 *)
(***************************************************************************)
EXTENDS ConversionBatchQueue, TLAPS

(***************************************************************************)
(* The inductive invariant holds initially: the queue and its file are     *)
(* empty and no worker exists.                                             *)
(***************************************************************************)
LEMMA InitInvariant == Init => IInv
<1> USE TransactionAssumption DEF TransactionAssumptions
<1> SUFFICES ASSUME Init PROVE IInv
  OBVIOUS
<1> USE DEF Init, TransactionInit, EmptyRows, Absent, Idle
<1>1. QueueTypeOK
  <2>1. tiff \in [Tiffs -> Bytes \cup {None}]
    BY DEF Bytes
  <2>2. project \in [Projects -> MaybeProject]
    BY DEF MaybeProject, Project, Bytes
  <2>3. worker \in [Ids -> Running \cup {Idle}] /\ items \in Rows
    BY DEF Rows
  <2>4. durable \in Envelope
    BY DEF Envelope, Rows
  <2> QED BY <2>1, <2>2, <2>3, <2>4 DEF QueueTypeOK
<1>2. SingleWorker
  BY DEF SingleWorker
<1>3. QueueInv
  BY <1>1, <1>2 DEF QueueInv, ReadyAuthorized, FreshIds, RowSound, WorkerSound
<1> QED BY <1>3 DEF IInv, RecoveryUndisturbed

-------------------------------------------------------------------------------
(***************************************************************************)
(* What one step of the worker of row i leaves behind.                     *)
(***************************************************************************)
\* The worker keeps its row and Face, and is still sound.
WorkerKept(i) ==
    /\ worker[i] \in Running
    /\ worker'[i] \in Running
    /\ worker' = [worker EXCEPT ![i] = worker'[i]]
    /\ worker'[i].job = worker[i].job
    /\ worker'[i].ord = worker[i].ord
    /\ WorkerSound(worker'[i], registered', rendered')

\* The files keep their types and the history never shrinks.
DiskKept ==
    /\ tiff' \in [Tiffs -> Bytes \cup {None}]
    /\ project' \in [Projects -> MaybeProject]

HistoryGrows ==
    /\ rendered' \in [Jobs -> Nat]
    /\ registered' \in [Jobs -> Nat]
    /\ \A j \in Jobs : /\ registered[j] <= registered'[j]
                       /\ rendered[j] <= rendered'[j]
                       /\ registered'[j] <= rendered'[j]

(***************************************************************************)
(* Facts about a running worker that every case needs.                     *)
(***************************************************************************)
LEMMA RunningWorker ==
    ASSUME QueueInv, NEW i \in Ids, worker[i].pc # "idle"
    PROVE  /\ worker[i] \in Running
           /\ Path(worker[i]) \in Tiffs
           /\ Target(worker[i]) \in Projects
           /\ worker[i].ord <= registered[worker[i].job]
           /\ WorkerSound(worker[i], registered, rendered)
<1> USE TransactionAssumption DEF TransactionAssumptions
<1>1. worker[i] \in Running
  BY DEF QueueInv, QueueTypeOK, Idle
<1>2. worker[i].job \in Jobs /\ worker[i].ord \in Nat
  BY <1>1 DEF Running
<1>3. /\ worker[i].job = items[i].job /\ worker[i].ord = items[i].done
      /\ worker[i].ord < FaceCount(worker[i].job)
      /\ items[i].status = "Processing"
  BY DEF QueueInv, SingleWorker
<1>4. worker[i].ord + 1 \in 1..Len(FacesOf[worker[i].job])
  BY <1>2, <1>3 DEF FaceCount
<1>5. Path(worker[i]) \in Tiffs
  BY <1>2, <1>4 DEF Path
<1>6. Target(worker[i]) \in Projects
  BY <1>2 DEF Target
<1>7. worker[i].ord <= registered[worker[i].job]
  <2>1. items[i].done <= registered[items[i].job]
    BY <1>3 DEF QueueInv, RowSound
  <2> QED BY <2>1, <1>3
<1>8. WorkerSound(worker[i], registered, rendered)
  BY DEF QueueInv
<1> QED BY <1>1, <1>5, <1>6, <1>7, <1>8

\* The project a save builds from a sound worker is a project.
LEMMA BuiltProject ==
    ASSUME NEW w \in Running, Path(w) \in Tiffs,
           w.disp.mode # "CreateNew" => w.disp.expected # None
    PROVE  Deterministic(w) \in Project
<1>1. w.job \in Bytes /\ w.disp.expected \in MaybeProject
  BY DEF Running, Disposition, Bytes
<1>2. CASE w.disp.mode = "CreateNew"
  <2>1. 0 \in 0..MaxEdits
    BY TransactionAssumption DEF TransactionAssumptions
  <2> QED BY <1>1, <1>2, <2>1 DEF Deterministic, NewProject, Project
<1>3. CASE w.disp.mode # "CreateNew"
  <2>1. w.disp.expected \in Project
    BY <1>1, <1>3 DEF MaybeProject
  <2>2. WithFace(w.disp.expected, w) \in Project
    BY <2>1, <1>1 DEF WithFace, Project
  <2> QED BY <1>3, <2>2 DEF Deterministic
<1> QED BY <1>2, <1>3

\* A worker that ends without having published anything is sound.
LEMMA FinishSound ==
    ASSUME QueueInv, NEW i \in Ids, worker[i].pc # "idle",
           NEW outcome \in {"Cancelled", "Failed"}, Finish(i, outcome),
           UNCHANGED <<tiff, project, rendered, registered>>
    PROVE  WorkerKept(i) /\ DiskKept /\ HistoryGrows
<1>1. worker[i] \in Running /\ WorkerSound(worker[i], registered, rendered)
  BY RunningWorker
<1>2. worker'[i] = [worker[i] EXCEPT !.pc = "finished", !.outcome = outcome]
  BY DEF Finish, QueueInv, QueueTypeOK
<1>3. worker' = [worker EXCEPT ![i] = worker'[i]]
  BY <1>2 DEF Finish, QueueInv, QueueTypeOK
<1>4. /\ worker'[i] \in Running
      /\ worker'[i].job = worker[i].job /\ worker'[i].ord = worker[i].ord
      /\ worker'[i].disp = worker[i].disp
      /\ worker'[i].pc = "finished" /\ worker'[i].outcome = outcome
  BY <1>1, <1>2 DEF Running, Pcs, Outcomes
<1>5. WorkerSound(worker'[i], registered', rendered')
  BY <1>1, <1>4 DEF WorkerSound
<1>6. DiskKept /\ HistoryGrows
  BY DEF DiskKept, HistoryGrows, QueueInv, QueueTypeOK
<1> QED BY <1>1, <1>3, <1>4, <1>5, <1>6 DEF WorkerKept

\* So is one that moves on without touching the files, and one that reports a
\* committed TIFF as needing recovery.
LEMMA MoveSound ==
    ASSUME QueueInv, NEW i \in Ids, worker[i].pc # "idle",
           NEW pc \in Pcs \ {"finished"}, Goto(i, pc),
           \/ pc \in {"prepare", "render"}
           \/ worker[i].ord < rendered[worker[i].job],
           UNCHANGED <<tiff, project, rendered, registered>>
    PROVE  WorkerKept(i) /\ DiskKept /\ HistoryGrows
<1>1. worker[i] \in Running /\ WorkerSound(worker[i], registered, rendered)
  BY RunningWorker
<1>2. worker'[i] = [worker[i] EXCEPT !.pc = pc]
  BY DEF Goto, QueueInv, QueueTypeOK
<1>3. worker' = [worker EXCEPT ![i] = worker'[i]]
  BY <1>2 DEF Goto, QueueInv, QueueTypeOK
<1>4. /\ worker'[i] \in Running
      /\ worker'[i].job = worker[i].job /\ worker'[i].ord = worker[i].ord
      /\ worker'[i].disp = worker[i].disp /\ worker'[i].pc = pc
  BY <1>1, <1>2 DEF Running, Pcs
<1>5. WorkerSound(worker'[i], registered', rendered')
  BY <1>1, <1>4 DEF WorkerSound, Pcs
<1>6. DiskKept /\ HistoryGrows
  BY DEF DiskKept, HistoryGrows, QueueInv, QueueTypeOK
<1> QED BY <1>1, <1>3, <1>4, <1>5, <1>6 DEF WorkerKept

LEMMA RecoverySound ==
    ASSUME QueueInv, NEW i \in Ids,
           worker[i].pc \in {"committed", "save", "verify", "write"},
           Finish(i, "NeedsRecovery"),
           UNCHANGED <<tiff, project, rendered, registered>>
    PROVE  WorkerKept(i) /\ DiskKept /\ HistoryGrows
<1>1. worker[i] \in Running /\ WorkerSound(worker[i], registered, rendered)
  BY RunningWorker
<1>2. worker'[i] = [worker[i] EXCEPT !.pc = "finished", !.outcome = "NeedsRecovery"]
  BY DEF Finish, QueueInv, QueueTypeOK
<1>3. worker' = [worker EXCEPT ![i] = worker'[i]]
  BY <1>2 DEF Finish, QueueInv, QueueTypeOK
<1>4. /\ worker'[i] \in Running
      /\ worker'[i].job = worker[i].job /\ worker'[i].ord = worker[i].ord
      /\ worker'[i].disp = worker[i].disp
      /\ worker'[i].pc = "finished" /\ worker'[i].outcome = "NeedsRecovery"
  BY <1>1, <1>2 DEF Running, Pcs, Outcomes
<1>5. WorkerSound(worker'[i], registered', rendered')
  BY <1>1, <1>4 DEF WorkerSound
<1>6. DiskKept /\ HistoryGrows
  BY DEF DiskKept, HistoryGrows, QueueInv, QueueTypeOK
<1> QED BY <1>1, <1>3, <1>4, <1>5, <1>6 DEF WorkerKept

\* Linking the project: only after the TIFF is published, and the Face it links
\* is the worker's.
LEMMA LinkSound ==
    ASSUME QueueInv, NEW i \in Ids, worker[i].pc = "write", Link(i),
           NEW outcome \in {"Completed", "NeedsRecovery"}, Finish(i, outcome),
           UNCHANGED <<tiff, rendered>>
    PROVE  WorkerKept(i) /\ DiskKept /\ HistoryGrows
<1>1. /\ worker[i] \in Running /\ WorkerSound(worker[i], registered, rendered)
      /\ Target(worker[i]) \in Projects
      /\ worker[i].ord <= registered[worker[i].job]
  BY RunningWorker
<1> DEFINE j == worker[i].job
           n == worker[i].ord + 1
<1>2. j \in Jobs /\ n \in Nat /\ worker[i].built \in MaybeProject
  BY <1>1 DEF Running
<1>3. n <= rendered[j]
  BY <1>1, <1>2 DEF Running, WorkerSound, QueueInv, QueueTypeOK
<1>4. /\ registered' = [registered EXCEPT ![j] = AtLeast(@, n)]
      /\ project' = [project EXCEPT ![Target(worker[i])] = worker[i].built]
  BY DEF Link
<1>5. /\ registered' \in [Jobs -> Nat] /\ n <= registered'[j]
      /\ \A k \in Jobs : registered[k] <= registered'[k] /\ registered'[k] <= rendered[k]
  BY <1>2, <1>3, <1>4 DEF AtLeast, QueueInv, QueueTypeOK
<1>6. HistoryGrows
  BY <1>5 DEF HistoryGrows, QueueInv, QueueTypeOK
<1>7. DiskKept
  BY <1>1, <1>2, <1>4 DEF DiskKept, QueueInv, QueueTypeOK
<1>8. worker'[i] = [worker[i] EXCEPT !.pc = "finished", !.outcome = outcome]
  BY DEF Finish, QueueInv, QueueTypeOK
<1>9. worker' = [worker EXCEPT ![i] = worker'[i]]
  BY <1>8 DEF Finish, QueueInv, QueueTypeOK
<1>10. /\ worker'[i] \in Running
       /\ worker'[i].job = j /\ worker'[i].ord = worker[i].ord
       /\ worker'[i].disp = worker[i].disp
       /\ worker'[i].pc = "finished" /\ worker'[i].outcome = outcome
  BY <1>1, <1>8 DEF Running, Pcs, Outcomes
<1>11. worker[i].ord < registered'[j] /\ worker[i].ord < rendered'[j]
  BY <1>1, <1>2, <1>3, <1>5 DEF Running, QueueInv, QueueTypeOK
<1>12. WorkerSound(worker'[i], registered', rendered')
  BY <1>1, <1>10, <1>11 DEF WorkerSound
<1> QED BY <1>1, <1>6, <1>7, <1>9, <1>10, <1>12 DEF WorkerKept

LEMMA DispositionSound ==
    ASSUME QueueInv, NEW i \in Ids, DispositionForFace(i)
    PROVE  WorkerKept(i) /\ DiskKept /\ HistoryGrows
<1>1. /\ worker[i] \in Running /\ WorkerSound(worker[i], registered, rendered)
      /\ Target(worker[i]) \in Projects
  BY RunningWorker DEF DispositionForFace
<1> DEFINE fresh == [mode |-> IF MustNotExist(worker[i].job) THEN "AppendExisting"
                               ELSE "UpdateExistingRoute",
                      expected |-> project[Target(worker[i])]]
           d == IF worker[i].ord = 0 THEN worker[i].disp ELSE fresh
<1>2. d \in Disposition /\ (d.mode # "CreateNew" => d.expected # None)
  <2>1. CASE worker[i].ord = 0
    BY <1>1, <2>1 DEF Running, WorkerSound, DispositionForFace
  <2>2. CASE worker[i].ord # 0
    <3>1. project[Target(worker[i])] \in MaybeProject
      BY <1>1 DEF QueueInv, QueueTypeOK
    <3>2. fresh \in Disposition
      BY <3>1 DEF Disposition, Modes
    <3>3. project[Target(worker[i])] # None
      BY <1>1, <2>2 DEF DispositionForFace, Running
    <3> QED BY <2>2, <3>2, <3>3
  <2> QED BY <2>1, <2>2
<1> HIDE DEF d
<1>3. worker'[i] = [worker[i] EXCEPT !.pc = "prepare", !.disp = d]
  BY DEF DispositionForFace, QueueInv, QueueTypeOK, d
<1>4. worker' = [worker EXCEPT ![i] = worker'[i]]
  BY <1>3 DEF DispositionForFace, QueueInv, QueueTypeOK
<1>5. /\ worker'[i] \in Running
      /\ worker'[i].job = worker[i].job /\ worker'[i].ord = worker[i].ord
      /\ worker'[i].disp = d /\ worker'[i].pc = "prepare"
  BY <1>1, <1>2, <1>3 DEF Running, Pcs
<1>6. WorkerSound(worker'[i], registered', rendered')
  BY <1>2, <1>5 DEF WorkerSound
<1>7. DiskKept /\ HistoryGrows
  BY DEF DispositionForFace, DiskKept, HistoryGrows, QueueInv, QueueTypeOK
<1> QED BY <1>1, <1>4, <1>5, <1>6, <1>7 DEF WorkerKept

LEMMA PublishSound ==
    ASSUME QueueInv, NEW i \in Ids, Publish(i)
    PROVE  WorkerKept(i) /\ DiskKept /\ HistoryGrows
<1>1. /\ worker[i] \in Running /\ WorkerSound(worker[i], registered, rendered)
      /\ Path(worker[i]) \in Tiffs
  BY RunningWorker DEF Publish
<1> DEFINE j == worker[i].job
           n == worker[i].ord + 1
<1>2. j \in Jobs /\ n \in Nat
  BY <1>1 DEF Running
<1>3. /\ rendered' = [rendered EXCEPT ![j] = AtLeast(@, n)]
      /\ tiff' = [tiff EXCEPT ![Path(worker[i])] = j]
      /\ UNCHANGED <<project, registered>>
  BY DEF Publish
<1>4. /\ rendered' \in [Jobs -> Nat] /\ n <= rendered'[j]
      /\ \A k \in Jobs : rendered[k] <= rendered'[k]
  BY <1>2, <1>3 DEF AtLeast, QueueInv, QueueTypeOK
<1>5. \A k \in Jobs : registered[k] <= rendered'[k]
  BY <1>4 DEF QueueInv, QueueTypeOK
<1>6. HistoryGrows
  BY <1>3, <1>4, <1>5 DEF HistoryGrows, QueueInv, QueueTypeOK
<1>7. DiskKept
  BY <1>1, <1>2, <1>3 DEF DiskKept, QueueInv, QueueTypeOK, Bytes
<1>8. worker'[i] = [worker[i] EXCEPT !.pc = "committed"]
  BY DEF Publish, Goto, QueueInv, QueueTypeOK
<1>9. worker' = [worker EXCEPT ![i] = worker'[i]]
  BY <1>8 DEF Publish, Goto, QueueInv, QueueTypeOK
<1>10. /\ worker'[i] \in Running
       /\ worker'[i].job = j /\ worker'[i].ord = worker[i].ord
       /\ worker'[i].disp = worker[i].disp /\ worker'[i].pc = "committed"
  BY <1>1, <1>8 DEF Running, Pcs
<1>11. worker[i].ord < rendered'[j]
  BY <1>1, <1>2, <1>4 DEF Running
<1>12. WorkerSound(worker'[i], registered', rendered')
  BY <1>1, <1>10, <1>11 DEF WorkerSound, Publish
<1> QED BY <1>1, <1>6, <1>7, <1>9, <1>10, <1>12 DEF WorkerKept

LEMMA BuildSound ==
    ASSUME QueueInv, NEW i \in Ids, BuildProject(i)
    PROVE  WorkerKept(i) /\ DiskKept /\ HistoryGrows
<1>1. /\ worker[i] \in Running /\ WorkerSound(worker[i], registered, rendered)
      /\ Path(worker[i]) \in Tiffs
  BY RunningWorker DEF BuildProject
<1> DEFINE pc == IF worker[i].disp.mode = "CreateNew" THEN "write" ELSE "verify"
           built == Deterministic(worker[i])
<1>2. built \in MaybeProject
  BY <1>1, BuiltProject DEF WorkerSound, MaybeProject, BuildProject
<1> HIDE DEF built
<1>3. worker'[i] = [worker[i] EXCEPT !.pc = pc, !.built = built]
  BY DEF BuildProject, QueueInv, QueueTypeOK, built
<1>4. worker' = [worker EXCEPT ![i] = worker'[i]]
  BY <1>3 DEF BuildProject, QueueInv, QueueTypeOK
<1>5. /\ worker'[i] \in Running
      /\ worker'[i].job = worker[i].job /\ worker'[i].ord = worker[i].ord
      /\ worker'[i].disp = worker[i].disp /\ worker'[i].pc = pc
  BY <1>1, <1>2, <1>3 DEF Running, Pcs
<1>6. WorkerSound(worker'[i], registered', rendered')
  BY <1>1, <1>5 DEF WorkerSound, BuildProject
<1>7. DiskKept /\ HistoryGrows
  BY DEF BuildProject, DiskKept, HistoryGrows, QueueInv, QueueTypeOK
<1> QED BY <1>1, <1>4, <1>5, <1>6, <1>7 DEF WorkerKept

(***************************************************************************)
(* One case per step of a worker.                                          *)
(***************************************************************************)
LEMMA WorkerStepSound ==
    ASSUME QueueInv, NEW i \in Ids, WorkerStep(i)
    PROVE  WorkerKept(i) /\ DiskKept /\ HistoryGrows
<1>1. ASSUME FailOrCancel(i), worker[i].pc # "idle",
             UNCHANGED <<tiff, project, rendered, registered>>
      PROVE  WorkerKept(i) /\ DiskKept /\ HistoryGrows
  BY <1>1, FinishSound DEF FailOrCancel
<1>2. worker[i].pc \in {"committed", "save", "verify", "write"} =>
          worker[i].ord < rendered[worker[i].job]
  BY RunningWorker DEF WorkerSound
<1>3. CASE DispositionForFace(i)
  BY <1>3, DispositionSound
<1>4. CASE HaltBeforeFace(i)
  BY <1>4, <1>1 DEF HaltBeforeFace
<1>5. CASE Prepare(i)
  BY <1>5, MoveSound DEF Prepare, Pcs
<1>6. CASE RefuseToRender(i)
  BY <1>6, <1>1 DEF RefuseToRender
<1>7. CASE Publish(i)
  BY <1>7, PublishSound
<1>8. CASE AbandonRender(i)
  BY <1>8, <1>1 DEF AbandonRender
<1>9. CASE ReadBack(i)
  BY <1>9, <1>2, MoveSound DEF ReadBack, Pcs
<1>10. CASE ReadBackFails(i)
  BY <1>10, <1>1 DEF ReadBackFails
<1>11. CASE LineageFails(i)
  BY <1>11, RecoverySound DEF LineageFails
<1>12. CASE BuildProject(i)
  BY <1>12, BuildSound
<1>13. CASE RefuseToBuild(i)
  BY <1>13, RecoverySound DEF RefuseToBuild
<1>14. CASE VerifyProject(i)
  BY <1>14, <1>2, MoveSound DEF VerifyProject, Pcs
<1>15. CASE WriteProject(i)
  BY <1>15, LinkSound DEF WriteProject
<1>16. CASE WriteUncertain(i)
  BY <1>16, LinkSound DEF WriteUncertain
<1>17. CASE SaveFails(i)
  BY <1>17, RecoverySound DEF SaveFails
<1>18. CASE Panic(i)
  BY <1>18, FinishSound DEF Panic, Pcs
<1> QED BY <1>3, <1>4, <1>5, <1>6, <1>7, <1>8, <1>9, <1>10, <1>11, <1>12, <1>13,
           <1>14, <1>15, <1>16, <1>17, <1>18 DEF WorkerStep

-------------------------------------------------------------------------------
(***************************************************************************)
(* Rows, saves and loads.                                                  *)
(***************************************************************************)
\* A row stays sound while the history grows.
LEMMA RowSoundGrows ==
    ASSUME NEW row \in Item \cup {Absent},
           NEW linked \in [Jobs -> Nat], NEW published \in [Jobs -> Nat],
           NEW linked2 \in [Jobs -> Nat], NEW published2 \in [Jobs -> Nat],
           \A j \in Jobs : linked[j] <= linked2[j] /\ published[j] <= published2[j],
           RowSound(row, linked, published)
    PROVE  RowSound(row, linked2, published2)
<1>1. CASE row = Absent
  BY <1>1 DEF Absent, RowSound
<1>2. CASE row \in Item
  <2>1. row.job \in Jobs /\ row.done \in Nat
    BY <1>2 DEF Item
  <2>2. /\ linked[row.job] <= linked2[row.job] /\ published[row.job] <= published2[row.job]
        /\ linked[row.job] \in Nat /\ linked2[row.job] \in Nat
        /\ published[row.job] \in Nat /\ published2[row.job] \in Nat
    BY <2>1
  <2> QED BY <2>1, <2>2 DEF RowSound
<1> QED BY <1>1, <1>2

\* So is a worker that does not move.
LEMMA WorkerSoundGrows ==
    ASSUME NEW w \in Running \cup {Idle},
           NEW linked \in [Jobs -> Nat], NEW published \in [Jobs -> Nat],
           NEW linked2 \in [Jobs -> Nat], NEW published2 \in [Jobs -> Nat],
           \A j \in Jobs : linked[j] <= linked2[j] /\ published[j] <= published2[j],
           WorkerSound(w, linked, published)
    PROVE  WorkerSound(w, linked2, published2)
<1>1. CASE w = Idle
  BY <1>1 DEF Idle, WorkerSound
<1>2. CASE w \in Running
  <2>1. w.job \in Jobs /\ w.ord \in Nat
    BY <1>2 DEF Running
  <2>2. /\ linked[w.job] <= linked2[w.job] /\ published[w.job] <= published2[w.job]
        /\ linked[w.job] \in Nat /\ linked2[w.job] \in Nat
        /\ published[w.job] \in Nat /\ published2[w.job] \in Nat
    BY <2>1
  <2> QED BY <2>1, <2>2 DEF WorkerSound
<1> QED BY <1>1, <1>2

LEMMA SavedRowSound ==
    ASSUME NEW row \in Item \cup {Absent}, NEW linked, NEW published,
           RowSound(row, linked, published)
    PROVE  /\ SavedRow(row) \in Item \cup {Absent}
           /\ RowSound(SavedRow(row), linked, published)
<1>1. CASE row.status \in {"Absent", "Done"}
  BY <1>1 DEF SavedRow, RowSound, Absent
<1>2. CASE row.status \notin {"Absent", "Done"}
  <2>1. row \in Item
    BY <1>2 DEF Absent
  <2>2. SavedRow(row) = [row EXCEPT !.resume = FALSE]
    BY <1>2 DEF SavedRow
  <2>3. /\ SavedRow(row) \in Item
        /\ SavedRow(row).job = row.job /\ SavedRow(row).status = row.status
        /\ SavedRow(row).done = row.done /\ SavedRow(row).expected = row.expected
    BY <2>1, <2>2 DEF Item
  <2> QED BY <2>3 DEF RowSound
<1> QED BY <1>1, <1>2

LEMMA LoadedRowSound ==
    ASSUME NEW row \in Item \cup {Absent}, NEW linked, NEW published,
           RowSound(row, linked, published)
    PROVE  /\ LoadedRow(row) \in Item \cup {Absent}
           /\ RowSound(LoadedRow(row), linked, published)
           /\ LoadedRow(row).status # "Processing"
           /\ LoadedRow(row).status = "Waiting" => LoadedRow(row).resume
<1>1. CASE row.status = "Absent"
  BY <1>1 DEF LoadedRow, RowSound, Absent
<1>2. CASE row.status # "Absent"
  <2>1. row \in Item
    BY <1>2 DEF Absent
  <2> DEFINE status == Restored(row.status)
             resume == Interrupted(row.status)
  <2>2. status \in Statuses /\ resume \in BOOLEAN
    BY <2>1 DEF Item, Restored, Interrupted, Statuses
  <2>3. LoadedRow(row) = [row EXCEPT !.status = status, !.resume = resume]
    BY <1>2 DEF LoadedRow
  <2> HIDE DEF status, resume
  <2>4. /\ LoadedRow(row) \in Item
        /\ LoadedRow(row).job = row.job /\ LoadedRow(row).done = row.done
        /\ LoadedRow(row).expected = row.expected
        /\ LoadedRow(row).status = status
        /\ LoadedRow(row).resume = resume
    BY <2>1, <2>2, <2>3 DEF Item
  <2>5. /\ status # "Processing"
        /\ status = "Waiting" => resume
        /\ status = "NeedsRecovery" => row.status = "NeedsRecovery"
        /\ row.status = "Done" => status = "Done"
    BY DEF Restored, Interrupted, status, resume
  <2> QED BY <1>2, <2>4, <2>5 DEF RowSound
<1> QED BY <1>1, <1>2

\* A save leaves a sound queue file, whether it succeeds or not.
LEMMA SaveKeeps ==
    ASSUME NEW rows \in Rows, NEW nid \in Nat, NEW psd \in BOOLEAN,
           NEW old \in Envelope, NEW linked, NEW published,
           \A i \in Ids : RowSound(rows[i], linked, published),
           \A i \in Ids : RowSound(old.items[i], linked, published),
           \A i \in Ids : rows[i].status # "Absent" => i < nid,
           \A i \in Ids : old.items[i].status # "Absent" => i < old.nextId,
           NEW new \in AfterSave(rows, nid, psd, old)
    PROVE  /\ new \in Envelope
           /\ \A i \in Ids : RowSound(new.items[i], linked, published)
           /\ \A i \in Ids : new.items[i].status # "Absent" => i < new.nextId
<1>1. new = Snapshot(rows, nid, psd) \/ new = old
  BY DEF AfterSave, Saved
<1>2. CASE new = old
  BY <1>2
<1>3. CASE new = Snapshot(rows, nid, psd)
  <2>1. \A i \in Ids : rows[i] \in Item \cup {Absent}
    BY DEF Rows
  <2>2. \A i \in Ids : /\ SavedRow(rows[i]) \in Item \cup {Absent}
                       /\ RowSound(SavedRow(rows[i]), linked, published)
    BY <2>1, SavedRowSound
  <2>3. /\ new.items = [i \in Ids |-> SavedRow(rows[i])] /\ new.nextId = nid
        /\ new \in Envelope
    BY <1>3, <2>2 DEF Snapshot, Envelope, Rows
  <2>4. \A i \in Ids : SavedRow(rows[i]).status # "Absent" => rows[i].status # "Absent"
    BY DEF SavedRow, Absent
  <2> QED BY <2>2, <2>3, <2>4
<1> QED BY <1>1, <1>2, <1>3

-------------------------------------------------------------------------------
(***************************************************************************)
(* Operator actions: the rows change, the workers and the files do not.    *)
(***************************************************************************)
LEMMA OperatorKeeps ==
    ASSUME QueueInv,
           NEW rows \in Rows, items' = rows,
           \A i \in Ids : RowSound(rows[i], registered, rendered),
           \A i \in Ids : rows[i].status = "Processing" <=> items[i].status = "Processing",
           \A i \in Ids : rows[i].status = "Processing" =>
                              rows[i].job = items[i].job /\ rows[i].done = items[i].done,
           nextId' \in Nat, paused' \in BOOLEAN, Persist(rows, nextId', paused'),
           UNCHANGED <<transactionVars, active, persistent>>,
           authorized \subseteq authorized', authorized' \subseteq Ids,
           \A i \in Ids : rows[i].status = "Waiting" /\ ~rows[i].resume =>
                              i \in authorized',
           \A i \in Ids : rows[i].status # "Absent" => i < nextId'
    PROVE  QueueInv'
<1>1. /\ durable' \in Envelope
      /\ \A i \in Ids : RowSound(durable'.items[i], registered, rendered)
      /\ \A i \in Ids : durable'.items[i].status # "Absent" => i < durable'.nextId
  <2>1. durable \in Envelope /\ durable' \in AfterSave(rows, nextId', paused', durable)
    BY DEF Persist, QueueInv, QueueTypeOK
  <2>2. /\ \A i \in Ids : RowSound(durable.items[i], registered, rendered)
        /\ \A i \in Ids : durable.items[i].status # "Absent" => i < durable.nextId
    BY DEF QueueInv, FreshIds
  <2> QED BY <2>1, <2>2, SaveKeeps
<1>2. QueueTypeOK'
  BY <1>1 DEF QueueInv, QueueTypeOK, transactionVars
<1>3. SingleWorker'
  BY DEF QueueInv, SingleWorker, transactionVars
<1>4. ReadyAuthorized'
  BY DEF QueueInv, ReadyAuthorized
<1>5. FreshIds'
  BY <1>1 DEF FreshIds
<1> QED BY <1>1, <1>2, <1>3, <1>4, <1>5 DEF QueueInv, transactionVars

\* The same through SetItems, which also leaves the id counter and the pause.
LEMMA SetItemsKeeps ==
    ASSUME QueueInv,
           NEW rows \in Rows, SetItems(rows),
           \A i \in Ids : RowSound(rows[i], registered, rendered),
           \A i \in Ids : rows[i].status = "Processing" <=> items[i].status = "Processing",
           \A i \in Ids : rows[i].status = "Processing" =>
                              rows[i].job = items[i].job /\ rows[i].done = items[i].done,
           authorized \subseteq authorized', authorized' \subseteq Ids,
           \A i \in Ids : rows[i].status = "Waiting" /\ ~rows[i].resume =>
                              i \in authorized',
           \A i \in Ids : rows[i].status # "Absent" => items[i].status # "Absent"
    PROVE  QueueInv'
<1>1. /\ items' = rows /\ nextId' \in Nat /\ paused' \in BOOLEAN
      /\ nextId' = nextId /\ Persist(rows, nextId', paused')
      /\ UNCHANGED <<transactionVars, active, persistent>>
  BY DEF SetItems, Persist, QueueInv, QueueTypeOK
<1>2. \A i \in Ids : rows[i].status # "Absent" => i < nextId'
  BY <1>1 DEF QueueInv, FreshIds
<1> QED BY <1>1, <1>2, OperatorKeeps

\* A row that is present is an item.
LEMMA PresentRow ==
    ASSUME QueueInv, NEW i \in Ids, items[i].status # "Absent"
    PROVE  items[i] \in Item /\ RowSound(items[i], registered, rendered)
BY DEF QueueInv, QueueTypeOK, Rows, Absent

\* Replacing one row by a sound one that is not Processing.
LEMMA ReplaceRow ==
    ASSUME QueueInv, NEW i \in Ids, NEW row \in Item \cup {Absent},
           items[i].status \notin {"Absent", "Processing"}, row.status # "Processing",
           RowSound(row, registered, rendered),
           SetItems([items EXCEPT ![i] = row]),
           authorized \subseteq authorized', authorized' \subseteq Ids,
           row.status = "Waiting" /\ ~row.resume => i \in authorized'
    PROVE  QueueInv'
<1> DEFINE rows == [items EXCEPT ![i] = row]
<1>1. /\ rows \in Rows /\ rows[i] = row
      /\ \A k \in Ids \ {i} : rows[k] = items[k]
  BY DEF QueueInv, QueueTypeOK, Rows
<1>2. SetItems(rows)
  OBVIOUS
<1> HIDE DEF rows
<1>3. \A k \in Ids : RowSound(rows[k], registered, rendered)
  BY <1>1 DEF QueueInv
<1>4. \A k \in Ids : rows[k].status = "Processing" <=> items[k].status = "Processing"
  BY <1>1
<1>5. \A k \in Ids : rows[k].status = "Processing" =>
                         rows[k].job = items[k].job /\ rows[k].done = items[k].done
  BY <1>1
<1>6. \A k \in Ids : rows[k].status = "Waiting" /\ ~rows[k].resume => k \in authorized'
  BY <1>1 DEF QueueInv, ReadyAuthorized
<1>7. \A k \in Ids : rows[k].status # "Absent" => items[k].status # "Absent"
  BY <1>1
<1> QED BY <1>1, <1>2, <1>3, <1>4, <1>5, <1>6, <1>7, SetItemsKeeps

LEMMA CancelWaitingKeeps ==
    ASSUME QueueInv, NEW i \in Ids, CancelWaiting(i)
    PROVE  QueueInv'
<1>1. items[i] \in Item /\ RowSound(items[i], registered, rendered)
  BY PresentRow DEF CancelWaiting
<1> DEFINE row == [items[i] EXCEPT !.status = "Cancelled", !.resume = FALSE]
<1>2. /\ row \in Item /\ row.status = "Cancelled" /\ row.job = items[i].job
      /\ row.done = items[i].done /\ row.expected = items[i].expected
  BY <1>1 DEF Item, Statuses
<1>3. SetItems([items EXCEPT ![i] = row])
  BY DEF CancelWaiting
<1> HIDE DEF row
<1>4. RowSound(row, registered, rendered)
  BY <1>1, <1>2 DEF RowSound, CancelWaiting
<1>5. authorized' = authorized /\ authorized \subseteq Ids
  BY DEF CancelWaiting, QueueInv, QueueTypeOK
<1> QED BY <1>2, <1>3, <1>4, <1>5, ReplaceRow DEF CancelWaiting

LEMMA RetryKeeps ==
    ASSUME QueueInv, NEW i \in Ids, Retry(i)
    PROVE  QueueInv'
<1>1. items[i] \in Item /\ RowSound(items[i], registered, rendered)
  BY PresentRow DEF Retry
<1> DEFINE row == [items[i] EXCEPT !.status = "Waiting", !.resume = FALSE, !.rec = None]
<1>2. /\ row \in Item /\ row.status = "Waiting" /\ row.job = items[i].job
      /\ row.done = items[i].done /\ row.expected = items[i].expected
  BY <1>1 DEF Item, Statuses
<1>3. SetItems([items EXCEPT ![i] = row])
  BY DEF Retry
<1> HIDE DEF row
<1>4. RowSound(row, registered, rendered)
  BY <1>1, <1>2 DEF RowSound, Retry
<1>5. authorized' = authorized \cup {i} /\ authorized \subseteq Ids
  BY DEF Retry, QueueInv, QueueTypeOK
<1> QED BY <1>2, <1>3, <1>4, <1>5, ReplaceRow DEF Retry

LEMMA EnqueueKeeps ==
    ASSUME QueueInv, NEW j \in Jobs, Enqueue(j)
    PROVE  QueueInv'
<1> DEFINE row == [job |-> j, status |-> "Waiting", resume |-> FALSE, done |-> 0,
                   expected |-> project[ProjectOf[j]], rec |-> None]
           rows == [items EXCEPT ![nextId] = row]
<1> USE TransactionAssumption DEF TransactionAssumptions
<1>1. /\ nextId \in Ids /\ nextId \in Nat
      /\ ModeOf[j] = "CreateNew" <=> project[ProjectOf[j]] = None
      /\ items' = rows /\ nextId' = nextId + 1
      /\ Persist(items', nextId', paused)
      /\ authorized' = authorized \cup {nextId}
      /\ UNCHANGED <<transactionVars, active, paused, persistent>>
  BY DEF Enqueue, QueueInv, QueueTypeOK
<1>2. row \in Item
  BY <1>1 DEF Item, Statuses, QueueInv, QueueTypeOK
<1>3. FaceCount(j) \in Nat /\ FaceCount(j) > 0
  BY DEF FaceCount
<1>4. RowSound(row, registered, rendered)
  BY <1>1, <1>3 DEF RowSound, QueueInv, QueueTypeOK
<1>5. /\ row.status = "Waiting" /\ rows \in Rows /\ rows[nextId] = row
      /\ \A k \in Ids \ {nextId} : rows[k] = items[k]
  BY <1>1, <1>2 DEF QueueInv, QueueTypeOK, Rows
<1> HIDE DEF row, rows
<1>6. items[nextId].status = "Absent"
  BY <1>1 DEF QueueInv, QueueTypeOK, FreshIds
<1>7. \A i \in Ids : RowSound(rows[i], registered, rendered)
  BY <1>4, <1>5 DEF QueueInv
<1>8. \A i \in Ids : rows[i].status = "Processing" <=> items[i].status = "Processing"
  BY <1>5, <1>6
<1>9. \A i \in Ids : rows[i].status = "Processing" =>
                         rows[i].job = items[i].job /\ rows[i].done = items[i].done
  BY <1>5, <1>6
<1>10. \A i \in Ids : rows[i].status = "Waiting" /\ ~rows[i].resume => i \in authorized'
  BY <1>1, <1>5 DEF QueueInv, ReadyAuthorized
<1>11. ASSUME NEW i \in Ids, rows[i].status # "Absent" PROVE i < nextId'
  <2>1. CASE i = nextId
    BY <1>1, <2>1
  <2>2. CASE i # nextId
    <3>1. i < nextId
      BY <1>5, <1>11, <2>2 DEF QueueInv, FreshIds
    <3>2. i \in Nat
      OBVIOUS
    <3> QED BY <1>1, <3>1, <3>2
  <2> QED BY <2>1, <2>2
<1>12. /\ nextId' \in Nat /\ paused' \in BOOLEAN /\ items' = rows
       /\ Persist(rows, nextId', paused')
       /\ authorized \subseteq authorized' /\ authorized' \subseteq Ids
  BY <1>1 DEF QueueInv, QueueTypeOK, Persist
<1> QED BY <1>1, <1>5, <1>7, <1>8, <1>9, <1>10, <1>11, <1>12, OperatorKeeps

LEMMA ResumeRecoveredKeeps ==
    ASSUME QueueInv, ResumeRecovered
    PROVE  QueueInv'
<1> DEFINE held == {i \in Ids : items[i].status = "Waiting" /\ items[i].resume}
           rows == [i \in Ids |-> IF i \in held THEN [items[i] EXCEPT !.resume = FALSE]
                                                 ELSE items[i]]
<1>1. SetItems(rows) /\ authorized' = authorized \cup held
  BY DEF ResumeRecovered
<1>2. \A i \in Ids \ held : rows[i] = items[i]
  OBVIOUS
<1>3. \A i \in held : /\ items[i] \in Item
                      /\ rows[i] \in Item /\ rows[i].status = "Waiting"
                      /\ rows[i].job = items[i].job /\ rows[i].done = items[i].done
                      /\ rows[i].expected = items[i].expected
                      /\ RowSound(items[i], registered, rendered)
  <2> SUFFICES ASSUME NEW i \in held
               PROVE  /\ items[i] \in Item
                      /\ rows[i] \in Item /\ rows[i].status = "Waiting"
                      /\ rows[i].job = items[i].job /\ rows[i].done = items[i].done
                      /\ rows[i].expected = items[i].expected
                      /\ RowSound(items[i], registered, rendered)
    OBVIOUS
  <2>1. items[i] \in Item /\ RowSound(items[i], registered, rendered)
    BY PresentRow
  <2>2. rows[i] = [items[i] EXCEPT !.resume = FALSE]
    OBVIOUS
  <2> QED BY <2>1, <2>2 DEF Item
<1>4. rows \in [Ids -> Item \cup {Absent}]
  BY <1>2, <1>3 DEF QueueInv, QueueTypeOK, Rows
<1> HIDE DEF rows
<1>5. \A i \in Ids : RowSound(rows[i], registered, rendered)
  BY <1>2, <1>3 DEF QueueInv, RowSound
<1>6. \A i \in Ids : rows[i].status = items[i].status
  BY <1>2, <1>3
<1>7. \A i \in Ids : rows[i].status = "Waiting" /\ ~rows[i].resume => i \in authorized'
  BY <1>1, <1>2 DEF QueueInv, ReadyAuthorized
<1>8. \A i \in Ids : rows[i].status = "Processing" =>
                         rows[i].job = items[i].job /\ rows[i].done = items[i].done
  BY <1>2, <1>3
<1>9. authorized \subseteq authorized' /\ authorized' \subseteq Ids /\ rows \in Rows
  BY <1>1, <1>4 DEF QueueInv, QueueTypeOK, Rows
<1> QED BY <1>1, <1>5, <1>6, <1>7, <1>8, <1>9, SetItemsKeeps

LEMMA ClearFinishedKeeps ==
    ASSUME QueueInv, ClearFinished
    PROVE  QueueInv'
<1> DEFINE gone == {i \in Ids : Finished(items[i].status)}
           rows == [i \in Ids |-> IF i \in gone THEN Absent ELSE items[i]]
<1>1. SetItems(rows) /\ authorized' = authorized
  BY DEF ClearFinished
<1>2. /\ \A i \in Ids \ gone : rows[i] = items[i]
      /\ \A i \in gone : rows[i] = Absent /\ items[i].status # "Processing"
      /\ rows \in Rows
  BY DEF QueueInv, QueueTypeOK, Rows, Finished
<1> HIDE DEF gone, rows
<1>3. \A i \in Ids : RowSound(rows[i], registered, rendered)
  BY <1>2 DEF QueueInv, RowSound, Absent
<1>4. ASSUME NEW i \in Ids
      PROVE  rows[i].status = "Processing" <=> items[i].status = "Processing"
  <2>1. CASE i \in gone
    BY <1>2, <2>1 DEF Absent
  <2>2. CASE i \notin gone
    BY <1>2, <2>2
  <2> QED BY <2>1, <2>2
<1>5. \A i \in Ids : rows[i].status = "Processing" =>
                         rows[i].job = items[i].job /\ rows[i].done = items[i].done
  BY <1>2 DEF Absent
<1>6. \A i \in Ids : rows[i].status = "Waiting" /\ ~rows[i].resume => i \in authorized'
  BY <1>1, <1>2 DEF QueueInv, ReadyAuthorized, Absent
<1>7. \A i \in Ids : rows[i].status # "Absent" => items[i].status # "Absent"
  BY <1>2 DEF Absent
<1>8. authorized \subseteq authorized' /\ authorized' \subseteq Ids
  BY <1>1 DEF QueueInv, QueueTypeOK
<1> QED BY <1>1, <1>2, <1>3, <1>4, <1>5, <1>6, <1>7, <1>8, SetItemsKeeps

LEMMA SetPausedKeeps ==
    ASSUME QueueInv, SetPaused
    PROVE  QueueInv'
<1>1. /\ items \in Rows /\ nextId' \in Nat /\ paused' \in BOOLEAN /\ nextId' = nextId
      /\ items' = items /\ authorized' = authorized /\ authorized \subseteq Ids
      /\ Persist(items, nextId', paused')
      /\ UNCHANGED <<transactionVars, active, persistent>>
  BY DEF SetPaused, Persist, QueueInv, QueueTypeOK
<1>2. /\ \A i \in Ids : RowSound(items[i], registered, rendered)
      /\ \A i \in Ids : items[i].status = "Waiting" /\ ~items[i].resume => i \in authorized
      /\ \A i \in Ids : items[i].status # "Absent" => i < nextId
  BY DEF QueueInv, ReadyAuthorized, FreshIds
<1> QED BY <1>1, <1>2, OperatorKeeps

LEMMA RecoverFailsKeeps ==
    ASSUME QueueInv, NEW i \in Ids, RecoverFails(i)
    PROVE  QueueInv'
<1>1. /\ SetItems(items) /\ items \in Rows
      /\ authorized' = authorized /\ authorized \subseteq Ids
  BY DEF RecoverFails, QueueInv, QueueTypeOK
<1>2. /\ \A k \in Ids : RowSound(items[k], registered, rendered)
      /\ \A k \in Ids : items[k].status = "Waiting" /\ ~items[k].resume => k \in authorized
  BY DEF QueueInv, ReadyAuthorized
<1> QED BY <1>1, <1>2, SetItemsKeeps

\* Workers that keep their row and Face keep SingleWorker.
LEMMA SameWorkers ==
    ASSUME SingleWorker, UNCHANGED <<items, active>>,
           \A k \in Ids : worker'[k].pc = "idle" <=> worker[k].pc = "idle",
           \A k \in Ids : worker[k].pc # "idle" => worker'[k].job = worker[k].job
                                                  /\ worker'[k].ord = worker[k].ord
    PROVE  SingleWorker'
BY DEF SingleWorker

LEMMA CancelActiveKeeps ==
    ASSUME QueueInv, NEW i \in Ids, CancelActive(i)
    PROVE  QueueInv'
<1>1. worker[i] \in Running /\ WorkerSound(worker[i], registered, rendered)
  BY RunningWorker DEF CancelActive
<1>2. /\ worker'[i] = [worker[i] EXCEPT !.cancel = TRUE]
      /\ \A k \in Ids \ {i} : worker'[k] = worker[k]
      /\ UNCHANGED <<tiff, project, rendered, registered, queueVars, durable, authorized>>
  BY DEF CancelActive, diskVars, historyVars, QueueInv, QueueTypeOK
<1>3. /\ worker'[i] \in Running /\ worker'[i].pc = worker[i].pc
      /\ worker'[i].job = worker[i].job /\ worker'[i].ord = worker[i].ord
      /\ worker'[i].disp = worker[i].disp /\ worker'[i].outcome = worker[i].outcome
  BY <1>1, <1>2 DEF Running
<1>4. worker' \in [Ids -> Running \cup {Idle}]
  BY <1>2, <1>3 DEF CancelActive, QueueInv, QueueTypeOK
<1>5. WorkerSound(worker'[i], registered, rendered)
  BY <1>1, <1>3 DEF WorkerSound
<1>6. QueueTypeOK'
  BY <1>2, <1>4 DEF QueueInv, QueueTypeOK, queueVars
<1>7. SingleWorker'
  <2>1. /\ \A k \in Ids : worker'[k].pc = worker[k].pc
        /\ \A k \in Ids : worker'[k].job = worker[k].job /\ worker'[k].ord = worker[k].ord
    BY <1>2, <1>3
  <2> QED BY <1>2, <2>1, SameWorkers DEF QueueInv, queueVars
<1>8. ReadyAuthorized' /\ FreshIds'
  BY <1>2 DEF QueueInv, ReadyAuthorized, FreshIds, queueVars
<1> QED BY <1>2, <1>5, <1>6, <1>7, <1>8 DEF QueueInv, queueVars

-------------------------------------------------------------------------------
(***************************************************************************)
(* Workers and other programs: the files change, the rows do not.          *)
(***************************************************************************)
LEMMA HistoryKeeps ==
    ASSUME QueueInv, HistoryGrows
    PROVE  /\ \A i \in Ids : RowSound(items[i], registered', rendered')
           /\ \A i \in Ids : RowSound(durable.items[i], registered', rendered')
           /\ \A i \in Ids : WorkerSound(worker[i], registered', rendered')
<1>1. /\ registered \in [Jobs -> Nat] /\ rendered \in [Jobs -> Nat]
      /\ registered' \in [Jobs -> Nat] /\ rendered' \in [Jobs -> Nat]
      /\ \A j \in Jobs : registered[j] <= registered'[j] /\ rendered[j] <= rendered'[j]
  BY DEF QueueInv, QueueTypeOK, HistoryGrows
<1>2. \A i \in Ids : items[i] \in Item \cup {Absent}
                     /\ RowSound(items[i], registered, rendered)
  BY DEF QueueInv, QueueTypeOK, Rows
<1>3. \A i \in Ids : durable.items[i] \in Item \cup {Absent}
                     /\ RowSound(durable.items[i], registered, rendered)
  BY DEF QueueInv, QueueTypeOK, Rows, Envelope
<1>4. \A i \in Ids : worker[i] \in Running \cup {Idle}
                     /\ WorkerSound(worker[i], registered, rendered)
  BY DEF QueueInv, QueueTypeOK
<1>5. \A i \in Ids : RowSound(items[i], registered', rendered')
  BY <1>1, <1>2, RowSoundGrows
<1>6. \A i \in Ids : RowSound(durable.items[i], registered', rendered')
  BY <1>1, <1>3, RowSoundGrows
<1>7. \A i \in Ids : WorkerSound(worker[i], registered', rendered')
  BY <1>1, <1>4, WorkerSoundGrows
<1> QED BY <1>5, <1>6, <1>7

LEMMA WorkerKeeps ==
    ASSUME QueueInv, NEW i \in Ids, WorkerStep(i),
           UNCHANGED <<queueVars, durable, authorized>>
    PROVE  QueueInv'
<1>1. WorkerKept(i) /\ DiskKept /\ HistoryGrows
  BY WorkerStepSound
<1>2. worker[i].pc # "idle" /\ worker'[i].pc # "idle"
  BY <1>1 DEF WorkerKept, Running, Pcs
<1>3. /\ \A k \in Ids \ {i} : worker'[k] = worker[k]
      /\ worker' \in [Ids -> Running \cup {Idle}]
  BY <1>1 DEF WorkerKept, QueueInv, QueueTypeOK
<1>4. QueueTypeOK'
  BY <1>1, <1>3 DEF DiskKept, HistoryGrows, QueueInv, QueueTypeOK, queueVars
<1>5. SingleWorker'
  <2>1. /\ \A k \in Ids : worker'[k].pc = "idle" <=> worker[k].pc = "idle"
        /\ \A k \in Ids : worker'[k].job = worker[k].job /\ worker'[k].ord = worker[k].ord
    BY <1>1, <1>2, <1>3 DEF WorkerKept
  <2> QED BY <2>1, SameWorkers DEF QueueInv, queueVars
<1>6. ReadyAuthorized' /\ FreshIds'
  BY DEF QueueInv, ReadyAuthorized, FreshIds, queueVars
<1>7. /\ \A k \in Ids : RowSound(items'[k], registered', rendered')
      /\ \A k \in Ids : RowSound(durable'.items[k], registered', rendered')
  BY <1>1, HistoryKeeps DEF queueVars
<1>8. \A k \in Ids : WorkerSound(worker'[k], registered', rendered')
  BY <1>1, <1>3, HistoryKeeps DEF WorkerKept
<1>9. \A j \in Jobs : registered'[j] <= rendered'[j]
  BY <1>1 DEF HistoryGrows
<1> QED BY <1>4, <1>5, <1>6, <1>7, <1>8, <1>9 DEF QueueInv

LEMMA EnvironmentKeeps ==
    ASSUME QueueInv, Environment, UNCHANGED <<queueVars, durable, authorized>>
    PROVE  QueueInv'
<1>1. DiskKept /\ UNCHANGED <<worker, rendered, registered>>
  <2>1. ASSUME NEW p \in Projects, ForeignEdit(p)
        PROVE  DiskKept /\ UNCHANGED <<worker, rendered, registered>>
    <3>1. /\ project[p] \in Project /\ project[p].edits < MaxEdits
          /\ project' = [project EXCEPT ![p] = [project[p] EXCEPT !.edits = @ + 1]]
      BY <2>1 DEF ForeignEdit, QueueInv, QueueTypeOK, MaybeProject
    <3>2. MaxEdits \in Nat
      BY TransactionAssumption DEF TransactionAssumptions
    <3>3. [project[p] EXCEPT !.edits = @ + 1] \in Project
      BY <3>1, <3>2 DEF Project
    <3>4. project' \in [Projects -> MaybeProject]
      BY <3>1, <3>3 DEF QueueInv, QueueTypeOK, MaybeProject
    <3> QED BY <2>1, <3>4 DEF ForeignEdit, DiskKept, QueueInv, QueueTypeOK
  <2>2. ASSUME NEW t \in Tiffs, ForeignCreate(t) \/ ForeignRemove(t)
        PROVE  DiskKept /\ UNCHANGED <<worker, rendered, registered>>
    BY <2>2 DEF ForeignCreate, ForeignRemove, DiskKept, Bytes, QueueInv, QueueTypeOK
  <2> QED BY <2>1, <2>2 DEF Environment
<1>2. QueueTypeOK'
  BY <1>1 DEF DiskKept, QueueInv, QueueTypeOK, queueVars
<1>3. SingleWorker' /\ ReadyAuthorized' /\ FreshIds'
  BY <1>1 DEF QueueInv, SingleWorker, ReadyAuthorized, FreshIds, queueVars
<1> QED BY <1>1, <1>2, <1>3 DEF QueueInv, queueVars

-------------------------------------------------------------------------------
(***************************************************************************)
(* Checkpoints advance: after recovery and after a worker's report.        *)
(***************************************************************************)
LEMMA AdvanceSound ==
    ASSUME NEW row \in Item, NEW linked \in [Jobs -> Nat], NEW published \in [Jobs -> Nat],
           row.done < FaceCount(row.job), row.done < linked[row.job],
           ModeOf[row.job] # "CreateNew" => row.expected # None
    PROVE  /\ Advance(row) \in Item
           /\ Advance(row).status \in {"Done", "Waiting"}
           /\ RowSound(Advance(row), linked, published)
<1> DEFINE status == IF row.done + 1 = FaceCount(row.job) THEN "Done" ELSE "Waiting"
           n == row.done + 1
<1>1. /\ row.done \in Nat /\ row.job \in Jobs /\ linked[row.job] \in Nat
      /\ FaceCount(row.job) \in Nat /\ n \in Nat
  BY TransactionAssumption DEF Item, FaceCount, TransactionAssumptions
<1>2. /\ status \in {"Done", "Waiting"}
      /\ status = "Waiting" => n < FaceCount(row.job)
      /\ n <= linked[row.job]
  BY <1>1
<1>3. Advance(row) = [row EXCEPT !.done = n, !.status = status,
                                 !.rec = None, !.resume = FALSE]
  BY DEF Advance
<1> HIDE DEF status, n
<1>4. /\ Advance(row) \in Item
      /\ Advance(row).job = row.job /\ Advance(row).done = n
      /\ Advance(row).status = status /\ Advance(row).expected = row.expected
  BY <1>1, <1>2, <1>3 DEF Item, Statuses
<1> QED BY <1>2, <1>4 DEF RowSound

LEMMA RelinkSound ==
    ASSUME QueueInv, NEW i \in Ids, NeedsRecovery(i), items[i].rec # None, Relink(i),
           UNCHANGED <<tiff, rendered>>
    PROVE  /\ DiskKept /\ HistoryGrows
           /\ items[i] \in Item /\ items[i].done < registered'[items[i].job]
<1>1. items[i] \in Item /\ RowSound(items[i], registered, rendered)
  BY PresentRow DEF NeedsRecovery
<1> DEFINE j == items[i].job
           n == items[i].done + 1
<1>2. /\ j \in Jobs /\ n \in Nat /\ items[i].rec \in Record
      /\ ProjectOf[j] \in Projects
  BY <1>1, TransactionAssumption DEF Item, TransactionAssumptions
<1>3. n <= rendered[j]
  BY <1>1, <1>2 DEF RowSound, NeedsRecovery, Item, QueueInv, QueueTypeOK
<1>4. /\ registered' = [registered EXCEPT ![j] = AtLeast(@, n)]
      /\ project' = [project EXCEPT ![ProjectOf[j]] = items[i].rec.built]
  BY DEF Relink
<1>5. /\ registered' \in [Jobs -> Nat] /\ n <= registered'[j]
      /\ \A k \in Jobs : registered[k] <= registered'[k] /\ registered'[k] <= rendered[k]
  BY <1>2, <1>3, <1>4 DEF AtLeast, QueueInv, QueueTypeOK
<1>6. HistoryGrows
  BY <1>5 DEF HistoryGrows, QueueInv, QueueTypeOK
<1>7. DiskKept
  BY <1>2, <1>4 DEF DiskKept, Record, QueueInv, QueueTypeOK
<1>8. items[i].done < registered'[j]
  BY <1>1, <1>2, <1>5 DEF Item
<1> QED BY <1>1, <1>6, <1>7, <1>8

\* A row whose recovery saves is one whose recovery was allowed.
LEMMA RecoveredRow ==
    ASSUME IInv, NEW i \in Ids, Recover(i) \/ RecoverUncertain(i)
    PROVE  RecoveryAllowed(i)
<1>1. i # None
  BY TransactionAssumption DEF TransactionAssumptions
<1> QED BY <1>1 DEF Recover, RecoverUncertain, Replay, IInv, RecoveryUndisturbed

LEMMA RecoverUncertainKeeps ==
    ASSUME IInv, NEW i \in Ids, RecoverUncertain(i)
    PROVE  QueueInv'
<1> USE DEF IInv
<1>1. /\ DiskKept /\ HistoryGrows
  BY RecoveredRow, RelinkSound DEF RecoverUncertain, RecoveryAllowed
<1>2. UNCHANGED <<worker, items, nextId, active, paused, persistent, authorized>>
  BY DEF RecoverUncertain, queueVars
<1>3. /\ durable \in Envelope /\ items \in Rows /\ nextId \in Nat /\ paused \in BOOLEAN
      /\ durable' \in AfterSave(items, nextId, paused, durable)
  BY DEF RecoverUncertain, Persist, QueueInv, QueueTypeOK
<1>4. /\ \A k \in Ids : RowSound(items[k], registered', rendered')
      /\ \A k \in Ids : RowSound(durable.items[k], registered', rendered')
      /\ \A k \in Ids : WorkerSound(worker[k], registered', rendered')
  BY <1>1, HistoryKeeps
<1>5. /\ \A k \in Ids : items[k].status # "Absent" => k < nextId
      /\ \A k \in Ids : durable.items[k].status # "Absent" => k < durable.nextId
  BY DEF QueueInv, FreshIds
<1>6. /\ durable' \in Envelope
      /\ \A k \in Ids : RowSound(durable'.items[k], registered', rendered')
      /\ \A k \in Ids : durable'.items[k].status # "Absent" => k < durable'.nextId
  BY <1>3, <1>4, <1>5, SaveKeeps
<1>7. QueueTypeOK'
  BY <1>1, <1>2, <1>6 DEF DiskKept, HistoryGrows, QueueInv, QueueTypeOK
<1>8. SingleWorker' /\ ReadyAuthorized' /\ FreshIds'
  BY <1>2, <1>5, <1>6 DEF QueueInv, SingleWorker, ReadyAuthorized, FreshIds
<1> QED BY <1>1, <1>2, <1>4, <1>6, <1>7, <1>8 DEF QueueInv, HistoryGrows

LEMMA RecoverKeeps ==
    ASSUME IInv, NEW i \in Ids, Recover(i)
    PROVE  QueueInv'
<1> USE DEF IInv
<1> DEFINE row == Advance(items[i])
<1>1. /\ DiskKept /\ HistoryGrows
      /\ items[i] \in Item /\ items[i].done < registered'[items[i].job]
  BY RecoveredRow, RelinkSound DEF Recover, RecoveryAllowed
<1>2. /\ items' = [items EXCEPT ![i] = row]
      /\ authorized' = authorized \cup {i}
      /\ UNCHANGED <<worker, nextId, active, paused, persistent>>
      /\ items[i].status = "NeedsRecovery"
  BY RecoveredRow DEF Recover, RecoveryAllowed, NeedsRecovery
<1>3. /\ items[i].done < FaceCount(items[i].job)
      /\ ModeOf[items[i].job] # "CreateNew" => items[i].expected # None
  BY <1>2, PresentRow DEF RowSound
<1>4. row \in Item /\ row.status \in {"Done", "Waiting"}
      /\ RowSound(row, registered', rendered')
  BY <1>1, <1>3, AdvanceSound DEF HistoryGrows
<1>5. /\ items' \in Rows /\ items'[i] = row
      /\ \A k \in Ids \ {i} : items'[k] = items[k]
  BY <1>2, <1>4 DEF QueueInv, QueueTypeOK, Rows
<1> HIDE DEF row
<1>6. \A k \in Ids : RowSound(items'[k], registered', rendered')
  BY <1>1, <1>4, <1>5, HistoryKeeps
<1>7. \A k \in Ids : items'[k].status # "Absent" => k < nextId
  BY <1>2, <1>5 DEF QueueInv, FreshIds
<1>8. /\ durable \in Envelope /\ nextId \in Nat /\ paused \in BOOLEAN
      /\ durable' \in AfterSave(items', nextId, paused, durable)
  BY DEF Recover, Persist, QueueInv, QueueTypeOK
<1>9. /\ \A k \in Ids : RowSound(durable.items[k], registered', rendered')
      /\ \A k \in Ids : WorkerSound(worker[k], registered', rendered')
      /\ \A k \in Ids : durable.items[k].status # "Absent" => k < durable.nextId
  BY <1>1, HistoryKeeps DEF QueueInv, FreshIds
<1>10. /\ durable' \in Envelope
       /\ \A k \in Ids : RowSound(durable'.items[k], registered', rendered')
       /\ \A k \in Ids : durable'.items[k].status # "Absent" => k < durable'.nextId
  BY <1>5, <1>6, <1>7, <1>8, <1>9, SaveKeeps
<1>11. QueueTypeOK'
  BY <1>1, <1>2, <1>5, <1>10 DEF DiskKept, HistoryGrows, QueueInv, QueueTypeOK
<1>12. SingleWorker'
  BY <1>2, <1>4, <1>5 DEF QueueInv, SingleWorker
<1>13. ReadyAuthorized' /\ FreshIds'
  BY <1>2, <1>5, <1>7, <1>10 DEF QueueInv, ReadyAuthorized, FreshIds
<1> QED BY <1>1, <1>2, <1>6, <1>9, <1>10, <1>11, <1>12, <1>13 DEF QueueInv, HistoryGrows

-------------------------------------------------------------------------------
(***************************************************************************)
(* Polling: the reports of the workers are applied, then a row is started. *)
(***************************************************************************)
\* A row whose worker has reported is Processing, and its report fits.
LEMMA ReportFits ==
    ASSUME QueueInv, NEW i \in Reported
    PROVE  /\ i \in Ids /\ active = i /\ worker[i] \in Running
           /\ items[i] \in Item /\ items[i].status = "Processing"
           /\ items[i].job = worker[i].job /\ items[i].done = worker[i].ord
           /\ RowSound(items[i], registered, rendered)
           /\ WorkerSound(worker[i], registered, rendered)
           /\ worker[i].pc = "finished"
<1>1. i \in Ids /\ worker[i].pc = "finished"
  BY DEF Reported
<1>2. /\ active = i /\ items[i].status = "Processing"
      /\ items[i].job = worker[i].job /\ items[i].done = worker[i].ord
  BY <1>1 DEF QueueInv, SingleWorker
<1>3. worker[i] \in Running /\ WorkerSound(worker[i], registered, rendered)
  BY <1>1, RunningWorker
<1>4. items[i] \in Item /\ RowSound(items[i], registered, rendered)
  BY <1>1, <1>2, PresentRow
<1> QED BY <1>1, <1>2, <1>3, <1>4

\* Applying a report ends the Processing state and leaves a sound row.
LEMMA OutcomeSound ==
    ASSUME QueueInv, NEW i \in Reported
    PROVE  LET row == ApplyStepOutcome(items[i], worker[i])
           IN  /\ row \in Item /\ row.status \notin {"Absent", "Processing"}
               /\ RowSound(row, registered, rendered)
<1> DEFINE w == worker[i]
           row == ApplyStepOutcome(items[i], w)
<1>1. /\ i \in Ids /\ w \in Running
      /\ items[i] \in Item /\ items[i].status = "Processing"
      /\ items[i].job = w.job /\ items[i].done = w.ord
      /\ RowSound(items[i], registered, rendered)
      /\ WorkerSound(w, registered, rendered)
      /\ w.pc = "finished"
  BY ReportFits
<1>2. /\ items[i].done < FaceCount(items[i].job)
      /\ ModeOf[items[i].job] # "CreateNew" => items[i].expected # None
      /\ items[i].done <= registered[items[i].job]
  BY <1>1 DEF RowSound
<1>3. CASE w.outcome = "Completed"
  <2>1. row = Advance(items[i])
    BY <1>3 DEF ApplyStepOutcome
  <2>2. items[i].done < registered[items[i].job]
    BY <1>1, <1>3 DEF WorkerSound
  <2>3. registered \in [Jobs -> Nat] /\ rendered \in [Jobs -> Nat]
    BY DEF QueueInv, QueueTypeOK
  <2> QED BY <1>1, <1>2, <2>1, <2>2, <2>3, AdvanceSound
<1>4. CASE w.outcome = "NeedsRecovery"
  <2> DEFINE rec == [ord |-> items[i].done, disp |-> w.disp, built |-> w.built]
  <2>1. row = [items[i] EXCEPT !.status = "NeedsRecovery", !.resume = FALSE, !.rec = rec]
    BY <1>4 DEF ApplyStepOutcome
  <2>2. rec \in Record
    BY <1>1 DEF Record, Item, Running
  <2> HIDE DEF rec
  <2>3. /\ row \in Item /\ row.status = "NeedsRecovery" /\ row.job = items[i].job
        /\ row.done = items[i].done /\ row.expected = items[i].expected
    BY <1>1, <2>1, <2>2 DEF Item, Statuses
  <2>4. items[i].done < rendered[items[i].job]
    BY <1>1, <1>4 DEF WorkerSound
  <2> QED BY <1>2, <2>3, <2>4 DEF RowSound
<1>5. CASE w.outcome \notin {"Completed", "NeedsRecovery"}
  <2>1. row = [items[i] EXCEPT !.status = w.outcome, !.resume = FALSE, !.rec = None]
    BY <1>5 DEF ApplyStepOutcome
  <2>2. w.outcome \in {"Cancelled", "Failed"}
    BY <1>1, <1>5 DEF WorkerSound, Running, Outcomes
  <2>3. /\ row \in Item /\ row.status = w.outcome /\ row.job = items[i].job
        /\ row.done = items[i].done /\ row.expected = items[i].expected
    BY <1>1, <2>1, <2>2 DEF Item, Statuses
  <2> QED BY <1>2, <2>2, <2>3 DEF RowSound
<1> QED BY <1>3, <1>4, <1>5

LEMMA DrainedSound ==
    ASSUME QueueInv
    PROVE  /\ Drained \in Rows
           /\ \A i \in Ids : RowSound(Drained[i], registered, rendered)
           /\ \A i \in Ids : Drained[i].status # "Absent" => i < nextId
           /\ \A i \in Ids : Drained[i].status = "Processing" =>
                  Drained[i] = items[i] /\ i \notin Reported
           /\ Reported # {} => \A i \in Ids : Drained[i].status # "Processing"
           /\ \A i \in Ids : Drained[i].status = "Waiting" /\ ~Drained[i].resume =>
                  i \in authorized
<1>1. \A i \in Ids \ Reported : Drained[i] = items[i]
  BY DEF Drained
<1>2. \A i \in Reported : /\ i \in Ids /\ active = i
                          /\ items[i].status = "Processing"
                          /\ Drained[i] = ApplyStepOutcome(items[i], worker[i])
  BY ReportFits DEF Drained
<1>3. \A i \in Reported : /\ Drained[i] \in Item
                          /\ Drained[i].status \notin {"Absent", "Processing"}
                          /\ RowSound(Drained[i], registered, rendered)
  BY <1>2, OutcomeSound
<1>4. Drained \in Rows
  <2>1. \A i \in Ids : Drained[i] \in Item \cup {Absent}
    BY <1>1, <1>3 DEF QueueInv, QueueTypeOK, Rows
  <2> QED BY <2>1 DEF Drained, Rows
<1>5. \A i \in Ids : RowSound(Drained[i], registered, rendered)
  BY <1>1, <1>3 DEF QueueInv
<1>6. \A i \in Ids : Drained[i].status # "Absent" => i < nextId
  BY <1>1, <1>2 DEF QueueInv, FreshIds
<1>7. \A i \in Ids : Drained[i].status = "Processing" =>
          Drained[i] = items[i] /\ i \notin Reported
  BY <1>1, <1>3
<1>8. ASSUME Reported # {}, NEW i \in Ids PROVE Drained[i].status # "Processing"
  <2>1. PICK k \in Reported : active = k
    BY <1>2, <1>8
  <2>2. CASE i = k
    BY <1>3, <2>1, <2>2
  <2>3. CASE i # k
    <3>1. items[i].status # "Processing"
      BY <2>1, <2>3 DEF QueueInv, SingleWorker
    <3>2. i \notin Reported
      BY <1>2, <2>1, <2>3
    <3> QED BY <1>1, <3>1, <3>2
  <2> QED BY <2>2, <2>3
<1>9. \A i \in Ids : Drained[i].status = "Waiting" /\ ~Drained[i].resume => i \in authorized
  BY <1>1, <1>2 DEF QueueInv, ReadyAuthorized
<1> QED BY <1>4, <1>5, <1>6, <1>7, <1>8, <1>9

LEMMA PollKeeps ==
    ASSUME QueueInv, Poll
    PROVE  QueueInv'
<1>1. /\ Reported # {} /\ items' = Drained /\ active' = None
      /\ worker' = [i \in Ids |-> IF i \in Reported THEN Idle ELSE worker[i]]
      /\ durable' \in AfterSave(Drained, nextId, paused, durable)
      /\ UNCHANGED <<tiff, project, rendered, registered, nextId, paused,
                     persistent, authorized>>
  BY DEF Poll, Persist, diskVars, historyVars
<1>2. /\ Drained \in Rows
      /\ \A i \in Ids : RowSound(Drained[i], registered, rendered)
      /\ \A i \in Ids : Drained[i].status # "Absent" => i < nextId
      /\ \A i \in Ids : Drained[i].status # "Processing"
      /\ \A i \in Ids : Drained[i].status = "Waiting" /\ ~Drained[i].resume =>
                            i \in authorized
  BY <1>1, DrainedSound
<1>3. \A i \in Ids : worker'[i] = Idle
  <2>1. PICK k \in Reported : active = k
    BY <1>1, ReportFits
  <2>2. ASSUME NEW i \in Ids, i \notin Reported PROVE worker[i] = Idle
    BY <2>1, <2>2 DEF QueueInv, SingleWorker, QueueTypeOK, Running, Pcs
  <2> QED BY <1>1, <2>2
<1>4. /\ durable \in Envelope /\ nextId \in Nat /\ paused \in BOOLEAN
      /\ \A i \in Ids : RowSound(durable.items[i], registered, rendered)
      /\ \A i \in Ids : durable.items[i].status # "Absent" => i < durable.nextId
  BY DEF QueueInv, QueueTypeOK, FreshIds
<1>5. /\ durable' \in Envelope
      /\ \A i \in Ids : RowSound(durable'.items[i], registered, rendered)
      /\ \A i \in Ids : durable'.items[i].status # "Absent" => i < durable'.nextId
  BY <1>1, <1>2, <1>4, SaveKeeps
<1>6. worker' \in [Ids -> Running \cup {Idle}]
  BY <1>1, <1>3
<1>7. QueueTypeOK'
  BY <1>1, <1>2, <1>5, <1>6 DEF QueueInv, QueueTypeOK
<1>8. SingleWorker'
  BY <1>1, <1>2, <1>3, TransactionAssumption
     DEF SingleWorker, Idle, TransactionAssumptions
<1>9. ReadyAuthorized' /\ FreshIds'
  BY <1>1, <1>2, <1>5 DEF ReadyAuthorized, FreshIds
<1>10. \A i \in Ids : WorkerSound(worker'[i], registered, rendered)
  BY <1>3 DEF WorkerSound, Idle
<1> QED BY <1>1, <1>2, <1>5, <1>7, <1>8, <1>9, <1>10 DEF QueueInv

\* A worker that has just been started for a ready row.
LEMMA BeginSound ==
    ASSUME NEW row \in Item, NEW linked, NEW published,
           RowSound(row, linked, published)
    PROVE  /\ Begin(row) \in Running
           /\ Begin(row).pc = "start"
           /\ Begin(row).job = row.job /\ Begin(row).ord = row.done
           /\ WorkerSound(Begin(row), linked, published)
<1>1. /\ row.job \in Jobs /\ row.done \in Nat /\ row.expected \in MaybeProject
      /\ ModeOf[row.job] \in Modes
  BY TransactionAssumption DEF Item, TransactionAssumptions
<1>2. [mode |-> ModeOf[row.job], expected |-> row.expected] \in Disposition
  BY <1>1 DEF Disposition
<1>3. Begin(row) \in Running
  BY <1>1, <1>2 DEF Begin, Running, Pcs, Outcomes, MaybeProject
<1>4. row.status # "Absent"
  BY DEF Item, Statuses
<1>5. WorkerSound(Begin(row), linked, published)
  BY <1>4 DEF Begin, WorkerSound, RowSound
<1> QED BY <1>3, <1>5 DEF Begin

LEMMA PollAndStartKeeps ==
    ASSUME QueueInv, NEW allow, MayStart(allow), NEW i \in Ids, PollAndStart(i)
    PROVE  QueueInv'
<1> DEFINE row == [Drained[i] EXCEPT !.status = "Processing"]
           started == [Drained EXCEPT ![i].status = "Processing"]
<1>1. /\ items' = started /\ active' = i
      /\ worker' = [k \in Ids |-> IF k = i THEN Begin(Drained[i])
                                  ELSE IF k \in Reported THEN Idle ELSE worker[k]]
      /\ i \in Ready(Drained)
      /\ UNCHANGED <<tiff, project, rendered, registered, nextId, paused,
                     persistent, authorized>>
  BY DEF PollAndStart, IsFirst, diskVars, historyVars
<1>2. /\ Drained \in Rows
      /\ \A k \in Ids : RowSound(Drained[k], registered, rendered)
      /\ \A k \in Ids : Drained[k].status # "Absent" => k < nextId
      /\ \A k \in Ids : Drained[k].status = "Waiting" /\ ~Drained[k].resume =>
                            k \in authorized
  BY DrainedSound
<1>3. Drained[i].status = "Waiting" /\ ~Drained[i].resume
  BY <1>1 DEF Ready
<1>4. Drained[i] \in Item
  BY <1>2, <1>3 DEF Rows, Absent
\* No worker is left once the reports are taken in.
<1>5. ASSUME NEW k \in Ids
      PROVE  /\ Drained[k].status # "Processing"
             /\ k \notin Reported => worker[k] = Idle
  <2>1. CASE Reported = {}
    <3>1. active = None /\ Drained[k].status = items[k].status
      BY <2>1 DEF MayStart, ActiveAfterDrain, Drained
    <3>2. active # k
      BY <3>1, TransactionAssumption DEF TransactionAssumptions
    <3> QED BY <3>1, <3>2 DEF QueueInv, SingleWorker, QueueTypeOK, Running, Pcs
  <2>2. CASE Reported # {}
    <3>1. PICK r \in Reported : active = r
      BY <2>2, ReportFits
    <3>2. k \notin Reported => worker[k] = Idle
      BY <3>1 DEF QueueInv, SingleWorker, QueueTypeOK, Running, Pcs
    <3> QED BY <2>2, <3>2, DrainedSound
  <2> QED BY <2>1, <2>2
<1>6. /\ row \in Item /\ row.status = "Processing" /\ row.job = Drained[i].job
      /\ row.done = Drained[i].done /\ row.expected = Drained[i].expected
  BY <1>4 DEF Item, Statuses
<1>7. /\ started \in Rows /\ started[i] = row
      /\ \A k \in Ids \ {i} : started[k] = Drained[k]
  BY <1>2, <1>6 DEF Rows
<1>8. RowSound(row, registered, rendered)
  BY <1>2, <1>3, <1>6 DEF RowSound
<1>9. PICK saved \in IF Reported = {} THEN {durable}
                     ELSE AfterSave(Drained, nextId, paused, durable) :
          durable' \in AfterSave(started, nextId, paused, saved)
  BY DEF PollAndStart
<1> HIDE DEF row, started
<1>10. /\ durable \in Envelope /\ nextId \in Nat /\ paused \in BOOLEAN
       /\ \A k \in Ids : RowSound(durable.items[k], registered, rendered)
       /\ \A k \in Ids : durable.items[k].status # "Absent" => k < durable.nextId
  BY DEF QueueInv, QueueTypeOK, FreshIds
<1>11. /\ saved \in Envelope
       /\ \A k \in Ids : RowSound(saved.items[k], registered, rendered)
       /\ \A k \in Ids : saved.items[k].status # "Absent" => k < saved.nextId
  <2>1. CASE Reported = {}
    BY <1>9, <1>10, <2>1
  <2>2. CASE Reported # {}
    <3>1. saved \in AfterSave(Drained, nextId, paused, durable)
      BY <1>9, <2>2
    <3> QED BY <1>2, <1>10, <3>1, SaveKeeps
  <2> QED BY <2>1, <2>2
<1>12. \A k \in Ids : RowSound(started[k], registered, rendered)
  BY <1>2, <1>7, <1>8
<1>13. \A k \in Ids : started[k].status # "Absent" => k < nextId
  BY <1>2, <1>3, <1>7
<1>14. /\ durable' \in Envelope
       /\ \A k \in Ids : RowSound(durable'.items[k], registered, rendered)
       /\ \A k \in Ids : durable'.items[k].status # "Absent" => k < durable'.nextId
  BY <1>7, <1>9, <1>10, <1>11, <1>12, <1>13, SaveKeeps
<1>15. /\ Begin(Drained[i]) \in Running /\ Begin(Drained[i]).pc = "start"
       /\ Begin(Drained[i]).job = Drained[i].job
       /\ Begin(Drained[i]).ord = Drained[i].done
       /\ WorkerSound(Begin(Drained[i]), registered, rendered)
  BY <1>2, <1>4, BeginSound
<1>16. /\ worker'[i] = Begin(Drained[i])
       /\ \A k \in Ids \ {i} : worker'[k] = Idle
       /\ worker' \in [Ids -> Running \cup {Idle}]
  BY <1>1, <1>5, <1>15
<1>17. QueueTypeOK'
  BY <1>1, <1>7, <1>14, <1>16 DEF QueueInv, QueueTypeOK
<1>18. SingleWorker'
  <2>1. /\ items'[i].status = "Processing" /\ active' = i
        /\ worker'[i].pc = "start" /\ worker'[i].job = items'[i].job
        /\ worker'[i].ord = items'[i].done
        /\ items'[i].done < FaceCount(items'[i].job)
    BY <1>1, <1>6, <1>7, <1>8, <1>15, <1>16 DEF RowSound
  <2>2. ASSUME NEW k \in Ids \ {i}
        PROVE  /\ worker'[k].pc = "idle" /\ active' # k
               /\ items'[k].status # "Processing"
    BY <1>1, <1>5, <1>7, <1>16 DEF Idle
  <2> QED BY <2>1, <2>2 DEF SingleWorker
<1>19. ReadyAuthorized'
  BY <1>1, <1>2, <1>3, <1>5, <1>7 DEF ReadyAuthorized
<1>20. FreshIds'
  BY <1>1, <1>13, <1>14 DEF FreshIds
<1>21. \A k \in Ids : WorkerSound(worker'[k], registered, rendered)
  BY <1>15, <1>16 DEF WorkerSound, Idle
<1> QED BY <1>1, <1>12, <1>14, <1>17, <1>18, <1>19, <1>20, <1>21 DEF QueueInv

-------------------------------------------------------------------------------
(***************************************************************************)
(* Restarts.                                                               *)
(***************************************************************************)
\* No worker and only held or finished rows: the state after a restart.
LEMMA DiedKeeps ==
    ASSUME QueueInv, Died, items' \in Rows, nextId' \in Nat,
           paused' \in BOOLEAN, persistent' \in BOOLEAN,
           \A i \in Ids : RowSound(items'[i], registered, rendered),
           \A i \in Ids : items'[i].status # "Absent" => i < nextId',
           \A i \in Ids : items'[i].status # "Processing",
           \A i \in Ids : items'[i].status = "Waiting" => items'[i].resume
    PROVE  QueueInv'
<1>1. /\ worker' = [i \in Ids |-> Idle] /\ active' = None /\ authorized' = {}
      /\ UNCHANGED <<tiff, project, rendered, registered, durable>>
  BY DEF Died, diskVars, historyVars
<1>2. QueueTypeOK'
  BY <1>1 DEF QueueInv, QueueTypeOK
<1>3. SingleWorker'
  BY <1>1, TransactionAssumption DEF SingleWorker, Idle, TransactionAssumptions
<1>4. ReadyAuthorized' /\ FreshIds'
  BY <1>1 DEF QueueInv, ReadyAuthorized, FreshIds
<1>5. \A i \in Ids : WorkerSound(worker'[i], registered', rendered')
  BY <1>1 DEF WorkerSound, Idle
<1> QED BY <1>1, <1>2, <1>3, <1>4, <1>5 DEF QueueInv

LEMMA RestartKeeps ==
    ASSUME QueueInv, Restart
    PROVE  QueueInv'
<1>1. /\ Died /\ items' = [i \in Ids |-> LoadedRow(durable.items[i])]
      /\ nextId' = durable.nextId /\ paused' = durable.paused /\ persistent' = TRUE
  BY DEF Restart
<1>2. /\ durable.items \in Rows /\ durable.nextId \in Nat /\ durable.paused \in BOOLEAN
  BY DEF QueueInv, QueueTypeOK, Envelope
<1>3. \A i \in Ids : /\ durable.items[i] \in Item \cup {Absent}
                     /\ RowSound(durable.items[i], registered, rendered)
                     /\ durable.items[i].status # "Absent" => i < durable.nextId
  BY <1>2 DEF QueueInv, FreshIds, Rows
<1>4. \A i \in Ids : /\ items'[i] \in Item \cup {Absent}
                     /\ RowSound(items'[i], registered, rendered)
                     /\ items'[i].status # "Processing"
                     /\ items'[i].status = "Waiting" => items'[i].resume
  BY <1>1, <1>3, LoadedRowSound
<1>5. \A i \in Ids : items'[i].status # "Absent" => durable.items[i].status # "Absent"
  BY <1>1 DEF LoadedRow, Absent
<1>6. items' \in Rows
  BY <1>1, <1>4 DEF Rows
<1> QED BY <1>1, <1>2, <1>3, <1>4, <1>5, <1>6, DiedKeeps

LEMMA RestartWithoutFileKeeps ==
    ASSUME QueueInv, RestartWithoutFile
    PROVE  QueueInv'
<1>1. /\ Died /\ items' = EmptyRows /\ nextId' = 1 /\ paused' = FALSE
      /\ persistent' = FALSE
  BY DEF RestartWithoutFile
<1>2. /\ items' \in Rows
      /\ \A i \in Ids : items'[i].status = "Absent"
  BY <1>1 DEF EmptyRows, Rows, Absent
<1>3. \A i \in Ids : RowSound(items'[i], registered, rendered)
  BY <1>2 DEF RowSound
<1> QED BY <1>1, <1>2, <1>3, DiedKeeps

-------------------------------------------------------------------------------
(***************************************************************************)
(* The queue stays sound, one step of the UI thread after the other.       *)
(***************************************************************************)
LEMMA OperatorStepKeeps ==
    ASSUME QueueInv, Operator
    PROVE  QueueInv'
<1>1. ASSUME NEW j \in Jobs, Enqueue(j) PROVE QueueInv'
  BY <1>1, EnqueueKeeps
<1>2. CASE SetPaused
  BY <1>2, SetPausedKeeps
<1>3. CASE ResumeRecovered
  BY <1>3, ResumeRecoveredKeeps
<1>4. CASE ClearFinished
  BY <1>4, ClearFinishedKeeps
<1>5. ASSUME NEW i \in Ids, CancelWaiting(i) PROVE QueueInv'
  BY <1>5, CancelWaitingKeeps
<1>6. ASSUME NEW i \in Ids, CancelActive(i) PROVE QueueInv'
  BY <1>6, CancelActiveKeeps
<1>7. ASSUME NEW i \in Ids, Retry(i) PROVE QueueInv'
  BY <1>7, RetryKeeps
<1> QED BY <1>1, <1>2, <1>3, <1>4, <1>5, <1>6, <1>7 DEF Operator

LEMMA FrameKeeps ==
    ASSUME QueueInv, NEW allow \in AllowStart, PollWithStart(allow)
    PROVE  QueueInv'
<1>1. CASE MayStart(allow)
  BY <1>1, PollAndStartKeeps DEF PollWithStart
<1>2. CASE ~MayStart(allow)
  BY <1>2, PollKeeps DEF PollWithStart
<1> QED BY <1>1, <1>2

LEMMA RecoveryKeeps ==
    ASSUME IInv, NEW i \in Ids,
           BeginRecovery(i) \/ Recover(i) \/ RecoverUncertain(i) \/ RecoverFails(i)
    PROVE  IInv'
<1>1. CASE BeginRecovery(i)
  <2>1. UNCHANGED <<transactionVars, queueVars, durable, authorized>> /\ recovering' = i
        /\ RecoveryAllowed(i)
    BY <1>1 DEF BeginRecovery
  <2>2. QueueInv'
    BY <2>1 DEF IInv, QueueInv, QueueTypeOK, SingleWorker, ReadyAuthorized, FreshIds,
                transactionVars, queueVars
  <2>3. RecoveryUndisturbed'
    BY <2>1 DEF RecoveryUndisturbed, RecoveryAllowed, NeedsRecovery, queueVars
  <2> QED BY <2>2, <2>3 DEF IInv
<1>2. CASE Recover(i) \/ RecoverUncertain(i) \/ RecoverFails(i)
  <2>1. QueueInv'
    BY <1>2, RecoverKeeps, RecoverUncertainKeeps, RecoverFailsKeeps DEF IInv
  <2>2. recovering' = None
    BY <1>2 DEF Recover, RecoverUncertain, RecoverFails
  <2> QED BY <2>1, <2>2 DEF IInv, RecoveryUndisturbed
<1> QED BY <1>1, <1>2

(***************************************************************************)
(* The invariant is inductive: a step either ends with no recovery under   *)
(* way or leaves the rows to the one that is.                              *)
(***************************************************************************)
LEMMA NextKeeps == IInv /\ [Next]_vars => IInv'
<1> SUFFICES ASSUME IInv, [Next]_vars PROVE IInv'
  OBVIOUS
<1>1. QueueInv /\ RecoveryUndisturbed
  BY DEF IInv
<1>2. ASSUME QueueInv', recovering' = None PROVE IInv'
  BY <1>2 DEF IInv, RecoveryUndisturbed
<1>3. ASSUME QueueInv', UNCHANGED <<queueVars, recovering>> PROVE IInv'
  BY <1>1, <1>3 DEF IInv, RecoveryUndisturbed, RecoveryAllowed, NeedsRecovery, queueVars
<1>4. CASE Idling /\ Operator
  BY <1>1, <1>2, <1>4, OperatorStepKeeps DEF Idling
<1>5. CASE Recovery
  BY <1>5, RecoveryKeeps DEF Recovery
<1>6. ASSUME NEW allow \in AllowStart, Frame(allow) PROVE IInv'
  BY <1>1, <1>2, <1>6, FrameKeeps DEF Frame, Idling
<1>7. ASSUME NEW i \in Ids, WorkerStep(i), Elsewhere PROVE IInv'
  BY <1>1, <1>3, <1>7, WorkerKeeps DEF Elsewhere
<1>8. CASE Environment /\ Elsewhere
  BY <1>1, <1>3, <1>8, EnvironmentKeeps DEF Elsewhere
<1>9. CASE Restart \/ RestartWithoutFile
  BY <1>1, <1>2, <1>9, RestartKeeps, RestartWithoutFileKeeps
     DEF Restart, RestartWithoutFile, Died
<1>10. CASE UNCHANGED vars
  <2>1. UNCHANGED <<tiff, project, worker, rendered, registered, items, nextId, active,
                    paused, persistent, durable, recovering, authorized>>
    BY <1>10 DEF vars, transactionVars, queueVars
  <2>2. QueueInv'
    BY <1>1, <2>1 DEF QueueInv, QueueTypeOK, SingleWorker, ReadyAuthorized, FreshIds
  <2> QED BY <1>3, <2>1, <2>2 DEF queueVars
<1> QED BY <1>4, <1>5, <1>6, <1>7, <1>8, <1>9, <1>10 DEF Next

(***************************************************************************)
(* The inductive invariant holds in every reachable state.                 *)
(***************************************************************************)
THEOREM InvariantHolds == Spec => []IInv
BY InitInvariant, NextKeeps, PTL DEF Spec

(***************************************************************************)
(* Every variable keeps the shape its Rust type gives it: no operation on  *)
(* the queue, worker step, fault or restart builds a malformed row, file   *)
(* or project.                                                             *)
(***************************************************************************)
THEOREM TypeCorrect == Spec => []TypeOK
<1>1. IInv => TypeOK
  BY DEF IInv, QueueInv, RecoveryUndisturbed, TypeOK
<1> QED BY <1>1, InvariantHolds, PTL

(***************************************************************************)
(* At most one conversion worker runs, for the active row and the first    *)
(* Face its checkpoint does not list (start_next, poll_with_start).        *)
(***************************************************************************)
THEOREM OneWorker == Spec => []SingleWorker
<1>1. IInv => SingleWorker
  BY DEF IInv, QueueInv
<1> QED BY <1>1, InvariantHolds, PTL

(***************************************************************************)
(* No checkpoint runs ahead of the Production project, in memory or on     *)
(* disk, through crashes, failed saves, recoveries and retries.            *)
(***************************************************************************)
THEOREM CheckpointsBacked == Spec => []CheckpointBacked
<1>1. IInv => CheckpointBacked
  BY DEF IInv, QueueInv, RowSound, CheckpointBacked, Present
<1> QED BY <1>1, InvariantHolds, PTL

(***************************************************************************)
(* Restored work never starts by itself: every worker runs for a row the   *)
(* operator let go since this process started.                             *)
(***************************************************************************)
THEOREM NeverAutoStarts == Spec => []NoAutoStart
<1>1. IInv => NoAutoStart
  BY DEF IInv, QueueInv, SingleWorker, ReadyAuthorized, NoAutoStart
<1> QED BY <1>1, InvariantHolds, PTL

-------------------------------------------------------------------------------
(***************************************************************************)
(* The queue implements BatchLedger: only a commit and a link change the   *)
(* history, and each maps to the ledger's step or to none.                 *)
(***************************************************************************)
LEMMA RenderOrStutter ==
    ASSUME QueueInv, NEW i \in Ids, Publish(i)
    PROVE  [Ledger!LedgerNext]_<<rendered, registered>>
<1>1. /\ worker[i] \in Running /\ worker[i].ord <= registered[worker[i].job]
  BY RunningWorker DEF Publish
<1> DEFINE j == worker[i].job
           n == worker[i].ord
<1>2. /\ j \in Jobs /\ n \in Nat /\ n <= registered[j] /\ n < FaceCount(j)
      /\ registered[j] <= rendered[j] /\ registered[j] \in Nat /\ rendered[j] \in Nat
      /\ rendered \in [Jobs -> Nat]
  BY <1>1 DEF Running, QueueInv, QueueTypeOK, SingleWorker, Publish
<1>3. rendered' = [rendered EXCEPT ![j] = AtLeast(@, n + 1)] /\ UNCHANGED registered
  BY DEF Publish
<1>4. CASE rendered[j] < n + 1
  <2>1. rendered[j] = registered[j] /\ rendered[j] < FaceCount(j) /\ rendered[j] = n
    BY <1>2, <1>4
  <2>2. rendered' = [rendered EXCEPT ![j] = rendered[j] + 1]
    BY <1>2, <1>3, <1>4, <2>1 DEF AtLeast
  <2>3. Ledger!Render(j)
    BY <1>3, <2>1, <2>2 DEF Ledger!Render
  <2> QED BY <1>2, <2>3 DEF Ledger!LedgerNext
<1>5. CASE ~(rendered[j] < n + 1)
  BY <1>2, <1>3, <1>5 DEF AtLeast
<1> QED BY <1>4, <1>5

LEMMA RegisterOrStutter ==
    ASSUME QueueInv, NEW j \in Jobs, NEW n \in Nat,
           n <= registered[j], n < rendered[j],
           registered' = [registered EXCEPT ![j] = AtLeast(@, n + 1)],
           UNCHANGED rendered
    PROVE  [Ledger!LedgerNext]_<<rendered, registered>>
<1>1. /\ registered[j] \in Nat /\ rendered[j] \in Nat /\ registered \in [Jobs -> Nat]
  BY DEF QueueInv, QueueTypeOK
<1>2. CASE registered[j] < n + 1
  <2>1. registered[j] = n /\ registered[j] < rendered[j]
    BY <1>1, <1>2
  <2>2. registered' = [registered EXCEPT ![j] = registered[j] + 1]
    BY <1>1, <1>2, <2>1 DEF AtLeast
  <2>3. Ledger!Register(j)
    BY <2>1, <2>2 DEF Ledger!Register
  <2> QED BY <2>3 DEF Ledger!LedgerNext
<1>3. CASE ~(registered[j] < n + 1)
  BY <1>1, <1>3 DEF AtLeast
<1> QED BY <1>2, <1>3

\* A worker that links the project registers the Face it published.
LEMMA LinkRegisters ==
    ASSUME QueueInv, NEW i \in Ids, worker[i].pc = "write", Link(i), UNCHANGED rendered
    PROVE  [Ledger!LedgerNext]_<<rendered, registered>>
<1>1. /\ worker[i] \in Running /\ worker[i].ord <= registered[worker[i].job]
      /\ WorkerSound(worker[i], registered, rendered)
  BY RunningWorker
<1>2. /\ worker[i].job \in Jobs /\ worker[i].ord \in Nat
      /\ worker[i].ord < rendered[worker[i].job]
  BY <1>1 DEF Running, WorkerSound
<1>3. registered' = [registered EXCEPT ![worker[i].job] = AtLeast(@, worker[i].ord + 1)]
  BY DEF Link
<1> QED BY <1>1, <1>2, <1>3, RegisterOrStutter

\* So does project-only recovery.
LEMMA RelinkRegisters ==
    ASSUME QueueInv, NEW i \in Ids, NeedsRecovery(i), Relink(i), UNCHANGED rendered
    PROVE  [Ledger!LedgerNext]_<<rendered, registered>>
<1>1. items[i] \in Item /\ RowSound(items[i], registered, rendered)
  BY PresentRow DEF NeedsRecovery
<1>2. /\ items[i].job \in Jobs /\ items[i].done \in Nat
      /\ items[i].done <= registered[items[i].job]
      /\ items[i].done < rendered[items[i].job]
  BY <1>1 DEF Item, RowSound, NeedsRecovery
<1>3. registered' = [registered EXCEPT ![items[i].job] = AtLeast(@, items[i].done + 1)]
  BY DEF Relink
<1> QED BY <1>2, <1>3, RegisterOrStutter

LEMMA WorkerStepRefines ==
    ASSUME QueueInv, NEW i \in Ids, WorkerStep(i)
    PROVE  [Ledger!LedgerNext]_<<rendered, registered>>
<1>1. CASE Publish(i)
  BY <1>1, RenderOrStutter
<1>2. CASE WriteProject(i) \/ WriteUncertain(i)
  BY <1>2, LinkRegisters DEF WriteProject, WriteUncertain
<1>3. CASE ~Publish(i) /\ ~WriteProject(i) /\ ~WriteUncertain(i)
  BY <1>3 DEF WorkerStep, DispositionForFace, HaltBeforeFace, Prepare, RefuseToRender,
              AbandonRender, ReadBack, ReadBackFails, LineageFails, BuildProject,
              RefuseToBuild, VerifyProject, SaveFails, Panic
<1> QED BY <1>1, <1>2, <1>3

LEMMA NextRefines == IInv /\ [Next]_vars => [Ledger!LedgerNext]_<<rendered, registered>>
<1> SUFFICES ASSUME IInv, [Next]_vars
             PROVE  [Ledger!LedgerNext]_<<rendered, registered>>
  OBVIOUS
<1>1. ASSUME NEW i \in Ids, WorkerStep(i)
      PROVE  [Ledger!LedgerNext]_<<rendered, registered>>
  BY <1>1, WorkerStepRefines DEF IInv
<1>2. ASSUME NEW i \in Ids, Recover(i) \/ RecoverUncertain(i)
      PROVE  [Ledger!LedgerNext]_<<rendered, registered>>
  <2>1. NeedsRecovery(i)
    BY <1>2, RecoveredRow DEF RecoveryAllowed
  <2> QED BY <1>2, <2>1, RelinkRegisters DEF Recover, RecoverUncertain, IInv
<1>3. ASSUME NEW i \in Ids, BeginRecovery(i) \/ RecoverFails(i)
      PROVE  UNCHANGED <<rendered, registered>>
  BY <1>3 DEF BeginRecovery, RecoverFails, SetItems, transactionVars
<1>4. CASE Recovery
  BY <1>2, <1>3, <1>4 DEF Recovery
<1>5. ASSUME NEW i \in Ids, CancelWaiting(i) \/ CancelActive(i) \/ Retry(i)
      PROVE  UNCHANGED <<rendered, registered>>
  BY <1>5 DEF CancelWaiting, CancelActive, Retry, SetItems, transactionVars, historyVars
<1>6. CASE SetPaused \/ ResumeRecovered \/ ClearFinished \/ \E j \in Jobs : Enqueue(j)
  BY <1>6 DEF SetPaused, ResumeRecovered, ClearFinished, Enqueue, SetItems,
              transactionVars
<1>7. CASE Operator
  BY <1>5, <1>6, <1>7 DEF Operator
<1>8. ASSUME NEW allow \in AllowStart, Frame(allow)
      PROVE  UNCHANGED <<rendered, registered>>
  BY <1>8 DEF Frame, PollWithStart, PollAndStart, Poll, historyVars
<1>9. CASE Environment
  BY <1>9 DEF Environment, ForeignEdit, ForeignCreate, ForeignRemove
<1>10. CASE Restart \/ RestartWithoutFile
  BY <1>10 DEF Restart, RestartWithoutFile, Died, historyVars
<1>11. CASE UNCHANGED vars
  BY <1>11 DEF vars, transactionVars
<1> QED BY <1>1, <1>4, <1>7, <1>8, <1>9, <1>10, <1>11 DEF Next

(***************************************************************************)
(* The batch queue implements BatchLedger: the Faces of a batch are        *)
(* published in Source order, each one linked into the Production project  *)
(* before the next one is published.                                       *)
(***************************************************************************)
THEOREM LedgerRefinement == Spec => LedgerKept
<1>1. Init => Ledger!LedgerInit
  BY DEF Init, TransactionInit, Ledger!LedgerInit
<1>2. IInv /\ [Next]_vars => [Ledger!LedgerNext]_(Ledger!ledger)
  BY NextRefines DEF Ledger!ledger
<1> QED BY <1>1, <1>2, InvariantHolds, PTL DEF Spec, LedgerKept, Ledger!LedgerSpec

-------------------------------------------------------------------------------
(***************************************************************************)
(* Files that are already there.                                           *)
(***************************************************************************)
\* Of all steps only a publication replaces the TIFF at a path.
LEMMA OnlyPublishReplaces ==
    ASSUME IInv, [Next]_vars, NEW t \in Tiffs, tiff[t] # None,
           tiff'[t] \notin {tiff[t], None}
    PROVE  \E i \in Ids : Publish(i)
<1> USE TransactionAssumption DEF TransactionAssumptions
<1>1. tiff' # tiff
  OBVIOUS
<1>2. ~UNCHANGED vars
  BY <1>1 DEF vars, transactionVars
<1>3. ~Operator
  BY <1>1 DEF Operator, Enqueue, SetPaused, ResumeRecovered, ClearFinished, CancelWaiting,
              CancelActive, Retry, SetItems, transactionVars, diskVars
<1>4. ~Recovery
  BY <1>1 DEF Recovery, BeginRecovery, Recover, RecoverUncertain, RecoverFails, SetItems,
              transactionVars
<1>5. \A allow \in AllowStart : ~Frame(allow)
  BY <1>1 DEF Frame, PollWithStart, Poll, PollAndStart, diskVars
<1>6. ~Restart /\ ~RestartWithoutFile
  BY <1>1 DEF Restart, RestartWithoutFile, Died, diskVars
<1>7. ~Environment
  <2>1. \A p \in Projects : ~ForeignEdit(p)
    BY <1>1 DEF ForeignEdit
  <2>2. ASSUME NEW u \in Tiffs, ForeignCreate(u) \/ ForeignRemove(u)
        PROVE  FALSE
    <3>1. \/ tiff[u] = None /\ tiff' = [tiff EXCEPT ![u] = Foreign]
          \/ tiff' = [tiff EXCEPT ![u] = None]
      BY <2>2 DEF ForeignCreate, ForeignRemove
    <3>2. tiff'[t] \in {tiff[t], None}
      BY <3>1 DEF IInv, QueueInv, QueueTypeOK
    <3> QED BY <3>2
  <2> QED BY <2>1, <2>2 DEF Environment
<1>8. PICK i \in Ids : WorkerStep(i)
  BY <1>2, <1>3, <1>4, <1>5, <1>6, <1>7 DEF Next
<1>9. Publish(i)
  BY <1>1, <1>8 DEF WorkerStep, DispositionForFace, HaltBeforeFace, Prepare,
     RefuseToRender, AbandonRender, ReadBack, ReadBackFails, LineageFails, BuildProject,
     RefuseToBuild, VerifyProject, WriteProject, WriteUncertain, SaveFails, Panic
<1> QED BY <1>9

(***************************************************************************)
(* A new-only conversion never replaces a file, even one that appeared     *)
(* after its capture: the publication itself is what checks                *)
(* (commit_staged_file_if_absent).                                         *)
(***************************************************************************)
THEOREM NewOnlyNeverReplaces == Spec => NewOnlyCommit
<1>1. ASSUME IInv, [Next]_vars, NEW t \in Tiffs, tiff[t] # None,
             tiff'[t] \in Jobs \ {tiff[t]}
      PROVE  ModeOf[tiff'[t]] = "UpdateExistingRoute"
  <2>1. PICK i \in Ids : Publish(i)
    BY <1>1, OnlyPublishReplaces, TransactionAssumption DEF TransactionAssumptions
  <2>2. tiff \in [Tiffs -> Bytes \cup {None}]
    BY <1>1 DEF IInv, QueueInv, QueueTypeOK
  <2>3. /\ MustNotExist(worker[i].job) => tiff[Path(worker[i])] = None
        /\ tiff' = [tiff EXCEPT ![Path(worker[i])] = worker[i].job]
    BY <2>1 DEF Publish
  <2>4. Path(worker[i]) = t /\ tiff'[t] = worker[i].job
    BY <1>1, <2>2, <2>3
  <2>5. ~MustNotExist(worker[i].job)
    BY <1>1, <2>3, <2>4
  <2> QED BY <2>4, <2>5 DEF MustNotExist
<1>2. IInv /\ [Next]_vars =>
        (\A t \in Tiffs :
            tiff[t] # None /\ tiff'[t] \in Jobs \ {tiff[t]} =>
                ModeOf[tiff'[t]] = "UpdateExistingRoute")
  BY <1>1
<1> QED BY <1>2, InvariantHolds, PTL DEF Spec, NewOnlyCommit
===============================================================================
