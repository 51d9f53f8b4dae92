--------------------- MODULE ConversionBatchWriterProofs ---------------------
(***************************************************************************)
(* The single writer of a Production project.  enqueue refuses a batch     *)
(* whose project or TIFFs are reserved by another row; retry does not      *)
(* look.  Until a row has been retried beside one that reserves the same   *)
(* destinations (ConversionBatchRetries!contended), three properties that  *)
(* the queue does not have in general hold for every set of ids, captures, *)
(* TIFF paths and projects:                                                *)
(*                                                                         *)
(*   - the TIFF a row waits to link is not replaced,                       *)
(*   - a save never puts back an older record of a Face,                   *)
(*   - a committed TIFF that is not linked has an owner.                   *)
(***************************************************************************)
EXTENDS ConversionBatchOrphanProofs, ConversionBatchRetries

\* A retry that is not contended: what the check of enqueue would let through.
RetryReserves ==
    \A i \in Ids : Retry(i) =>
        \A k \in Ids \ {i} :
            ReservesDestination(items[k].status) =>
                ~SharesDestination(items[k].job, items[i].job)

\* Two rows with work left share neither the project nor a TIFF.
ReservedApart(rows) ==
    \A i, k \in Ids :
        /\ i # k
        /\ ReservesDestination(rows[i].status)
        /\ ReservesDestination(rows[k].status)
        => ~SharesDestination(rows[i].job, rows[k].job)

Apart == ReservedApart(items) /\ ReservedApart(durable.items)

\* The TIFF that j has put at t is still there unless somebody has removed it.
TiffHeld(t, j) == tiff[t] # j => "remove" \in Faults /\ tiff[t] \notin Jobs

\* The project at p has the Faces it had when disp was captured.
FacesFit(p, disp) ==
    disp.mode # "CreateNew" =>
        project[p] # None /\ project[p].faces = disp.expected.faces

\* Past the commit, the TIFF of a worker is its own.
CommitHeld ==
    \A i \in Ids : worker[i].pc \in {"committed", "save", "verify", "write"} =>
        TiffHeld(Path(worker[i]), worker[i].job)

\* A worker that has verified the project may save over it.
WriteFits ==
    \A i \in Ids : worker[i].pc = "write" => FacesFit(Target(worker[i]), worker[i].disp)

\* So may a recovery that has checked it.
ReplayHeld ==
    recovering # None =>
        LET row == items[recovering]
        IN  /\ TiffHeld(PendingTiff(row), row.job)
            /\ row.rec.built # None
            /\ FacesFit(ProjectOf[row.job], row.rec.disp)

WriterInv == Apart /\ CommitHeld /\ WriteFits /\ ReplayHeld

-------------------------------------------------------------------------------
(***************************************************************************)
(* Reservations.                                                           *)
(***************************************************************************)
\* A row that reserves a destination reserved it before.
Follows(new, old) ==
    ReservesDestination(new.status) =>
        ReservesDestination(old.status) /\ new.job = old.job

LEMMA FollowersApart ==
    ASSUME NEW rows, NEW old, ReservedApart(old),
           \A i \in Ids : Follows(rows[i], old[i])
    PROVE  ReservedApart(rows)
BY DEF ReservedApart, Follows

LEMMA SavedRowFollows ==
    ASSUME NEW row \in Item \cup {Absent}
    PROVE  Follows(SavedRow(row), row)
<1>1. CASE row.status \in {"Absent", "Done"}
  BY <1>1 DEF SavedRow, Follows, ReservesDestination, Absent
<1>2. CASE row.status \notin {"Absent", "Done"}
  <2>1. row \in Item /\ SavedRow(row) = [row EXCEPT !.resume = FALSE]
    BY <1>2 DEF SavedRow, Absent
  <2>2. SavedRow(row).status = row.status /\ SavedRow(row).job = row.job
    BY <2>1 DEF Item
  <2> QED BY <2>2 DEF Follows
<1> QED BY <1>1, <1>2

LEMMA LoadedRowFollows ==
    ASSUME NEW row \in Item \cup {Absent}
    PROVE  Follows(LoadedRow(row), row)
<1>1. CASE row.status = "Absent"
  BY <1>1 DEF LoadedRow, Follows, ReservesDestination, Absent
<1>2. CASE row.status # "Absent"
  <2> DEFINE status == Restored(row.status)
             resume == Interrupted(row.status)
  <2>1. row \in Item /\ LoadedRow(row) = [row EXCEPT !.status = status, !.resume = resume]
    BY <1>2 DEF LoadedRow, Absent
  <2>2. ReservesDestination(status) => ReservesDestination(row.status)
    BY DEF Restored, Interrupted, ReservesDestination
  <2> HIDE DEF status, resume
  <2>3. LoadedRow(row).status = status /\ LoadedRow(row).job = row.job
    BY <2>1 DEF Item
  <2> QED BY <2>2, <2>3 DEF Follows
<1> QED BY <1>1, <1>2

LEMMA SaveApart ==
    ASSUME NEW rows \in Rows, NEW nid, NEW psd, NEW old,
           ReservedApart(rows), ReservedApart(old.items),
           NEW new \in AfterSave(rows, nid, psd, old)
    PROVE  ReservedApart(new.items)
<1>1. new = Snapshot(rows, nid, psd) \/ new = old
  BY DEF AfterSave, Saved
<1>2. CASE new = Snapshot(rows, nid, psd)
  <2>1. \A i \in Ids : new.items[i] = SavedRow(rows[i])
    BY <1>2 DEF Snapshot
  <2>2. \A i \in Ids : Follows(new.items[i], rows[i])
    BY <2>1, SavedRowFollows DEF Rows
  <2> QED BY <2>2, FollowersApart
<1> QED BY <1>1, <1>2

\* A step that saves the rows it leaves.
LEMMA SavingApart ==
    ASSUME Apart, items' \in Rows, ReservedApart(items'), Persist(items', nextId', paused')
    PROVE  Apart'
<1>1. ReservedApart(durable'.items)
  BY SaveApart DEF Apart, Persist
<1> QED BY <1>1 DEF Apart, ReservedApart

\* A step after which one row may reserve the destinations of j.
LEMMA NewcomerApart ==
    ASSUME ReservedApart(items), NEW rows, NEW i \in Ids, NEW j \in Jobs, rows[i].job = j,
           \A k \in Ids \ {i} : rows[k] = items[k],
           \A k \in Ids \ {i} : ReservesDestination(items[k].status) =>
               ~SharesDestination(items[k].job, j)
    PROVE  ReservedApart(rows)
<1>1. ASSUME NEW k \in Ids, NEW m \in Ids, k # m, k # i,
             ReservesDestination(rows[k].status), ReservesDestination(rows[m].status)
      PROVE  ~SharesDestination(rows[k].job, rows[m].job)
  BY <1>1 DEF ReservedApart
<1>2. \A k, m : SharesDestination(k, m) <=> SharesDestination(m, k)
  BY DEF SharesDestination
<1> QED BY <1>1, <1>2 DEF ReservedApart

-------------------------------------------------------------------------------
\* Between operator actions, the poll and a recovery every row that reserves
\* its destinations did so before.
LEMMA SetItemsApart ==
    ASSUME Apart, QueueInv', NEW rows, SetItems(rows),
           \A i \in Ids : Follows(rows[i], items[i])
    PROVE  Apart'
<1>1. items' = rows /\ items' \in Rows /\ Persist(items', nextId', paused')
  BY DEF SetItems, Persist, QueueInv, QueueTypeOK
<1>2. ReservedApart(rows)
  BY FollowersApart DEF Apart
<1> QED BY <1>1, <1>2, SavingApart

LEMMA EnqueueApart ==
    ASSUME Apart, QueueInv, QueueInv', NEW j \in Jobs, Enqueue(j)
    PROVE  Apart'
<1> DEFINE row == [job |-> j, status |-> "Waiting", resume |-> FALSE, done |-> 0,
                   expected |-> project[ProjectOf[j]], rec |-> None]
<1>1. /\ items' = [items EXCEPT ![nextId] = row] /\ nextId \in Ids
      /\ \A i \in Ids : ReservesDestination(items[i].status) =>
             ~SharesDestination(items[i].job, j)
      /\ paused' = paused /\ Persist(items', nextId', paused)
  BY DEF Enqueue
<1>2. row.job = j
  OBVIOUS
<1> HIDE DEF row
<1>3. items'[nextId].job = j /\ \A k \in Ids \ {nextId} : items'[k] = items[k]
  BY <1>1, <1>2 DEF QueueInv, QueueTypeOK, Rows
<1>4. ReservedApart(items')
  BY <1>1, <1>3, NewcomerApart DEF Apart
<1>5. items' \in Rows /\ Persist(items', nextId', paused')
  BY <1>1 DEF Persist, QueueInv, QueueTypeOK
<1> QED BY <1>4, <1>5, SavingApart

LEMMA RetryApart ==
    ASSUME Apart, QueueInv, QueueInv', RetryReserves, NEW i \in Ids, Retry(i)
    PROVE  Apart'
<1> DEFINE rows == [items EXCEPT ![i].status = "Waiting", ![i].resume = FALSE,
                                 ![i].rec = None]
<1>1. SetItems(rows) /\ items[i].status # "Absent"
  BY DEF Retry
<1>2. items[i] \in Item /\ items \in Rows
  BY <1>1, PresentRow DEF QueueInv, QueueTypeOK
<1>3. /\ rows[i] = [items[i] EXCEPT !.status = "Waiting", !.resume = FALSE, !.rec = None]
      /\ \A k \in Ids \ {i} : rows[k] = items[k]
  BY <1>2 DEF Rows
<1> HIDE DEF rows
<1>4. rows[i].job = items[i].job /\ items[i].job \in Jobs
  BY <1>2, <1>3 DEF Item
<1>5. \A k \in Ids \ {i} : ReservesDestination(items[k].status) =>
          ~SharesDestination(items[k].job, items[i].job)
  BY DEF RetryReserves
<1>6. ReservedApart(rows)
  BY <1>3, <1>4, <1>5, NewcomerApart DEF Apart
<1>7. items' = rows /\ items' \in Rows /\ Persist(items', nextId', paused')
  BY <1>1 DEF SetItems, Persist, QueueInv, QueueTypeOK
<1> QED BY <1>6, <1>7, SavingApart

LEMMA OperatorApart ==
    ASSUME Apart, QueueInv, QueueInv', Operator, RetryReserves
    PROVE  Apart'
<1>1. CASE SetPaused
  <2>1. items' = items /\ items' \in Rows /\ Persist(items', nextId', paused')
    BY <1>1 DEF SetPaused, Persist, QueueInv, QueueTypeOK
  <2> QED BY <2>1, SavingApart DEF Apart, ReservedApart
<1>2. CASE ResumeRecovered
  <2> DEFINE held == {i \in Ids : items[i].status = "Waiting" /\ items[i].resume}
             rows == [i \in Ids |-> IF i \in held THEN [items[i] EXCEPT !.resume = FALSE]
                                                   ELSE items[i]]
  <2>1. SetItems(rows)
    BY <1>2 DEF ResumeRecovered
  <2>2. ASSUME NEW k \in Ids PROVE Follows(rows[k], items[k])
    <3>1. CASE k \in held
      <4>1. items[k] \in Item /\ rows[k] = [items[k] EXCEPT !.resume = FALSE]
        BY <3>1, PresentRow
      <4> HIDE DEF rows
      <4> QED BY <4>1 DEF Item, Follows
    <3>2. CASE k \notin held
      BY <3>2 DEF Follows
    <3> QED BY <3>1, <3>2
  <2> HIDE DEF rows
  <2> QED BY <2>1, <2>2, SetItemsApart
<1>3. CASE ClearFinished
  <2> DEFINE gone == {i \in Ids : Finished(items[i].status)}
             rows == [i \in Ids |-> IF i \in gone THEN Absent ELSE items[i]]
  <2>1. SetItems(rows)
    BY <1>3 DEF ClearFinished
  <2>2. \A k \in Ids : Follows(rows[k], items[k])
    BY DEF Absent, Follows, ReservesDestination
  <2> HIDE DEF rows
  <2> QED BY <2>1, <2>2, SetItemsApart
<1>4. ASSUME NEW i \in Ids, CancelWaiting(i) PROVE Apart'
  <2> DEFINE rows == [items EXCEPT ![i].status = "Cancelled", ![i].resume = FALSE]
  <2>1. SetItems(rows) /\ items[i].status # "Absent"
    BY <1>4 DEF CancelWaiting
  <2>2. items[i] \in Item /\ items \in Rows
    BY <2>1, PresentRow DEF QueueInv, QueueTypeOK
  <2>3. rows[i].status = "Cancelled" /\ \A k \in Ids \ {i} : rows[k] = items[k]
    BY <2>2 DEF Rows, Item
  <2>4. \A k \in Ids : Follows(rows[k], items[k])
    BY <2>3 DEF Follows, ReservesDestination
  <2> HIDE DEF rows
  <2> QED BY <2>1, <2>4, SetItemsApart
<1>5. ASSUME NEW i \in Ids, CancelActive(i) PROVE Apart'
  BY <1>5 DEF CancelActive, queueVars, Apart, ReservedApart
<1>6. ASSUME NEW j \in Jobs, Enqueue(j) PROVE Apart'
  BY <1>6, EnqueueApart
<1>7. ASSUME NEW i \in Ids, Retry(i) PROVE Apart'
  BY <1>7, RetryApart
<1> QED BY <1>1, <1>2, <1>3, <1>4, <1>5, <1>6, <1>7 DEF Operator

LEMMA RecoveryApart ==
    ASSUME Apart, IInv, IInv', Recovery
    PROVE  Apart'
<1>1. ASSUME NEW i \in Ids, BeginRecovery(i) PROVE Apart'
  BY <1>1 DEF BeginRecovery, queueVars, Apart, ReservedApart
<1>2. ASSUME NEW i \in Ids, Recover(i) PROVE Apart'
  <2>1. RecoveryAllowed(i)
    BY <1>2, RecoveredRow
  <2>2. items[i] \in Item /\ items \in Rows /\ items[i].status = "NeedsRecovery"
    BY <2>1, PresentRow DEF IInv, QueueInv, QueueTypeOK, RecoveryAllowed, NeedsRecovery
  <2>3. /\ items' = [items EXCEPT ![i] = Advance(items[i])] /\ items' \in Rows
        /\ Persist(items', nextId', paused')
    BY <1>2 DEF Recover, Persist, IInv, QueueInv, QueueTypeOK
  <2>4. Advance(items[i]).job = items[i].job
    BY <2>2 DEF Advance, Item
  <2>5. \A k \in Ids : Follows(items'[k], items[k])
    BY <2>2, <2>3, <2>4 DEF Follows, ReservesDestination, Rows
  <2>6. ReservedApart(items')
    BY <2>5, FollowersApart DEF Apart
  <2> QED BY <2>3, <2>6, SavingApart
<1>3. ASSUME NEW i \in Ids, RecoverUncertain(i) \/ RecoverFails(i) PROVE Apart'
  <2>1. items' = items /\ items' \in Rows /\ Persist(items', nextId', paused')
    BY <1>3 DEF RecoverUncertain, RecoverFails, SetItems, Persist, queueVars, IInv, QueueInv,
                QueueTypeOK
  <2> QED BY <2>1, SavingApart DEF Apart, ReservedApart
<1> QED BY <1>1, <1>2, <1>3 DEF Recovery

LEMMA DrainedFollows ==
    ASSUME QueueInv, NEW i \in Ids
    PROVE  Follows(Drained[i], items[i])
<1>1. CASE i \in Reported
  <2>1. items[i] \in Item /\ items[i].status = "Processing"
    BY <1>1, ReportFits
  <2>2. Drained[i] = ApplyStepOutcome(items[i], worker[i])
    BY <1>1, <2>1 DEF Drained
  <2>3. Advance(items[i]).job = items[i].job
    BY <2>1 DEF Advance, Item
  <2>4. ApplyStepOutcome(items[i], worker[i]).job = items[i].job
    BY <2>1, <2>3 DEF ApplyStepOutcome, Item
  <2> QED BY <2>1, <2>2, <2>4 DEF Follows, ReservesDestination
<1>2. CASE i \notin Reported
  BY <1>2 DEF Drained, Follows
<1> QED BY <1>1, <1>2

LEMMA PollApart ==
    ASSUME Apart, QueueInv, QueueInv', NEW allow \in AllowStart, PollWithStart(allow)
    PROVE  Apart'
<1>1. ReservedApart(Drained) /\ Drained \in Rows
  BY DrainedFollows, FollowersApart, DrainedSound DEF Apart
<1>2. CASE Poll
  <2>1. items' = Drained /\ Persist(items', nextId', paused')
    BY <1>2 DEF Poll, Persist
  <2> QED BY <1>1, <2>1, SavingApart
<1>3. ASSUME NEW i \in Ids, PollAndStart(i) PROVE Apart'
  <2> DEFINE started == [Drained EXCEPT ![i].status = "Processing"]
  <2>1. items' = started /\ Drained[i].status = "Waiting"
    BY <1>3 DEF PollAndStart, IsFirst, Ready
  <2>2. Drained[i] \in Item
    BY <1>1, <2>1 DEF Rows, Absent
  <2>3. /\ started[i].job = Drained[i].job
        /\ \A k \in Ids \ {i} : started[k] = Drained[k]
    BY <1>1, <2>2 DEF Rows, Item
  <2>4. PICK saved \in IF Reported = {} THEN {durable}
                       ELSE AfterSave(Drained, nextId, paused, durable) :
            durable' \in AfterSave(started, nextId, paused, saved)
    BY <1>3 DEF PollAndStart
  <2> HIDE DEF started
  <2>5. \A k \in Ids : Follows(started[k], Drained[k])
    BY <2>1, <2>3 DEF Follows, ReservesDestination
  <2>6. ReservedApart(started) /\ started \in Rows
    BY <1>1, <2>1, <2>5, FollowersApart DEF QueueInv, QueueTypeOK
  <2>7. ReservedApart(saved.items)
    BY <1>1, <2>4, SaveApart DEF Apart
  <2>8. ReservedApart(durable'.items)
    BY <2>4, <2>6, <2>7, SaveApart
  <2> QED BY <2>1, <2>6, <2>8 DEF Apart, ReservedApart
<1> QED BY <1>2, <1>3 DEF PollWithStart

LEMMA RestartApart ==
    ASSUME Apart, QueueInv, Restart \/ RestartWithoutFile
    PROVE  Apart'
<1>1. durable' = durable
  BY DEF Restart, RestartWithoutFile, Died
<1>2. ReservedApart(items')
  <2>1. CASE Restart
    <3>1. \A k \in Ids : items'[k] = LoadedRow(durable.items[k])
      BY <2>1 DEF Restart
    <3>2. \A k \in Ids : Follows(items'[k], durable.items[k])
      BY <3>1, LoadedRowFollows DEF QueueInv, QueueTypeOK, Envelope, Rows
    <3> QED BY <3>2, FollowersApart DEF Apart
  <2>2. CASE RestartWithoutFile
    BY <2>2 DEF RestartWithoutFile, EmptyRows, Absent, ReservedApart, ReservesDestination
  <2> QED BY <2>1, <2>2
<1> QED BY <1>1, <1>2 DEF Apart, ReservedApart

-------------------------------------------------------------------------------
(***************************************************************************)
(* The files.                                                              *)
(***************************************************************************)
\* The next Face of a row that needs recovery.
LEMMA PendingFace ==
    ASSUME QueueInv, NEW k \in Ids, items[k].status = "NeedsRecovery"
    PROVE  /\ items[k] \in Item /\ items[k].job \in Jobs
           /\ items[k].done + 1 \in 1..FaceCount(items[k].job)
           /\ PendingTiff(items[k]) \in TiffsOf(items[k].job)
           /\ PendingTiff(items[k]) \in Tiffs
           /\ ProjectOf[items[k].job] \in Projects
<1> USE TransactionAssumption DEF TransactionAssumptions
<1>1. items[k] \in Item /\ RowSound(items[k], registered, rendered)
  BY PresentRow
<1>2. items[k].job \in Jobs /\ items[k].done \in Nat
  BY <1>1 DEF Item
<1>3. items[k].done < FaceCount(items[k].job)
  BY <1>1 DEF RowSound
<1>4. items[k].done + 1 \in 1..Len(FacesOf[items[k].job])
  BY <1>2, <1>3 DEF FaceCount
<1>5. PendingTiff(items[k]) \in Tiffs /\ ProjectOf[items[k].job] \in Projects
  BY <1>2, <1>4 DEF PendingTiff
<1>6. PendingTiff(items[k]) \in TiffsOf(items[k].job)
  BY <1>4 DEF PendingTiff, TiffsOf, FaceCount
<1> QED BY <1>1, <1>2, <1>4, <1>5, <1>6 DEF FaceCount

\* A worker and a row that needs recovery have nothing in common.
LEMMA WorkerApart ==
    ASSUME QueueInv, Apart, NEW i \in Ids, worker[i].pc # "idle",
           NEW k \in Ids, items[k].status = "NeedsRecovery"
    PROVE  /\ Target(worker[i]) # ProjectOf[items[k].job]
           /\ Path(worker[i]) # PendingTiff(items[k])
<1>1. /\ items[i].status = "Processing" /\ worker[i].job = items[i].job
      /\ worker[i].ord < FaceCount(worker[i].job)
  BY DEF QueueInv, SingleWorker
<1>2. worker[i].ord \in Nat /\ worker[i].job \in Jobs
  BY RunningWorker DEF Running
<1>3. FaceCount(worker[i].job) \in Nat
  BY <1>2, TransactionAssumption DEF FaceCount, TransactionAssumptions
<1>4. worker[i].ord + 1 \in 1..FaceCount(worker[i].job)
  BY <1>1, <1>2, <1>3
<1>5. Path(worker[i]) \in TiffsOf(worker[i].job)
  BY <1>4 DEF Path, TiffsOf
<1>6. ~SharesDestination(items[i].job, items[k].job)
  BY <1>1 DEF Apart, ReservedApart, ReservesDestination
<1>7. PendingTiff(items[k]) \in TiffsOf(items[k].job)
  BY PendingFace
<1> QED BY <1>1, <1>5, <1>6, <1>7 DEF SharesDestination, Target

\* A save of the project at p that puts the Face t of j in its place and keeps
\* the others.
SavesFace(p, t, j) ==
    /\ t \in Tiffs
    /\ UNCHANGED tiff
    /\ TiffHeld(t, j)
    /\ \A q \in Projects \ {p} : project'[q] = project[q]
    /\ project'[p] # None
    /\ project'[p].faces[t] = j
    /\ project[p] # None =>
           \A u \in Tiffs \ {t} : project'[p].faces[u] = project[p].faces[u]

\* All that a save has to rely on.
ReadyToSave(built, disp, t, j, p) ==
    /\ built # None
    /\ BuiltFrom(built, disp, t, j)
    /\ FacesFit(p, disp)
    /\ IF disp.mode = "CreateNew" THEN project[p] = None ELSE disp.expected # None

\* What a captured project becomes when the Face t of j is put in its place.
LEMMA BuiltFaces ==
    ASSUME NEW built, NEW disp \in Disposition, NEW t \in Tiffs, NEW j, NEW p \in Projects,
           ReadyToSave(built, disp, t, j, p)
    PROVE  /\ built.faces[t] = j
           /\ project[p] # None => \A u \in Tiffs \ {t} : built.faces[u] = project[p].faces[u]
<1>1. built.faces[t] = j
  BY DEF ReadyToSave, BuiltFrom
<1>2. ASSUME project[p] # None
      PROVE  \A u \in Tiffs \ {t} : built.faces[u] = project[p].faces[u]
  <2>1. disp.mode # "CreateNew"
    BY <1>2 DEF ReadyToSave
  <2>2. disp.expected \in Project
    BY <2>1 DEF ReadyToSave, Disposition, MaybeProject
  <2>3. disp.expected.faces \in [Tiffs -> Bytes \cup {None}]
    BY <2>2 DEF Project
  <2>4. /\ built.faces = [disp.expected.faces EXCEPT ![t] = j]
        /\ project[p].faces = disp.expected.faces
    BY <2>1 DEF ReadyToSave, BuiltFrom, FacesFit
  <2> QED BY <2>3, <2>4
<1> QED BY <1>1, <1>2

LEMMA WorkerSavesFace ==
    ASSUME QueueInv, Exact, CommitHeld, WriteFits, NEW i \in Ids,
           WriteProject(i) \/ WriteUncertain(i)
    PROVE  SavesFace(Target(worker[i]), Path(worker[i]), worker[i].job)
<1> DEFINE w == worker[i]
           p == Target(w)
<1>1. /\ w.pc = "write" /\ MayWrite(w) /\ UNCHANGED tiff
      /\ project' = [project EXCEPT ![p] = w.built]
  BY DEF WriteProject, WriteUncertain, Link
<1>2. /\ w \in Running /\ Path(w) \in Tiffs /\ p \in Projects
      /\ WorkerSound(w, registered, rendered) /\ WorkerExact(w)
  BY <1>1, RunningWorker DEF Exact
<1>3. /\ w.built # None /\ BuiltFrom(w.built, w.disp, Path(w), w.job)
      /\ w.disp.mode # "CreateNew" => w.disp.expected # None
      /\ w.disp.mode = "CreateNew" => project[p] = None
      /\ w.disp \in Disposition
  <2>1. w.built # None /\ BuiltFrom(w.built, w.disp, Path(w), w.job)
    BY <1>1, <1>2 DEF WorkerExact
  <2>2. w.disp.mode # "CreateNew" => w.disp.expected # None
    BY <1>1, <1>2 DEF WorkerSound
  <2>3. w.disp.mode = "CreateNew" => project[p] = None
    BY <1>1 DEF MayWrite
  <2>4. w.disp \in Disposition
    BY <1>2 DEF Running
  <2> QED BY <2>1, <2>2, <2>3, <2>4
<1>4. FacesFit(p, w.disp) /\ TiffHeld(Path(w), w.job)
  BY <1>1 DEF WriteFits, CommitHeld
<1>5. project'[p] = w.built /\ \A q \in Projects \ {p} : project'[q] = project[q]
  BY <1>1, <1>2 DEF QueueInv, QueueTypeOK
<1>6. /\ w.built.faces[Path(w)] = w.job
      /\ project[p] # None =>
             \A u \in Tiffs \ {Path(w)} : w.built.faces[u] = project[p].faces[u]
  <2>1. ReadyToSave(w.built, w.disp, Path(w), w.job, p)
    BY <1>3, <1>4 DEF ReadyToSave
  <2> QED BY <1>2, <1>3, <2>1, BuiltFaces
<1> QED BY <1>1, <1>2, <1>3, <1>4, <1>5, <1>6 DEF SavesFace

LEMMA RecoverySavesFace ==
    ASSUME IInv, Exact, ReplayHeld, NEW i \in Ids, Recover(i) \/ RecoverUncertain(i)
    PROVE  /\ SavesFace(ProjectOf[items[i].job], PendingTiff(items[i]), items[i].job)
           /\ items[i].status = "NeedsRecovery" /\ UNCHANGED worker
<1> DEFINE row == items[i]
           p == ProjectOf[row.job]
           t == PendingTiff(row)
<1>1. /\ RecoveryAllowed(i) /\ QueueInv /\ UNCHANGED <<tiff, worker>>
      /\ project' = [project EXCEPT ![p] = row.rec.built]
  BY RecoveredRow DEF Recover, RecoverUncertain, Relink, IInv
<1>2. row.status = "NeedsRecovery" /\ row.rec # None
  BY <1>1 DEF RecoveryAllowed, NeedsRecovery
<1>3. /\ row \in Item /\ t \in Tiffs /\ p \in Projects /\ RowExact(row)
      /\ row.rec \in Record
  BY <1>1, <1>2, PendingFace DEF Exact, Item
<1>4. project'[p] = row.rec.built /\ \A q \in Projects \ {p} : project'[q] = project[q]
  BY <1>1, <1>3 DEF QueueInv, QueueTypeOK
<1>5. BuiltFrom(row.rec.built, row.rec.disp, t, row.job)
  BY <1>2, <1>3 DEF RowExact
<1>6. CASE Replay(i)
  <2>1. recovering = i /\ i # None /\ MayReplay(row.job, row.rec)
    BY <1>6, TransactionAssumption DEF Replay, TransactionAssumptions
  <2>2. TiffHeld(t, row.job) /\ row.rec.built # None /\ FacesFit(p, row.rec.disp)
    BY <2>1 DEF ReplayHeld
  <2>3. /\ row.rec.disp \in Disposition
        /\ row.rec.disp.mode # "CreateNew" => row.rec.disp.expected # None
        /\ row.rec.disp.mode = "CreateNew" => project[p] = None
    <3>1. row.rec.disp \in Disposition
      BY <1>3 DEF Record
    <3>2. row.rec.disp.mode # "CreateNew" => row.rec.disp.expected # None
      BY <1>2, <1>3 DEF RowExact
    <3>3. row.rec.disp.mode = "CreateNew" => project[p] = None
      BY <2>1 DEF MayReplay
    <3> QED BY <3>1, <3>2, <3>3
  <2>4. /\ row.rec.built.faces[t] = row.job
        /\ project[p] # None =>
               \A u \in Tiffs \ {t} : row.rec.built.faces[u] = project[p].faces[u]
    <3>1. ReadyToSave(row.rec.built, row.rec.disp, t, row.job, p)
      BY <1>5, <2>2, <2>3 DEF ReadyToSave
    <3> QED BY <1>3, <2>3, <3>1, BuiltFaces
  <2> QED BY <1>1, <1>2, <1>3, <1>4, <2>2, <2>4 DEF SavesFace
<1>7. CASE Linked(i)
  <2>1. tiff[t] = row.job /\ row.rec.built # None /\ project[p] = row.rec.built
    BY <1>7 DEF Linked, AlreadyLinked, Recoverable
  <2>2. row.rec.built.faces[t] = row.job
    BY <1>5, <2>1 DEF BuiltFrom
  <2> QED BY <1>1, <1>2, <1>3, <1>4, <2>1, <2>2 DEF SavesFace, TiffHeld
<1> QED BY <1>6, <1>7 DEF Recover, RecoverUncertain

-------------------------------------------------------------------------------
(***************************************************************************)
(* The steps of a worker.                                                  *)
(***************************************************************************)
\* The steps that reach the later places of a worker.
LEMMA LateSteps ==
    ASSUME QueueInv, NEW i \in Ids, WorkerStep(i),
           worker'[i].pc \in {"committed", "save", "verify", "write"}
    PROVE  Publish(i) \/ ReadBack(i) \/ BuildProject(i) \/ VerifyProject(i)
<1>1. worker[i] \in Running /\ worker \in [Ids -> Running \cup {Idle}]
  <2>1. worker[i].pc # "idle"
    BY WorkerStepSound DEF WorkerKept, Running, Pcs
  <2> QED BY <2>1, RunningWorker DEF QueueInv, QueueTypeOK
<1>2. ASSUME NEW outcome, Finish(i, outcome) PROVE FALSE
  BY <1>1, <1>2 DEF Finish, Running
<1>3. ~Prepare(i)
  BY <1>1 DEF Prepare, Goto, Running
<1>4. ~DispositionForFace(i)
  <2> SUFFICES ASSUME DispositionForFace(i) PROVE FALSE
    OBVIOUS
  <2> DEFINE fresh == [mode |-> IF MustNotExist(worker[i].job) THEN "AppendExisting"
                                 ELSE "UpdateExistingRoute",
                        expected |-> project[Target(worker[i])]]
             d == IF worker[i].ord = 0 THEN worker[i].disp ELSE fresh
  <2>1. worker' = [worker EXCEPT ![i].pc = "prepare", ![i].disp = d]
    BY DEF DispositionForFace
  <2> HIDE DEF d
  <2>2. worker'[i] = [worker[i] EXCEPT !.pc = "prepare", !.disp = d]
    BY <1>1, <2>1
  <2> QED BY <1>1, <2>2 DEF Running
<1> QED BY <1>2, <1>3, <1>4
        DEF WorkerStep, HaltBeforeFace, RefuseToRender, AbandonRender, ReadBackFails,
            LineageFails, RefuseToBuild, WriteProject, WriteUncertain, SaveFails, Panic,
            FailOrCancel

\* What a step of a worker does to the files.
WorkerTouches(i) ==
    /\ \/ UNCHANGED tiff
       \/ Publish(i)
    /\ \/ UNCHANGED project
       \/ WriteProject(i) \/ WriteUncertain(i)

LEMMA WorkerFiles ==
    ASSUME NEW i \in Ids, WorkerStep(i)
    PROVE  WorkerTouches(i)
BY DEF WorkerTouches, WorkerStep, DispositionForFace, HaltBeforeFace, Prepare, RefuseToRender,
       AbandonRender, ReadBack, ReadBackFails, LineageFails, BuildProject, RefuseToBuild,
       VerifyProject, SaveFails, Panic, WriteProject, WriteUncertain, Publish

LEMMA WorkerKeepsWriterInv ==
    ASSUME QueueInv, RecoveryUndisturbed, Exact, WriterInv, NEW i \in Ids,
           WorkerStep(i), Elsewhere
    PROVE  WriterInv'
<1> DEFINE w == worker[i]
<1>1. /\ w \in Running /\ worker'[i] \in Running /\ w.pc # "idle"
      /\ worker' = [worker EXCEPT ![i] = worker'[i]]
      /\ worker'[i].job = w.job /\ worker'[i].ord = w.ord
      /\ worker \in [Ids -> Running \cup {Idle}]
  BY WorkerStepSound DEF WorkerKept, Running, Pcs, QueueInv, QueueTypeOK
<1>2. /\ Path(w) \in Tiffs /\ Target(w) \in Projects
      /\ WorkerSound(w, registered, rendered)
      /\ \A k \in Ids \ {i} : worker'[k] = Idle
  BY <1>1, RunningWorker, OnlyWorker
<1>3. UNCHANGED <<items, durable, recovering>>
  BY DEF Elsewhere, queueVars
<1>4. Path(worker'[i]) = Path(w) /\ Target(worker'[i]) = Target(w)
  BY <1>1 DEF Path, Target
<1>5. WorkerTouches(i)
  BY WorkerFiles
<1>6. tiff \in [Tiffs -> Bytes \cup {None}] /\ project \in [Projects -> MaybeProject]
  BY DEF QueueInv, QueueTypeOK
<1>7. /\ \A t \in Tiffs \ {Path(w)} : tiff'[t] = tiff[t]
      /\ \A p \in Projects \ {Target(w)} : project'[p] = project[p]
  BY <1>5, <1>6 DEF WorkerTouches, Publish, WriteProject, WriteUncertain, Link
<1>8. Apart'
  BY <1>3 DEF WriterInv, Apart, ReservedApart
<1>9. CommitHeld'
  <2>1. ASSUME worker'[i].pc \in {"committed", "save", "verify", "write"}
        PROVE  tiff'[Path(w)] # w.job => "remove" \in Faults /\ tiff'[Path(w)] \notin Jobs
    <3>1. CASE Publish(i)
      BY <1>2, <1>6, <3>1 DEF Publish
    <3>2. CASE ReadBack(i) \/ BuildProject(i) \/ VerifyProject(i)
      <4>1. w.pc \in {"committed", "save", "verify"} /\ UNCHANGED tiff
        BY <3>2 DEF ReadBack, BuildProject, VerifyProject
      <4> QED BY <4>1 DEF WriterInv, CommitHeld, TiffHeld
    <3> QED BY <2>1, <3>1, <3>2, LateSteps
  <2> QED BY <1>1, <1>2, <1>4, <2>1 DEF CommitHeld, TiffHeld, Idle
<1>10. WriteFits'
  <2>1. ASSUME worker'[i].pc = "write", worker'[i].disp.mode # "CreateNew"
        PROVE  /\ project'[Target(w)] # None
               /\ project'[Target(w)].faces = worker'[i].disp.expected.faces
    <3>1. CASE Publish(i) \/ ReadBack(i)
      BY <1>1, <2>1, <3>1 DEF Publish, ReadBack, Goto, Running
    <3>2. CASE BuildProject(i)
      <4> DEFINE pc == IF w.disp.mode = "CreateNew" THEN "write" ELSE "verify"
                 built == Deterministic(w)
      <4>1. worker'[i] = [w EXCEPT !.pc = pc, !.built = built]
        BY <1>1, <3>2 DEF BuildProject
      <4> HIDE DEF built
      <4>2. worker'[i].pc = pc /\ worker'[i].disp = w.disp
        BY <1>1, <4>1 DEF Running
      <4> QED BY <2>1, <4>2
    <3>3. CASE VerifyProject(i)
      <4>1. worker'[i] = [w EXCEPT !.pc = "write"]
        BY <1>1, <3>3 DEF VerifyProject, Goto
      <4>2. worker'[i].disp = w.disp /\ UNCHANGED project /\ project[Target(w)] = w.disp.expected
        BY <1>1, <3>3, <4>1 DEF VerifyProject, Running
      <4> QED BY <1>2, <2>1, <4>2, <1>1 DEF WorkerSound
    <3> QED BY <2>1, <3>1, <3>2, <3>3, LateSteps
  <2> QED BY <1>1, <1>2, <1>4, <2>1 DEF WriteFits, FacesFit, Idle
<1>11. ReplayHeld'
  <2> SUFFICES ASSUME recovering # None
               PROVE  ReplayHeld'
    BY <1>3 DEF ReplayHeld
  <2> DEFINE row == items[recovering]
  <2>1. recovering \in Ids /\ row.status = "NeedsRecovery"
    BY DEF RecoveryUndisturbed, RecoveryAllowed, NeedsRecovery
  <2>2. /\ Target(w) # ProjectOf[row.job] /\ Path(w) # PendingTiff(row)
        /\ PendingTiff(row) \in Tiffs /\ ProjectOf[row.job] \in Projects
    BY <1>1, <2>1, WorkerApart, PendingFace DEF WriterInv
  <2>3. /\ tiff'[PendingTiff(row)] = tiff[PendingTiff(row)]
        /\ project'[ProjectOf[row.job]] = project[ProjectOf[row.job]]
    BY <1>7, <2>2
  <2> QED BY <1>3, <2>3 DEF WriterInv, ReplayHeld, TiffHeld, FacesFit
<1> QED BY <1>8, <1>9, <1>10, <1>11 DEF WriterInv

-------------------------------------------------------------------------------
(***************************************************************************)
(* The other steps.                                                        *)
(***************************************************************************)
LEMMA EnvironmentKeepsWriterInv ==
    ASSUME QueueInv, RecoveryUndisturbed, WriterInv, Environment, Elsewhere
    PROVE  WriterInv'
<1>1. UNCHANGED <<items, durable, recovering>>
  BY DEF Elsewhere, queueVars
<1>2. /\ UNCHANGED worker
      /\ \A p \in Projects : /\ project'[p] # None <=> project[p] # None
                             /\ project[p] # None => project'[p].faces = project[p].faces
      /\ \A t \in Tiffs : /\ tiff'[t] \in Jobs => tiff'[t] = tiff[t]
                          /\ tiff'[t] # tiff[t] => tiff[t] = None \/ "remove" \in Faults
  BY EnvironmentSteps DEF EnvironmentTouches, SameFaces
<1>3. ASSUME NEW t \in Tiffs, NEW j \in Jobs, TiffHeld(t, j) PROVE TiffHeld(t, j)'
  BY <1>2, <1>3, TransactionAssumption DEF TiffHeld, TransactionAssumptions
<1>4. ASSUME NEW p \in Projects, NEW disp, FacesFit(p, disp)
      PROVE  disp.mode # "CreateNew" =>
                 project'[p] # None /\ project'[p].faces = disp.expected.faces
  BY <1>2, <1>4 DEF FacesFit
<1>5. Apart'
  BY <1>1 DEF WriterInv, Apart, ReservedApart
<1>6. CommitHeld'
  <2> SUFFICES ASSUME NEW i \in Ids,
                      worker[i].pc \in {"committed", "save", "verify", "write"}
               PROVE  TiffHeld(Path(worker[i]), worker[i].job)'
    BY <1>2 DEF CommitHeld
  <2>1. Path(worker[i]) \in Tiffs /\ worker[i].job \in Jobs
    BY RunningWorker DEF Running
  <2>2. TiffHeld(Path(worker[i]), worker[i].job)
    BY DEF WriterInv, CommitHeld
  <2> QED BY <1>2, <1>3, <2>1, <2>2 DEF TiffHeld
<1>7. WriteFits'
  <2> SUFFICES ASSUME NEW i \in Ids, worker[i].pc = "write"
               PROVE  FacesFit(Target(worker[i]), worker[i].disp)'
    BY <1>2 DEF WriteFits
  <2>1. Target(worker[i]) \in Projects
    BY RunningWorker
  <2>2. FacesFit(Target(worker[i]), worker[i].disp)
    BY DEF WriterInv, WriteFits
  <2> QED BY <1>2, <1>4, <2>1, <2>2 DEF FacesFit
<1>8. ReplayHeld'
  <2> SUFFICES ASSUME recovering # None PROVE ReplayHeld'
    BY <1>1 DEF ReplayHeld
  <2> DEFINE row == items[recovering]
  <2>1. recovering \in Ids /\ row.status = "NeedsRecovery"
    BY DEF RecoveryUndisturbed, RecoveryAllowed, NeedsRecovery
  <2>2. PendingTiff(row) \in Tiffs /\ ProjectOf[row.job] \in Projects /\ row.job \in Jobs
    BY <2>1, PendingFace
  <2>3. /\ TiffHeld(PendingTiff(row), row.job) /\ row.rec.built # None
        /\ FacesFit(ProjectOf[row.job], row.rec.disp)
    BY DEF WriterInv, ReplayHeld
  <2>4. tiff'[PendingTiff(row)] # row.job =>
            "remove" \in Faults /\ tiff'[PendingTiff(row)] \notin Jobs
    BY <1>3, <2>2, <2>3 DEF TiffHeld
  <2>5. row.rec.disp.mode # "CreateNew" =>
            /\ project'[ProjectOf[row.job]] # None
            /\ project'[ProjectOf[row.job]].faces = row.rec.disp.expected.faces
    BY <1>4, <2>2, <2>3
  <2> QED BY <1>1, <2>3, <2>4, <2>5 DEF ReplayHeld, TiffHeld, FacesFit
<1> QED BY <1>5, <1>6, <1>7, <1>8 DEF WriterInv

LEMMA RecoveryKeepsWriterInv ==
    ASSUME IInv, IInv', Exact, WriterInv, Recovery
    PROVE  WriterInv'
<1>1. Apart'
  BY RecoveryApart DEF WriterInv
<1>2. QueueInv
  BY DEF IInv
<1>3. ASSUME NEW i \in Ids, BeginRecovery(i) PROVE WriterInv'
  <2> DEFINE row == items[i]
  <2>1. /\ UNCHANGED <<tiff, project, worker, items>> /\ recovering' = i
        /\ RecoveryAllowed(i) /\ CanReplay(i)
    BY <1>3 DEF BeginRecovery, transactionVars, queueVars
  <2>2. RowExact(row) /\ row.status = "NeedsRecovery"
    BY <2>1 DEF Exact, RecoveryAllowed, NeedsRecovery
  <2>3. /\ row.rec.built # None /\ tiff[PendingTiff(row)] = row.job
        /\ row.rec.disp.mode # "CreateNew" =>
               project[ProjectOf[row.job]] = row.rec.disp.expected
    BY <2>1 DEF CanReplay, Replayable, Recoverable
  <2>4. ReplayHeld'
    BY <2>1, <2>2, <2>3 DEF ReplayHeld, TiffHeld, FacesFit, RowExact
  <2>5. CommitHeld' /\ WriteFits'
    BY <2>1 DEF WriterInv, CommitHeld, WriteFits, TiffHeld, FacesFit
  <2> QED BY <1>1, <2>4, <2>5 DEF WriterInv
<1>4. ASSUME NEW i \in Ids, Recover(i) \/ RecoverUncertain(i) PROVE WriterInv'
  <2> DEFINE p == ProjectOf[items[i].job]
  <2>1. SavesFace(p, PendingTiff(items[i]), items[i].job)
        /\ items[i].status = "NeedsRecovery" /\ UNCHANGED worker
    BY <1>4, RecoverySavesFace DEF WriterInv
  <2>2. recovering' = None /\ UNCHANGED tiff
    BY <1>4 DEF Recover, RecoverUncertain
  <2>3. CommitHeld'
    BY <2>1, <2>2 DEF WriterInv, CommitHeld, TiffHeld
  <2>4. WriteFits'
    <3> SUFFICES ASSUME NEW k \in Ids, worker[k].pc = "write"
                 PROVE  FacesFit(Target(worker[k]), worker[k].disp)'
      BY <2>1 DEF WriteFits
    <3>1. Target(worker[k]) \in Projects /\ Target(worker[k]) # p
      BY <1>2, <2>1, RunningWorker, WorkerApart DEF WriterInv
    <3>2. project'[Target(worker[k])] = project[Target(worker[k])]
      BY <2>1, <3>1 DEF SavesFace
    <3> QED BY <2>1, <3>2 DEF WriterInv, WriteFits, FacesFit
  <2> QED BY <1>1, <2>2, <2>3, <2>4 DEF WriterInv, ReplayHeld
<1>5. ASSUME NEW i \in Ids, RecoverFails(i) PROVE WriterInv'
  <2>1. recovering' = None /\ UNCHANGED <<tiff, project, worker>>
    BY <1>5 DEF RecoverFails, SetItems, transactionVars
  <2> QED BY <1>1, <2>1
          DEF WriterInv, CommitHeld, WriteFits, TiffHeld, FacesFit, ReplayHeld
<1> QED BY <1>3, <1>4, <1>5 DEF Recovery

LEMMA QueueKeepsWriterInv ==
    ASSUME QueueInv, WriterInv, Apart', UNCHANGED <<tiff, project>>, recovering' = None,
           \A k \in Ids :
               \/ worker'[k].pc \in {"idle", "start"}
               \/ /\ worker'[k].pc = worker[k].pc
                  /\ worker'[k].job = worker[k].job /\ worker'[k].ord = worker[k].ord
                  /\ worker'[k].disp = worker[k].disp
    PROVE  WriterInv'
<1>1. CommitHeld'
  BY DEF WriterInv, CommitHeld, TiffHeld, Path
<1>2. WriteFits'
  BY DEF WriterInv, WriteFits, FacesFit, Target
<1> QED BY <1>1, <1>2 DEF WriterInv, ReplayHeld

LEMMA NextKeepsWriterInv ==
    ASSUME IInv, OrphanInv, WriterInv, [Next]_vars, [RetryReserves]_vars
    PROVE  WriterInv'
<1>1. IInv' /\ QueueInv /\ QueueInv' /\ Exact /\ RecoveryUndisturbed /\ Apart
  BY NextKeeps DEF IInv, OrphanInv, WriterInv
<1>2. CASE Idling /\ Operator
  <2>1. RetryReserves \/ UNCHANGED vars
    OBVIOUS
  <2>2. CASE RetryReserves
    <3>1. Apart' /\ UNCHANGED <<tiff, project>> /\ recovering' = None
      BY <1>1, <1>2, <2>2, OperatorApart, OperatorLeavesRecords DEF Idling
    <3>2. \A k \in Ids :
              \/ worker'[k].pc \in {"idle", "start"}
              \/ /\ worker'[k].pc = worker[k].pc
                 /\ worker'[k].job = worker[k].job /\ worker'[k].ord = worker[k].ord
                 /\ worker'[k].disp = worker[k].disp
      BY <1>1, <1>2, OperatorLeavesRecords, CancelledWorker
    <3> QED BY <1>1, <3>1, <3>2, QueueKeepsWriterInv
  <2>3. CASE UNCHANGED vars
    BY <2>3 DEF vars, transactionVars, queueVars, WriterInv, Apart, ReservedApart, CommitHeld,
                WriteFits, ReplayHeld, TiffHeld, FacesFit
  <2> QED BY <2>1, <2>2, <2>3
<1>3. CASE Recovery
  BY <1>1, <1>3, RecoveryKeepsWriterInv
<1>4. ASSUME NEW allow \in AllowStart, Frame(allow) PROVE WriterInv'
  <2>1. Apart' /\ UNCHANGED <<tiff, project>> /\ recovering' = None
    BY <1>1, <1>4, PollApart
       DEF Frame, Idling, PollWithStart, Poll, PollAndStart, diskVars
  <2>2. \A k \in Ids : worker'[k] = worker[k] \/ worker'[k].pc \in {"idle", "start"}
    <3>1. CASE Poll
      BY <3>1 DEF Poll, Idle
    <3>2. ASSUME NEW i \in Ids, PollAndStart(i)
          PROVE  \A k \in Ids : worker'[k] = worker[k] \/ worker'[k].pc \in {"idle", "start"}
      <4>1. worker' = [k \in Ids |-> IF k = i THEN Begin(Drained[i])
                                     ELSE IF k \in Reported THEN Idle ELSE worker[k]]
        BY <3>2 DEF PollAndStart
      <4>2. Begin(Drained[i]).pc = "start" /\ Idle.pc = "idle"
        BY DEF Begin, Idle
      <4> QED BY <4>1, <4>2
    <3> QED BY <1>4, <3>1, <3>2 DEF Frame, PollWithStart
  <2>3. \A k \in Ids :
            \/ worker'[k].pc \in {"idle", "start"}
            \/ /\ worker'[k].pc = worker[k].pc
               /\ worker'[k].job = worker[k].job /\ worker'[k].ord = worker[k].ord
               /\ worker'[k].disp = worker[k].disp
    BY <2>2
  <2> QED BY <1>1, <2>1, <2>3, QueueKeepsWriterInv
<1>5. ASSUME NEW i \in Ids, WorkerStep(i), Elsewhere PROVE WriterInv'
  BY <1>1, <1>5, WorkerKeepsWriterInv
<1>6. CASE Environment /\ Elsewhere
  BY <1>1, <1>6, EnvironmentKeepsWriterInv
<1>7. CASE Restart \/ RestartWithoutFile
  <2>1. /\ UNCHANGED <<tiff, project>> /\ recovering' = None
        /\ \A k \in Ids : worker'[k] = Idle
    BY <1>7 DEF Restart, RestartWithoutFile, Died, diskVars
  <2>2. Apart'
    BY <1>1, <1>7, RestartApart
  <2> QED BY <1>1, <2>1, <2>2, QueueKeepsWriterInv DEF Idle
<1>8. CASE UNCHANGED vars
  BY <1>8 DEF vars, transactionVars, queueVars, WriterInv, Apart, ReservedApart, CommitHeld,
              WriteFits, ReplayHeld, TiffHeld, FacesFit
<1> QED BY <1>2, <1>3, <1>4, <1>5, <1>6, <1>7, <1>8 DEF Next

LEMMA InitWriterInv == Init => WriterInv
BY DEF Init, TransactionInit, EmptyRows, Absent, Idle, WriterInv, Apart, ReservedApart,
       ReservesDestination, CommitHeld, WriteFits, ReplayHeld

\* Everything the theorems rest on, while no retry has been contended ...
CarefulInv == IInv /\ OrphanInv /\ WriterInv

\* ... and what is left of it afterwards.
WatchedInv == IInv /\ OrphanInv /\ (~contended => WriterInv)

\* A step of the watched queue is one of the queue; if it leaves contended FALSE,
\* it is no contended retry.
LEMMA WatchedStep ==
    ASSUME [WatchedNext]_watchedVars
    PROVE  /\ [Next]_vars
           /\ ~contended' => ~contended /\ [RetryReserves]_vars
<1>1. CASE WatchedNext
  BY <1>1 DEF WatchedNext, RetryContended, RetryReserves
<1>2. CASE UNCHANGED watchedVars
  BY <1>2 DEF watchedVars
<1> QED BY <1>1, <1>2

LEMMA WatchedInvHolds == WatchedSpec => []WatchedInv
<1>1. WatchedInit => WatchedInv
  BY InitInvariant, InitOrphanInv, InitWriterInv DEF WatchedInit, WatchedInv
<1>2. WatchedInv /\ [WatchedNext]_watchedVars => WatchedInv'
  <2> SUFFICES ASSUME WatchedInv, [WatchedNext]_watchedVars PROVE WatchedInv'
    OBVIOUS
  <2>1. IInv /\ OrphanInv /\ [Next]_vars
    BY WatchedStep DEF WatchedInv
  <2>2. IInv' /\ OrphanInv'
    BY <2>1, NextKeeps, NextKeepsOrphanInv
  <2>3. ~contended' => WriterInv'
    BY <2>1, WatchedStep, NextKeepsWriterInv DEF WatchedInv
  <2> QED BY <2>2, <2>3 DEF WatchedInv
<1> QED BY <1>1, <1>2, PTL DEF WatchedSpec

\* What a step may assume that leaves contended FALSE.
LEMMA UncontendedStep ==
    ASSUME WatchedInv, [WatchedNext]_watchedVars, ~contended'
    PROVE  CarefulInv /\ [Next]_vars
BY WatchedStep DEF WatchedInv, CarefulInv

-------------------------------------------------------------------------------
(***************************************************************************)
(* The TIFF a row waits to link stays where it is, under all faults: no    *)
(* other row may even render to its path (enqueue, ReservesDestination),   *)
(* until a row is retried beside it.                                       *)
(***************************************************************************)
THEOREM WaitingTiffIsKept == WatchedSpec => RecoveryTiffUncontended
<1>1. ASSUME CarefulInv, [Next]_vars, NEW i \in Ids, NeedsRecovery(i),
             tiff[PendingTiff(items[i])] = items[i].job,
             tiff'[PendingTiff(items[i])] \notin {items[i].job, None}
      PROVE  FALSE
  <2> DEFINE t == PendingTiff(items[i])
  <2>1. IInv /\ QueueInv /\ Apart /\ items[i].status = "NeedsRecovery"
    BY <1>1 DEF CarefulInv, IInv, WriterInv, NeedsRecovery
  <2>2. t \in Tiffs /\ items[i].job \in Jobs
    BY <2>1, PendingFace
  <2>3. tiff[t] # None /\ tiff'[t] \notin {tiff[t], None}
    BY <1>1, <2>2, TransactionAssumption DEF TransactionAssumptions
  <2>4. PICK k \in Ids : Publish(k)
    BY <1>1, <2>1, <2>2, <2>3, OnlyPublishReplaces
  <2>5. worker[k].pc # "idle" /\ tiff' = [tiff EXCEPT ![Path(worker[k])] = worker[k].job]
    BY <2>4 DEF Publish
  <2>6. Path(worker[k]) # t
    BY <2>1, <2>5, WorkerApart
  <2> QED BY <2>1, <2>2, <2>3, <2>5, <2>6 DEF QueueInv, QueueTypeOK
<1>2. CarefulInv /\ [Next]_vars => KeepsWaitingTiffs
  BY <1>1 DEF KeepsWaitingTiffs
<1>3. WatchedInv /\ [WatchedNext]_watchedVars => (~contended' => KeepsWaitingTiffs)
  BY <1>2, UncontendedStep
<1> QED BY <1>3, WatchedInvHolds, PTL DEF WatchedSpec, RecoveryTiffUncontended

\* A step saves one Face or leaves the recorded Faces alone.
LEMMA ProjectSteps ==
    ASSUME CarefulInv, [Next]_vars
    PROVE  \/ SameFaces
           \/ \E p \in Projects, t \in Tiffs, j \in Jobs : SavesFace(p, t, j)
<1>1. IInv /\ QueueInv /\ Exact /\ CommitHeld /\ WriteFits /\ ReplayHeld
  BY DEF CarefulInv, IInv, OrphanInv, WriterInv
<1>2. CASE UNCHANGED project
  BY <1>2 DEF SameFaces
<1>3. ASSUME NEW i \in Ids, WorkerStep(i), project' # project
      PROVE  \E p \in Projects, t \in Tiffs, j \in Jobs : SavesFace(p, t, j)
  <2>1. (WriteProject(i) \/ WriteUncertain(i)) /\ worker[i].pc # "idle"
    BY <1>3, WorkerFiles DEF WorkerTouches, WriteProject, WriteUncertain
  <2>2. SavesFace(Target(worker[i]), Path(worker[i]), worker[i].job)
    BY <1>1, <2>1, WorkerSavesFace
  <2>3. Target(worker[i]) \in Projects /\ Path(worker[i]) \in Tiffs /\ worker[i].job \in Jobs
    BY <1>1, <2>1, RunningWorker DEF Running
  <2> QED BY <2>2, <2>3
<1>4. ASSUME Recovery, project' # project
      PROVE  \E p \in Projects, t \in Tiffs, j \in Jobs : SavesFace(p, t, j)
  <2>1. PICK i \in Ids : Recover(i) \/ RecoverUncertain(i)
    BY <1>4 DEF Recovery, BeginRecovery, RecoverFails, SetItems, transactionVars
  <2>2. SavesFace(ProjectOf[items[i].job], PendingTiff(items[i]), items[i].job)
        /\ items[i].status = "NeedsRecovery"
    BY <1>1, <2>1, RecoverySavesFace
  <2> QED BY <1>1, <2>2, PendingFace
<1>5. CASE Environment
  BY <1>1, <1>5, EnvironmentSteps DEF EnvironmentTouches
<1>6. CASE Operator
  BY <1>1, <1>2, <1>6, OperatorLeavesRecords
<1>7. ASSUME NEW allow \in AllowStart, Frame(allow) PROVE UNCHANGED project
  BY <1>7 DEF Frame, PollWithStart, Poll, PollAndStart, diskVars
<1>8. CASE Restart \/ RestartWithoutFile
  BY <1>2, <1>8 DEF Restart, RestartWithoutFile, Died, diskVars
<1>9. CASE UNCHANGED vars
  BY <1>2, <1>9 DEF vars, transactionVars
<1> QED BY <1>2, <1>3, <1>4, <1>5, <1>6, <1>7, <1>8, <1>9 DEF Next

(***************************************************************************)
(* "One Production-project single-writer behavior": no save puts back an   *)
(* older record of a Face whose TIFF is there, under all faults            *)
(* (recover_production_project, save_existing_production_project), until a *)
(* row is retried beside another of the same project.                      *)
(***************************************************************************)
THEOREM SingleWriterBehavior == WatchedSpec => SingleWriterUncontended
<1>1. ASSUME CarefulInv, [Next]_vars, NEW p \in Projects, NEW t \in Tiffs,
             project[p] # None, project'[p] # None, tiff[t] \in Jobs
      PROVE  project'[p].faces[t] \in {project[p].faces[t], tiff[t]}
  <2>1. CASE SameFaces
    BY <1>1, <2>1 DEF SameFaces
  <2>2. ASSUME NEW q \in Projects, NEW u \in Tiffs, NEW j \in Jobs, SavesFace(q, u, j)
        PROVE  project'[p].faces[t] \in {project[p].faces[t], tiff[t]}
    <3>1. CASE p # q
      BY <2>2, <3>1 DEF SavesFace
    <3>2. CASE p = q /\ t # u
      BY <1>1, <2>2, <3>2 DEF SavesFace
    <3>3. CASE p = q /\ t = u
      BY <1>1, <2>2, <3>3 DEF SavesFace, TiffHeld
    <3> QED BY <3>1, <3>2, <3>3
  <2> QED BY <1>1, <2>1, <2>2, ProjectSteps
<1>2. CarefulInv /\ [Next]_vars => KeepsLinkedFaces
  BY <1>1 DEF KeepsLinkedFaces
<1>3. WatchedInv /\ [WatchedNext]_watchedVars => (~contended' => KeepsLinkedFaces)
  BY <1>2, UncontendedStep
<1> QED BY <1>3, WatchedInvHolds, PTL DEF WatchedSpec, SingleWriterUncontended

-------------------------------------------------------------------------------
(***************************************************************************)
(* Owners.                                                                 *)
(***************************************************************************)
\* The row waits to link its next Face, which is at t.
Waits(row, t) ==
    /\ row.status = "NeedsRecovery"
    /\ row.rec # None
    /\ row.rec.ord = row.done
    /\ PendingTiff(row) = t

Owner(i, t) == InFlight(i, t) \/ Waits(items[i], t)

Owned == \A t \in Tiffs : Orphan(t) => \E i \in Ids : Owner(i, t)

\* No new orphan.
NoNewOrphan == \A t \in Tiffs : Orphan(t)' => Orphan(t)

LEMMA OwnedMeans == OrphanOwned <=> Owned
BY DEF OrphanOwned, Owned, Owner, Waits, NeedsRecovery

LEMMA SameFacesNoOrphan ==
    ASSUME SameFaces, \A t \in Tiffs : tiff'[t] \in Jobs => tiff'[t] = tiff[t]
    PROVE  NoNewOrphan
BY DEF SameFaces, NoNewOrphan, Orphan

\* A save ends the wait for one Face and hides no other.
LEMMA SavedNoOrphan ==
    ASSUME NEW p \in Projects, NEW t \in Tiffs, NEW j \in Jobs, SavesFace(p, t, j),
           NEW u \in Tiffs, Orphan(u)'
    PROVE  u # t /\ Orphan(u)
<1>1. u # t
  <2> SUFFICES ASSUME u = t PROVE FALSE
    OBVIOUS
  <2>1. tiff[t] \in Jobs /\ project'[p].faces[t] # tiff[t]
    BY DEF Orphan, SavesFace
  <2> QED BY <2>1 DEF SavesFace, TiffHeld
<1>2. tiff[u] \in Jobs /\ tiff'[u] = tiff[u]
  BY DEF Orphan, SavesFace
<1>3. ASSUME NEW q \in Projects, project[q] # None PROVE project[q].faces[u] # tiff[u]
  <2>1. project'[q] # None /\ project'[q].faces[u] = project[q].faces[u]
    BY <1>1, <1>3 DEF SavesFace
  <2> QED BY <1>2, <2>1 DEF Orphan
<1> QED BY <1>1, <1>2, <1>3 DEF Orphan

\* Owners stay owners while no row that needs recovery is touched.
LEMMA OwnersKept ==
    ASSUME Owned, NoNewOrphan,
           \A k \in Ids : SameRecord(items'[k], items[k]),
           \A k \in Ids, t \in Tiffs : InFlight(k, t) => InFlight(k, t)'
    PROVE  Owned'
<1> SUFFICES ASSUME NEW t \in Tiffs, Orphan(t)' PROVE \E k \in Ids : Owner(k, t)'
  BY DEF Owned
<1>1. PICK k \in Ids : Owner(k, t)
  BY DEF Owned, NoNewOrphan
<1>2. Waits(items[k], t) => Waits(items'[k], t)
  BY DEF Waits, SameRecord
<1> QED BY <1>1, <1>2 DEF Owner, Waits, PendingTiff

\* A worker keeps its Face unless it links it.
LEMMA FlightKept ==
    ASSUME QueueInv, Exact, NEW i \in Ids, WorkerStep(i),
           ~WriteProject(i), ~WriteUncertain(i), ~CommitDenied,
           NEW t \in Tiffs, InFlight(i, t)
    PROVE  InFlight(i, t)'
<1> DEFINE w == worker[i]
<1>1. /\ w \in Running /\ worker'[i] \in Running /\ worker \in [Ids -> Running \cup {Idle}]
      /\ Path(worker'[i]) = Path(w) /\ worker'[i].pc # "idle"
  BY WorkerStepSound DEF WorkerKept, Path, Running, Pcs, QueueInv, QueueTypeOK
<1>2. w.pc # "finished" => w.outcome = "none"
  BY DEF InFlight, Exact, WorkerExact
<1>3. w.pc \notin {"start", "prepare", "render"}
  BY <1>2 DEF InFlight
<1>4. ASSUME NEW pc \in Pcs, Goto(i, pc) PROVE worker'[i].pc = pc
  BY <1>1, <1>4 DEF Goto, Running
<1>5. ASSUME Finish(i, "NeedsRecovery") PROVE worker'[i].outcome = "NeedsRecovery"
  BY <1>1, <1>5 DEF Finish, Running
<1>6. CASE BuildProject(i)
  <2> DEFINE pc == IF w.disp.mode = "CreateNew" THEN "write" ELSE "verify"
             built == Deterministic(w)
  <2>1. worker'[i] = [w EXCEPT !.pc = pc, !.built = built]
    BY <1>1, <1>6 DEF BuildProject
  <2> HIDE DEF built
  <2>2. worker'[i].pc = pc
    BY <1>1, <2>1 DEF Running
  <2> QED BY <1>1, <2>2 DEF InFlight
<1>7. CASE ReadBack(i) \/ VerifyProject(i)
  <2>1. worker'[i].pc \in {"save", "write"}
    BY <1>4, <1>7 DEF ReadBack, VerifyProject, Pcs
  <2> QED BY <1>1, <2>1 DEF InFlight
<1>8. CASE LineageFails(i) \/ RefuseToBuild(i) \/ SaveFails(i)
  <2>1. worker'[i].outcome = "NeedsRecovery"
    BY <1>5, <1>8 DEF LineageFails, RefuseToBuild, SaveFails
  <2> QED BY <1>1, <2>1 DEF InFlight
<1>9. CASE ReadBackFails(i) \/ Panic(i)
  <2>1. w.pc \in {"committed", "save", "verify", "write"}
    BY <1>3, <1>9 DEF ReadBackFails, Panic, Pcs
  <2>2. PICK outcome \in {"Failed", "Cancelled"} : Finish(i, outcome)
    BY <1>9 DEF ReadBackFails, Panic, FailOrCancel
  <2>3. worker'[i].outcome = outcome
    BY <1>1, <2>2 DEF Finish, Running
  <2> QED BY <2>1, <2>3 DEF CommitDenied
<1> QED BY <1>3, <1>6, <1>7, <1>8, <1>9
        DEF WorkerStep, DispositionForFace, HaltBeforeFace, Prepare, RefuseToRender, Publish,
            AbandonRender

LEMMA WorkerKeepsOwned ==
    ASSUME QueueInv, Exact, CommitHeld, WriteFits, Owned, NEW i \in Ids, WorkerStep(i), Elsewhere,
           ~CommitDenied
    PROVE  Owned'
<1> DEFINE w == worker[i]
<1>1. /\ w \in Running /\ w.pc # "idle" /\ worker'[i] \in Running
      /\ worker' = [worker EXCEPT ![i] = worker'[i]]
      /\ worker'[i].job = w.job /\ worker'[i].ord = w.ord
      /\ worker \in [Ids -> Running \cup {Idle}]
      /\ UNCHANGED items
  BY WorkerStepSound DEF WorkerKept, Running, Pcs, QueueInv, QueueTypeOK, Elsewhere, queueVars
<1>2. /\ Path(w) \in Tiffs /\ Target(w) \in Projects /\ w.job \in Jobs
      /\ \A k \in Ids \ {i} : worker[k] = Idle /\ worker'[k] = Idle
  BY <1>1, RunningWorker, OnlyWorker DEF Running
<1>3. \A k \in Ids : SameRecord(items'[k], items[k])
  BY <1>1 DEF SameRecord
<1>4. CASE WriteProject(i) \/ WriteUncertain(i)
  <2>1. SavesFace(Target(w), Path(w), w.job)
    BY <1>4, WorkerSavesFace
  <2> SUFFICES ASSUME NEW u \in Tiffs, Orphan(u)' PROVE \E k \in Ids : Owner(k, u)'
    BY DEF Owned
  <2>2. u # Path(w) /\ Orphan(u)
    BY <1>2, <2>1, SavedNoOrphan
  <2>3. PICK k \in Ids : Owner(k, u)
    BY <2>2 DEF Owned
  <2>4. ~InFlight(k, u)
    BY <1>2, <2>2 DEF InFlight, Idle
  <2> QED BY <1>1, <2>3, <2>4 DEF Owner, Waits, PendingTiff
<1>5. CASE ~WriteProject(i) /\ ~WriteUncertain(i)
  <2>1. \A k \in Ids, t \in Tiffs : InFlight(k, t) => InFlight(k, t)'
    <3>1. \A t \in Tiffs : InFlight(i, t) => InFlight(i, t)'
      BY <1>5, FlightKept
    <3>2. \A k \in Ids \ {i}, t \in Tiffs : ~InFlight(k, t)
      BY <1>2 DEF InFlight, Idle
    <3> QED BY <3>1, <3>2
  <2>2. UNCHANGED project /\ SameFaces
    BY <1>5, WorkerFiles DEF WorkerTouches, SameFaces
  <2>3. CASE UNCHANGED tiff
    <3>1. NoNewOrphan
      BY <2>2, <2>3, SameFacesNoOrphan
    <3> QED BY <1>3, <2>1, <3>1, OwnersKept
  <2>4. CASE Publish(i)
    <3> SUFFICES ASSUME NEW u \in Tiffs, Orphan(u)' PROVE \E k \in Ids : Owner(k, u)'
      BY DEF Owned
    <3>1. CASE u = Path(w)
      <4>1. worker'[i].pc = "committed"
        BY <1>1, <2>4 DEF Publish, Goto, Running
      <4>2. Path(worker'[i]) = u
        BY <1>1, <3>1 DEF Path
      <4>3. InFlight(i, u)'
        BY <4>1, <4>2 DEF InFlight
      <4> QED BY <4>3 DEF Owner
    <3>2. CASE u # Path(w)
      <4>1. tiff'[u] = tiff[u]
        BY <2>4, <3>2 DEF Publish, QueueInv, QueueTypeOK
      <4>2. Orphan(u)
        BY <2>2, <4>1 DEF Orphan
      <4>3. PICK k \in Ids : Owner(k, u)
        BY <4>2 DEF Owned
      <4> QED BY <1>1, <2>1, <4>3 DEF Owner, Waits, PendingTiff
    <3> QED BY <3>1, <3>2
  <2> QED BY <1>5, <2>3, <2>4, WorkerFiles DEF WorkerTouches
<1> QED BY <1>4, <1>5

LEMMA RecoveryKeepsOwned ==
    ASSUME IInv, Exact, ReplayHeld, Owned, Recovery
    PROVE  Owned'
<1>1. ASSUME NEW i \in Ids, BeginRecovery(i) \/ RecoverFails(i) PROVE Owned'
  <2>1. UNCHANGED <<tiff, project, worker, items>>
    BY <1>1 DEF BeginRecovery, RecoverFails, SetItems, transactionVars, queueVars
  <2> QED BY <2>1 DEF Owned, Orphan, Owner, InFlight, Waits, PendingTiff, Path
<1>2. ASSUME NEW i \in Ids, Recover(i) \/ RecoverUncertain(i) PROVE Owned'
  <2> DEFINE row == items[i]
  <2>1. /\ SavesFace(ProjectOf[row.job], PendingTiff(row), row.job)
        /\ row.status = "NeedsRecovery" /\ UNCHANGED worker
    BY <1>2, RecoverySavesFace
  <2>2. /\ ProjectOf[row.job] \in Projects /\ PendingTiff(row) \in Tiffs /\ row.job \in Jobs
        /\ items \in Rows
    BY <2>1, PendingFace DEF IInv, QueueInv, QueueTypeOK
  <2> SUFFICES ASSUME NEW u \in Tiffs, Orphan(u)' PROVE \E k \in Ids : Owner(k, u)'
    BY DEF Owned
  <2>3. u # PendingTiff(row) /\ Orphan(u)
    BY <2>1, <2>2, SavedNoOrphan
  <2>4. PICK k \in Ids : Owner(k, u)
    BY <2>3 DEF Owned
  <2>5. InFlight(k, u) => InFlight(k, u)'
    BY <2>1 DEF InFlight, Path
  <2>6. \A m \in Ids \ {i} : items'[m] = items[m]
    BY <1>2, <2>2 DEF Recover, RecoverUncertain, queueVars, Rows
  <2>7. Waits(items[k], u) => k # i
    BY <2>3 DEF Waits
  <2> QED BY <2>4, <2>5, <2>6, <2>7 DEF Owner, Waits, PendingTiff
<1> QED BY <1>1, <1>2 DEF Recovery

\* The drained report of a Face that is not linked leaves the row waiting for it.
LEMMA DrainedWaits ==
    ASSUME QueueInv, Exact, NEW k \in Reported, NEW t \in Tiffs, InFlight(k, t)
    PROVE  Waits(Drained[k], t)
<1> DEFINE w == worker[k]
           rec == [ord |-> items[k].done, disp |-> w.disp, built |-> w.built]
<1>1. /\ k \in Ids /\ items[k] \in Item /\ items[k].status = "Processing"
      /\ items[k].job = w.job /\ items[k].done = w.ord /\ w.pc = "finished"
  BY ReportFits
<1>2. w.outcome = "NeedsRecovery"
  BY <1>1 DEF InFlight
<1>3. Drained[k] = [items[k] EXCEPT !.status = "NeedsRecovery", !.resume = FALSE, !.rec = rec]
  BY <1>1, <1>2 DEF Drained, ApplyStepOutcome
<1> HIDE DEF rec
<1>4. /\ Drained[k].status = "NeedsRecovery"
      /\ Drained[k].job = w.job /\ Drained[k].done = w.ord
  BY <1>1, <1>3 DEF Item
<1>5. Drained[k].rec # None /\ Drained[k].rec.ord = Drained[k].done
  BY <1>1, <1>4, DrainedExact DEF RowExact
<1>6. PendingTiff(Drained[k]) = t
  BY <1>4 DEF PendingTiff, InFlight, Path
<1> QED BY <1>4, <1>5, <1>6 DEF Waits

\* Draining makes an unlinked Face wait in its row.
LEMMA DrainedOwner ==
    ASSUME QueueInv, Exact, NEW k \in Ids, NEW t \in Tiffs, Owner(k, t)
    PROVE  \/ Waits(Drained[k], t)
           \/ k \notin Reported /\ InFlight(k, t)
<1>1. CASE Waits(items[k], t)
  <2>1. k \notin Reported
    BY <1>1, ReportFits DEF Waits
  <2> QED BY <1>1, <2>1 DEF Drained
<1>2. CASE InFlight(k, t)
  BY <1>2, DrainedWaits
<1> QED BY <1>1, <1>2 DEF Owner

LEMMA PollKeepsOwned ==
    ASSUME QueueInv, Exact, Owned, NEW allow \in AllowStart, PollWithStart(allow)
    PROVE  Owned'
<1> SUFFICES ASSUME NEW t \in Tiffs, Orphan(t)' PROVE \E k \in Ids : Owner(k, t)'
  BY DEF Owned
<1>1. Orphan(t)
  BY DEF PollWithStart, Poll, PollAndStart, diskVars, Orphan
<1>2. PICK k \in Ids : Owner(k, t)
  BY <1>1 DEF Owned
<1>3. Waits(Drained[k], t) \/ (k \notin Reported /\ InFlight(k, t))
  BY <1>2, DrainedOwner
<1>4. CASE Poll
  <2>1. items' = Drained
    BY <1>4 DEF Poll
  <2>2. k \notin Reported => worker'[k] = worker[k]
    BY <1>4 DEF Poll
  <2> QED BY <1>3, <2>1, <2>2 DEF Owner, Waits, InFlight, Path, PendingTiff
<1>5. ASSUME NEW i \in Ids, PollAndStart(i), MayStart(allow) PROVE \E m \in Ids : Owner(m, t)'
  <2>1. /\ items' = [Drained EXCEPT ![i].status = "Processing"]
        /\ Drained[i].status = "Waiting"
    BY <1>5 DEF PollAndStart, IsFirst, Ready
  <2>2. ~(k \notin Reported /\ InFlight(k, t))
    <3> SUFFICES ASSUME k \notin Reported, InFlight(k, t) PROVE FALSE
      OBVIOUS
    <3>1. active = k /\ k # None
      BY TransactionAssumption DEF InFlight, QueueInv, SingleWorker, TransactionAssumptions
    <3>2. PICK r \in Reported : TRUE
      BY <1>5, <3>1 DEF MayStart, ActiveAfterDrain
    <3>3. active = r
      BY <3>2, ReportFits
    <3> QED BY <3>1, <3>2, <3>3
  <2>3. Waits(Drained[k], t) /\ k # i
    BY <1>3, <2>1, <2>2 DEF Waits
  <2>4. items'[k] = Drained[k]
    BY <2>1, <2>3, DrainedSound DEF Rows
  <2> QED BY <2>3, <2>4 DEF Owner, Waits, PendingTiff
<1> QED BY <1>4, <1>5 DEF PollWithStart

(***************************************************************************)
(* Every committed TIFF that is not linked yet belongs to somebody who will *)
(* link it, under all faults, until a retry is contended, the process dies, *)
(* or a worker panics or cannot read its TIFF back after the commit: the    *)
(* ways in which the code forgets it (apply_step_outcome,                   *)
(* render_convert_and_commit).                                              *)
(***************************************************************************)
THEOREM OrphansHaveAnOwner == WatchedSpec => []OrphanOwnedUnlessForgotten
<1>1. Init => OrphanOwned
  <2> SUFFICES ASSUME Init, NEW t \in Tiffs, Orphan(t) PROVE FALSE
    BY DEF OrphanOwned
  <2>1. tiff[t] \in {Earlier, None}
    BY DEF Init, TransactionInit
  <2> QED BY <2>1, TransactionAssumption DEF Orphan, TransactionAssumptions
<1>2. ASSUME CarefulInv, Owned, [Next]_vars, ~CommitDenied, ~Restart, ~RestartWithoutFile
      PROVE  Owned'
  <2>1. IInv /\ QueueInv /\ Exact /\ CommitHeld /\ WriteFits /\ ReplayHeld
    BY <1>2 DEF CarefulInv, IInv, OrphanInv, WriterInv
  <2>2. CASE Idling /\ Operator
    <3>1. /\ UNCHANGED <<tiff, project>>
          /\ \A k \in Ids : SameRecord(items'[k], items[k])
          /\ UNCHANGED worker \/ \E i \in Ids : CancelActive(i)
      BY <2>1, <2>2, OperatorLeavesRecords
    <3>2. \A k \in Ids, t \in Tiffs : InFlight(k, t) => InFlight(k, t)'
      <4>1. CASE UNCHANGED worker
        BY <4>1 DEF InFlight, Path
      <4>2. ASSUME NEW i \in Ids, CancelActive(i)
            PROVE  \A k \in Ids, t \in Tiffs : InFlight(k, t) => InFlight(k, t)'
        BY <2>1, <4>2, CancelledWorker DEF InFlight, Path
      <4> QED BY <3>1, <4>1, <4>2
    <3>3. NoNewOrphan
      BY <3>1 DEF NoNewOrphan, Orphan
    <3> QED BY <1>2, <3>1, <3>2, <3>3, OwnersKept
  <2>3. CASE Recovery
    BY <1>2, <2>1, <2>3, RecoveryKeepsOwned
  <2>4. ASSUME NEW allow \in AllowStart, Frame(allow) PROVE Owned'
    BY <1>2, <2>1, <2>4, PollKeepsOwned DEF Frame
  <2>5. ASSUME NEW i \in Ids, WorkerStep(i), Elsewhere PROVE Owned'
    BY <1>2, <2>1, <2>5, WorkerKeepsOwned
  <2>6. CASE Environment /\ Elsewhere
    <3>1. EnvironmentTouches /\ UNCHANGED items
      BY <2>1, <2>6, EnvironmentSteps DEF Elsewhere, queueVars
    <3>2. NoNewOrphan
      BY <3>1, SameFacesNoOrphan DEF EnvironmentTouches
    <3> QED BY <1>2, <3>1, <3>2, OwnersKept DEF EnvironmentTouches, SameRecord, InFlight, Path
  <2>8. CASE UNCHANGED vars
    BY <1>2, <2>8
       DEF vars, transactionVars, queueVars, Owned, Orphan, Owner, InFlight, Waits, Path,
           PendingTiff
  <2> QED BY <1>2, <2>2, <2>3, <2>4, <2>5, <2>6, <2>8 DEF Next
<1>3. ASSUME CarefulInv, OrphanOwned, [Next]_vars, ~CommitDenied, ~Restart, ~RestartWithoutFile
      PROVE  OrphanOwned'
  <2>1. OrphanOwned' <=> Owned'
    BY DEF OrphanOwned, Owned, Owner, Waits, NeedsRecovery
  <2> QED BY <1>2, <1>3, <2>1, OwnedMeans
<1>4. WatchedInit => OrphanOwnedUnlessForgotten
  BY <1>1 DEF WatchedInit, OrphanOwnedUnlessForgotten
<1>5. WatchedInv /\ OrphanOwnedUnlessForgotten /\ [WatchedNext]_watchedVars
          => OrphanOwnedUnlessForgotten'
  <2> SUFFICES ASSUME WatchedInv, OrphanOwnedUnlessForgotten, [WatchedNext]_watchedVars,
                      ~contended', ~forgotten'
               PROVE  OrphanOwned'
    BY DEF OrphanOwnedUnlessForgotten
  <2>1. CarefulInv /\ [Next]_vars /\ ~contended
    BY UncontendedStep, WatchedStep
  <2>2. CASE WatchedNext
    <3>1. ~forgotten /\ ~CommitDenied /\ ~Restart /\ ~RestartWithoutFile
      BY <2>2 DEF WatchedNext
    <3> QED BY <1>3, <2>1, <3>1 DEF OrphanOwnedUnlessForgotten
  <2>3. CASE UNCHANGED watchedVars
    BY <2>1, <2>3
       DEF OrphanOwnedUnlessForgotten, watchedVars, vars, transactionVars, queueVars, OrphanOwned,
           Orphan, InFlight, NeedsRecovery, Path, PendingTiff
  <2> QED BY <2>2, <2>3
<1> QED BY <1>4, <1>5, WatchedInvHolds, PTL DEF WatchedSpec
===============================================================================
