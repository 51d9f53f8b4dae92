-------------------------- MODULE ExportQueueProofs --------------------------
(***************************************************************************)
(* Safety of the export queue, for every set of rows, paths, protected     *)
(* files and conflict policies, and for every fault of its file.           *)
(*                                                                         *)
(* Everything follows from the inductive invariant ExportInv.  The rows in *)
(* the queue file are part of it, since a restart makes them the rows of   *)
(* the queue.  Most actions only narrow the rows: they take destinations   *)
(* out of use (Narrowed).  Enqueue, the two retries and the numbered name  *)
(* of a start put one into use, and check it first.                        *)
(***************************************************************************)
EXTENDS ExportQueue, TLAPS

Distinct(rows) ==
    \A i, k \in Reserving(rows) : rows[i].dest = rows[k].dest => i = k

\* An id that is still to be handed out names no row.
Unused(rows, nid) == \A i \in Ids : i >= nid => rows[i] = NoExport

RowsSound(rows, nid) ==
    /\ rows \in Exports
    /\ nid \in Nat \ {0}
    /\ Distinct(rows)
    /\ Unused(rows, nid)

\* The session number of a row means a project of this process, or none.
OwnerMeant(row) ==
    row.status # "Absent" /\ row.owner # 0 =>
        row.origin = [epoch |-> epoch, session |-> row.owner]

OwnersMeant == \A i \in Ids : OwnerMeant(exports[i])

\* What KeepsExisting asks of a publication holds from the start on.
MayReplace(i) ==
    /\ exports[i].dest \notin Protected
    /\ exports[i].dest \in files =>
          exports[i].policy = "Overwrite" \/ exports[i].dest \in appeared

MayPublish == \A i \in Ids : exporter[i] = "running" => MayReplace(i)

\* What may start is what was asked for, unless a requested stop is about to cancel
\* it.
ReadyAsked == stop \/ ReadyExports(exports) \subseteq authorized

ExportInv ==
    /\ ExportTypeOK
    /\ RowsSound(exports, nextExport)
    /\ RowsSound(saved.rows, saved.nextExport)
    /\ SingleExporter
    /\ OnlyWhatWasAsked
    /\ ReadyAsked
    /\ OwnersMeant
    /\ MayPublish

-------------------------------------------------------------------------------
(***************************************************************************)
(* Rows.                                                                   *)
(***************************************************************************)
LEMMA RowKinds ==
    ASSUME NEW row \in Export \cup {NoExport}
    PROVE  /\ row.status = "Absent" => row = NoExport
           /\ row.status # "Absent" => row \in Export
           /\ ReservesDestination(row.status) => row \in Export /\ row.status \in {"Waiting", "Processing"}
<1>1. CASE row = NoExport
  BY <1>1 DEF NoExport, ReservesDestination
<1>2. CASE row \in Export
  BY <1>2 DEF Export, Statuses, ReservesDestination
<1> QED BY <1>1, <1>2

\* Rows that keep their destination or give it up stay sound.
LEMMA Narrowed ==
    ASSUME NEW rows, NEW new, NEW nid, RowsSound(rows, nid), new \in Exports,
           \A i \in Ids :
               /\ rows[i] = NoExport => new[i] = NoExport
               /\ ReservesDestination(new[i].status) =>
                     /\ ReservesDestination(rows[i].status)
                     /\ new[i].dest = rows[i].dest
    PROVE  RowsSound(new, nid)
<1>1. Distinct(new)
  BY DEF RowsSound, Distinct, Reserving
<1>2. Unused(new, nid)
  BY DEF RowsSound, Unused
<1> QED BY <1>1, <1>2 DEF RowsSound

\* One row may take a destination that no other row reserves.
LEMMA Taken ==
    ASSUME NEW rows, NEW nid, RowsSound(rows, nid), NEW i \in Ids, NEW row \in Export,
           NEW after, after \in Nat \ {0}, i < after, nid <= after,
           \A k \in Reserving(rows) \ {i} : rows[k].dest # row.dest
    PROVE  RowsSound([rows EXCEPT ![i] = row], after)
<1> DEFINE new == [rows EXCEPT ![i] = row]
<1> USE ExportAssumption
<1>1. rows \in Exports /\ new \in Exports
  BY DEF RowsSound, Exports
<1>2. new[i] = row /\ \A k \in Ids \ {i} : new[k] = rows[k]
  BY <1>1 DEF Exports
<1>3. Distinct(new)
  BY <1>2 DEF RowsSound, Distinct, Reserving
<1>4. Unused(new, after)
  <2> SUFFICES ASSUME NEW k \in Ids, k >= after PROVE new[k] = NoExport
    BY DEF Unused
  <2>1. k \in Nat /\ i \in Nat /\ nid \in Nat /\ after \in Nat
    BY DEF ExportAssumption, RowsSound
  <2>2. k # i /\ k >= nid
    BY <2>1
  <2> QED BY <1>2, <2>2 DEF RowsSound, Unused
<1> QED BY <1>1, <1>3, <1>4 DEF RowsSound

\* What a save writes of a row.
LEMMA SavedRow ==
    ASSUME NEW row \in Export \cup {NoExport}
    PROVE  /\ SavedExport(row) \in Export \cup {NoExport}
           /\ row = NoExport => SavedExport(row) = NoExport
           /\ ReservesDestination(SavedExport(row).status) =>
                 ReservesDestination(row.status) /\ SavedExport(row).dest = row.dest
<1>1. CASE row.status \in {"Absent", "Done"}
  BY <1>1 DEF SavedExport, NoExport, ReservesDestination
<1>2. CASE row.status \notin {"Absent", "Done"}
  <2>1. row \in Export
    BY <1>2, RowKinds
  <2>2. SavedExport(row) = [row EXCEPT !.held = FALSE]
    BY <1>2 DEF SavedExport
  <2>3. SavedExport(row) \in Export /\ SavedExport(row).status = row.status /\ SavedExport(row).dest = row.dest
    BY <2>1, <2>2 DEF Export
  <2> QED BY <1>2, <2>3 DEF NoExport
<1> QED BY <1>1, <1>2

\* Whatever a save leaves in the file is sound.
LEMMA SaveKeeps ==
    ASSUME saved \in ExportFile, RowsSound(saved.rows, saved.nextExport),
           NEW rows, NEW nid, RowsSound(rows, nid), NEW psd \in BOOLEAN,
           PersistExports(rows, nid, psd)
    PROVE  saved' \in ExportFile /\ RowsSound(saved'.rows, saved'.nextExport)
<1> DEFINE new == ExportSnapshot(rows, nid, psd)
<1>1. saved' \in {saved, new}
  BY DEF PersistExports, Saved
<1>2. rows \in Exports /\ nid \in Nat
  BY DEF RowsSound
<1>3. new.rows = [i \in Ids |-> SavedExport(rows[i])] /\ new.nextExport = nid /\ new.paused = psd
  BY DEF ExportSnapshot
<1>4. new.rows \in Exports
  BY <1>2, <1>3, SavedRow DEF Exports
<1>5. RowsSound(new.rows, new.nextExport)
  <2>1. \A i \in Ids : /\ rows[i] = NoExport => new.rows[i] = NoExport
                       /\ ReservesDestination(new.rows[i].status) =>
                             ReservesDestination(rows[i].status) /\ new.rows[i].dest = rows[i].dest
    BY <1>2, <1>3, SavedRow DEF Exports
  <2> QED BY <1>3, <1>4, <2>1, Narrowed
<1>6. new \in ExportFile
  BY <1>2, <1>4 DEF ExportFile, ExportSnapshot
<1> QED BY <1>1, <1>5, <1>6

-------------------------------------------------------------------------------
(***************************************************************************)
(* Init, and the operator's actions.                                       *)
(***************************************************************************)
LEMMA EmptyRows == RowsSound(NoExports, 1)
<1>1. NoExports \in Exports /\ \A i \in Ids : NoExports[i] = NoExport
  BY DEF NoExports, Exports
<1>2. Reserving(NoExports) = {}
  BY <1>1 DEF Reserving, NoExport, ReservesDestination
<1> QED BY <1>1, <1>2 DEF RowsSound, Distinct, Unused

LEMMA InitExports == ExportInit => ExportInv
<1> SUFFICES ASSUME ExportInit PROVE ExportInv
  OBVIOUS
<1> USE ExportAssumption DEF ExportAssumption
<1>1. RowsSound(exports, nextExport) /\ RowsSound(saved.rows, saved.nextExport)
  BY EmptyRows DEF ExportInit
<1>2. \A i \in Ids : exports[i].status = "Absent" /\ exporter[i] = "idle" /\ exporting # i
  BY DEF ExportInit, NoExports, NoExport
<1>3. saved \in ExportFile
  BY EmptyRows DEF ExportInit, ExportFile, RowsSound
<1>4. exporter \in [Ids -> ExporterStates]
  BY DEF ExportInit, ExporterStates
<1>5. ExportTypeOK
  <2>1. 1 \in 1..MaxSession /\ 1 \in 1..MaxEpoch
    BY DEF ExportAssumption
  <2>2. exports \in Exports /\ nextExport \in Nat \ {0}
    BY <1>1 DEF RowsSound
  <2>3. files \subseteq Paths /\ {stop, paused, persistent} \subseteq BOOLEAN
    BY DEF ExportInit
  <2> QED BY <1>3, <1>4, <2>1, <2>2, <2>3 DEF ExportInit, ExportTypeOK
<1> QED BY <1>1, <1>2, <1>5 DEF ExportInv, SingleExporter, OnlyWhatWasAsked, OwnersMeant,
                                 OwnerMeant, MayPublish, ReadyAsked, ReadyExports

\* An action that changes rows leaves the running ones alone, and the rows it
\* creates belong to the open project.
LEMMA RowsChange ==
    ASSUME ExportInv, RowsSound(exports', nextExport'), ReadyAsked',
           PersistExports(exports', nextExport', paused'),
           paused' \in BOOLEAN, stop' \in BOOLEAN, authorized' \subseteq Ids,
           UNCHANGED <<exporting, persistent, exportWorld, session, epoch>>,
           \A i \in Ids :
               /\ exports[i].status = "Processing" =>
                     exports'[i] = exports[i] /\ (i \in authorized => i \in authorized')
               /\ exports'[i].status = "Processing" => exports[i].status = "Processing"
               /\ OwnerMeant(exports[i]) => OwnerMeant(exports'[i])
    PROVE  ExportInv'
<1> USE DEF ExportInv, exportWorld
<1>1. saved' \in ExportFile /\ RowsSound(saved'.rows, saved'.nextExport)
  BY SaveKeeps DEF ExportTypeOK
<1>2. ExportTypeOK'
  BY <1>1 DEF ExportTypeOK, RowsSound
<1>3. SingleExporter'
  BY DEF SingleExporter
<1>4. OnlyWhatWasAsked'
  BY DEF OnlyWhatWasAsked, SingleExporter
<1>5. OwnersMeant'
  BY DEF OwnersMeant, OwnerMeant
<1>6. MayPublish'
  BY DEF MayPublish, MayReplace, SingleExporter
<1> QED BY <1>1, <1>2, <1>3, <1>4, <1>5, <1>6

LEMMA EnqueueKeeps ==
    ASSUME ExportInv, NEW p \in Paths, NEW policy \in Policies, EnqueueExport(p, policy)
    PROVE  ExportInv'
<1> USE ExportAssumption DEF ExportInv
<1> DEFINE row == [status |-> "Waiting", held |-> FALSE, dest |-> p, policy |-> policy,
                   owner |-> session, origin |-> Here]
<1>1. /\ nextExport \in Ids /\ nextExport \in Nat
      /\ exports' = [exports EXCEPT ![nextExport] = row]
      /\ nextExport' = nextExport + 1
      /\ p \notin Reserved(exports)
      /\ authorized' = authorized \cup {nextExport}
  BY DEF EnqueueExport, ExportTypeOK
<1>2. session \in 0..MaxSession /\ Here \in OpenProjects /\ session \in 1..MaxSession
  BY DEF ExportTypeOK, Here, OpenProjects, ExportAssumption
<1>3. row \in Export
  BY <1>2 DEF Export, Statuses
<1>4. \A k \in Reserving(exports) \ {nextExport} : exports[k].dest # row.dest
  BY <1>1 DEF Reserved
<1>5. RowsSound(exports', nextExport')
  <2> DEFINE after == nextExport + 1
  <2>1. RowsSound(exports, nextExport)
    OBVIOUS
  <2>2. after \in Nat \ {0} /\ nextExport < after /\ nextExport <= after
    BY <1>1
  <2> HIDE DEF row, after
  <2>3. RowsSound([exports EXCEPT ![nextExport] = row], after)
    BY <1>1, <1>3, <1>4, <2>1, <2>2, Taken
  <2> QED BY <1>1, <2>3 DEF after
<1>6. exports[nextExport] = NoExport
  BY <1>1 DEF RowsSound, Unused
<1>7. \A i \in Ids :
          /\ exports[i].status = "Processing" =>
                exports'[i] = exports[i] /\ (i \in authorized => i \in authorized')
          /\ exports'[i].status = "Processing" => exports[i].status = "Processing"
          /\ OwnerMeant(exports[i]) => OwnerMeant(exports'[i])
  BY <1>1, <1>6 DEF ExportTypeOK, Exports, NoExport, OwnerMeant, Here
<1>8. ReadyAsked'
  BY <1>1, <1>6 DEF EnqueueExport, ReadyAsked, ReadyExports, ExportTypeOK, Exports
<1> QED BY <1>1, <1>5, <1>7, <1>8, RowsChange DEF EnqueueExport, ExportTypeOK

\* The actions that leave every destination to its row or take it out of use.
LEMMA NarrowingKeeps ==
    ASSUME ExportInv, NEW rows \in Exports, SetExports(rows), authorized' \subseteq Ids,
           ReadyAsked',
           \A i \in Ids :
               /\ exports[i] = NoExport => rows[i] = NoExport
               /\ ReservesDestination(rows[i].status) =>
                     /\ ReservesDestination(exports[i].status)
                     /\ rows[i].dest = exports[i].dest
               /\ exports[i].status = "Processing" =>
                     rows[i] = exports[i] /\ (i \in authorized => i \in authorized')
               /\ rows[i].status = "Processing" => exports[i].status = "Processing"
               /\ OwnerMeant(exports[i]) => OwnerMeant(rows[i])
    PROVE  ExportInv'
<1>1. RowsSound(exports', nextExport')
  BY Narrowed DEF ExportInv, SetExports
<1> QED BY <1>1, RowsChange DEF ExportInv, SetExports, ExportTypeOK

LEMMA ResumeKeeps ==
    ASSUME ExportInv, NEW held, held \subseteq {i \in Ids : exports[i].status = "Waiting"},
           ResumeExports(held)
    PROVE  ExportInv'
<1> DEFINE rows == [i \in Ids |-> IF i \in held THEN [exports[i] EXCEPT !.held = FALSE]
                                  ELSE exports[i]]
<1>1. \A i \in Ids : exports[i] \in Export \cup {NoExport}
  BY DEF ExportInv, ExportTypeOK, Exports
<1>2. \A i \in held :
          /\ exports[i] \in Export /\ rows[i] \in Export /\ exports[i].status = "Waiting"
          /\ rows[i].status = "Waiting" /\ rows[i].dest = exports[i].dest
          /\ rows[i].owner = exports[i].owner /\ rows[i].origin = exports[i].origin
  <2> SUFFICES ASSUME NEW i \in held
               PROVE  /\ exports[i] \in Export /\ rows[i] \in Export
                      /\ exports[i].status = "Waiting"
                      /\ rows[i].status = "Waiting" /\ rows[i].dest = exports[i].dest
                      /\ rows[i].owner = exports[i].owner
                      /\ rows[i].origin = exports[i].origin
    OBVIOUS
  <2>1. exports[i] \in Export /\ exports[i].status = "Waiting"
    BY <1>1, RowKinds
  <2>2. rows[i] = [exports[i] EXCEPT !.held = FALSE]
    OBVIOUS
  <2> QED BY <2>1, <2>2 DEF Export
<1>3. \A i \in Ids \ held : rows[i] = exports[i]
  OBVIOUS
<1>4. rows \in Exports
  BY <1>1, <1>2, <1>3 DEF Exports
<1>5. SetExports(rows) /\ authorized' = authorized \cup held
  BY DEF ResumeExports
<1>6. ReadyAsked'
  BY <1>3, <1>5 DEF ExportInv, SetExports, ReadyAsked, ReadyExports
<1> QED BY <1>2, <1>3, <1>4, <1>5, <1>6, NarrowingKeeps
        DEF ExportInv, ExportTypeOK, ReservesDestination, NoExport, OwnerMeant

LEMMA CancelKeeps ==
    ASSUME ExportInv, NEW i \in Ids, CancelExport(i)
    PROVE  ExportInv'
<1> DEFINE rows == [exports EXCEPT ![i].status = "Cancelled", ![i].held = FALSE]
<1>1. exports \in Exports /\ exports[i] \in Export /\ exports[i].status = "Waiting"
  BY RowKinds DEF ExportInv, ExportTypeOK, Exports, CancelExport
<1>2. /\ rows[i] \in Export /\ rows[i].status = "Cancelled"
      /\ rows[i].owner = exports[i].owner /\ rows[i].origin = exports[i].origin
  BY <1>1 DEF Exports, Export, Statuses
<1>3. \A k \in Ids \ {i} : rows[k] = exports[k]
  BY <1>1 DEF Exports
<1>4. rows \in Exports
  BY <1>1, <1>2, <1>3 DEF Exports
<1>5. SetExports(rows) /\ authorized' = authorized \ {i}
  BY DEF CancelExport
<1> HIDE DEF rows
<1>6. \A k \in Ids :
          /\ exports[k] = NoExport => rows[k] = NoExport
          /\ ReservesDestination(rows[k].status) =>
                /\ ReservesDestination(exports[k].status)
                /\ rows[k].dest = exports[k].dest
          /\ exports[k].status = "Processing" =>
                rows[k] = exports[k] /\ (k \in authorized => k \in authorized')
          /\ rows[k].status = "Processing" => exports[k].status = "Processing"
          /\ OwnerMeant(exports[k]) => OwnerMeant(rows[k])
  BY <1>1, <1>2, <1>3, <1>5 DEF ReservesDestination, NoExport, OwnerMeant
<1>7. ReadyAsked'
  BY <1>2, <1>3, <1>5 DEF ExportInv, SetExports, ReadyAsked, ReadyExports
<1> QED BY <1>4, <1>5, <1>6, <1>7, NarrowingKeeps DEF ExportInv, ExportTypeOK

LEMMA StopKeeps ==
    ASSUME ExportInv, NEW i \in Ids, StopAfterCurrent(i)
    PROVE  ExportInv'
<1>1. \A k \in Ids : exports[k].status = "Processing" => k = i
  BY ExportAssumption DEF ExportInv, SingleExporter, StopAfterCurrent, ExportAssumption
<1>2. exports' = exports /\ nextExport' = nextExport /\ authorized' = authorized \cap {i}
  BY DEF StopAfterCurrent
<1>3. RowsSound(exports', nextExport')
  BY <1>2 DEF ExportInv
<1>4. PersistExports(exports', nextExport', paused')
  BY DEF StopAfterCurrent, PersistExports
<1>5. \A k \in Ids :
          /\ exports[k].status = "Processing" =>
                exports'[k] = exports[k] /\ (k \in authorized => k \in authorized')
          /\ exports'[k].status = "Processing" => exports[k].status = "Processing"
          /\ OwnerMeant(exports[k]) => OwnerMeant(exports'[k])
  BY <1>1, <1>2 DEF StopAfterCurrent, OwnerMeant
<1>6. ReadyAsked'
  BY DEF StopAfterCurrent, ReadyAsked
<1> QED BY <1>2, <1>3, <1>4, <1>5, <1>6, RowsChange DEF ExportInv, ExportTypeOK, StopAfterCurrent

\* A retry takes the destination of its row again.
LEMMA RequeuedRows ==
    ASSUME ExportInv, NEW again \in SUBSET Ids,
           \A i \in again : exports[i].status \in {"Failed", "Cancelled"},
           \A i \in again : exports[i].dest \notin Reserved(exports),
           \A i, k \in again : exports[i].dest = exports[k].dest => i = k,
           SetExports(Requeued(exports, again)), authorized' = authorized \cup again
    PROVE  ExportInv'
<1> DEFINE rows == Requeued(exports, again)
<1>1. \A i \in Ids : exports[i] \in Export \cup {NoExport}
  BY DEF ExportInv, ExportTypeOK, Exports
<1>2. \A i \in again :
          /\ exports[i] \in Export /\ rows[i] \in Export
          /\ rows[i].status = "Waiting" /\ rows[i].dest = exports[i].dest
          /\ rows[i].owner = exports[i].owner /\ rows[i].origin = exports[i].origin
  <2> SUFFICES ASSUME NEW i \in again
               PROVE  /\ exports[i] \in Export /\ rows[i] \in Export
                      /\ rows[i].status = "Waiting" /\ rows[i].dest = exports[i].dest
                      /\ rows[i].owner = exports[i].owner
                      /\ rows[i].origin = exports[i].origin
    OBVIOUS
  <2>1. exports[i] \in Export
    BY <1>1, RowKinds
  <2>2. rows[i] = [exports[i] EXCEPT !.status = "Waiting", !.held = FALSE]
    BY DEF Requeued
  <2> QED BY <2>1, <2>2 DEF Export, Statuses
<1>3. \A i \in Ids \ again : rows[i] = exports[i]
  BY DEF Requeued
<1>4. rows \in Exports
  BY <1>1, <1>2, <1>3 DEF Exports, Requeued
<1>5. Distinct(rows)
  <2> SUFFICES ASSUME NEW i \in Reserving(rows), NEW k \in Reserving(rows),
                      rows[i].dest = rows[k].dest
               PROVE  i = k
    BY DEF Distinct
  <2>1. i \in Ids /\ k \in Ids
    BY DEF Reserving
  <2>2. \A n \in {i, k} : n \notin again => n \in Reserving(exports) /\ exports[n].dest = rows[n].dest
    BY <1>3, <2>1 DEF Reserving
  <2>3. \A n \in {i, k} : n \in again => exports[n].dest = rows[n].dest
    BY <1>2
  <2>4. Distinct(exports)
    BY DEF ExportInv, RowsSound
  <2> QED BY <2>2, <2>3, <2>4 DEF Distinct, Reserved
<1>6. Unused(rows, nextExport)
  BY <1>1, <1>2, <1>3 DEF ExportInv, RowsSound, Unused, NoExport
<1>7. RowsSound(rows, nextExport)
  BY <1>4, <1>5, <1>6 DEF ExportInv, RowsSound
<1>8. exports' = rows /\ nextExport' = nextExport
  BY DEF SetExports
<1>9. \A i \in Ids :
          /\ exports[i].status = "Processing" =>
                exports'[i] = exports[i] /\ (i \in authorized => i \in authorized')
          /\ exports'[i].status = "Processing" => exports[i].status = "Processing"
          /\ OwnerMeant(exports[i]) => OwnerMeant(exports'[i])
  BY <1>2, <1>3, <1>8 DEF OwnerMeant
<1>10. ReadyAsked'
  BY <1>3, <1>8 DEF ExportInv, SetExports, ReadyAsked, ReadyExports
<1> QED BY <1>7, <1>8, <1>9, <1>10, RowsChange DEF SetExports, ExportInv, ExportTypeOK

LEMMA RetryKeeps ==
    ASSUME ExportInv, NEW i \in Ids, RetryExport(i)
    PROVE  ExportInv'
  BY RequeuedRows DEF RetryExport

LEMMA RetryAllKeeps ==
    ASSUME ExportInv, RetryAllFailed
    PROVE  ExportInv'
<1>1. Retriable \in SUBSET Ids /\ \A i \in Retriable : exports[i].status \in {"Failed", "Cancelled"}
  BY DEF Retriable
<1>2. \A i \in Retriable : exports[i].dest \notin Reserved(exports)
  BY DEF Retriable
<1>3. \A i, k \in Retriable : exports[i].dest = exports[k].dest => i = k
  BY ExportAssumption DEF Retriable, ExportAssumption
<1> QED BY <1>1, <1>2, <1>3, RequeuedRows DEF RetryAllFailed

LEMMA ClearKeeps ==
    ASSUME ExportInv, ClearJobs
    PROVE  ExportInv'
<1> DEFINE rows == [i \in Ids |-> IF Finished(exports[i].status) THEN NoExport ELSE exports[i]]
<1>1. rows \in Exports
  BY DEF ExportInv, ExportTypeOK, Exports
<1>2. SetExports(rows) /\ authorized' = authorized
  BY DEF ClearJobs
<1>3. ReadyAsked'
  BY <1>2 DEF ExportInv, SetExports, ReadyAsked, ReadyExports, NoExport
<1> QED BY <1>1, <1>2, <1>3, NarrowingKeeps
        DEF ExportInv, ExportTypeOK, Finished, ReservesDestination, NoExport, OwnerMeant

LEMMA PauseKeeps ==
    ASSUME ExportInv, NEW value \in BOOLEAN, SetExportPaused(value)
    PROVE  ExportInv'
<1>1. CASE value = paused
  BY <1>1 DEF SetExportPaused, ExportInv, ExportTypeOK, RowsSound, Distinct, Unused, Reserving,
              SingleExporter, OnlyWhatWasAsked, OwnersMeant, OwnerMeant, MayPublish, MayReplace,
              exportWorld, ReadyAsked, ReadyExports
<1>2. CASE value # paused
  <2>1. PersistExports(exports', nextExport', paused')
    BY <1>2 DEF SetExportPaused
  <2>2. ReadyAsked'
    BY DEF SetExportPaused, ExportInv, ReadyAsked, ReadyExports
  <2> QED BY <1>2, <2>1, <2>2, RowsChange DEF SetExportPaused, ExportInv, ExportTypeOK
<1> QED BY <1>1, <1>2

LEMMA SessionKeeps ==
    ASSUME ExportInv, BumpSession
    PROVE  ExportInv'
<1>1. session' \in 1..MaxSession
  BY ExportAssumption DEF ExportInv, ExportTypeOK, BumpSession, ExportAssumption
<1> QED BY <1>1 DEF BumpSession, exportQueue, exportWorld, ExportInv, ExportTypeOK, RowsSound,
                    Distinct, Unused, Reserving, SingleExporter, OnlyWhatWasAsked, OwnersMeant,
                    OwnerMeant, MayPublish, MayReplace, ReadyAsked, ReadyExports

-------------------------------------------------------------------------------
(***************************************************************************)
(* A poll.  What it settles is narrowed before a row is started.           *)
(***************************************************************************)
\* A row after the drain, and what is left of its worker.
LEMMA SettledRow ==
    ASSUME ExportInv, NEW i \in Ids
    PROVE  /\ Settled[i] \in Export \cup {NoExport}
           /\ exports[i] = NoExport => Settled[i] = NoExport
           /\ ReservesDestination(Settled[i].status) =>
                 ReservesDestination(exports[i].status) /\ Settled[i].dest = exports[i].dest
           /\ Settled[i].status = "Processing" <=>
                 exports[i].status = "Processing" /\ ~Sent(i)
           /\ Settled[i].status = "Processing" => Settled[i] = exports[i]
           /\ Settled[i].status = "Absent" => exports[i].status = "Absent"
           /\ OwnerMeant(exports[i]) => OwnerMeant(Settled[i])
<1>1. exports[i] \in Export \cup {NoExport}
  BY DEF ExportInv, ExportTypeOK, Exports
<1>2. Sent(i) <=> exporter[i] \in {"sent failure", "sent skip", "sent success"}
  BY DEF Sent
<1>3. CASE Sent(i) /\ exports[i].status # "Absent"
  <2> DEFINE end == IF exporter[i] = "sent failure" THEN "Failed" ELSE "Done"
  <2>1. exports[i] \in Export
    BY <1>1, <1>3, RowKinds
  <2>2. Settled[i] = [exports[i] EXCEPT !.status = end]
    BY <1>3 DEF Settled
  <2>3. end \in {"Failed", "Done"}
    OBVIOUS
  <2> HIDE DEF end
  <2>4. /\ Settled[i] \in Export /\ Settled[i].status = end
        /\ Settled[i].owner = exports[i].owner /\ Settled[i].origin = exports[i].origin
    BY <2>1, <2>2, <2>3 DEF Export, Statuses
  <2> QED BY <1>3, <2>1, <2>3, <2>4 DEF ReservesDestination, OwnerMeant, NoExport
<1>4. CASE ~(Sent(i) /\ exports[i].status # "Absent") /\ SentAny /\ stop
           /\ exports[i].status = "Waiting"
  <2>1. exports[i] \in Export
    BY <1>1, <1>4, RowKinds
  <2>2. Settled[i] = [exports[i] EXCEPT !.status = "Cancelled"]
    BY <1>4 DEF Settled
  <2>3. /\ Settled[i] \in Export /\ Settled[i].status = "Cancelled"
        /\ Settled[i].owner = exports[i].owner /\ Settled[i].origin = exports[i].origin
    BY <2>1, <2>2 DEF Export, Statuses
  <2> QED BY <1>4, <2>1, <2>3 DEF ReservesDestination, OwnerMeant, NoExport
<1>5. CASE /\ ~(Sent(i) /\ exports[i].status # "Absent")
           /\ ~(SentAny /\ stop /\ exports[i].status = "Waiting")
  <2>1. Settled[i] = exports[i]
    BY <1>5 DEF Settled
  <2> QED BY <1>1, <1>5, <2>1
<1> QED BY <1>3, <1>4, <1>5

LEMMA SettledSound ==
    ASSUME ExportInv
    PROVE  RowsSound(Settled, nextExport)
<1>1. Settled \in Exports
  BY SettledRow DEF Settled, Exports
<1> QED BY <1>1, SettledRow, Narrowed DEF ExportInv

\* A drain ends the workers that reported; a running one is not touched.
LEMMA DrainedWorkers ==
    ASSUME ExportInv, NEW i \in Ids
    PROVE  /\ Drained[i] \in ExporterStates
           /\ Drained[i] # "idle" <=> Settled[i].status = "Processing"
           /\ Drained[i] # "idle" => Drained[i] = exporter[i] /\ ~Sent(i) /\ exporting = i
           /\ exporting = i => Drained[i] # "idle" \/ Sent(i)
<1>1. Drained[i] = IF Sent(i) THEN "idle" ELSE exporter[i]
  BY DEF Drained
<1>2. exporter[i] \in ExporterStates
  BY DEF ExportInv, ExportTypeOK
<1>3. /\ exporter[i] # "idle" <=> exporting = i
      /\ exporter[i] # "idle" <=> exports[i].status = "Processing"
  BY DEF ExportInv, SingleExporter
<1> QED BY <1>1, <1>2, <1>3, SettledRow DEF ExporterStates, Sent

\* When a poll may start a row nothing runs any more.
LEMMA AllDrained ==
    ASSUME ExportInv, SentAny \/ exporting = None
    PROVE  \A i \in Ids : Drained[i] = "idle" /\ Settled[i].status # "Processing"
<1> SUFFICES ASSUME NEW i \in Ids, Drained[i] # "idle" PROVE FALSE
  BY DrainedWorkers
<1>1. exporting = i /\ ~Sent(i)
  BY DrainedWorkers
<1>2. None \notin Ids
  BY ExportAssumption DEF ExportAssumption
<1>3. PICK s \in Ids : Sent(s)
  BY <1>1, <1>2 DEF SentAny
<1>4. exporting = s
  BY <1>3 DEF ExportInv, SingleExporter, Sent
<1> QED BY <1>1, <1>3, <1>4

\* A requested stop leaves nothing to start.
LEMMA SettledAsked ==
    ASSUME ExportInv, NEW i \in ReadyExports(Settled), SentAny \/ ~stop
    PROVE  i \in authorized
<1>1. i \in Ids /\ Settled[i].status = "Waiting" /\ ~Settled[i].held
  BY DEF ReadyExports
<1>2. exports[i] \in Export
  BY <1>1, SettledRow, RowKinds DEF ReservesDestination, ExportInv, ExportTypeOK, Exports
<1>3. ~(Sent(i) /\ exports[i].status # "Absent")
  <2> SUFFICES ASSUME Sent(i), exports[i].status # "Absent" PROVE FALSE
    OBVIOUS
  <2> DEFINE end == IF exporter[i] = "sent failure" THEN "Failed" ELSE "Done"
  <2>1. Settled[i] = [exports[i] EXCEPT !.status = end]
    BY <1>1 DEF Settled
  <2>2. end # "Waiting"
    OBVIOUS
  <2> HIDE DEF end
  <2> QED BY <1>1, <1>2, <2>1, <2>2 DEF Export
<1>4. ~(SentAny /\ stop /\ exports[i].status = "Waiting")
  <2> SUFFICES ASSUME SentAny, stop, exports[i].status = "Waiting" PROVE FALSE
    OBVIOUS
  <2>1. Settled[i] = [exports[i] EXCEPT !.status = "Cancelled"]
    BY <1>1, <1>3 DEF Settled
  <2> QED BY <1>1, <1>2, <2>1 DEF Export
<1>5. Settled[i] = exports[i]
  BY <1>1, <1>3, <1>4 DEF Settled
<1> QED BY <1>1, <1>4, <1>5 DEF ExportInv, ReadyAsked, ReadyExports

LEMMA StartNothingKeeps ==
    ASSUME ExportInv, NEW allow \in BOOLEAN, PollExports(allow), SentAny, StartNothing
    PROVE  ExportInv'
<1> USE DEF ExportInv
<1>1. /\ exports' = Settled /\ exporter' = Drained /\ appeared' = appeared
      /\ exporting' = IF SentAny THEN None ELSE exporting
      /\ stop' \in BOOLEAN
      /\ UNCHANGED <<nextExport, paused, persistent, files, session, epoch>>
      /\ PersistExports(exports', nextExport, paused)
      /\ authorized' = {i \in authorized : exports'[i].status # "Cancelled"}
  BY DEF StartNothing, PollExports
<1>2. RowsSound(exports', nextExport')
  BY <1>1, SettledSound
<1>3. saved' \in ExportFile /\ RowsSound(saved'.rows, saved'.nextExport)
  BY <1>1, <1>2, SaveKeeps DEF ExportTypeOK
<1>4. exporting' = None /\ None \notin Ids
  BY <1>1, ExportAssumption DEF ExportAssumption
<1>5. \A i \in Ids : exporter'[i] = "idle" /\ exports'[i].status # "Processing"
  BY <1>1, AllDrained
<1>6. exporter' \in [Ids -> ExporterStates]
  BY <1>1, DrainedWorkers DEF Drained
<1>7. ExportTypeOK'
  BY <1>1, <1>2, <1>3, <1>4, <1>6 DEF ExportTypeOK, RowsSound
<1>8. OwnersMeant'
  BY <1>1, SettledRow DEF OwnersMeant, OwnerMeant
<1>9. ReadyAsked'
  BY <1>1, SettledAsked DEF ReadyAsked, ReadyExports
<1> QED BY <1>2, <1>3, <1>4, <1>5, <1>7, <1>8, <1>9
        DEF SingleExporter, OnlyWhatWasAsked, MayPublish

\* Where a started row may write.
LEMMA BegunRow ==
    ASSUME ExportInv, NEW i \in ReadyExports(Settled),
           NEW state \in {"refused", "skipped", "running"}, NEW p \in Paths,
           MayBegin(Settled[i], {Settled[k].dest : k \in Reserving(Settled) \ {i}},
                    state, p)
    PROVE  /\ \A k \in Reserving(Settled) \ {i} : Settled[k].dest # p
           /\ state = "running" =>
                 /\ p \notin Protected
                 /\ p \in files => Settled[i].policy = "Overwrite"
<1> DEFINE others == {Settled[k].dest : k \in Reserving(Settled) \ {i}}
<1>1. i \in Reserving(Settled)
  BY DEF ReadyExports, Reserving, ReservesDestination
<1>2. Distinct(Settled)
  BY SettledSound DEF RowsSound
<1>3. \/ p = Settled[i].dest
      \/ p \in FirstFree(Settled[i].dest, others)
  BY DEF MayBegin
<1>4. p \in FirstFree(Settled[i].dest, others) => p \notin files \cup others
  BY DEF FirstFree, IsFirst
<1>5. \A k \in Reserving(Settled) \ {i} : Settled[k].dest # p
  BY <1>1, <1>2, <1>3, <1>4 DEF Distinct
<1>6. state = "running" => /\ p \notin Protected
                           /\ p \in files => Settled[i].policy = "Overwrite"
  BY <1>4 DEF MayBegin
<1> QED BY <1>5, <1>6

LEMMA StartKeeps ==
    ASSUME ExportInv, NEW allow \in BOOLEAN, PollExports(allow), MayStartExport(allow),
           NEW i \in Ids, StartExport(i)
    PROVE  ExportInv'
<1> USE DEF ExportInv
<1>1. PICK state \in {"refused", "skipped", "running"}, p \in Paths :
          /\ IsFirst(i, ReadyExports(Settled))
          /\ MayBegin(Settled[i], {Settled[k].dest : k \in Reserving(Settled) \ {i}},
                      state, p)
          /\ exports' = [Settled EXCEPT ![i].status = "Processing", ![i].dest = p]
          /\ exporter' = [Drained EXCEPT ![i] = state]
          /\ exporting' = i
          /\ appeared' = {}
  BY DEF StartExport
<1>2. /\ stop' \in BOOLEAN
      /\ UNCHANGED <<nextExport, paused, persistent, files, session, epoch>>
      /\ PersistExports(exports', nextExport, paused)
      /\ authorized' = {k \in authorized : exports'[k].status # "Cancelled"}
      /\ stop' = (stop /\ ~SentAny)
      /\ SentAny \/ exporting = None
      /\ SentAny \/ ~stop
  BY DEF PollExports, MayStartExport
<1>3. i \in ReadyExports(Settled) /\ i \in authorized
  BY <1>1, <1>2, SettledAsked DEF IsFirst
<1> DEFINE row == [Settled[i] EXCEPT !.status = "Processing", !.dest = p]
<1>4. Settled \in Exports /\ Settled[i] \in Export /\ Settled[i].status = "Waiting"
  BY <1>3, SettledRow, SettledSound, RowKinds DEF RowsSound, ReadyExports
<1>5. /\ row \in Export /\ row.status = "Processing" /\ row.dest = p
      /\ row.policy = Settled[i].policy
      /\ row.owner = Settled[i].owner /\ row.origin = Settled[i].origin
  BY <1>4 DEF Export, Statuses
<1>6. exports' = [Settled EXCEPT ![i] = row]
  BY <1>1, <1>4 DEF Exports
<1>7. /\ \A k \in Reserving(Settled) \ {i} : Settled[k].dest # p
      /\ state = "running" => /\ p \notin Protected
                              /\ p \in files => Settled[i].policy = "Overwrite"
  BY <1>1, <1>3, BegunRow
<1> HIDE DEF row
<1>8. exports'[i] = row /\ \A k \in Ids \ {i} : exports'[k] = Settled[k]
  BY <1>4, <1>6 DEF Exports
<1>9. RowsSound(exports', nextExport')
  <2>1. RowsSound(Settled, nextExport) /\ nextExport \in Nat \ {0}
    BY SettledSound DEF RowsSound
  <2>2. i \in Nat /\ ~(i >= nextExport)
    BY <1>4, <2>1, ExportAssumption DEF RowsSound, Unused, NoExport, ExportAssumption
  <2>3. RowsSound([Settled EXCEPT ![i] = row], nextExport)
    BY <1>5, <1>7, <2>1, <2>2, Taken
  <2> QED BY <1>2, <1>6, <2>3
<1>10. saved' \in ExportFile /\ RowsSound(saved'.rows, saved'.nextExport)
  BY <1>2, <1>9, SaveKeeps DEF ExportTypeOK
<1>11. \A k \in Ids : Drained[k] = "idle" /\ Settled[k].status # "Processing"
  BY <1>2, AllDrained
<1>12. exporter'[i] = state /\ \A k \in Ids \ {i} : exporter'[k] = "idle"
  BY <1>1, <1>11 DEF Drained
<1>13. exporter' \in [Ids -> ExporterStates]
  BY <1>1, <1>12, DrainedWorkers DEF Drained, ExporterStates
<1>14. ExportTypeOK'
  BY <1>1, <1>2, <1>9, <1>10, <1>13 DEF ExportTypeOK, RowsSound
<1>15. SingleExporter'
  BY <1>1, <1>5, <1>8, <1>11, <1>12 DEF SingleExporter
<1>16. OnlyWhatWasAsked'
  BY <1>2, <1>3, <1>5, <1>8, <1>12 DEF OnlyWhatWasAsked
<1>17. ReadyAsked'
  <2> SUFFICES ASSUME NEW k \in ReadyExports(exports)' PROVE k \in authorized'
    BY DEF ReadyAsked
  <2>1. k \in Ids /\ exports'[k].status = "Waiting" /\ ~exports'[k].held
    BY DEF ReadyExports
  <2>2. k # i
    BY <1>5, <1>8, <2>1
  <2>3. k \in ReadyExports(Settled)
    BY <1>8, <2>1, <2>2 DEF ReadyExports
  <2> QED BY <1>2, <2>1, <2>3, SettledAsked
<1>18. OwnersMeant'
  <2>1. \A k \in Ids : OwnerMeant(Settled[k])
    BY SettledRow DEF OwnersMeant
  <2>2. OwnerMeant(row)
    BY <1>4, <1>5, <2>1 DEF OwnerMeant
  <2> QED BY <1>2, <1>8, <2>1, <2>2 DEF OwnersMeant, OwnerMeant
<1>19. MayPublish'
  BY <1>2, <1>5, <1>7, <1>8, <1>12 DEF MayPublish, MayReplace
<1> QED BY <1>9, <1>10, <1>14, <1>15, <1>16, <1>17, <1>18, <1>19

LEMMA PollKeeps ==
    ASSUME ExportInv, NEW allow \in BOOLEAN, PollExports(allow)
    PROVE  ExportInv'
<1>1. CASE MayStartExport(allow)
  <2>1. PICK i \in Ids : StartExport(i)
    BY <1>1 DEF PollExports
  <2> QED BY <1>1, <2>1, StartKeeps
<1>2. CASE ~MayStartExport(allow)
  <2>1. SentAny /\ StartNothing
    BY <1>2 DEF PollExports
  <2> QED BY <2>1, StartNothingKeeps
<1> QED BY <1>1, <1>2

-------------------------------------------------------------------------------
(***************************************************************************)
(* Workers, other programs, the end of the process.                        *)
(***************************************************************************)
\* Beside the UI thread only workers and files change.
LEMMA WorldChange ==
    ASSUME ExportInv, UIElsewhere, exporter' \in [Ids -> ExporterStates],
           files' \subseteq Paths, appeared' \subseteq Paths, MayPublish',
           \A i \in Ids : exporter'[i] # "idle" <=> exporter[i] # "idle"
    PROVE  ExportInv'
<1> USE DEF ExportInv, UIElsewhere, exportQueue
<1>1. ExportTypeOK'
  BY DEF ExportTypeOK
<1>2. RowsSound(exports', nextExport') /\ RowsSound(saved'.rows, saved'.nextExport)
  OBVIOUS
<1>3. SingleExporter' /\ OnlyWhatWasAsked'
  BY DEF SingleExporter, OnlyWhatWasAsked
<1>4. ReadyAsked' /\ OwnersMeant'
  BY DEF ReadyAsked, ReadyExports, OwnersMeant, OwnerMeant
<1> QED BY <1>1, <1>2, <1>3, <1>4

LEMMA WorkerKeeps ==
    ASSUME ExportInv, NEW i \in Ids, ExportWorker(i), UIElsewhere
    PROVE  ExportInv'
<1>1. exporter \in [Ids -> ExporterStates] /\ files \subseteq Paths /\ appeared \subseteq Paths
  BY DEF ExportInv, ExportTypeOK
<1>2. PICK state \in ExporterStates \ {"idle", "running"} :
          exporter' = [exporter EXCEPT ![i] = state] /\ exporter[i] # "idle"
  BY DEF ExportWorker, PublishExport, ReportExport, Answers, ExporterStates
<1>3. \A k \in Ids : exporter'[k] # "running"
  BY <1>1, <1>2, ExportAssumption DEF ExportInv, SingleExporter, ExportAssumption
<1>4. files' \subseteq Paths /\ appeared' \subseteq Paths
  <2>1. exports[i] \in Export
    <3>1. exports[i] \in Export \cup {NoExport} /\ exports[i].status = "Processing"
      BY <1>2 DEF ExportInv, ExportTypeOK, SingleExporter, Exports
    <3> QED BY <3>1, RowKinds
  <2>2. exports[i].dest \in Paths
    BY <2>1 DEF Export
  <2> QED BY <1>1, <2>2 DEF ExportWorker, PublishExport, ReportExport
<1>5. MayPublish'
  BY <1>3 DEF MayPublish
<1> QED BY <1>1, <1>2, <1>4, <1>5, WorldChange

LEMMA TouchKeeps ==
    ASSUME ExportInv, NEW p \in Foreign, TouchFile(p), UIElsewhere
    PROVE  ExportInv'
<1>1. p \in Paths
  BY ExportAssumption DEF ExportAssumption
<1>2. /\ files' = IF p \in files THEN files \ {p} ELSE files \cup {p}
      /\ appeared' = IF p \in files THEN appeared ELSE appeared \cup {p}
      /\ exporter' = exporter /\ exports' = exports
  BY DEF TouchFile, UIElsewhere, exportQueue
<1>3. MayPublish'
  BY <1>2 DEF ExportInv, MayPublish, MayReplace
<1> QED BY <1>1, <1>2, <1>3, WorldChange DEF ExportInv, ExportTypeOK

\* Rows that come back from the file: held, in no project, none of them running.
LEMMA LoadedRow ==
    ASSUME NEW row \in Export \cup {NoExport}
    PROVE  /\ LoadedExport(row) \in Export \cup {NoExport}
           /\ row = NoExport => LoadedExport(row) = NoExport
           /\ ReservesDestination(LoadedExport(row).status) =>
                 ReservesDestination(row.status) /\ LoadedExport(row).dest = row.dest
           /\ LoadedExport(row).status # "Processing"
           /\ LoadedExport(row).status = "Waiting" => LoadedExport(row).held
           /\ LoadedExport(row).status # "Absent" => LoadedExport(row).owner = 0
<1>1. CASE row.status = "Absent"
  BY <1>1, RowKinds DEF LoadedExport, NoExport, ReservesDestination
<1>2. CASE row.status # "Absent"
  <2> DEFINE new == LoadedExport(row)
  <2>1. row \in Export
    BY <1>2, RowKinds
  <2>2. new = [row EXCEPT !.status = Restored(row.status),
                          !.held = Interrupted(row.status), !.owner = 0]
    BY <1>2, <2>1 DEF LoadedExport, Export
  <2>3. /\ Restored(row.status) \in Statuses \ {"NeedsRecovery", "Processing"}
        /\ Interrupted(row.status) \in BOOLEAN
        /\ Restored(row.status) = "Waiting" <=> Interrupted(row.status)
    BY <2>1 DEF Export, Restored, Interrupted, Statuses
  <2>4. 0 \in 0..MaxSession
    BY ExportAssumption DEF ExportAssumption
  <2>5. /\ new \in Export /\ new.status = Restored(row.status) /\ new.owner = 0
        /\ new.held = Interrupted(row.status) /\ new.dest = row.dest
    <3> DEFINE status == Restored(row.status)
               held == Interrupted(row.status)
    <3>1. status \in Statuses \ {"NeedsRecovery"} /\ held \in BOOLEAN
      BY <2>3
    <3>2. new = [row EXCEPT !.status = status, !.held = held, !.owner = 0]
      BY <2>2
    <3> HIDE DEF status, held, new
    <3>3. /\ new \in Export /\ new.status = status /\ new.owner = 0
          /\ new.held = held /\ new.dest = row.dest
      BY <2>1, <2>4, <3>1, <3>2 DEF Export
    <3> QED BY <3>3 DEF status, held
  <2> HIDE DEF new
  <2>6. ReservesDestination(new.status) => ReservesDestination(row.status)
    BY <2>3, <2>5 DEF ReservesDestination, Interrupted
  <2>7. row # NoExport
    BY <1>2 DEF NoExport
  <2>8. new.status # "Processing" /\ (new.status = "Waiting" => new.held)
    BY <2>3, <2>5
  <2> QED BY <2>5, <2>6, <2>7, <2>8 DEF new
<1> QED BY <1>1, <1>2

\* The rows of a new process: sound, none running, none ready, none of a project.
LEMMA NewProcess ==
    ASSUME ExportInv, ExportsDied, RowsSound(exports', nextExport'),
           {paused', persistent'} \subseteq BOOLEAN,
           \A i \in Ids : /\ exports'[i].status # "Processing"
                          /\ exports'[i].status = "Waiting" => exports'[i].held
                          /\ exports'[i].status # "Absent" => exports'[i].owner = 0
    PROVE  ExportInv'
<1> USE DEF ExportInv
<1>1. /\ epoch' \in 1..MaxEpoch /\ session' \in 1..MaxSession
      /\ exporting' = None /\ stop' = FALSE /\ authorized' = {} /\ appeared' = {}
      /\ exporter' = [i \in Ids |-> "idle"] /\ saved' = saved /\ files' = files
  BY ExportAssumption DEF ExportsDied, ExportTypeOK, ExportAssumption
<1>2. None \notin Ids
  BY ExportAssumption DEF ExportAssumption
<1>3. exporter' \in [Ids -> ExporterStates] /\ \A i \in Ids : exporter'[i] = "idle"
  BY <1>1 DEF ExporterStates
<1>4. ExportTypeOK'
  BY <1>1, <1>3 DEF ExportTypeOK, RowsSound
<1>5. SingleExporter' /\ OnlyWhatWasAsked' /\ MayPublish'
  BY <1>1, <1>2, <1>3 DEF SingleExporter, OnlyWhatWasAsked, MayPublish
<1>6. ReadyAsked' /\ OwnersMeant'
  BY DEF ReadyAsked, ReadyExports, OwnersMeant, OwnerMeant
<1> QED BY <1>1, <1>4, <1>5, <1>6

LEMMA ReloadKeeps ==
    ASSUME ExportInv, ReloadExports
    PROVE  ExportInv'
<1>1. saved \in ExportFile /\ RowsSound(saved.rows, saved.nextExport)
  BY DEF ExportInv, ExportTypeOK
<1>2. saved.rows \in Exports /\ saved.paused \in BOOLEAN
  BY <1>1 DEF ExportFile
<1>3. exports' = [i \in Ids |-> LoadedExport(saved.rows[i])] /\ nextExport' = saved.nextExport
  BY DEF ReloadExports
<1>4. exports' \in Exports
  BY <1>2, <1>3, LoadedRow DEF Exports
<1>5. \A i \in Ids : saved.rows[i] \in Export \cup {NoExport} /\ exports'[i] = LoadedExport(saved.rows[i])
  BY <1>2, <1>3 DEF Exports
<1>6. RowsSound(exports', nextExport')
  <2>1. \A i \in Ids :
            /\ saved.rows[i] = NoExport => exports'[i] = NoExport
            /\ ReservesDestination(exports'[i].status) =>
                  ReservesDestination(saved.rows[i].status) /\ exports'[i].dest = saved.rows[i].dest
    BY <1>5, LoadedRow
  <2> QED BY <1>1, <1>3, <1>4, <2>1, Narrowed
<1>7. \A i \in Ids : /\ exports'[i].status # "Processing"
                     /\ exports'[i].status = "Waiting" => exports'[i].held
                     /\ exports'[i].status # "Absent" => exports'[i].owner = 0
  BY <1>5, LoadedRow
<1> QED BY <1>2, <1>6, <1>7, NewProcess DEF ReloadExports

LEMMA LoseKeeps ==
    ASSUME ExportInv, LoseExportFile
    PROVE  ExportInv'
<1>1. exports' = NoExports /\ nextExport' = 1
  BY DEF LoseExportFile
<1>2. RowsSound(exports', nextExport')
  BY <1>1, EmptyRows
<1>3. \A i \in Ids : exports'[i].status = "Absent"
  BY <1>1 DEF NoExports, NoExport
<1> QED BY <1>2, <1>3, NewProcess DEF LoseExportFile

-------------------------------------------------------------------------------
(***************************************************************************)
(* Every step, and the theorems.                                           *)
(***************************************************************************)
LEMMA OperatorKeeps ==
    ASSUME ExportInv, ExportOperator
    PROVE  ExportInv'
<1>1. CASE \E choice \in Choices : EnqueueExport(choice[1], choice[2])
  <2>1. PICK choice \in Choices : EnqueueExport(choice[1], choice[2])
    BY <1>1
  <2>2. choice[1] \in Paths /\ choice[2] \in Policies
    BY ExportAssumption DEF ExportAssumption
  <2> QED BY <2>1, <2>2, EnqueueKeeps
<1>2. CASE \E i \in Ids : CancelExport(i) \/ StopAfterCurrent(i) \/ RetryExport(i)
  BY <1>2, CancelKeeps, StopKeeps, RetryKeeps
<1>3. CASE ResumeHeld
  <2> DEFINE waiting == {i \in Ids : exports[i].status = "Waiting" /\ exports[i].held}
  <2>1. PICK held \in SUBSET waiting : ResumeExports(held)
    BY <1>3 DEF ResumeHeld
  <2>2. held \subseteq {i \in Ids : exports[i].status = "Waiting"}
    OBVIOUS
  <2> QED BY <2>1, <2>2, ResumeKeeps
<1>4. CASE RetryAllFailed \/ ClearJobs \/ BumpSession
  BY <1>4, RetryAllKeeps, ClearKeeps, SessionKeeps
<1> QED BY <1>1, <1>2, <1>3, <1>4 DEF ExportOperator

LEMMA StutterKeeps ==
    ASSUME ExportInv, UNCHANGED exportVars
    PROVE  ExportInv'
<1>1. UIElsewhere /\ exporter' = exporter /\ files' = files /\ appeared' = appeared
  BY DEF exportVars, exportWorld, UIElsewhere
<1>2. MayPublish'
  BY <1>1 DEF ExportInv, MayPublish, MayReplace, UIElsewhere, exportQueue
<1> QED BY <1>1, <1>2, WorldChange DEF ExportInv, ExportTypeOK

LEMMA NextKeeps ==
    ASSUME ExportInv, [ExportNext]_exportVars
    PROVE  ExportInv'
<1>1. CASE ExportOperator
  BY <1>1, OperatorKeeps
<1>2. CASE \E value \in BOOLEAN : SetExportPaused(value)
  BY <1>2, PauseKeeps
<1>3. CASE \E allow \in BOOLEAN : PollExports(allow)
  BY <1>3, PollKeeps
<1>4. CASE ExportBackground /\ UIElsewhere
  BY <1>4, WorkerKeeps, TouchKeeps DEF ExportBackground
<1>5. CASE ReloadExports \/ LoseExportFile
  BY <1>5, ReloadKeeps, LoseKeeps
<1>6. CASE UNCHANGED exportVars
  BY <1>6, StutterKeeps
<1> QED BY <1>1, <1>2, <1>3, <1>4, <1>5, <1>6 DEF ExportNext

\* The rows, the file, the workers and the session numbers stay consistent with
\* each other whatever the operator, the workers, other programs and restarts do.
THEOREM ExportInvHolds == ExportSpec => []ExportInv
<1>1. ExportInit => ExportInv
  BY InitExports
<1>2. ExportInv /\ [ExportNext]_exportVars => ExportInv'
  BY NextKeeps
<1> QED BY <1>1, <1>2, PTL DEF ExportSpec

\* Every variable keeps its type.
THEOREM ExportTypes == ExportSpec => []ExportTypeOK
<1>1. ExportInv => ExportTypeOK
  BY DEF ExportInv
<1> QED BY <1>1, ExportInvHolds, PTL

\* No two exports that wait or run ever have one destination: enqueue_for_project
\* and retry look before they reserve, and so does the numbered name of a start.
THEOREM ExportDestinationsDistinct == ExportSpec => []DistinctDestinations
<1>1. ExportInv => DistinctDestinations
  BY DEF ExportInv, RowsSound, Distinct, DistinctDestinations
<1> QED BY <1>1, ExportInvHolds, PTL

\* No worker runs for a row that nobody asked for in this process, or that was
\* cancelled or stopped since.
THEOREM ExportOnlyWhatWasAsked == ExportSpec => []OnlyWhatWasAsked
<1>1. ExportInv => OnlyWhatWasAsked
  BY DEF ExportInv
<1> QED BY <1>1, ExportInvHolds, PTL

\* One worker at a time, the one active_id names.
THEOREM ExportSingleWorker == ExportSpec => []SingleExporter
<1>1. ExportInv => SingleExporter
  BY DEF ExportInv
<1> QED BY <1>1, ExportInvHolds, PTL

\* A finished export is recorded in the project it was taken from or in none: a
\* session number of a row is either 0 or that of a project of this process.
THEOREM ExportMarksOwnProject == ExportSpec => []MarksOwnProject
<1>1. ExportInv => MarksOwnProject
  <2> SUFFICES ASSUME ExportInv, NEW i \in Marks PROVE exports[i].origin = Here
    BY DEF MarksOwnProject
  <2>1. i \in Ids /\ exporter[i] = "sent success" /\ exports[i].owner = session
    BY DEF Marks
  <2>2. exports[i].status = "Processing"
    BY <2>1 DEF ExportInv, SingleExporter
  <2>3. session # 0
    BY DEF ExportInv, ExportTypeOK
  <2> QED BY <2>1, <2>2, <2>3 DEF ExportInv, OwnersMeant, OwnerMeant, Here
<1> QED BY <1>1, ExportInvHolds, PTL

\* The publication of an export never replaces a Face file, and a file of somebody
\* else only when the operator allowed it or it came after the check.
THEOREM ExportKeepsExisting == ExportSpec => KeepsExisting
<1>1. ExportInv => MayPublish
  BY DEF ExportInv
<1>2. MayPublish =>
        \A i \in Ids : exporter[i] = "running" /\ exporter'[i] = "written" =>
          /\ exports[i].dest \notin Protected
          /\ exports[i].dest \in files =>
                exports[i].policy = "Overwrite" \/ exports[i].dest \in appeared
  BY DEF MayPublish, MayReplace
<1> QED BY <1>1, <1>2, ExportInvHolds, PTL DEF KeepsExisting
=============================================================================
