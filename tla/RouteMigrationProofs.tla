------------------------- MODULE RouteMigrationProofs -------------------------
(***************************************************************************)
(* Safety of a route migration, for every number of Faces, every outcome   *)
(* of a rendering, and every interruption, cancellation and foreign change.*)
(*                                                                         *)
(* MigrationInv says what the journal on disk means for the three files of *)
(* each TIFF (OutputsSound) and for the project (ProjectSound), and what a *)
(* run knows at each place of its program (PlaceSound, MemSound, SeenSound *)
(* and LateSound).  An interruption takes only the run away; so what the   *)
(* journal means is all that a run that resumes has to go by.              *)
(***************************************************************************)
EXTENDS RouteMigration, SequenceTheorems, TLAPS

FilesAt(f, atFinal, atStaged, atBackup) ==
    final[f] = atFinal /\ staged[f] = atStaged /\ backup[f] = atBackup

\* The three files of a TIFF nobody else has changed, by the journal.
OutputSound(f, j) ==
    /\ j.stage = "Staging" =>
          /\ final[f] = Old /\ backup[f] = None
          /\ f <= Len(j.staged) => staged[f] = j.staged[f]
    /\ j.stage = "CommitPending" =>
          /\ f <= j.committed => FilesAt(f, j.staged[f], None, Old)
          /\ f = j.committed + 1 =>
                \/ FilesAt(f, Old, j.staged[f], None)
                \/ FilesAt(f, None, j.staged[f], Old)
                \/ FilesAt(f, j.staged[f], None, Old)
          /\ f > j.committed + 1 => FilesAt(f, Old, j.staged[f], None)
    /\ j.stage = "ProductionProjectSavePending" => FilesAt(f, j.staged[f], None, Old)
    /\ j.stage = "Complete" =>
          final[f] = j.staged[f] /\ staged[f] = None /\ backup[f] \in {Old, None}

Listed(j) == [f \in Faces |-> j.staged[f]]

OutputsSound ==
    \A f \in Faces \ touched :
        IF journal = None
        THEN /\ staged[f] = None /\ backup[f] = None
             /\ project = Old => final[f] = Old
             /\ project \in Migrated => final[f] = project[f]
        ELSE OutputSound(f, journal)

\* The project, if nobody else has changed it.
OwnProject ==
    IF journal = None THEN project # Foreign
    ELSE /\ journal.stage \in {"Staging", "CommitPending"} => project = Old
         /\ journal.stage = "ProductionProjectSavePending" =>
               project = Old \/ (project = Listed(journal) /\ projectBackup = Old)
         /\ journal.stage = "Complete" => project = Listed(journal)

ProjectSound ==
    /\ 0 \notin touched => OwnProject
    /\ journal # None =>
          /\ project \in Migrated =>
                /\ journal.stage \in {"ProductionProjectSavePending", "Complete"}
                /\ project = Listed(journal)
          /\ journal.stage = "Complete" => project # Old

\* The places of a run, by the stage of its journal.
Swapping == {"move", "moving", "publish", "publishing", "record", "restage", "rerender",
             "save restage"}

PlaceSound ==
    /\ pc \in {"stage", "render", "save stage"} => mem.stage = "Staging"
    /\ pc \in {"commit"} \cup Swapping => mem.stage = "CommitPending"
    /\ pc \in Swapping => ToCommit \in Faces
    /\ pc \in {"outputs", "save project", "back up", "replace", "reopen"} =>
          mem.stage = "ProductionProjectSavePending"
    /\ pc = "clean" => mem.stage = "Complete"

\* What a run holds in memory is what the journal says, but for the one
\* replacement it has just rendered.
MemSound ==
    /\ mem # None => journal # None
    /\ mem # None /\ pc \notin {"save stage", "save restage"} => mem = journal
    /\ pc = "save stage" =>
          /\ journal.stage = "Staging" /\ Len(journal.staged) + 1 \in Faces
          /\ \E bytes \in Renders :
                /\ mem = [journal EXCEPT !.staged = Append(@, bytes)]
                /\ Len(journal.staged) + 1 \notin touched =>
                      staged[Len(journal.staged) + 1] = bytes
    /\ pc = "save restage" =>
          /\ journal.stage = "CommitPending" /\ journal.committed + 1 \in touched
          /\ \E bytes \in Renders :
                mem = [journal EXCEPT !.staged[journal.committed + 1] = bytes]

\* What a run has seen, or done, and nobody else has undone.
SeenSound ==
    /\ pc = "render" =>
          /\ ToStage \in Faces
          /\ ToStage \notin touched => staged[ToStage] = None
    /\ pc \in {"restage", "rerender"} => ToCommit \in touched
    /\ pc \in Swapping /\ ToCommit \notin touched =>
          /\ pc \in {"move", "moving"} => FilesAt(ToCommit, Old, New(ToCommit), None)
          /\ pc \in {"publish", "publishing"} => FilesAt(ToCommit, None, New(ToCommit), Old)
          /\ pc = "record" => FilesAt(ToCommit, New(ToCommit), None, Old)
    /\ 0 \notin touched =>
          /\ pc \in {"save project", "back up", "replace"} => project = Old
          /\ pc = "replace" => projectBackup = Old
          /\ pc = "reopen" => project = Expected /\ projectBackup = Old

\* What others put where the run is about to write came after it last looked.
LateSound ==
    /\ pc \in {"moving", "publish", "publishing"} /\ final[ToCommit] = Foreign =>
          ToCommit \in late
    /\ pc \in {"back up", "replace"} /\ project = Foreign => 0 \in late

MigrationInv ==
    /\ TypeOK
    /\ OutputsSound
    /\ ProjectSound
    /\ PlaceSound
    /\ MemSound
    /\ SeenSound
    /\ LateSound
    /\ OwnTracesRecognised

-------------------------------------------------------------------------------
(***************************************************************************)
(* Journals, and steps that change only a part of the state.               *)
(***************************************************************************)
\* What accompanies every step of a run.
RunFrame ==
    /\ late' = IF pc \in Looks THEN {} ELSE late
    /\ UNCHANGED <<faults, touched>>

LEMMA FacesKnown ==
    N \in Nat \ {0} /\ \A f \in Faces : f \in Nat /\ f >= 1 /\ f <= N
  BY MigrationAssumption DEF MigrationAssumption, Faces

LEMMA JournalKnown ==
    ASSUME NEW j \in Journal, Valid(j)
    PROVE  /\ j.stage \in Stages /\ j.staged \in Seq(Renders) /\ Len(j.staged) \in 0..N
           /\ j.committed \in 0..N /\ j.committed <= Len(j.staged)
           /\ j.committed \in Nat /\ Len(j.staged) \in Nat
           /\ \A f \in 1..Len(j.staged) : f \in Faces /\ j.staged[f] \in Renders
           /\ j.stage = "Staging" => j.committed = 0
           /\ j.stage # "Staging" =>
                 Len(j.staged) = N /\ \A f \in Faces : j.staged[f] \in Renders
           /\ j.stage \in {"ProductionProjectSavePending", "Complete"} => j.committed = N
<1>1. /\ j.stage \in Stages /\ j.staged \in Seq(Renders) /\ j.committed \in 0..N
      /\ Len(j.staged) \in Nat /\ N \in Nat
  BY MigrationAssumption DEF Journal, MigrationAssumption
<1>2. \A f \in 1..Len(j.staged) : j.staged[f] \in Renders
  BY <1>1
<1> QED BY <1>1, <1>2 DEF Valid, Faces

LEMMA ContentsDiffer ==
    /\ Old # Foreign /\ Old # None /\ Foreign # None
    /\ \A bytes \in Renders : bytes # Old /\ bytes # None /\ bytes # Foreign
    /\ \A p \in Migrated : p # Old /\ p # None /\ p # Foreign
  BY MigrationAssumption DEF MigrationAssumption

LEMMA MemKnown ==
    ASSUME MigrationInv, pc \in Busy
    PROVE  /\ mem # None /\ journal # None
           /\ mem \in Journal /\ Valid(mem) /\ journal \in Journal /\ Valid(journal)
           /\ pc \notin {"save stage", "save restage"} => mem = journal
<1>1. mem # None /\ journal # None
  BY DEF MigrationInv, TypeOK, MemSound
<1> QED BY <1>1 DEF MigrationInv, TypeOK, MemSound

LEMMA ExpectedMigrated ==
    ASSUME NEW j \in Journal, Valid(j), j.stage # "Staging"
    PROVE  Listed(j) \in Migrated
  BY JournalKnown DEF Listed, Migrated

\* The run is over: an end of its own, an interruption, a cancellation.
LEMMA RunEnds ==
    ASSUME MigrationInv, pc' \in Ended, mem' = None,
           UNCHANGED <<fileVars, projectVars, journal, touched>>,
           late' \subseteq touched, faults' \in 0..MaxFaults,
           pc' = "refused" => touched # {}
    PROVE  MigrationInv'
<1> USE DEF MigrationInv, fileVars, projectVars
<1>1. pc' \notin Busy /\ pc' \notin Swapping
  BY DEF Ended, Busy, Swapping
<1>2. TypeOK'
  BY <1>1 DEF TypeOK
<1>3. OutputsSound' /\ ProjectSound'
  BY DEF OutputsSound, OutputSound, FilesAt, ProjectSound, OwnProject
<1>4. PlaceSound' /\ MemSound' /\ SeenSound' /\ LateSound'
  BY <1>1 DEF Ended, PlaceSound, MemSound, SeenSound, LateSound
<1>5. OwnTracesRecognised'
  BY DEF OwnTracesRecognised
<1> QED BY <1>2, <1>3, <1>4, <1>5

LEMMA RefusalKeeps ==
    ASSUME MigrationInv, Refuse, RunFrame, touched # {}
    PROVE  MigrationInv'
  BY RunEnds DEF Refuse, RunFrame, Ended, MigrationInv, TypeOK

\* Only the position of the run changes.
LEMMA MoveOn ==
    ASSUME MigrationInv, pc \in Busy \ {"save stage", "save restage"},
           NEW next \in Busy \ {"save stage", "save restage"}, GoTo(next), RunFrame,
           PlaceSound', SeenSound', LateSound'
    PROVE  MigrationInv'
<1> USE DEF MigrationInv, fileVars, projectVars, GoTo, RunFrame
<1>1. TypeOK'
  BY MemKnown DEF TypeOK
<1>2. OutputsSound' /\ ProjectSound'
  BY DEF OutputsSound, OutputSound, FilesAt, ProjectSound, OwnProject
<1>3. MemSound'
  BY DEF MemSound
<1>4. OwnTracesRecognised'
  BY DEF OwnTracesRecognised, Busy
<1> QED BY <1>1, <1>2, <1>3, <1>4

\* The journal is saved.
LEMMA CheckpointKeeps ==
    ASSUME MigrationInv, NEW j \in Journal, Valid(j),
           NEW next \in Busy \ {"save stage", "save restage"}, Checkpoint(j, next), RunFrame,
           OutputsSound', ProjectSound', PlaceSound', SeenSound', LateSound'
    PROVE  MigrationInv'
<1> USE DEF MigrationInv, fileVars, projectVars, Checkpoint, RunFrame
<1>1. j # None
  BY JournalAssumption DEF JournalAssumption
<1>2. TypeOK'
  BY <1>1 DEF TypeOK
<1>3. MemSound'
  BY <1>1 DEF MemSound
<1>4. OwnTracesRecognised'
  BY DEF OwnTracesRecognised, Busy
<1> QED BY <1>2, <1>3, <1>4

\* Files change while the journal and the project stay.
LEMMA FilesChange ==
    ASSUME MigrationInv, {final', staged', backup'} \subseteq [Faces -> Contents],
           UNCHANGED <<projectVars, journal>>, RunFrame,
           mem' \in Journal, Valid(mem'), pc' \in Busy,
           OutputsSound', PlaceSound', MemSound', SeenSound', LateSound'
    PROVE  MigrationInv'
<1> USE DEF MigrationInv, projectVars, RunFrame
<1>1. mem' # None
  BY JournalAssumption DEF JournalAssumption
<1>2. TypeOK'
  BY <1>1 DEF TypeOK
<1>3. ProjectSound'
  BY DEF ProjectSound, OwnProject
<1>4. OwnTracesRecognised'
  BY DEF OwnTracesRecognised, Busy
<1> QED BY <1>2, <1>3, <1>4

\* ... and the run is refused after the change.
LEMMA FilesChangeRefused ==
    ASSUME MigrationInv, {final', staged', backup'} \subseteq [Faces -> Contents],
           UNCHANGED <<projectVars, journal>>, RunFrame,
           mem' = None, pc' = "refused", touched # {}, OutputsSound'
    PROVE  MigrationInv'
<1> USE DEF MigrationInv, projectVars, RunFrame
<1>1. pc' \in Ended /\ pc' \notin Busy /\ pc' \notin Swapping
  BY DEF Ended, Busy, Swapping
<1>2. TypeOK'
  BY <1>1 DEF TypeOK
<1>3. ProjectSound'
  BY DEF ProjectSound, OwnProject
<1>4. PlaceSound' /\ MemSound' /\ SeenSound' /\ LateSound'
  BY <1>1 DEF PlaceSound, MemSound, SeenSound, LateSound
<1>5. OwnTracesRecognised'
  BY DEF OwnTracesRecognised
<1> QED BY <1>2, <1>3, <1>4, <1>5

LEMMA MigrationInits == Init => MigrationInv
<1> SUFFICES ASSUME Init PROVE MigrationInv
  OBVIOUS
<1> USE ContentsDiffer DEF Init
<1>1. TypeOK
  BY MigrationAssumption DEF TypeOK, Contents, Projects, Ended, Busy, MigrationAssumption
<1>2. OutputsSound /\ ProjectSound
  BY DEF OutputsSound, ProjectSound, OwnProject
<1>3. PlaceSound /\ MemSound /\ SeenSound /\ LateSound /\ OwnTracesRecognised
  BY DEF PlaceSound, MemSound, SeenSound, LateSound, OwnTracesRecognised, Swapping
<1> QED BY <1>1, <1>2, <1>3 DEF MigrationInv

-------------------------------------------------------------------------------
(***************************************************************************)
(* Begin and resume.                                                       *)
(***************************************************************************)
LEMMA StartKeeps ==
    ASSUME MigrationInv, Start, RunFrame
    PROVE  MigrationInv'
<1> USE DEF MigrationInv
<1>1. journal = None /\ project \in {Old, Foreign}
  BY DEF Start
<1>2. CASE project = Old /\ \A f \in Faces : final[f] = Old
  <2>1. Checkpoint(Fresh, "enter")
    BY <1>2 DEF Start, OnlyIf
  <2>2. Fresh \in Journal /\ Valid(Fresh) /\ Len(Fresh.staged) = 0 /\ Fresh.stage = "Staging"
    BY MigrationAssumption DEF Fresh, Journal, Valid, Stages, MigrationAssumption
  <2>3. "enter" \in Busy \ {"save stage", "save restage"} /\ "enter" \notin Swapping
    BY DEF Busy, Swapping
  <2>4. journal' = Fresh /\ pc' = "enter" /\ UNCHANGED <<fileVars, projectVars, touched>>
    BY <2>1 DEF Checkpoint, RunFrame
  <2>5. Fresh # None
    BY <2>2, JournalAssumption DEF JournalAssumption
  <2>6. OutputsSound'
    BY <1>1, <1>2, <2>2, <2>4, <2>5 DEF OutputsSound, OutputSound, fileVars, Faces
  <2>7. ProjectSound'
    BY <1>2, <2>2, <2>4, ContentsDiffer DEF ProjectSound, OwnProject, projectVars
  <2>8. PlaceSound' /\ SeenSound' /\ LateSound'
    BY <2>3, <2>4 DEF PlaceSound, SeenSound, LateSound
  <2> QED BY <2>1, <2>2, <2>3, <2>6, <2>7, <2>8, CheckpointKeeps
<1>3. CASE ~(project = Old /\ \A f \in Faces : final[f] = Old)
  <2>1. Refuse
    BY <1>3 DEF Start, OnlyIf
  <2>2. touched # {}
    BY <1>1, <1>3 DEF OutputsSound, ProjectSound, OwnProject
  <2> QED BY <2>1, <2>2, RefusalKeeps
<1> QED BY <1>2, <1>3

LEMMA ResumeKeeps ==
    ASSUME MigrationInv, Resume, RunFrame
    PROVE  MigrationInv'
<1> USE DEF MigrationInv, Resume, RunFrame, fileVars, projectVars
<1>1. "enter" \in Busy /\ "enter" \notin Swapping
  BY DEF Busy, Swapping
<1>2. TypeOK'
  BY <1>1 DEF TypeOK
<1>3. OutputsSound' /\ ProjectSound'
  BY DEF OutputsSound, OutputSound, FilesAt, ProjectSound, OwnProject
<1>4. PlaceSound' /\ MemSound' /\ SeenSound' /\ LateSound' /\ OwnTracesRecognised'
  BY <1>1 DEF PlaceSound, MemSound, SeenSound, LateSound, OwnTracesRecognised
<1> QED BY <1>2, <1>3, <1>4

LEMMA EnterKeeps ==
    ASSUME MigrationInv, Enter, RunFrame
    PROVE  MigrationInv'
<1> USE DEF MigrationInv
<1>1. pc = "enter" /\ pc \in Busy \ {"save stage", "save restage"}
  BY DEF Enter, Busy
<1>2. mem = journal /\ mem # None /\ mem \in Journal /\ Valid(mem) /\ mem.stage \in Stages
  BY <1>1, MemKnown, JournalKnown
<1>3. ASSUME NEW next \in {"stage", "commit", "outputs", "clean"}, GoTo(next),
             PlaceSound'
      PROVE  MigrationInv'
  <2>1. next \in Busy \ {"save stage", "save restage"} /\ pc' = next
    BY <1>3 DEF Busy, GoTo
  <2>2. SeenSound' /\ LateSound'
    BY <1>3, <2>1 DEF SeenSound, LateSound, Swapping
  <2> QED BY <1>1, <1>3, <2>1, <2>2, MoveOn
<1>4. ASSUME NEW next \in {"stage", "commit", "outputs", "clean"}, GoTo(next),
             \/ next = "stage" /\ mem.stage = "Staging"
             \/ next = "commit" /\ mem.stage = "CommitPending"
             \/ next = "outputs" /\ mem.stage = "ProductionProjectSavePending"
             \/ next = "clean" /\ mem.stage = "Complete"
      PROVE  PlaceSound'
  BY <1>4 DEF GoTo, PlaceSound, Swapping
<1>5. CASE mem.stage = "Staging"
  <2>1. OnlyIf(project = Old /\ StagingPrefixIntact, GoTo("stage"))
    BY <1>5 DEF Enter
  <2>2. touched = {} => project = Old /\ StagingPrefixIntact
    BY <1>2, <1>5, JournalKnown DEF OutputsSound, OutputSound, ProjectSound, OwnProject,
       StagingPrefixIntact
  <2> QED BY <1>3, <1>4, <1>5, <2>1, <2>2, RefusalKeeps DEF OnlyIf
<1>6. CASE mem.stage = "CommitPending"
  <2>1. OnlyIf(project = Old, GoTo("commit"))
    BY <1>6 DEF Enter
  <2>2. touched = {} => project = Old
    BY <1>2, <1>6 DEF ProjectSound, OwnProject
  <2> QED BY <1>3, <1>4, <1>6, <2>1, <2>2, RefusalKeeps DEF OnlyIf
<1>7. CASE mem.stage = "ProductionProjectSavePending"
  <2>1. GoTo("outputs")
    BY <1>7 DEF Enter
  <2> QED BY <1>3, <1>4, <1>7, <2>1
<1>8. CASE mem.stage = "Complete"
  <2>1. OnlyIf(project = Expected /\ FinalsCommitted, GoTo("clean"))
    BY <1>8 DEF Enter
  <2>2. touched = {} => project = Expected /\ FinalsCommitted
    BY <1>2, <1>8 DEF OutputsSound, OutputSound, ProjectSound, OwnProject, Expected, Listed,
       FinalsCommitted
  <2> QED BY <1>3, <1>4, <1>8, <2>1, <2>2, RefusalKeeps DEF OnlyIf
<1> QED BY <1>2, <1>5, <1>6, <1>7, <1>8 DEF Stages

-------------------------------------------------------------------------------
(***************************************************************************)
(* Staging.                                                                *)
(***************************************************************************)
LEMMA BeginCommitKeeps ==
    ASSUME MigrationInv, BeginCommit, RunFrame
    PROVE  MigrationInv'
<1> USE DEF MigrationInv
<1> DEFINE j == [mem EXCEPT !.stage = "CommitPending"]
<1>1. pc = "stage" /\ ToStage > N /\ Checkpoint(j, "commit")
  BY DEF BeginCommit
<1>2. pc \in Busy /\ pc \notin {"save stage", "save restage"}
  BY <1>1 DEF Busy
<1>3. mem = journal /\ mem \in Journal /\ Valid(mem) /\ mem.stage = "Staging"
  BY <1>1, <1>2, MemKnown DEF PlaceSound
<1>4. Len(mem.staged) = N /\ mem.committed = 0 /\ N \in Nat \ {0}
  BY <1>1, <1>3, JournalKnown, MigrationAssumption DEF ToStage, MigrationAssumption
<1>5. j \in Journal /\ j.stage = "CommitPending" /\ j.staged = mem.staged /\ j.committed = 0
  BY <1>3, <1>4 DEF Journal, Stages
<1>6. Valid(j)
  BY <1>4, <1>5 DEF Valid
<1>7. "commit" \in Busy \ {"save stage", "save restage"} /\ "commit" \notin Swapping
  BY DEF Busy, Swapping
<1> HIDE DEF j
<1>8. /\ journal' = j /\ mem' = j /\ pc' = "commit" /\ j # None
      /\ UNCHANGED <<fileVars, projectVars, touched>>
  BY <1>1, <1>5, JournalAssumption DEF Checkpoint, RunFrame, JournalAssumption
<1>9. OutputsSound'
  <2> SUFFICES ASSUME NEW f \in Faces \ touched PROVE OutputSound(f, journal)'
    BY <1>8 DEF OutputsSound
  <2>1. OutputSound(f, journal) /\ f \in Nat /\ f >= 1 /\ f <= N
    BY <1>2, MemKnown, FacesKnown DEF OutputsSound
  <2> QED BY <1>3, <1>4, <1>5, <1>8, <2>1 DEF OutputSound, FilesAt, fileVars
<1>10. ProjectSound'
  BY <1>2, <1>3, <1>5, <1>8, MemKnown DEF ProjectSound, OwnProject, projectVars
<1>11. PlaceSound' /\ SeenSound' /\ LateSound'
  BY <1>5, <1>7, <1>8 DEF PlaceSound, SeenSound, LateSound
<1> QED BY <1>1, <1>5, <1>6, <1>7, <1>9, <1>10, <1>11, CheckpointKeeps

\* Removing what is at a staged path that the journal says nothing about.
LEMMA ClearStageKeeps ==
    ASSUME MigrationInv, ClearStage, RunFrame
    PROVE  MigrationInv'
<1> USE DEF MigrationInv
<1>1. pc = "stage" /\ ToStage \in Faces /\ ClearAt(ToStage, project = Old, "render")
  BY DEF ClearStage
<1>2. pc \in Busy /\ pc \notin {"save stage", "save restage"} /\ "render" \in Busy
      /\ "render" \notin Swapping
  BY <1>1 DEF Busy, Swapping
<1>3. mem = journal /\ mem \in Journal /\ Valid(mem) /\ mem.stage = "Staging" /\ journal # None
  BY <1>1, <1>2, MemKnown DEF PlaceSound
<1>4. Len(mem.staged) \in 0..N /\ N \in Nat /\ ToStage = Len(mem.staged) + 1
  BY <1>3, JournalKnown, MigrationAssumption DEF ToStage, MigrationAssumption
<1>5. CASE project = Old /\ final[ToStage] = Old /\ backup[ToStage] = None
  <2>1. /\ staged' = [staged EXCEPT ![ToStage] = None] /\ pc' = "render"
        /\ UNCHANGED <<final, backup, projectVars, journal, mem, touched>>
    BY <1>1, <1>5 DEF ClearAt, RunFrame
  <2>2. staged \in [Faces -> Contents] /\ None \in Contents
    BY DEF TypeOK, Contents
  <2>3. staged' \in [Faces -> Contents] /\ staged'[ToStage] = None
        /\ \A f \in Faces \ {ToStage} : staged'[f] = staged[f]
    BY <1>1, <2>1, <2>2
  <2>4. OutputsSound'
    <3> SUFFICES ASSUME NEW f \in Faces \ touched PROVE OutputSound(f, journal)'
      BY <1>3, <2>1 DEF OutputsSound
    <3>1. OutputSound(f, journal)
      BY <1>3 DEF OutputsSound
    <3>2. f <= Len(mem.staged) => f # ToStage
      BY <1>4 DEF Faces
    <3> QED BY <1>3, <2>1, <2>3, <3>1, <3>2 DEF OutputSound
  <2>5. ToStage' = ToStage
    BY <2>1 DEF ToStage
  <2>6. PlaceSound' /\ MemSound' /\ SeenSound' /\ LateSound'
    BY <1>1, <1>2, <1>3, <2>1, <2>3, <2>5 DEF PlaceSound, MemSound, SeenSound, LateSound
  <2> QED BY <1>2, <1>3, <2>1, <2>3, <2>4, <2>6, FilesChange DEF TypeOK
<1>6. CASE ~(project = Old /\ final[ToStage] = Old /\ backup[ToStage] = None)
  <2>1. Refuse
    BY <1>1, <1>6 DEF ClearAt
  <2>2. touched # {}
    BY <1>1, <1>3, <1>6 DEF OutputsSound, OutputSound, ProjectSound, OwnProject
  <2> QED BY <2>1, <2>2, RefusalKeeps
<1> QED BY <1>5, <1>6

\* A file rendered for a Face past those on record.
LEMMA RenderKeeps ==
    ASSUME MigrationInv, Render, RunFrame
    PROVE  MigrationInv'
<1> USE DEF MigrationInv
<1> DEFINE longer == [bytes \in Renders |-> [mem EXCEPT !.staged = Append(@, bytes)]]
<1>1. pc = "render" /\ RenderAt(ToStage, longer, "save stage")
  BY DEF Render
<1>2. pc \in Busy /\ pc \notin {"save stage", "save restage"} /\ "save stage" \in Busy
      /\ "save stage" \notin Swapping
  BY <1>1 DEF Busy, Swapping
<1>3. mem = journal /\ mem \in Journal /\ Valid(mem) /\ mem.stage = "Staging" /\ journal # None
  BY <1>1, <1>2, MemKnown DEF PlaceSound
<1>4. /\ mem.staged \in Seq(Renders) /\ Len(mem.staged) \in 0..N /\ mem.committed = 0
      /\ N \in Nat /\ ToStage = Len(mem.staged) + 1 /\ ToStage \in Faces
  BY <1>1, <1>3, JournalKnown, MigrationAssumption DEF ToStage, MigrationAssumption, SeenSound
<1>5. CASE staged[ToStage] = None
  <2>1. PICK bytes \in Renders :
            /\ staged' = [staged EXCEPT ![ToStage] = bytes]
            /\ mem' = longer[bytes]
            /\ pc' = "save stage"
            /\ UNCHANGED <<final, backup, projectVars, journal>>
    BY <1>1, <1>5 DEF RenderAt
  <2>2. mem' = [mem EXCEPT !.staged = Append(mem.staged, bytes)]
    BY <2>1
  <2>3. Append(mem.staged, bytes) \in Seq(Renders)
        /\ Len(Append(mem.staged, bytes)) = Len(mem.staged) + 1
    BY <1>4
  <2>4. /\ mem' \in Journal /\ mem'.stage = "Staging" /\ mem'.committed = 0
        /\ mem'.staged = Append(mem.staged, bytes)
    BY <1>3, <1>4, <2>2, <2>3 DEF Journal
  <2>5. Valid(mem')
    BY <1>4, <2>3, <2>4 DEF Valid, Faces
  <2>6. staged' \in [Faces -> Contents] /\ staged'[ToStage] = bytes
        /\ \A f \in Faces \ {ToStage} : staged'[f] = staged[f]
    BY <1>4, <2>1 DEF TypeOK, Contents
  <2>7. OutputsSound'
    <3> SUFFICES ASSUME NEW f \in Faces \ touched PROVE OutputSound(f, journal)'
      BY <1>3, <2>1 DEF OutputsSound, RunFrame
    <3>1. OutputSound(f, journal)
      BY <1>3 DEF OutputsSound
    <3>2. f <= Len(mem.staged) => f # ToStage
      BY <1>4 DEF Faces
    <3> QED BY <1>3, <2>1, <2>6, <3>1, <3>2 DEF OutputSound
  <2>8. MemSound'
    BY <1>3, <1>4, <2>1, <2>2, <2>6 DEF MemSound
  <2>9. PlaceSound' /\ SeenSound' /\ LateSound'
    BY <1>2, <2>1, <2>4 DEF PlaceSound, SeenSound, LateSound
  <2>10. {final', staged', backup'} \subseteq [Faces -> Contents]
    BY <2>1, <2>6 DEF TypeOK
  <2>11. pc' \in Busy
    BY <1>2, <2>1
  <2> HIDE DEF MigrationInv
  <2> QED BY <2>1, <2>4, <2>5, <2>7, <2>8, <2>9, <2>10, <2>11, FilesChange
<1>6. CASE staged[ToStage] # None
  <2>1. Refuse
    BY <1>1, <1>6 DEF RenderAt
  <2>2. touched # {}
    BY <1>1, <1>6 DEF SeenSound
  <2> QED BY <2>1, <2>2, RefusalKeeps
<1> QED BY <1>5, <1>6

LEMMA SaveStageKeeps ==
    ASSUME MigrationInv, SaveStage, RunFrame
    PROVE  MigrationInv'
<1> USE DEF MigrationInv
<1>1. pc = "save stage" /\ Checkpoint(mem, "stage")
  BY DEF SaveStage
<1>2. pc \in Busy /\ "stage" \in Busy \ {"save stage", "save restage"} /\ "stage" \notin Swapping
  BY <1>1 DEF Busy, Swapping
<1>3. mem \in Journal /\ Valid(mem) /\ mem # None /\ journal \in Journal /\ Valid(journal)
      /\ journal # None /\ mem.stage = "Staging" /\ journal.stage = "Staging"
  BY <1>1, <1>2, MemKnown DEF PlaceSound, MemSound
<1>4. PICK bytes \in Renders :
          /\ mem = [journal EXCEPT !.staged = Append(journal.staged, bytes)]
          /\ Len(journal.staged) + 1 \notin touched => staged[Len(journal.staged) + 1] = bytes
  BY <1>1 DEF MemSound
<1>5. journal.staged \in Seq(Renders) /\ Len(journal.staged) \in Nat
  BY <1>3, JournalKnown
<1>6. mem.staged = Append(journal.staged, bytes)
  BY <1>3, <1>4 DEF Journal
<1>7. /\ journal' = mem /\ mem' = mem /\ pc' = "stage"
      /\ UNCHANGED <<fileVars, projectVars, touched>>
  BY <1>1 DEF Checkpoint, RunFrame
<1>8. OutputsSound'
  <2> SUFFICES ASSUME NEW f \in Faces \ touched PROVE OutputSound(f, mem)'
    BY <1>3, <1>7 DEF OutputsSound
  <2>1. OutputSound(f, journal) /\ f \in Nat /\ f >= 1
    BY <1>3 DEF OutputsSound, Faces
  <2>2. f <= Len(mem.staged) => staged[f] = mem.staged[f]
    <3>1. CASE f <= Len(journal.staged)
      BY <1>3, <1>5, <1>6, <2>1, <3>1 DEF OutputSound
    <3>2. CASE f = Len(journal.staged) + 1
      BY <1>4, <1>5, <1>6, <3>2
    <3> QED BY <1>5, <1>6, <2>1, <3>1, <3>2
  <2> QED BY <1>3, <1>7, <2>1, <2>2 DEF OutputSound, fileVars
<1>9. ProjectSound'
  BY <1>3, <1>7 DEF ProjectSound, OwnProject, projectVars
<1>10. PlaceSound' /\ SeenSound' /\ LateSound'
  BY <1>2, <1>3, <1>7 DEF PlaceSound, SeenSound, LateSound
<1> QED BY <1>1, <1>2, <1>3, <1>8, <1>9, <1>10, CheckpointKeeps

-------------------------------------------------------------------------------
(***************************************************************************)
(* Commit.                                                                 *)
(***************************************************************************)
\* What a run knows while it commits.
LEMMA Committing ==
    ASSUME MigrationInv, pc \in {"commit"} \cup (Swapping \ {"save restage"})
    PROVE  /\ pc \in Busy /\ pc \notin {"save stage", "save restage"}
           /\ mem = journal /\ mem \in Journal /\ Valid(mem) /\ journal # None
           /\ mem.stage = "CommitPending"
           /\ mem.committed \in Nat /\ N \in Nat /\ ToCommit = mem.committed + 1
           /\ Len(mem.staged) = N
           /\ \A f \in Faces : f \in Nat /\ f >= 1 /\ f <= N /\ New(f) \in Renders
           /\ pc # "commit" => ToCommit \in Faces
<1>1. pc \in Busy /\ pc \notin {"save stage", "save restage"}
  BY DEF Busy, Swapping
<1>2. mem = journal /\ mem \in Journal /\ Valid(mem) /\ journal # None
  BY <1>1, MemKnown
<1>3. mem.stage = "CommitPending" /\ (pc # "commit" => ToCommit \in Faces)
  BY DEF MigrationInv, PlaceSound
<1>4. N \in Nat /\ \A f \in Faces : f \in Nat /\ f >= 1 /\ f <= N
  BY FacesKnown
<1>5. /\ mem.committed \in Nat /\ Len(mem.staged) = N
      /\ \A f \in Faces : mem.staged[f] \in Renders
  BY <1>2, <1>3, JournalKnown
<1>6. ToCommit = mem.committed + 1 /\ \A f \in Faces : New(f) \in Renders
  BY <1>5 DEF ToCommit, New
<1> QED BY <1>1, <1>2, <1>3, <1>4, <1>5, <1>6

LEMMA SavePendingKeeps ==
    ASSUME MigrationInv, SavePending, RunFrame
    PROVE  MigrationInv'
<1> USE DEF MigrationInv
<1> DEFINE j == [mem EXCEPT !.stage = "ProductionProjectSavePending"]
<1>1. pc = "commit" /\ ToCommit > N /\ Checkpoint(j, "outputs")
  BY DEF SavePending
<1>2. /\ mem = journal /\ mem \in Journal /\ Valid(mem) /\ mem.stage = "CommitPending"
      /\ Len(mem.staged) = N /\ journal # None /\ N \in Nat
      /\ ToCommit = mem.committed + 1
      /\ \A f \in Faces : f \in Nat /\ f <= N
  BY <1>1, Committing
<1>3. mem.committed = N
  BY <1>1, <1>2, JournalKnown
<1>4. /\ j \in Journal /\ j.stage = "ProductionProjectSavePending"
      /\ j.staged = mem.staged /\ j.committed = N
  BY <1>2, <1>3 DEF Journal, Stages
<1>5. Valid(j)
  BY <1>2, <1>4 DEF Valid
<1>6. "outputs" \in Busy \ {"save stage", "save restage"} /\ "outputs" \notin Swapping
  BY DEF Busy, Swapping
<1> HIDE DEF j
<1>7. /\ journal' = j /\ mem' = j /\ pc' = "outputs" /\ j # None
      /\ UNCHANGED <<fileVars, projectVars, touched>>
  BY <1>1, <1>4, JournalAssumption DEF Checkpoint, RunFrame, JournalAssumption
<1>8. OutputsSound'
  <2> SUFFICES ASSUME NEW f \in Faces \ touched PROVE OutputSound(f, journal)'
    BY <1>7 DEF OutputsSound
  <2>1. OutputSound(f, journal) /\ f <= mem.committed
    BY <1>2, <1>3 DEF OutputsSound
  <2> QED BY <1>2, <1>4, <1>7, <2>1 DEF OutputSound, FilesAt, fileVars
<1>9. ProjectSound'
  BY <1>2, <1>4, <1>7 DEF ProjectSound, OwnProject, projectVars
<1>10. PlaceSound' /\ SeenSound' /\ LateSound'
  BY <1>4, <1>6, <1>7 DEF PlaceSound, SeenSound, LateSound
<1> QED BY <1>1, <1>4, <1>5, <1>6, <1>8, <1>9, <1>10, CheckpointKeeps

\* Without foreign changes the files of the next TIFF are one of three states.
LEMMA ClassifyKeeps ==
    ASSUME MigrationInv, Classify, RunFrame
    PROVE  MigrationInv'
<1> USE DEF MigrationInv
<1> DEFINE f == ToCommit
           next == Classified(f)
<1>1. pc = "commit" /\ f \in Faces /\ OnlyIf(project = Old /\ next # "refused", GoTo(next))
  BY DEF Classify
<1>2. /\ mem = journal /\ mem.stage = "CommitPending" /\ journal # None /\ New(f) \in Renders
      /\ mem.committed \in Nat /\ f = mem.committed + 1 /\ pc \in Busy
      /\ New(f) = mem.staged[f]
  BY <1>1, Committing DEF New
<1>3. next \in {"move", "publish", "record", "restage", "refused"}
  BY DEF Classified
<1>4. f \notin touched =>
          /\ next \in {"move", "publish", "record"}
          /\ next = "move" => FilesAt(f, Old, New(f), None)
          /\ next = "publish" => FilesAt(f, None, New(f), Old)
          /\ next = "record" => FilesAt(f, New(f), None, Old)
  <2> SUFFICES ASSUME f \notin touched
               PROVE  /\ next \in {"move", "publish", "record"}
                      /\ next = "move" => FilesAt(f, Old, New(f), None)
                      /\ next = "publish" => FilesAt(f, None, New(f), Old)
                      /\ next = "record" => FilesAt(f, New(f), None, Old)
    OBVIOUS
  <2>1. \/ FilesAt(f, Old, New(f), None)
        \/ FilesAt(f, None, New(f), Old)
        \/ FilesAt(f, New(f), None, Old)
    BY <1>1, <1>2 DEF OutputsSound, OutputSound
  <2> QED BY <1>2, <2>1, ContentsDiffer DEF FilesAt, Classified
<1>5. CASE project = Old /\ next # "refused"
  <2>1. GoTo(next) /\ next \in {"move", "publish", "record", "restage"}
    BY <1>1, <1>3, <1>5 DEF OnlyIf
  <2>2. next = "publish" => final[f] # Foreign
    BY ContentsDiffer DEF Classified
  <2> HIDE DEF next, f
  <2>3. next \in Busy \ {"save stage", "save restage"} /\ next \in Swapping
    BY <2>1 DEF Busy, Swapping
  <2>4. /\ pc' = next /\ UNCHANGED <<fileVars, mem, touched, project>>
        /\ ToCommit' = ToCommit /\ New(ToCommit)' = New(ToCommit)
    BY <2>1 DEF GoTo, RunFrame, ToCommit, New, projectVars
  <2>5. PlaceSound'
    BY <1>1, <1>2, <2>1, <2>4 DEF PlaceSound, f
  <2>6. SeenSound'
    BY <1>4, <2>1, <2>4 DEF SeenSound, FilesAt, fileVars, f
  <2>7. LateSound'
    BY <2>1, <2>2, <2>4 DEF LateSound, fileVars, f
  <2> QED BY <1>1, <1>2, <2>1, <2>3, <2>5, <2>6, <2>7, MoveOn
<1>6. CASE ~(project = Old /\ next # "refused")
  <2>1. Refuse
    BY <1>1, <1>6 DEF OnlyIf
  <2>2. touched # {}
    BY <1>2, <1>4, <1>6 DEF ProjectSound, OwnProject
  <2> QED BY <2>1, <2>2, RefusalKeeps
<1> QED BY <1>5, <1>6

\* A step on the files of one TIFF.
LEMMA OneOutput ==
    ASSUME MigrationInv, journal # None, UNCHANGED <<journal, touched>>, NEW c \in Faces,
           \A f \in Faces \ {c} :
               final'[f] = final[f] /\ staged'[f] = staged[f] /\ backup'[f] = backup[f],
           c \notin touched => OutputSound(c, journal)'
    PROVE  OutputsSound'
<1> SUFFICES ASSUME NEW f \in Faces \ touched PROVE OutputSound(f, journal)'
  BY DEF OutputsSound
<1>1. OutputSound(f, journal)
  BY DEF MigrationInv, OutputsSound
<1>2. CASE f = c
  BY <1>2
<1>3. CASE f # c
  BY <1>1, <1>3 DEF OutputSound, FilesAt
<1> QED BY <1>2, <1>3

\* Only a foreign change makes a run render a replacement again.
LEMMA RestageKeeps ==
    ASSUME MigrationInv, Restage, RunFrame
    PROVE  MigrationInv'
<1> USE DEF MigrationInv
<1>1. pc = "restage" /\ ClearAt(ToCommit, TRUE, "rerender")
  BY DEF Restage
<1>2. pc \in Swapping \ {"save restage"} /\ "rerender" \in Busy /\ "rerender" \in Swapping
  BY <1>1 DEF Swapping, Busy
<1>3. /\ mem = journal /\ mem \in Journal /\ Valid(mem) /\ journal # None
      /\ mem.stage = "CommitPending" /\ ToCommit \in Faces
  BY <1>1, <1>2, Committing
<1>4. ToCommit \in touched
  BY <1>1 DEF SeenSound
<1>5. CASE final[ToCommit] = Old /\ backup[ToCommit] = None
  <2>1. /\ staged' = [staged EXCEPT ![ToCommit] = None] /\ pc' = "rerender"
        /\ UNCHANGED <<final, backup, projectVars, journal, mem, touched>>
    BY <1>1, <1>5 DEF ClearAt, RunFrame
  <2>2. staged' \in [Faces -> Contents]
        /\ \A f \in Faces \ {ToCommit} : staged'[f] = staged[f]
    BY <1>3, <2>1 DEF TypeOK, Contents
  <2>3. OutputsSound'
    BY <1>3, <1>4, <2>1, <2>2, OneOutput
  <2>4. ToCommit' = ToCommit
    BY <2>1 DEF ToCommit
  <2>5. PlaceSound' /\ MemSound' /\ SeenSound' /\ LateSound'
    BY <1>2, <1>3, <1>4, <2>1, <2>4 DEF PlaceSound, MemSound, SeenSound, LateSound
  <2>6. {final', staged', backup'} \subseteq [Faces -> Contents] /\ pc' \in Busy
        /\ mem' \in Journal /\ Valid(mem')
    BY <1>2, <1>3, <2>1, <2>2 DEF TypeOK
  <2> HIDE DEF MigrationInv
  <2> QED BY <2>1, <2>3, <2>5, <2>6, FilesChange
<1>6. CASE ~(final[ToCommit] = Old /\ backup[ToCommit] = None)
  <2>1. Refuse
    BY <1>1, <1>6 DEF ClearAt
  <2> QED BY <1>4, <2>1, RefusalKeeps
<1> QED BY <1>5, <1>6

LEMMA RerenderKeeps ==
    ASSUME MigrationInv, Rerender, RunFrame
    PROVE  MigrationInv'
<1> USE DEF MigrationInv
<1> DEFINE c == ToCommit
           again == [bytes \in Renders |-> [mem EXCEPT !.staged[c] = bytes]]
<1>1. pc = "rerender" /\ RenderAt(c, again, "save restage")
  BY DEF Rerender
<1>2. pc \in Swapping \ {"save restage"} /\ "save restage" \in Busy
      /\ "save restage" \in Swapping
  BY <1>1 DEF Swapping, Busy
<1>3. /\ mem = journal /\ mem \in Journal /\ Valid(mem) /\ journal # None
      /\ mem.stage = "CommitPending" /\ c \in Faces /\ Len(mem.staged) = N
      /\ mem.committed \in Nat
  BY <1>1, <1>2, Committing
<1>4. c \in touched
  BY <1>1 DEF SeenSound
<1>5. CASE staged[c] = None
  <2>1. PICK bytes \in Renders :
            /\ staged' = [staged EXCEPT ![c] = bytes]
            /\ mem' = again[bytes]
            /\ pc' = "save restage"
            /\ UNCHANGED <<final, backup, projectVars, journal>>
    BY <1>1, <1>5 DEF RenderAt
  <2> DEFINE list == [mem.staged EXCEPT ![c] = bytes]
  <2>2. mem' = [mem EXCEPT !.staged = list]
    BY <2>1
  <2>3. list \in Seq(Renders) /\ Len(list) = N
    <3>1. mem.staged \in Seq(Renders)
      BY <1>3, JournalKnown
    <3>2. c \in 1..Len(mem.staged)
      BY <1>3 DEF Faces
    <3> HIDE DEF c
    <3> QED BY <1>3, <3>1, <3>2, ExceptSeq
  <2> HIDE DEF list
  <2>4. /\ mem' \in Journal /\ mem'.stage = "CommitPending" /\ mem'.staged = list
        /\ mem'.committed = mem.committed
    BY <1>3, <2>2, <2>3 DEF Journal
  <2>5. Valid(mem')
    BY <1>3, <2>3, <2>4, FacesKnown DEF Valid
  <2>6. staged' \in [Faces -> Contents] /\ \A f \in Faces \ {c} : staged'[f] = staged[f]
    BY <1>3, <2>1 DEF TypeOK, Contents
  <2>7. OutputsSound'
    BY <1>3, <1>4, <2>1, <2>6, OneOutput DEF RunFrame
  <2>8. ToCommit' = c /\ touched' = touched
    BY <2>4 DEF ToCommit, RunFrame
  <2>9. MemSound'
    <3>1. mem' = [journal EXCEPT !.staged[journal.committed + 1] = bytes]
      BY <1>3, <2>1 DEF ToCommit
    <3> QED BY <1>3, <1>4, <2>1, <2>8, <3>1 DEF MemSound, ToCommit
  <2>10. PlaceSound' /\ SeenSound' /\ LateSound'
    BY <1>2, <1>3, <1>4, <2>1, <2>4, <2>8 DEF PlaceSound, SeenSound, LateSound
  <2>11. {final', staged', backup'} \subseteq [Faces -> Contents] /\ pc' \in Busy
    BY <1>2, <2>1, <2>6 DEF TypeOK
  <2> HIDE DEF MigrationInv
  <2> QED BY <2>1, <2>4, <2>5, <2>7, <2>9, <2>10, <2>11, FilesChange
<1>6. CASE staged[c] # None
  <2>1. Refuse
    BY <1>1, <1>6 DEF RenderAt
  <2> QED BY <1>4, <2>1, RefusalKeeps
<1> QED BY <1>5, <1>6

LEMMA SaveRestageKeeps ==
    ASSUME MigrationInv, SaveRestage, RunFrame
    PROVE  MigrationInv'
<1> USE DEF MigrationInv
<1> DEFINE c == journal.committed + 1
<1>1. pc = "save restage" /\ OnlyIf(staged[ToCommit] = New(ToCommit), Checkpoint(mem, "move"))
  BY DEF SaveRestage
<1>2. /\ pc \in Busy /\ pc \in Swapping
      /\ "move" \in Busy \ {"save stage", "save restage"} /\ "move" \in Swapping
  BY <1>1 DEF Busy, Swapping
<1>3. /\ mem \in Journal /\ Valid(mem) /\ mem # None
      /\ journal \in Journal /\ Valid(journal) /\ journal # None
      /\ mem.stage = "CommitPending" /\ journal.stage = "CommitPending"
      /\ ToCommit \in Faces /\ c \in touched
  BY <1>1, <1>2, MemKnown DEF PlaceSound, MemSound
<1>4. PICK bytes \in Renders : mem = [journal EXCEPT !.staged[c] = bytes]
  BY <1>1 DEF MemSound
<1>5. /\ mem.committed = journal.committed
      /\ mem.staged = [journal.staged EXCEPT ![c] = bytes]
  BY <1>3, <1>4 DEF Journal
<1>6. ToCommit = c
  BY <1>5 DEF ToCommit
<1>7. CASE staged[ToCommit] = New(ToCommit)
  <2>1. Checkpoint(mem, "move")
    BY <1>1, <1>7 DEF OnlyIf
  <2>2. /\ journal' = mem /\ mem' = mem /\ pc' = "move"
        /\ UNCHANGED <<fileVars, projectVars, touched>>
    BY <2>1 DEF Checkpoint, RunFrame
  <2>3. OutputsSound'
    <3> SUFFICES ASSUME NEW f \in Faces \ touched PROVE OutputSound(f, mem)'
      BY <1>3, <2>2 DEF OutputsSound
    <3>1. OutputSound(f, journal) /\ f # c
      BY <1>3 DEF OutputsSound
    <3>2. f \in DOMAIN journal.staged /\ mem.staged[f] = journal.staged[f]
      <4>1. journal.staged \in Seq(Renders) /\ Len(journal.staged) = N
        BY <1>3, JournalKnown
      <4>2. f \in DOMAIN journal.staged
        BY <4>1 DEF Faces
      <4> QED BY <1>5, <3>1, <4>2
    <3> QED BY <1>3, <1>5, <2>2, <3>1, <3>2 DEF OutputSound, FilesAt, fileVars
  <2>4. ProjectSound'
    BY <1>3, <2>2 DEF ProjectSound, OwnProject, projectVars
  <2>5. ToCommit' = ToCommit
    BY <2>2 DEF ToCommit
  <2>6. PlaceSound' /\ SeenSound' /\ LateSound'
    BY <1>2, <1>3, <1>6, <2>2, <2>5 DEF PlaceSound, SeenSound, LateSound
  <2> QED BY <1>2, <1>3, <2>1, <2>3, <2>4, <2>6, CheckpointKeeps
<1>8. CASE staged[ToCommit] # New(ToCommit)
  <2>1. Refuse
    BY <1>1, <1>8 DEF OnlyIf
  <2> QED BY <1>3, <2>1, RefusalKeeps
<1> QED BY <1>7, <1>8

LEMMA CheckBeforeMoveKeeps ==
    ASSUME MigrationInv, CheckBeforeMove, RunFrame
    PROVE  MigrationInv'
<1> USE DEF MigrationInv
<1>1. pc = "move"
      /\ OnlyIf(backup[ToCommit] = None /\ final[ToCommit] = Old, GoTo("moving"))
  BY DEF CheckBeforeMove
<1>2. /\ pc \in Swapping \ {"save restage"} /\ "moving" \in Swapping
      /\ "moving" \in Busy \ {"save stage", "save restage"}
  BY <1>1 DEF Swapping, Busy
<1>3. ToCommit \in Faces /\ mem.stage = "CommitPending" /\ pc \in Busy \ {"save stage", "save restage"}
  BY <1>1, <1>2, Committing
<1>4. CASE backup[ToCommit] = None /\ final[ToCommit] = Old
  <2>1. GoTo("moving")
    BY <1>1, <1>4 DEF OnlyIf
  <2>2. /\ pc' = "moving" /\ UNCHANGED <<final, staged, backup, mem, touched, project>>
        /\ ToCommit' = ToCommit /\ New(ToCommit)' = New(ToCommit)
    BY <2>1 DEF GoTo, RunFrame, ToCommit, New, projectVars, fileVars
  <2>3. PlaceSound' /\ SeenSound'
    BY <1>1, <1>2, <1>3, <2>2 DEF PlaceSound, SeenSound, FilesAt
  <2>4. LateSound'
    BY <1>4, <2>2, ContentsDiffer DEF LateSound
  <2> QED BY <1>2, <1>3, <2>1, <2>3, <2>4, MoveOn
<1>5. CASE ~(backup[ToCommit] = None /\ final[ToCommit] = Old)
  <2>1. Refuse
    BY <1>1, <1>5 DEF OnlyIf
  <2>2. touched # {}
    BY <1>1, <1>2, <1>5 DEF SeenSound, FilesAt
  <2> QED BY <2>1, <2>2, RefusalKeeps
<1> QED BY <1>4, <1>5

LEMMA MoveToBackupKeeps ==
    ASSUME MigrationInv, MoveToBackup, RunFrame
    PROVE  MigrationInv'
<1> USE DEF MigrationInv
<1> PICK c : c = ToCommit
  OBVIOUS
<1>1. pc = "moving"
  BY DEF MoveToBackup
<1>2. pc \in Swapping \ {"save restage"} /\ "publish" \in Swapping /\ "publish" \in Busy
  BY <1>1 DEF Swapping, Busy
<1>3. /\ mem = journal /\ mem \in Journal /\ Valid(mem) /\ journal # None
      /\ mem.stage = "CommitPending" /\ c \in Faces /\ c \in Nat /\ New(c) \in Renders
      /\ mem.committed \in Nat /\ c = mem.committed + 1
  BY <1>1, <1>2, Committing
<1>4. c \notin touched => FilesAt(c, Old, New(c), None)
  BY <1>1, <1>2 DEF SeenSound
<1>5. CASE final[c] # None /\ backup[c] = None
  <2>1. /\ backup' = [backup EXCEPT ![c] = final[c]]
        /\ final' = [final EXCEPT ![c] = None]
        /\ UNCHANGED <<staged, projectVars, journal, touched>>
        /\ IF final[c] = Old THEN pc' = "publish" /\ mem' = mem
           ELSE pc' = "refused" /\ mem' = None
    BY <1>5 DEF MoveToBackup, RunFrame
  <2>2. /\ {final', staged', backup'} \subseteq [Faces -> Contents]
        /\ final'[c] = None /\ backup'[c] = final[c] /\ staged'[c] = staged[c]
        /\ \A f \in Faces \ {c} :
               final'[f] = final[f] /\ staged'[f] = staged[f] /\ backup'[f] = backup[f]
    BY <1>3, <2>1 DEF TypeOK, Contents
  <2>3. c \notin touched => final'[c] = None /\ staged'[c] = New(c) /\ backup'[c] = Old
    BY <1>3, <1>4, <2>1, <2>2, ContentsDiffer DEF FilesAt, New
  <2>4. OutputsSound'
    <3>1. c \notin touched => OutputSound(c, journal)'
      BY <1>3, <1>4, <2>1, <2>2 DEF OutputSound, FilesAt, New
    <3> QED BY <1>3, <2>1, <2>2, <3>1, OneOutput
  <2>5. CASE final[c] = Old
    <3>1. pc' = "publish" /\ mem' = mem /\ ToCommit' = c /\ New(ToCommit)' = New(c)
      BY <2>1, <2>5 DEF ToCommit, New
    <3>2. PlaceSound' /\ MemSound'
      BY <1>2, <1>3, <2>1, <3>1 DEF PlaceSound, MemSound
    <3>3. SeenSound'
      BY <1>2, <2>1, <2>3, <3>1 DEF SeenSound, FilesAt
    <3>4. LateSound'
      BY <2>2, <3>1, ContentsDiffer DEF LateSound
    <3>5. mem' \in Journal /\ Valid(mem') /\ pc' \in Busy
      BY <1>2, <1>3, <3>1
    <3> HIDE DEF MigrationInv
    <3> QED BY <2>1, <2>2, <2>4, <3>2, <3>3, <3>4, <3>5, FilesChange
  <2>6. CASE final[c] # Old
    <3>1. pc' = "refused" /\ mem' = None /\ touched # {}
      BY <1>4, <2>1, <2>6 DEF FilesAt
    <3> QED BY <2>1, <2>2, <2>4, <3>1, FilesChangeRefused
  <2> QED BY <2>5, <2>6
<1>6. CASE ~(final[c] # None /\ backup[c] = None)
  <2>1. Refuse
    BY <1>6 DEF MoveToBackup
  <2>2. touched # {}
    BY <1>4, <1>6, ContentsDiffer DEF FilesAt
  <2> QED BY <2>1, <2>2, RefusalKeeps
<1> QED BY <1>5, <1>6

LEMMA CheckBeforePublishKeeps ==
    ASSUME MigrationInv, CheckBeforePublish, RunFrame
    PROVE  MigrationInv'
<1> USE DEF MigrationInv
<1>1. pc = "publish" /\ OnlyIf(staged[ToCommit] = New(ToCommit), GoTo("publishing"))
  BY DEF CheckBeforePublish
<1>2. /\ pc \in Swapping \ {"save restage"} /\ "publishing" \in Swapping
      /\ "publishing" \in Busy \ {"save stage", "save restage"} /\ pc \notin Looks
  BY <1>1 DEF Swapping, Busy, Looks
<1>3. ToCommit \in Faces /\ mem.stage = "CommitPending" /\ pc \in Busy \ {"save stage", "save restage"}
  BY <1>1, <1>2, Committing
<1>4. CASE staged[ToCommit] = New(ToCommit)
  <2>1. GoTo("publishing")
    BY <1>1, <1>4 DEF OnlyIf
  <2>2. /\ pc' = "publishing" /\ UNCHANGED <<final, staged, backup, mem, touched, project, late>>
        /\ ToCommit' = ToCommit /\ New(ToCommit)' = New(ToCommit)
    BY <1>2, <2>1 DEF GoTo, RunFrame, ToCommit, New, projectVars, fileVars
  <2>3. PlaceSound' /\ SeenSound'
    BY <1>1, <1>2, <1>3, <2>2 DEF PlaceSound, SeenSound, FilesAt
  <2>4. LateSound'
    BY <1>1, <2>2 DEF LateSound
  <2> QED BY <1>2, <1>3, <2>1, <2>3, <2>4, MoveOn
<1>5. CASE staged[ToCommit] # New(ToCommit)
  <2>1. Refuse
    BY <1>1, <1>5 DEF OnlyIf
  <2>2. touched # {}
    BY <1>1, <1>2, <1>5 DEF SeenSound, FilesAt
  <2> QED BY <2>1, <2>2, RefusalKeeps
<1> QED BY <1>4, <1>5

LEMMA PublishKeeps ==
    ASSUME MigrationInv, Publish, RunFrame
    PROVE  MigrationInv'
<1> USE DEF MigrationInv
<1> PICK c : c = ToCommit
  OBVIOUS
<1>1. pc = "publishing"
  BY DEF Publish
<1>2. pc \in Swapping \ {"save restage"} /\ "record" \in Swapping /\ "record" \in Busy
  BY <1>1 DEF Swapping, Busy
<1>3. /\ mem = journal /\ mem \in Journal /\ Valid(mem) /\ journal # None
      /\ mem.stage = "CommitPending" /\ c \in Faces /\ c \in Nat /\ New(c) \in Renders
      /\ mem.committed \in Nat /\ c = mem.committed + 1
  BY <1>1, <1>2, Committing
<1>4. c \notin touched => FilesAt(c, None, New(c), Old)
  BY <1>1, <1>2 DEF SeenSound
<1>5. CASE staged[c] # None
  <2>1. /\ final' = [final EXCEPT ![c] = staged[c]]
        /\ staged' = [staged EXCEPT ![c] = None]
        /\ UNCHANGED <<backup, projectVars, journal, touched>>
        /\ IF staged[c] = New(c) THEN pc' = "record" /\ mem' = mem
           ELSE pc' = "refused" /\ mem' = None
    BY <1>5 DEF Publish, RunFrame
  <2>2. /\ {final', staged', backup'} \subseteq [Faces -> Contents]
        /\ final'[c] = staged[c] /\ staged'[c] = None /\ backup'[c] = backup[c]
        /\ \A f \in Faces \ {c} :
               final'[f] = final[f] /\ staged'[f] = staged[f] /\ backup'[f] = backup[f]
    BY <1>3, <2>1 DEF TypeOK, Contents
  <2>3. OutputsSound'
    <3>1. c \notin touched => OutputSound(c, journal)'
      BY <1>3, <1>4, <2>1, <2>2 DEF OutputSound, FilesAt, New
    <3> QED BY <1>3, <2>1, <2>2, <3>1, OneOutput
  <2>4. CASE staged[c] = New(c)
    <3>1. pc' = "record" /\ mem' = mem /\ ToCommit' = c /\ New(ToCommit)' = New(c)
      BY <2>1, <2>4 DEF ToCommit, New
    <3>2. PlaceSound' /\ MemSound'
      BY <1>2, <1>3, <2>1, <3>1 DEF PlaceSound, MemSound
    <3>3. SeenSound'
      BY <1>2, <1>4, <2>1, <2>2, <3>1 DEF SeenSound, FilesAt
    <3>4. LateSound'
      BY <3>1 DEF LateSound
    <3>5. mem' \in Journal /\ Valid(mem') /\ pc' \in Busy
      BY <1>2, <1>3, <3>1
    <3> HIDE DEF MigrationInv
    <3> QED BY <2>1, <2>2, <2>3, <3>2, <3>3, <3>4, <3>5, FilesChange
  <2>5. CASE staged[c] # New(c)
    <3>1. pc' = "refused" /\ mem' = None /\ touched # {}
      BY <1>4, <2>1, <2>5 DEF FilesAt
    <3> QED BY <2>1, <2>2, <2>3, <3>1, FilesChangeRefused
  <2> QED BY <2>4, <2>5
<1>6. CASE staged[c] = None
  <2>1. Refuse
    BY <1>6 DEF Publish
  <2>2. touched # {}
    BY <1>3, <1>4, <1>6, ContentsDiffer DEF FilesAt
  <2> QED BY <2>1, <2>2, RefusalKeeps
<1> QED BY <1>5, <1>6

LEMMA RecordKeeps ==
    ASSUME MigrationInv, RecordCommitted, RunFrame
    PROVE  MigrationInv'
<1> USE DEF MigrationInv
<1> DEFINE c == ToCommit
           j == [mem EXCEPT !.committed = c]
<1>1. pc = "record" /\ Checkpoint([mem EXCEPT !.committed = mem.committed + 1], "commit")
  BY DEF RecordCommitted
<1>2. pc \in Swapping \ {"save restage"} /\ "commit" \notin Swapping
      /\ "commit" \in Busy \ {"save stage", "save restage"}
  BY <1>1 DEF Swapping, Busy
<1>3. /\ mem = journal /\ mem \in Journal /\ Valid(mem) /\ journal # None
      /\ mem.stage = "CommitPending" /\ c \in Faces /\ c \in Nat /\ c <= N
      /\ mem.committed \in Nat /\ c = mem.committed + 1 /\ Len(mem.staged) = N
  BY <1>1, <1>2, Committing
<1>4. c \notin touched => FilesAt(c, mem.staged[c], None, Old)
  BY <1>1, <1>2 DEF SeenSound, New
<1>5. /\ j \in Journal /\ j.stage = "CommitPending" /\ j.staged = mem.staged
      /\ j.committed = mem.committed + 1
  BY <1>3, FacesKnown DEF Journal
<1>6. Valid(j)
  BY <1>3, <1>5, FacesKnown DEF Valid
<1>7. Checkpoint(j, "commit")
  BY <1>1, <1>3
<1> HIDE DEF j
<1>8. /\ journal' = j /\ mem' = j /\ pc' = "commit" /\ j # None
      /\ UNCHANGED <<fileVars, projectVars, touched>>
  BY <1>5, <1>7, JournalAssumption DEF Checkpoint, RunFrame, JournalAssumption
<1>9. OutputsSound'
  <2> SUFFICES ASSUME NEW f \in Faces \ touched PROVE OutputSound(f, journal)'
    BY <1>8 DEF OutputsSound
  <2>1. OutputSound(f, mem) /\ f \in Nat
    BY <1>3, FacesKnown DEF OutputsSound
  <2>2. f <= mem.committed + 1 => FilesAt(f, mem.staged[f], None, Old)
    BY <1>3, <1>4, <2>1 DEF OutputSound
  <2>3. f > mem.committed + 1 => FilesAt(f, Old, mem.staged[f], None)
    BY <1>3, <2>1 DEF OutputSound
  <2> QED BY <1>3, <1>5, <1>8, <2>1, <2>2, <2>3 DEF OutputSound, FilesAt, fileVars
<1>10. ProjectSound'
  BY <1>3, <1>5, <1>8 DEF ProjectSound, OwnProject, projectVars
<1>11. PlaceSound' /\ SeenSound' /\ LateSound'
  BY <1>2, <1>5, <1>8 DEF PlaceSound, SeenSound, LateSound
<1> QED BY <1>2, <1>5, <1>6, <1>7, <1>9, <1>10, <1>11, CheckpointKeeps

-------------------------------------------------------------------------------
(***************************************************************************)
(* The project, and the end.                                               *)
(***************************************************************************)
\* What a run that saves the project knows.
LEMMA Saving ==
    ASSUME MigrationInv, pc \in {"outputs", "save project", "back up", "replace", "reopen"}
    PROVE  /\ pc \in Busy \ {"save stage", "save restage"} /\ pc \notin Swapping
           /\ mem = journal /\ mem \in Journal /\ Valid(mem) /\ journal # None
           /\ mem.stage = "ProductionProjectSavePending"
           /\ Expected = Listed(journal) /\ Expected \in Migrated
           /\ touched = {} => OutputsCommitted
<1>1. pc \in Busy \ {"save stage", "save restage"} /\ pc \notin Swapping
  BY DEF Busy, Swapping
<1>2. /\ mem = journal /\ mem \in Journal /\ Valid(mem) /\ journal # None
      /\ mem.stage = "ProductionProjectSavePending"
  BY <1>1, MemKnown DEF MigrationInv, PlaceSound
<1>3. Expected = Listed(journal) /\ Expected \in Migrated
  BY <1>2, ExpectedMigrated DEF Expected, Listed
<1>4. touched = {} => OutputsCommitted
  BY <1>2 DEF MigrationInv, OutputsSound, OutputSound, FilesAt, OutputsCommitted, FinalsCommitted
<1> QED BY <1>1, <1>2, <1>3, <1>4

LEMMA CheckOutputsKeeps ==
    ASSUME MigrationInv, CheckOutputs, RunFrame
    PROVE  MigrationInv'
<1> USE DEF MigrationInv
<1>1. pc = "outputs"
  BY DEF CheckOutputs
<1>2. /\ "save project" \in Busy \ {"save stage", "save restage"}
      /\ "reopen" \in Busy \ {"save stage", "save restage"}
      /\ "save project" \notin Swapping /\ "reopen" \notin Swapping
  BY DEF Busy, Swapping
<1>3. CASE OutputsCommitted /\ project = Old
  <2>1. GoTo("save project")
    <3>1. project # Expected
      BY <1>1, <1>3, Saving, ContentsDiffer
    <3> QED BY <1>3, <3>1 DEF CheckOutputs
  <2>2. /\ pc' = "save project"
        /\ UNCHANGED <<mem, touched, project, projectBackup>>
    BY <2>1 DEF GoTo, RunFrame, projectVars
  <2>3. PlaceSound' /\ SeenSound' /\ LateSound'
    BY <1>1, <1>2, <1>3, <2>2, Saving DEF PlaceSound, SeenSound, LateSound
  <2> QED BY <1>1, <1>2, <2>1, <2>3, Saving, MoveOn
<1>4. CASE /\ ~(OutputsCommitted /\ project = Old)
           /\ OutputsCommitted /\ project = Expected /\ projectBackup = Old
  <2>1. GoTo("reopen")
    BY <1>4 DEF CheckOutputs
  <2>2. /\ pc' = "reopen" /\ Expected' = Expected
        /\ UNCHANGED <<mem, touched, project, projectBackup>>
    BY <2>1 DEF GoTo, RunFrame, projectVars, Expected
  <2>3. PlaceSound' /\ SeenSound' /\ LateSound'
    BY <1>1, <1>2, <1>4, <2>2, Saving DEF PlaceSound, SeenSound, LateSound
  <2> QED BY <1>1, <1>2, <2>1, <2>3, Saving, MoveOn
<1>5. CASE /\ ~(OutputsCommitted /\ project = Old)
           /\ ~(OutputsCommitted /\ project = Expected /\ projectBackup = Old)
  <2>1. Refuse
    BY <1>5 DEF CheckOutputs
  <2>2. touched # {}
    BY <1>1, <1>5, Saving DEF ProjectSound, OwnProject
  <2> QED BY <2>1, <2>2, RefusalKeeps
<1> QED BY <1>3, <1>4, <1>5

LEMMA CheckBeforeSaveKeeps ==
    ASSUME MigrationInv, CheckBeforeSave, RunFrame
    PROVE  MigrationInv'
<1> USE DEF MigrationInv
<1>1. pc = "save project"
  BY DEF CheckBeforeSave
<1>2. "back up" \in Busy \ {"save stage", "save restage"} /\ "back up" \notin Swapping
  BY DEF Busy, Swapping
<1>3. CASE project = Old
  <2>1. GoTo("back up")
    BY <1>3 DEF CheckBeforeSave, OnlyIf
  <2>2. pc' = "back up" /\ UNCHANGED <<mem, touched, project, projectBackup>>
    BY <2>1 DEF GoTo, RunFrame, projectVars
  <2>3. PlaceSound' /\ SeenSound' /\ LateSound'
    BY <1>1, <1>2, <1>3, <2>2, Saving, ContentsDiffer DEF PlaceSound, SeenSound, LateSound
  <2> QED BY <1>1, <1>2, <2>1, <2>3, Saving, MoveOn
<1>4. CASE project # Old
  <2>1. Refuse
    BY <1>4 DEF CheckBeforeSave, OnlyIf
  <2>2. touched # {}
    BY <1>1, <1>4 DEF SeenSound
  <2> QED BY <2>1, <2>2, RefusalKeeps
<1> QED BY <1>3, <1>4

LEMMA BackUpKeeps ==
    ASSUME MigrationInv, BackUpProject, RunFrame
    PROVE  MigrationInv'
<1> USE DEF MigrationInv
<1>1. /\ pc = "back up" /\ pc' = "replace" /\ projectBackup' = project
      /\ UNCHANGED <<final, staged, backup, project, journal, mem, faults, touched>>
  BY DEF BackUpProject, RunFrame, fileVars
<1>2. late' = late
  BY <1>1 DEF RunFrame, Looks
<1>3. "replace" \in Busy /\ "replace" \notin Swapping
  BY DEF Busy, Swapping
<1>4. TypeOK'
  BY <1>1, <1>2, <1>3, Saving DEF TypeOK
<1>5. OutputsSound'
  BY <1>1 DEF OutputsSound, OutputSound, FilesAt
<1>6. ProjectSound'
  BY <1>1, Saving DEF ProjectSound, OwnProject, SeenSound
<1>7. PlaceSound' /\ MemSound'
  BY <1>1, <1>3, Saving DEF PlaceSound, MemSound
<1>8. SeenSound' /\ LateSound' /\ OwnTracesRecognised'
  BY <1>1, <1>2, <1>3 DEF SeenSound, LateSound, OwnTracesRecognised
<1> QED BY <1>4, <1>5, <1>6, <1>7, <1>8

LEMMA ReplaceKeeps ==
    ASSUME MigrationInv, ReplaceProject, RunFrame
    PROVE  MigrationInv'
<1> USE DEF MigrationInv
<1>1. /\ pc = "replace" /\ pc' = "reopen" /\ project' = Expected
      /\ UNCHANGED <<final, staged, backup, projectBackup, journal, mem, faults, touched>>
  BY DEF ReplaceProject, RunFrame, fileVars
<1>2. late' = late
  BY <1>1 DEF RunFrame, Looks
<1>3. "reopen" \in Busy /\ "reopen" \notin Swapping
  BY DEF Busy, Swapping
<1>4. TypeOK'
  BY <1>1, <1>2, <1>3, Saving DEF TypeOK, Projects
<1>5. OutputsSound'
  BY <1>1, Saving DEF OutputsSound, OutputSound, FilesAt
<1>6. ProjectSound'
  <2>1. project' = Listed(journal) /\ project' # Old
    BY <1>1, Saving, ContentsDiffer
  <2>2. 0 \notin touched => projectBackup = Old
    BY <1>1 DEF SeenSound
  <2> QED BY <1>1, <2>1, <2>2, Saving DEF ProjectSound, OwnProject, Listed
<1>7. PlaceSound' /\ MemSound'
  BY <1>1, <1>3, Saving DEF PlaceSound, MemSound
<1>8. SeenSound' /\ LateSound' /\ OwnTracesRecognised'
  BY <1>1, <1>2, <1>3 DEF SeenSound, LateSound, OwnTracesRecognised, Expected
<1> QED BY <1>4, <1>5, <1>6, <1>7, <1>8

LEMMA MarkCompleteKeeps ==
    ASSUME MigrationInv, MarkComplete, RunFrame
    PROVE  MigrationInv'
<1> USE DEF MigrationInv
<1>1. pc = "reopen"
  BY DEF MarkComplete
<1>2. "clean" \in Busy \ {"save stage", "save restage"} /\ "clean" \notin Swapping
  BY DEF Busy, Swapping
<1>3. CASE project = Expected /\ OutputsCommitted
  <2> DEFINE j == [mem EXCEPT !.stage = "Complete"]
  <2>1. Checkpoint(j, "clean")
    BY <1>3 DEF MarkComplete, OnlyIf
  <2>2. /\ j \in Journal /\ j.stage = "Complete" /\ j.staged = mem.staged
        /\ j.committed = mem.committed
    BY <1>1, Saving DEF Journal, Stages
  <2>3. Valid(j)
    BY <1>1, <2>2, Saving DEF Valid
  <2> HIDE DEF j
  <2>4. /\ journal' = j /\ mem' = j /\ pc' = "clean" /\ j # None
        /\ UNCHANGED <<final, staged, backup, project, projectBackup, touched>>
    BY <2>1, <2>2, JournalAssumption
    DEF Checkpoint, RunFrame, JournalAssumption, fileVars, projectVars
  <2>5. OutputsSound'
    <3> SUFFICES ASSUME NEW f \in Faces \ touched PROVE OutputSound(f, journal)'
      BY <2>4 DEF OutputsSound
    <3>1. FilesAt(f, mem.staged[f], None, Old)
      BY <1>1, Saving DEF OutputsSound, OutputSound
    <3> QED BY <2>2, <2>4, <3>1 DEF OutputSound, FilesAt
  <2>6. ProjectSound'
    <3>1. project = Listed(j) /\ project # Old
      BY <1>1, <1>3, <2>2, Saving, ContentsDiffer DEF Listed
    <3> QED BY <2>2, <2>4, <3>1 DEF ProjectSound, OwnProject, Listed
  <2>7. PlaceSound' /\ SeenSound' /\ LateSound'
    BY <1>2, <2>2, <2>4 DEF PlaceSound, SeenSound, LateSound
  <2> QED BY <1>2, <2>1, <2>2, <2>3, <2>5, <2>6, <2>7, CheckpointKeeps
<1>4. CASE ~(project = Expected /\ OutputsCommitted)
  <2>1. Refuse
    BY <1>4 DEF MarkComplete, OnlyIf
  <2>2. touched # {}
    BY <1>1, <1>4, Saving DEF SeenSound
  <2> QED BY <2>1, <2>2, RefusalKeeps
<1> QED BY <1>3, <1>4

\* What a run that cleans up knows.
LEMMA Cleaning ==
    ASSUME MigrationInv, pc = "clean"
    PROVE  /\ pc \in Busy /\ pc \notin Swapping
           /\ mem = journal /\ mem \in Journal /\ Valid(mem) /\ journal # None
           /\ journal.stage = "Complete" /\ Listed(journal) \in Migrated
<1>1. pc \in Busy \ {"save stage", "save restage"} /\ pc \notin Swapping
  BY DEF Busy, Swapping
<1>2. /\ mem = journal /\ mem \in Journal /\ Valid(mem) /\ journal # None
      /\ mem.stage = "Complete"
  BY <1>1, MemKnown DEF MigrationInv, PlaceSound
<1> QED BY <1>1, <1>2, ExpectedMigrated

LEMMA RemoveLeftoverKeeps ==
    ASSUME MigrationInv, NEW c \in Faces, RemoveLeftover(c), RunFrame
    PROVE  MigrationInv'
<1> USE DEF MigrationInv
<1>1. /\ pc = "clean" /\ pc' = "clean"
      /\ staged' = [staged EXCEPT ![c] = None]
      /\ backup' = IF staged[c] # None THEN backup ELSE [backup EXCEPT ![c] = None]
      /\ UNCHANGED <<final, projectVars, journal, mem, touched>>
  BY DEF RemoveLeftover, RunFrame
<1>2. staged' \in [Faces -> Contents] /\ backup' \in [Faces -> Contents]
  BY <1>1 DEF TypeOK, Contents
<1>3. /\ staged'[c] = None /\ backup'[c] \in {backup[c], None}
      /\ \A f \in Faces \ {c} : staged'[f] = staged[f] /\ backup'[f] = backup[f]
  BY <1>1 DEF TypeOK
<1>4. OutputsSound'
  <2>1. c \notin touched => OutputSound(c, journal)'
    BY <1>1, <1>3, Cleaning DEF OutputsSound, OutputSound
  <2> QED BY <1>1, <1>3, <2>1, Cleaning, OneOutput
<1>5. PlaceSound' /\ MemSound' /\ SeenSound' /\ LateSound'
  BY <1>1, Cleaning DEF PlaceSound, MemSound, SeenSound, LateSound
<1>6. {final', staged', backup'} \subseteq [Faces -> Contents] /\ pc' \in Busy
      /\ mem' \in Journal /\ Valid(mem')
  BY <1>1, <1>2, Cleaning DEF TypeOK
<1> HIDE DEF MigrationInv
<1> QED BY <1>1, <1>4, <1>5, <1>6, FilesChange

LEMMA RemoveJournalKeeps ==
    ASSUME MigrationInv, RemoveJournal, RunFrame
    PROVE  MigrationInv'
<1> USE DEF MigrationInv
<1>1. /\ pc = "clean" /\ Leftovers = {} /\ journal' = None /\ mem' = None /\ pc' = "done"
      /\ UNCHANGED <<final, staged, backup, project, projectBackup, faults, touched>>
  BY DEF RemoveJournal, RunFrame, fileVars, projectVars
<1>2. "done" \in Ended /\ "done" \notin Busy /\ "done" \notin Swapping
  BY DEF Ended, Busy, Swapping
<1>3. late' \subseteq touched
  BY DEF TypeOK, RunFrame
<1>4. TypeOK'
  BY <1>1, <1>2, <1>3 DEF TypeOK
<1>5. OutputsSound'
  <2> SUFFICES ASSUME NEW f \in Faces \ touched
               PROVE  /\ staged[f] = None /\ backup[f] = None
                      /\ project # Old
                      /\ project \in Migrated => final[f] = project[f]
    BY <1>1 DEF OutputsSound
  <2>1. staged[f] = None /\ backup[f] = None
    BY <1>1 DEF Leftovers
  <2>2. project # Old /\ (project \in Migrated => project = Listed(journal))
    BY <1>1, Cleaning DEF ProjectSound
  <2>3. final[f] = Listed(journal)[f]
    BY <1>1, Cleaning DEF OutputsSound, OutputSound, Listed
  <2> QED BY <2>1, <2>2, <2>3
<1>6. ProjectSound'
  BY <1>1, Cleaning, ContentsDiffer DEF ProjectSound, OwnProject
<1>7. PlaceSound' /\ MemSound' /\ SeenSound' /\ LateSound' /\ OwnTracesRecognised'
  BY <1>1, <1>2 DEF PlaceSound, MemSound, SeenSound, LateSound, OwnTracesRecognised
<1> QED BY <1>4, <1>5, <1>6, <1>7

-------------------------------------------------------------------------------
(***************************************************************************)
(* Interruptions, cancellations and foreign changes.                       *)
(***************************************************************************)
LEMMA CancelKeeps == ASSUME MigrationInv, Cancel PROVE MigrationInv'
<1>1. faults' \in 0..MaxFaults /\ late' \subseteq touched
  BY MigrationAssumption DEF MigrationInv, TypeOK, Cancel, MigrationAssumption
<1> QED BY <1>1, RunEnds DEF Cancel, Ended

LEMMA InterruptKeeps == ASSUME MigrationInv, Interrupt PROVE MigrationInv'
<1>1. faults' \in 0..MaxFaults /\ late' \subseteq touched
  BY MigrationAssumption DEF MigrationInv, TypeOK, Interrupt, MigrationAssumption
<1> QED BY <1>1, RunEnds DEF Interrupt, Ended

LEMMA TouchOutputKeeps ==
    ASSUME MigrationInv, NEW c \in Faces, TouchOutput(c), faults' \in 0..MaxFaults,
           UNCHANGED <<journal, mem, pc>>
    PROVE  MigrationInv'
<1> USE DEF MigrationInv
<1>1. /\ UNCHANGED <<project, projectBackup>>
      /\ touched' = touched \cup {c} /\ late' = late \cup {c}
  BY DEF TouchOutput, projectVars
<1>2. c # 0
  BY FacesKnown
<1>3. {final', staged', backup'} \subseteq [Faces -> Contents]
  BY DEF TypeOK, TouchOutput, Contents
<1>4. \A f \in Faces \ {c} :
          final'[f] = final[f] /\ staged'[f] = staged[f] /\ backup'[f] = backup[f]
  BY DEF TypeOK, TouchOutput
<1>5. TypeOK'
  BY <1>1, <1>3 DEF TypeOK
<1>6. OutputsSound'
  <2> SUFFICES ASSUME NEW f \in Faces \ touched, f # c,
                      final'[f] = final[f], staged'[f] = staged[f], backup'[f] = backup[f]
               PROVE  IF journal = None
                      THEN /\ staged'[f] = None /\ backup'[f] = None
                           /\ project = Old => final'[f] = Old
                           /\ project \in Migrated => final'[f] = project[f]
                      ELSE OutputSound(f, journal)'
    BY <1>1, <1>4 DEF OutputsSound
  <2> QED BY DEF OutputsSound, OutputSound, FilesAt
<1>7. ProjectSound'
  BY <1>1, <1>2 DEF ProjectSound, OwnProject
<1>8. PlaceSound'
  BY DEF PlaceSound, ToCommit
<1>9. MemSound'
  BY <1>1, <1>4 DEF MemSound
<1>10. SeenSound'
  <2>1. /\ ToStage' = ToStage /\ ToCommit' = ToCommit /\ Expected' = Expected
        /\ New(ToCommit)' = New(ToCommit)
    BY DEF ToStage, ToCommit, Expected, New
  <2>2. pc \in Swapping => ToCommit \in Faces
    BY DEF PlaceSound
  <2> QED BY <1>1, <1>2, <1>4, <2>1, <2>2 DEF SeenSound, FilesAt
<1>11. LateSound'
  <2>1. ToCommit' = ToCommit
    BY DEF ToCommit
  <2>2. pc \in {"moving", "publish", "publishing"} => ToCommit \in Faces
    BY DEF PlaceSound, Swapping
  <2> QED BY <1>1, <1>4, <2>1, <2>2 DEF LateSound
<1>12. OwnTracesRecognised'
  BY <1>1 DEF OwnTracesRecognised
<1> QED BY <1>5, <1>6, <1>7, <1>8, <1>9, <1>10, <1>11, <1>12

LEMMA TouchProjectKeeps ==
    ASSUME MigrationInv, TouchProject, faults' \in 0..MaxFaults,
           UNCHANGED <<journal, mem, pc>>
    PROVE  MigrationInv'
<1> USE DEF MigrationInv
<1>1. /\ UNCHANGED <<final, staged, backup>> /\ project' = Foreign
      /\ projectBackup' \in {project, projectBackup}
      /\ touched' = touched \cup {0} /\ late' = late \cup {0}
  BY DEF TouchProject, fileVars
<1>2. project' # Old /\ project' \notin Migrated
  BY <1>1, ContentsDiffer
<1>3. TypeOK'
  BY <1>1 DEF TypeOK, Projects
<1>4. OutputsSound'
  BY <1>1, <1>2 DEF OutputsSound, OutputSound, FilesAt
<1>5. ProjectSound'
  BY <1>1, <1>2 DEF ProjectSound
<1>6. PlaceSound' /\ MemSound'
  BY <1>1 DEF PlaceSound, MemSound, ToCommit
<1>7. SeenSound'
  BY <1>1 DEF SeenSound, FilesAt, ToStage, ToCommit, New
<1>8. LateSound' /\ OwnTracesRecognised'
  BY <1>1 DEF LateSound, OwnTracesRecognised, ToCommit
<1> QED BY <1>3, <1>4, <1>5, <1>6, <1>7, <1>8

-------------------------------------------------------------------------------
(***************************************************************************)
(* Every step.                                                             *)
(***************************************************************************)
LEMMA StepKeeps ==
    ASSUME MigrationInv, Step, RunFrame
    PROVE  MigrationInv'
<1>1. CASE Enter \/ BeginCommit \/ ClearStage \/ Render \/ SaveStage
  BY <1>1, EnterKeeps, BeginCommitKeeps, ClearStageKeeps, RenderKeeps, SaveStageKeeps
<1>2. CASE SavePending \/ Classify \/ Restage \/ Rerender \/ SaveRestage
  BY <1>2, SavePendingKeeps, ClassifyKeeps, RestageKeeps, RerenderKeeps, SaveRestageKeeps
<1>3. CASE CheckBeforeMove \/ MoveToBackup \/ CheckBeforePublish \/ Publish \/ RecordCommitted
  BY <1>3, CheckBeforeMoveKeeps, MoveToBackupKeeps, CheckBeforePublishKeeps, PublishKeeps,
     RecordKeeps
<1>4. CASE CheckOutputs \/ CheckBeforeSave \/ BackUpProject \/ ReplaceProject \/ MarkComplete
  BY <1>4, CheckOutputsKeeps, CheckBeforeSaveKeeps, BackUpKeeps, ReplaceKeeps, MarkCompleteKeeps
<1>5. CASE (\E f \in Faces : RemoveLeftover(f)) \/ RemoveJournal
  BY <1>5, RemoveLeftoverKeeps, RemoveJournalKeeps
<1> QED BY <1>1, <1>2, <1>3, <1>4, <1>5 DEF Step

LEMMA MigrationNextKeeps ==
    ASSUME MigrationInv, [Next]_vars
    PROVE  MigrationInv'
<1>1. CASE Run
  <2>1. RunFrame /\ (Start \/ Resume \/ Step)
    BY <1>1 DEF Run, RunFrame
  <2> QED BY <2>1, StartKeeps, ResumeKeeps, StepKeeps
<1>2. CASE Cancel \/ Interrupt
  BY <1>2, CancelKeeps, InterruptKeeps
<1>3. CASE Touch
  <2>1. faults' \in 0..MaxFaults /\ UNCHANGED <<journal, mem, pc>>
    BY <1>3, MigrationAssumption DEF MigrationInv, TypeOK, Touch, MigrationAssumption
  <2>2. TouchProject \/ \E f \in Faces : TouchOutput(f)
    BY <1>3 DEF Touch
  <2> QED BY <2>1, <2>2, TouchProjectKeeps, TouchOutputKeeps
<1>4. CASE UNCHANGED vars
  <2> USE <1>4 DEF MigrationInv, vars, fileVars, projectVars
  <2>1. TypeOK' /\ PlaceSound' /\ MemSound' /\ OwnTracesRecognised'
    BY DEF TypeOK, PlaceSound, MemSound, OwnTracesRecognised, ToCommit
  <2>2. OutputsSound' /\ ProjectSound'
    BY DEF OutputsSound, OutputSound, FilesAt, ProjectSound, OwnProject
  <2>3. SeenSound' /\ LateSound'
    BY DEF SeenSound, LateSound, FilesAt, ToStage, ToCommit, New, Expected
  <2> QED BY <2>1, <2>2, <2>3
<1> QED BY <1>1, <1>2, <1>3, <1>4 DEF Next

-------------------------------------------------------------------------------
(***************************************************************************)
(* What follows.                                                           *)
(***************************************************************************)
\* The invariant: what the journal on disk means for every file, and what a run
\* knows at each of its places, whatever interrupts it and whatever others change.
THEOREM MigrationInvHolds == Spec => []MigrationInv
<1>1. Init => MigrationInv
  BY MigrationInits
<1>2. MigrationInv /\ [Next]_vars => MigrationInv'
  BY MigrationNextKeeps
<1> QED BY <1>1, <1>2, PTL DEF Spec

\* A journal in memory or on disk is one its own validation accepts.
THEOREM MigrationTypes == Spec => []TypeOK
<1>1. MigrationInv => TypeOK
  BY DEF MigrationInv
<1> QED BY <1>1, MigrationInvHolds, PTL

\* The captured bytes of every TIFF exist as long as the project lists them.
THEOREM NothingIsLost == Spec => []NothingLost
<1>1. MigrationInv => NothingLost
  <2> SUFFICES ASSUME MigrationInv, project = Old, NEW f \in Faces \ touched
               PROVE  final[f] = Old \/ backup[f] = Old
    BY DEF NothingLost
  <2>1. CASE journal = None
    BY <2>1 DEF MigrationInv, OutputsSound
  <2>2. CASE journal # None
    <3>1. /\ OutputSound(f, journal) /\ journal.stage # "Complete"
          /\ journal \in Journal /\ Valid(journal)
      BY <2>2 DEF MigrationInv, OutputsSound, ProjectSound, TypeOK
    <3>2. journal.stage \in Stages /\ journal.committed \in Nat /\ f \in Nat
      BY <3>1, JournalKnown, FacesKnown
    <3>3. CASE journal.stage = "CommitPending"
      <4>1. \/ f <= journal.committed \/ f = journal.committed + 1
            \/ f > journal.committed + 1
        BY <3>2
      <4> QED BY <3>1, <3>3, <4>1 DEF OutputSound, FilesAt
    <3>4. CASE journal.stage # "CommitPending"
      BY <3>1, <3>2, <3>4 DEF OutputSound, FilesAt, Stages
    <3> QED BY <3>3, <3>4
  <2> QED BY <2>1, <2>2
<1> QED BY <1>1, MigrationInvHolds, PTL

\* A migrated project lists what is at the paths of its TIFFs.
THEOREM ProjectListsItsOutputs == Spec => []ProjectListsOutputs
<1>1. MigrationInv => ProjectListsOutputs
  <2> SUFFICES ASSUME MigrationInv, project \in Migrated, NEW f \in Faces \ touched
               PROVE  final[f] = project[f]
    BY DEF ProjectListsOutputs
  <2>1. CASE journal = None
    BY <2>1 DEF MigrationInv, OutputsSound
  <2>2. CASE journal # None
    <3>1. /\ OutputSound(f, journal) /\ project = Listed(journal)
          /\ journal.stage \in {"ProductionProjectSavePending", "Complete"}
      BY <2>2 DEF MigrationInv, OutputsSound, ProjectSound
    <3> QED BY <3>1 DEF OutputSound, FilesAt, Listed
  <2> QED BY <2>1, <2>2
<1> QED BY <1>1, MigrationInvHolds, PTL

\* A run recognises whatever an interrupted one left.
THEOREM OwnTracesAreRecognised == Spec => []OwnTracesRecognised
<1>1. MigrationInv => OwnTracesRecognised
  BY DEF MigrationInv
<1> QED BY <1>1, MigrationInvHolds, PTL

\* A TIFF on record as committed is in place, with its backup.
THEOREM CommitsAreBacked == Spec => []CommitsBacked
<1>1. MigrationInv => CommitsBacked
  <2> SUFFICES ASSUME MigrationInv, journal # None, NEW f \in (1..journal.committed) \ touched
               PROVE  /\ final[f] = journal.staged[f]
                      /\ journal.stage # "Complete" => backup[f] = Old
    BY DEF CommitsBacked
  <2>1. journal \in Journal /\ Valid(journal)
    BY DEF MigrationInv, TypeOK
  <2>2. /\ journal.stage \in Stages /\ journal.committed \in 0..N
        /\ journal.stage = "Staging" => journal.committed = 0
    BY <2>1, JournalKnown
  <2>3. f \in Faces /\ f <= journal.committed /\ journal.stage # "Staging"
    BY <2>2, FacesKnown DEF Faces
  <2>4. OutputSound(f, journal)
    BY <2>3 DEF MigrationInv, OutputsSound
  <2> QED BY <2>2, <2>3, <2>4 DEF OutputSound, FilesAt, Stages
<1> QED BY <1>1, MigrationInvHolds, PTL

\* No staged file and no backup outlives the journal.
THEOREM LeftoversAreOnRecord == Spec => []LeftoversOnRecord
<1>1. MigrationInv => LeftoversOnRecord
  BY DEF MigrationInv, OutputsSound, LeftoversOnRecord
<1> QED BY <1>1, MigrationInvHolds, PTL

\* The steps of a run that change a TIFF at its path, or the project.
LEMMA OnlySwapsChangeOutputs ==
    ASSUME MigrationInv, Start \/ Resume \/ Step, ~MoveToBackup, ~Publish
    PROVE  final' = final
<1> USE DEF Checkpoint, Refuse, GoTo, OnlyIf, ClearAt, RenderAt, fileVars, projectVars
<1>1. CASE Start \/ Resume
  BY <1>1 DEF Start, Resume
<1>2. CASE Enter
  <2>1. mem.stage \in Stages
    BY <1>2, MemKnown, JournalKnown DEF Enter, Busy
  <2> QED BY <1>2, <2>1 DEF Enter, Stages
<1>3. CASE BeginCommit \/ ClearStage \/ Render \/ SaveStage
  BY <1>3 DEF BeginCommit, ClearStage, Render, SaveStage
<1>4. CASE SavePending \/ Classify \/ Restage \/ Rerender \/ SaveRestage
  BY <1>4 DEF SavePending, Classify, Restage, Rerender, SaveRestage
<1>5. CASE CheckBeforeMove \/ CheckBeforePublish \/ RecordCommitted
  BY <1>5 DEF CheckBeforeMove, CheckBeforePublish, RecordCommitted
<1>6. CASE CheckOutputs
  BY <1>6 DEF CheckOutputs
<1>7. CASE CheckBeforeSave \/ BackUpProject \/ ReplaceProject \/ MarkComplete
  BY <1>7 DEF CheckBeforeSave, BackUpProject, ReplaceProject, MarkComplete
<1>8. CASE (\E f \in Faces : RemoveLeftover(f)) \/ RemoveJournal
  BY <1>8 DEF RemoveLeftover, RemoveJournal
<1> QED BY <1>1, <1>2, <1>3, <1>4, <1>5, <1>6, <1>7, <1>8 DEF Step

LEMMA OnlyTheSaveChangesProject ==
    ASSUME MigrationInv, Start \/ Resume \/ Step, ~ReplaceProject
    PROVE  project' = project
<1> USE DEF Checkpoint, Refuse, GoTo, OnlyIf, ClearAt, RenderAt, fileVars, projectVars
<1>1. CASE Start \/ Resume
  BY <1>1 DEF Start, Resume
<1>2. CASE Enter
  <2>1. mem.stage \in Stages
    BY <1>2, MemKnown, JournalKnown DEF Enter, Busy
  <2> QED BY <1>2, <2>1 DEF Enter, Stages
<1>3. CASE BeginCommit \/ ClearStage \/ Render \/ SaveStage
  BY <1>3 DEF BeginCommit, ClearStage, Render, SaveStage
<1>4. CASE SavePending \/ Classify \/ Restage \/ Rerender \/ SaveRestage
  BY <1>4 DEF SavePending, Classify, Restage, Rerender, SaveRestage
<1>5. CASE \/ CheckBeforeMove \/ MoveToBackup \/ CheckBeforePublish \/ Publish
           \/ RecordCommitted
  BY <1>5 DEF CheckBeforeMove, MoveToBackup, CheckBeforePublish, Publish, RecordCommitted
<1>6. CASE CheckOutputs
  BY <1>6 DEF CheckOutputs
<1>7. CASE CheckBeforeSave \/ BackUpProject \/ MarkComplete
  BY <1>7 DEF CheckBeforeSave, BackUpProject, MarkComplete
<1>8. CASE (\E f \in Faces : RemoveLeftover(f)) \/ RemoveJournal
  BY <1>8 DEF RemoveLeftover, RemoveJournal
<1> QED BY <1>1, <1>2, <1>3, <1>4, <1>5, <1>6, <1>7, <1>8 DEF Step

LEMMA MoveKeepsForeign ==
    ASSUME MigrationInv, MoveToBackup \/ Publish, RunFrame, NEW f \in Faces,
           final[f] = Foreign, final'[f] # Foreign
    PROVE  f \in late'
<1>1. pc \in {"moving", "publishing"} /\ late' = late
  BY DEF MoveToBackup, Publish, RunFrame, Looks
<1>2. f = ToCommit
  BY <1>1 DEF MoveToBackup, Publish, Refuse, fileVars, MigrationInv, TypeOK
<1> QED BY <1>1, <1>2 DEF MigrationInv, LateSound

LEMMA TouchIsLate ==
    ASSUME MigrationInv, Touch
    PROVE  /\ \A f \in Faces : final[f] = Foreign /\ final'[f] # Foreign => f \in late'
           /\ project = Foreign /\ project' # Foreign => 0 \in late'
<1>1. CASE TouchProject
  BY <1>1 DEF TouchProject, fileVars
<1>2. CASE \E f \in Faces : TouchOutput(f)
  <2>1. PICK c \in Faces : TouchOutput(c)
    BY <1>2
  <2>2. late' = late \cup {c} /\ project' = project
        /\ \A f \in Faces \ {c} : final'[f] = final[f]
    BY <2>1 DEF TouchOutput, projectVars, MigrationInv, TypeOK
  <2> QED BY <2>2
<1> QED BY <1>1, <1>2 DEF Touch

\* What somebody else put at the path of a TIFF or of the project is replaced only
\* if it came after the run last looked.
THEOREM ForeignIsKept == Spec => ForeignKept
<1> DEFINE Kept == /\ \A f \in Faces : final[f] = Foreign /\ final'[f] # Foreign => f \in late'
                   /\ project = Foreign /\ project' # Foreign => 0 \in late'
<1>1. MigrationInv /\ [Next]_vars => [Kept]_vars
  <2> SUFFICES ASSUME MigrationInv, Next PROVE Kept
    BY DEF vars
  <2>1. CASE Run
    <3>1. RunFrame /\ (Start \/ Resume \/ Step)
      BY <2>1 DEF Run, RunFrame
    <3>2. \A f \in Faces : final[f] = Foreign /\ final'[f] # Foreign => f \in late'
      BY <3>1, OnlySwapsChangeOutputs, MoveKeepsForeign
    <3>3. ASSUME project = Foreign, project' # Foreign PROVE 0 \in late'
      <4>1. ReplaceProject
        BY <3>1, <3>3, OnlyTheSaveChangesProject
      <4> QED BY <3>1, <3>3, <4>1 DEF ReplaceProject, RunFrame, Looks, MigrationInv, LateSound
    <3> QED BY <3>2, <3>3
  <2>2. CASE Cancel \/ Interrupt
    BY <2>2 DEF Cancel, Interrupt, fileVars, projectVars
  <2>3. CASE Touch
    BY <2>3, TouchIsLate
  <2> QED BY <2>1, <2>2, <2>3 DEF Next
<1> QED BY <1>1, MigrationInvHolds, PTL DEF Spec, ForeignKept

-------------------------------------------------------------------------------
(***************************************************************************)
(* The refinement.                                                         *)
(***************************************************************************)
\* What AtomicRoute sees of the TIFFs.
Outputs == [f \in Faces |-> OutputState(f)]

LEMMA SameRoute ==
    ASSUME UNCHANGED <<final, project, touched>>, (journal' = None) <=> (journal = None)
    PROVE  UNCHANGED Promise!routeVars
  BY DEF Promise!routeVars, OutputState

LEMMA StartMaps ==
    ASSUME MigrationInv, Start, touched' = touched
    PROVE  Promise!Begin \/ UNCHANGED Promise!routeVars
<1>1. journal = None
  BY DEF Start
<1>2. CASE project = Old /\ \A f \in Faces : final[f] = Old
  <2>1. Checkpoint(Fresh, "enter")
    BY <1>2 DEF Start, OnlyIf
  <2>2. Fresh \in Journal
    BY MigrationAssumption DEF Fresh, Journal, Stages, MigrationAssumption
  <2>3. journal' # None /\ UNCHANGED <<final, project>>
    BY <2>1, <2>2, JournalAssumption DEF Checkpoint, fileVars, projectVars, JournalAssumption
  <2>4. project \notin Migrated /\ Outputs = [f \in Faces |-> "old"] /\ Outputs' = Outputs
    BY <1>2, <2>3, ContentsDiffer DEF Outputs, OutputState
  <2>5. Promise!Begin
    BY <1>1, <2>3, <2>4 DEF Promise!Begin, Promise!All, Outputs
  <2> QED BY <2>5
<1>3. CASE ~(project = Old /\ \A f \in Faces : final[f] = Old)
  <2>1. UNCHANGED <<final, project, journal>>
    BY <1>3 DEF Start, OnlyIf, Refuse, fileVars, projectVars
  <2> QED BY <2>1, SameRoute
<1> QED BY <1>2, <1>3

\* A swap keeps the project, which is still the captured one.
LEMMA SwapMaps ==
    ASSUME MigrationInv, touched = {}, UNCHANGED <<project, journal, touched>>,
           journal # None, project = Old, NEW c \in Faces, NEW bytes \in Renders \cup {None},
           IF bytes = None THEN final[c] = Old ELSE final[c] = None,
           final' = [final EXCEPT ![c] = bytes]
    PROVE  Promise!Swap(c)
<1>1. project \notin Migrated
  BY ContentsDiffer
<1>2. \A f \in Faces : final'[f] = IF f = c THEN bytes ELSE final[f]
  BY DEF MigrationInv, TypeOK
<1>3. \A f \in Faces \ {c} : OutputState(f)' = OutputState(f)
  BY <1>2 DEF OutputState
<1>4. CASE bytes = None
  <2>1. OutputState(c) = "old" /\ OutputState(c)' = "gone"
    BY <1>2, <1>4, ContentsDiffer DEF OutputState
  <2>2. Outputs' = [Outputs EXCEPT ![c] = "gone"] /\ Outputs[c] = "old"
    BY <1>3, <2>1 DEF Outputs
  <2> QED BY <1>1, <2>2 DEF Promise!Swap, Outputs
<1>5. CASE bytes # None
  <2>1. OutputState(c) = "gone" /\ OutputState(c)' = "new"
    BY <1>2, <1>5, ContentsDiffer DEF OutputState
  <2>2. Outputs' = [Outputs EXCEPT ![c] = "new"] /\ Outputs[c] = "gone"
    BY <1>3, <2>1 DEF Outputs
  <2> QED BY <1>1, <2>2 DEF Promise!Swap, Outputs
<1> QED BY <1>4, <1>5

LEMMA MoveMaps ==
    ASSUME MigrationInv, MoveToBackup, RunFrame, touched = {}
    PROVE  \E f \in Faces : Promise!Swap(f)
<1> PICK c : c = ToCommit
  OBVIOUS
<1>1. pc = "moving" /\ pc \in Swapping \ {"save restage"}
  BY DEF MoveToBackup, Swapping
<1>2. c \in Faces /\ journal # None /\ mem = journal /\ mem.stage = "CommitPending"
  BY <1>1, Committing
<1>3. final[c] = Old /\ backup[c] = None /\ project = Old
  BY <1>1, <1>2 DEF MigrationInv, SeenSound, FilesAt, ProjectSound, OwnProject
<1>4. final' = [final EXCEPT ![c] = None] /\ UNCHANGED <<project, journal, touched>>
  BY <1>3, ContentsDiffer DEF MoveToBackup, RunFrame, projectVars
<1> QED BY <1>2, <1>3, <1>4, SwapMaps

LEMMA PublishMaps ==
    ASSUME MigrationInv, Publish, RunFrame, touched = {}
    PROVE  \E f \in Faces : Promise!Swap(f)
<1> PICK c : c = ToCommit
  OBVIOUS
<1>1. pc = "publishing" /\ pc \in Swapping \ {"save restage"}
  BY DEF Publish, Swapping
<1>2. /\ c \in Faces /\ journal # None /\ mem = journal /\ mem.stage = "CommitPending"
      /\ New(c) \in Renders
  BY <1>1, Committing
<1>3. final[c] = None /\ staged[c] = New(c) /\ project = Old
  BY <1>1, <1>2 DEF MigrationInv, SeenSound, FilesAt, ProjectSound, OwnProject
<1>4. final' = [final EXCEPT ![c] = New(c)] /\ UNCHANGED <<project, journal, touched>>
  BY <1>2, <1>3, ContentsDiffer DEF Publish, RunFrame, projectVars
<1>5. New(c) # None
  BY <1>2, ContentsDiffer
<1> QED BY <1>2, <1>3, <1>4, <1>5, SwapMaps

LEMMA ReplaceMaps ==
    ASSUME MigrationInv, ReplaceProject, RunFrame, touched = {}
    PROVE  Promise!Switch
<1>1. pc = "replace" /\ project' = Expected /\ UNCHANGED <<final, journal>>
  BY DEF ReplaceProject, fileVars
<1>2. project = Old /\ journal # None /\ Expected \in Migrated
      /\ \A f \in Faces : final[f] = mem.staged[f]
  BY <1>1, Saving DEF MigrationInv, SeenSound, OutputsCommitted, FinalsCommitted
<1>3. \A f \in Faces : mem.staged[f] \in Renders
  BY <1>2 DEF Expected, Migrated
<1>4. Outputs = [f \in Faces |-> "new"] /\ Outputs' = Outputs
  BY <1>1, <1>2, <1>3, ContentsDiffer DEF Outputs, OutputState
<1> QED BY <1>1, <1>2, <1>4, ContentsDiffer DEF Promise!Switch, Promise!All, Outputs

LEMMA EndMaps ==
    ASSUME MigrationInv, RemoveJournal, RunFrame, touched = {}
    PROVE  Promise!End
<1>1. pc = "clean" /\ journal' = None /\ UNCHANGED <<final, project>>
  BY DEF RemoveJournal, fileVars, projectVars
<1>2. journal # None /\ project \in Migrated
  BY <1>1, Cleaning DEF MigrationInv, ProjectSound, OwnProject
<1> QED BY <1>1, <1>2 DEF Promise!End, OutputState

LEMMA RecordStays ==
    ASSUME MigrationInv, MigrationInv', Step, ~RemoveJournal
    PROVE  journal # None /\ journal' # None
<1> USE DEF Checkpoint, Refuse, GoTo, OnlyIf, ClearAt, RenderAt
<1>1. pc \in Busy
  BY DEF Step, Enter, BeginCommit, ClearStage, Render, SaveStage, SavePending, Classify,
         Restage, Rerender, SaveRestage, CheckBeforeMove, MoveToBackup, CheckBeforePublish,
         Publish, RecordCommitted, CheckOutputs, CheckBeforeSave, BackUpProject,
         ReplaceProject, MarkComplete, RemoveLeftover, RemoveJournal, Busy
<1>2. journal # None
  BY <1>1, MemKnown
<1>3. journal' = journal \/ pc' \in Busy
  <2>1. CASE Enter
    <3>1. mem.stage \in Stages
      BY <1>1, MemKnown, JournalKnown
    <3> QED BY <2>1, <3>1 DEF Enter, Stages
  <2>2. CASE BeginCommit \/ ClearStage \/ Render \/ SaveStage
    BY <2>2 DEF BeginCommit, ClearStage, Render, SaveStage, Busy
  <2>3. CASE SavePending \/ Classify \/ Restage \/ Rerender \/ SaveRestage
    BY <2>3 DEF SavePending, Classify, Restage, Rerender, SaveRestage, Busy
  <2>4. CASE \/ CheckBeforeMove \/ MoveToBackup \/ CheckBeforePublish \/ Publish
             \/ RecordCommitted
    BY <2>4 DEF CheckBeforeMove, MoveToBackup, CheckBeforePublish, Publish, RecordCommitted,
                Busy
  <2>5. CASE CheckOutputs \/ CheckBeforeSave \/ BackUpProject \/ ReplaceProject \/ MarkComplete
    BY <2>5 DEF CheckOutputs, CheckBeforeSave, BackUpProject, ReplaceProject, MarkComplete, Busy
  <2>6. CASE \E f \in Faces : RemoveLeftover(f)
    BY <2>6 DEF RemoveLeftover
  <2> QED BY <2>1, <2>2, <2>3, <2>4, <2>5, <2>6 DEF Step
<1>4. pc' \in Busy => mem' # None /\ journal' # None
  BY DEF MigrationInv, TypeOK, MemSound
<1> QED BY <1>2, <1>3, <1>4

LEMMA MigrationMaps ==
    ASSUME MigrationInv, MigrationInv', [Next]_vars
    PROVE  [Promise!Next]_Promise!routeVars
<1>1. CASE touched' # {}
  BY <1>1 DEF Promise!Next
<1>2. CASE touched' = {}
  <2>1. ~Touch
    BY <1>2 DEF Touch, TouchProject, TouchOutput
  <2>2. touched = {} /\ touched' = touched
    BY <1>2, <2>1 DEF Next, Run, Cancel, Interrupt, vars
  <2>3. SUFFICES \/ Promise!Begin \/ (\E f \in Faces : Promise!Swap(f))
                 \/ Promise!Switch \/ Promise!End
                 \/ UNCHANGED Promise!routeVars
    BY <2>2 DEF Promise!Next
  <2>4. CASE Cancel \/ Interrupt \/ UNCHANGED vars
    BY <2>2, <2>4, SameRoute DEF Cancel, Interrupt, vars, fileVars, projectVars
  <2>5. CASE Run
    <3>1. RunFrame /\ (Start \/ Resume \/ Step)
      BY <2>5 DEF Run, RunFrame
    <3>2. CASE Start
      BY <2>2, <3>2, StartMaps
    <3>3. CASE Resume
      BY <2>2, <3>3, SameRoute DEF Resume, fileVars, projectVars
    <3>4. CASE Step
      <4>1. CASE MoveToBackup
        BY <2>2, <3>1, <4>1, MoveMaps
      <4>2. CASE Publish
        BY <2>2, <3>1, <4>2, PublishMaps
      <4>3. CASE ReplaceProject
        BY <2>2, <3>1, <4>3, ReplaceMaps
      <4>4. CASE RemoveJournal
        BY <2>2, <3>1, <4>4, EndMaps
      <4>5. CASE ~MoveToBackup /\ ~Publish /\ ~ReplaceProject /\ ~RemoveJournal
        <5>1. UNCHANGED <<final, project>> /\ journal # None /\ journal' # None
          BY <3>4, <4>5, OnlySwapsChangeOutputs, OnlyTheSaveChangesProject, RecordStays
        <5> QED BY <2>2, <5>1, SameRoute
      <4> QED BY <4>1, <4>2, <4>3, <4>4, <4>5
    <3> QED BY <3>1, <3>2, <3>3, <3>4
  <2> QED BY <2>1, <2>4, <2>5 DEF Next
<1> QED BY <1>1, <1>2

\* The project and its TIFFs change route together, through every interruption.
THEOREM MigrationIsAtomic == Spec => AtomicRouteSpec
<1>1. Init => Promise!Init
  <2> SUFFICES ASSUME Init PROVE Promise!Init
    OBVIOUS
  <2>1. project \notin Migrated /\ Outputs = [f \in Faces |-> "old"]
    BY ContentsDiffer DEF Init, Outputs, OutputState
  <2> QED BY <2>1 DEF Init, Promise!Init, Promise!All, Outputs
<1>2. MigrationInv /\ MigrationInv' /\ [Next]_vars => [Promise!Next]_Promise!routeVars
  BY MigrationMaps
<1> QED BY <1>1, <1>2, MigrationInvHolds, PTL DEF Spec, AtomicRouteSpec, Promise!Spec
=============================================================================
