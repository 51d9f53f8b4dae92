--------------------------- MODULE RouteMigration ---------------------------
(***************************************************************************)
(* The migration of a whole Production project to another route.  A plan   *)
(* names every TIFF and the exact bytes of each and of the project.  A     *)
(* journal next to the project records how far it has come: every          *)
(* replacement is rendered beside its TIFF (Staging), then each TIFF is    *)
(* moved to a backup and its replacement takes its place (CommitPending),  *)
(* then the project is saved (ProductionProjectSavePending), and when that *)
(* is on record (Complete) backups and journal are removed.                *)
(*                                                                         *)
(* One worker thread runs the plan, one file operation per step.  It may   *)
(* end after any of them: the process dies, an operation reports an error, *)
(* the thread panics.  A later run resumes from the journal and looks at   *)
(* the bytes of the files again.  Other programs, the editor among them,   *)
(* change the files between any two steps.                                 *)
(*                                                                         *)
(* Contents are Old (what the plan captured), one of Renders, or Foreign;  *)
(* None is a missing file.                                                 *)
(***************************************************************************)
EXTENDS Naturals, Sequences

CONSTANTS
    N,           \* the number of Faces
    Renders,     \* what rendering a replacement may give
    Old, Foreign, None,
    MaxFaults    \* bound on interruptions, cancellations and foreign changes

Faces == 1..N

\* A migrated project: the contents it lists.
Migrated == [Faces -> Renders]

ASSUME MigrationAssumption ==
    /\ N \in Nat \ {0}
    /\ MaxFaults \in Nat
    /\ Old # Foreign /\ None \notin {Old, Foreign}
    /\ {Old, Foreign, None} \cap (Renders \cup Migrated) = {}

VARIABLES
    final, staged, backup,   \* the three paths of each TIFF
    project, projectBackup,  \* the project file and its .bak
    journal,                 \* the journal file
    mem,                     \* the journal in the memory of the run
    pc,                      \* what the run does next
    faults,                  \* counts against MaxFaults
    touched,                 \* history: what others have changed (0: the project)
    late                     \* history: ... since the run last looked at it

fileVars == <<final, staged, backup>>
projectVars == <<project, projectBackup>>
vars == <<fileVars, projectVars, journal, mem, pc, faults, touched, late>>

Contents == Renders \cup {Old, Foreign, None}
Projects == Migrated \cup {Old, Foreign, None}

Stages == {"Staging", "CommitPending", "ProductionProjectSavePending", "Complete"}

\* staged: the checkpointed replacements, in order; committed: how many of them
\* have taken the place of their TIFF.
Journal == [stage : Stages, staged : Seq(Renders), committed : 0..N]

\* A missing journal is no journal.
ASSUME JournalAssumption == None \notin Journal

Fresh == [stage |-> "Staging", staged |-> <<>>, committed |-> 0]

\* validate_for
Valid(j) ==
    /\ Len(j.staged) <= N
    /\ j.stage = "Staging" => j.committed = 0
    /\ j.stage # "Staging" => Len(j.staged) = N
    /\ j.committed <= Len(j.staged)
    /\ j.stage \in {"ProductionProjectSavePending", "Complete"} => j.committed = N

\* A run that is over, and how it ended.
Ended == {"idle", "cancelled", "refused", "done"}
Busy == {"enter", "stage", "render", "save stage", "commit", "move", "moving",
         "publish", "publishing", "record", "restage", "rerender", "save restage",
         "outputs", "save project", "back up", "replace", "reopen", "clean"}

Init ==
    /\ final = [f \in Faces |-> Old]
    /\ staged = [f \in Faces |-> None]
    /\ backup = [f \in Faces |-> None]
    /\ project = Old
    /\ projectBackup \in {Old, Foreign, None}
    /\ journal = None
    /\ mem = None
    /\ pc = "idle"
    /\ faults = 0
    /\ touched = {}
    /\ late = {}

-------------------------------------------------------------------------------
(***************************************************************************)
(* The outcome of a step.                                                  *)
(***************************************************************************)
\* A check fails: the run ends with an error and leaves everything as it is.
Refuse ==
    /\ pc' = "refused"
    /\ mem' = None
    /\ UNCHANGED <<fileVars, projectVars, journal>>

\* Only the position of the run changes.
GoTo(next) ==
    /\ pc' = next
    /\ UNCHANGED <<fileVars, projectVars, journal, mem>>

\* The journal is saved whole, by atomic_write.
Checkpoint(j, next) ==
    /\ mem' = j
    /\ journal' = j
    /\ pc' = next
    /\ UNCHANGED <<fileVars, projectVars>>

OnlyIf(check, step) == IF check THEN step ELSE Refuse

-------------------------------------------------------------------------------
(***************************************************************************)
(* Begin and resume.                                                       *)
(***************************************************************************)
\* execute_new_route_migration.  The plan is of a project on the old route.
Start ==
    /\ pc \in Ended
    /\ journal = None
    /\ project \in {Old, Foreign}
    /\ OnlyIf(project = Old /\ \A f \in Faces : final[f] = Old,
              Checkpoint(Fresh, "enter"))

\* resume_route_migration: the journal is all a new run knows.
Resume ==
    /\ pc \in Ended
    /\ journal # None
    /\ pc' = "enter"
    /\ mem' = journal
    /\ UNCHANGED <<fileVars, projectVars, journal>>

\* verify_recorded_staging_prefix
StagingPrefixIntact ==
    \A f \in 1..Len(mem.staged) :
        final[f] = Old /\ staged[f] = mem.staged[f] /\ backup[f] = None

FinalsCommitted == \A f \in Faces : final[f] = mem.staged[f]
OutputsCommitted == FinalsCommitted /\ \A f \in Faces : backup[f] = Old

\* The project that must exist after the migration.
Expected == [f \in Faces |-> mem.staged[f]]

\* Faulty: every run enters through the checks of a project not yet saved.
EnterThroughPreflight ==
    /\ pc = "enter"
    /\ CASE mem.stage = "Staging" ->
              OnlyIf(project = Old /\ StagingPrefixIntact, GoTo("stage"))
         [] mem.stage = "CommitPending" -> OnlyIf(project = Old, GoTo("commit"))
         [] mem.stage = "ProductionProjectSavePending" ->
              OnlyIf(project = Old, GoTo("outputs"))
         [] mem.stage = "Complete" ->
              OnlyIf(project = Expected /\ FinalsCommitted, GoTo("clean"))

\* drive_route_migration: where a run takes up its journal.
Enter ==
    /\ pc = "enter"
    /\ CASE mem.stage = "Staging" ->
              OnlyIf(project = Old /\ StagingPrefixIntact, GoTo("stage"))
         [] mem.stage = "CommitPending" -> OnlyIf(project = Old, GoTo("commit"))
         [] mem.stage = "ProductionProjectSavePending" -> GoTo("outputs")
         [] mem.stage = "Complete" ->
              OnlyIf(project = Expected /\ FinalsCommitted, GoTo("clean"))

-------------------------------------------------------------------------------
(***************************************************************************)
(* Staging: render every replacement beside its TIFF.                      *)
(***************************************************************************)
ToStage == Len(mem.staged) + 1

\* Faulty: off by one, the last Face is not staged.
BeginCommitEarly ==
    /\ pc = "stage" /\ ToStage >= N
    /\ Checkpoint([mem EXCEPT !.stage = "CommitPending"], "commit")

BeginCommit ==
    /\ pc = "stage" /\ ToStage > N
    /\ Checkpoint([mem EXCEPT !.stage = "CommitPending"], "commit")

\* A file left over at the staged path is not trusted: it is removed.
ClearAt(f, check, next) ==
    IF check /\ final[f] = Old /\ backup[f] = None
    THEN /\ staged' = [staged EXCEPT ![f] = None]
         /\ pc' = next
         /\ UNCHANGED <<final, backup, projectVars, journal, mem>>
    ELSE Refuse

ClearStage ==
    /\ pc = "stage" /\ ToStage \in Faces
    /\ ClearAt(ToStage, project = Old, "render")

\* stage_replacement publishes new-only; an existing file is an error.
RenderAt(f, recorded, next) ==
    IF staged[f] = None
    THEN \E bytes \in Renders :
           /\ staged' = [staged EXCEPT ![f] = bytes]
           /\ mem' = recorded[bytes]
           /\ pc' = next
           /\ UNCHANGED <<final, backup, projectVars, journal>>
    ELSE Refuse

Render ==
    /\ pc = "render"
    /\ RenderAt(ToStage,
                [bytes \in Renders |-> [mem EXCEPT !.staged = Append(@, bytes)]],
                "save stage")

SaveStage ==
    /\ pc = "save stage"
    /\ Checkpoint(mem, "stage")

\* Only here does the run look at the cancellation flag.
Cancel ==
    /\ pc \in {"stage", "render"}
    /\ pc = "stage" => ToStage \in Faces
    /\ faults < MaxFaults
    /\ faults' = faults + 1
    /\ pc' = "cancelled"
    /\ mem' = None
    /\ UNCHANGED <<fileVars, projectVars, journal, touched, late>>

-------------------------------------------------------------------------------
(***************************************************************************)
(* Commit: each TIFF to its backup, its replacement to its place.          *)
(***************************************************************************)
ToCommit == mem.committed + 1
New(f) == mem.staged[f]

\* Faulty: the project is saved before the last TIFF is in place.
SavePendingEarly ==
    /\ pc = "commit" /\ ToCommit >= N
    /\ Checkpoint([mem EXCEPT !.stage = "ProductionProjectSavePending"],
                  "save project")

SavePending ==
    /\ pc = "commit" /\ ToCommit > N
    /\ Checkpoint([mem EXCEPT !.stage = "ProductionProjectSavePending"], "outputs")

\* Faulty: a swap interrupted half-way is not known.
ClassifiedLoosely(f) ==
    CASE final[f] = Old /\ staged[f] = New(f) /\ backup[f] = None -> "move"
      [] final[f] = New(f) /\ staged[f] = None /\ backup[f] = Old -> "record"
      [] final[f] = Old /\ staged[f] = None /\ backup[f] = None -> "restage"
      [] OTHER -> "refused"

\* Faulty: the replacement takes the place of its TIFF at once.
ClassifiedWithoutBackup(f) ==
    CASE final[f] = Old /\ staged[f] = New(f) /\ backup[f] = None -> "publish"
      [] final[f] = New(f) /\ staged[f] = None /\ backup[f] = Old -> "record"
      [] final[f] = Old /\ staged[f] = None /\ backup[f] = None -> "restage"
      [] OTHER -> "refused"

\* classify_route_migration_recovery of a Face that is not checkpointed: by the
\* bytes of its three files, in favour of no guess.
Classified(f) ==
    CASE final[f] = Old /\ staged[f] = New(f) /\ backup[f] = None -> "move"
      [] final[f] = None /\ staged[f] = New(f) /\ backup[f] = Old -> "publish"
      [] final[f] = New(f) /\ staged[f] = None /\ backup[f] = Old -> "record"
      [] final[f] = Old /\ staged[f] = None /\ backup[f] = None -> "restage"
      [] OTHER -> "refused"

Classify ==
    /\ pc = "commit" /\ ToCommit \in Faces
    /\ OnlyIf(project = Old /\ Classified(ToCommit) # "refused",
              GoTo(Classified(ToCommit)))

\* The staged file is gone: render it again, read it back, save its identity.
Restage ==
    /\ pc = "restage"
    /\ ClearAt(ToCommit, TRUE, "rerender")

Rerender ==
    /\ pc = "rerender"
    /\ RenderAt(ToCommit,
                [bytes \in Renders |-> [mem EXCEPT !.staged[ToCommit] = bytes]],
                "save restage")

SaveRestage ==
    /\ pc = "save restage"
    /\ OnlyIf(staged[ToCommit] = New(ToCommit), Checkpoint(mem, "move"))

CheckBeforeMove ==
    /\ pc = "move"
    /\ OnlyIf(backup[ToCommit] = None /\ final[ToCommit] = Old, GoTo("moving"))

\* A no-replace rename, then the hash of what has arrived.
MoveToBackup ==
    /\ pc = "moving"
    /\ IF final[ToCommit] # None /\ backup[ToCommit] = None
       THEN /\ backup' = [backup EXCEPT ![ToCommit] = final[ToCommit]]
            /\ final' = [final EXCEPT ![ToCommit] = None]
            /\ IF final[ToCommit] = Old THEN pc' = "publish" /\ UNCHANGED mem
               ELSE pc' = "refused" /\ mem' = None
            /\ UNCHANGED <<staged, projectVars, journal>>
       ELSE Refuse

\* Faulty: the commit is recorded before it happens.
RecordBeforePublish ==
    /\ pc = "publish"
    /\ OnlyIf(staged[ToCommit] = New(ToCommit),
              Checkpoint([mem EXCEPT !.committed = @ + 1], "publishing"))

CheckBeforePublish ==
    /\ pc = "publish"
    /\ OnlyIf(staged[ToCommit] = New(ToCommit), GoTo("publishing"))

\* A replacing rename, then the hash of what has arrived.
Publish ==
    /\ pc = "publishing"
    /\ IF staged[ToCommit] # None
       THEN /\ final' = [final EXCEPT ![ToCommit] = staged[ToCommit]]
            /\ staged' = [staged EXCEPT ![ToCommit] = None]
            /\ IF staged[ToCommit] = New(ToCommit) THEN pc' = "record" /\ UNCHANGED mem
               ELSE pc' = "refused" /\ mem' = None
            /\ UNCHANGED <<backup, projectVars, journal>>
       ELSE Refuse

RecordCommitted ==
    /\ pc = "record"
    /\ Checkpoint([mem EXCEPT !.committed = @ + 1], "commit")

-------------------------------------------------------------------------------
(***************************************************************************)
(* Save the project, put that on record, clean up.                         *)
(***************************************************************************)
\* complete_route_migration_project: the project is still the captured one, or
\* it has been saved by a run that could not record it, and its .bak proves that.
CheckOutputs ==
    /\ pc = "outputs"
    /\ CASE OutputsCommitted /\ project = Old -> GoTo("save project")
         [] OutputsCommitted /\ project = Expected /\ projectBackup = Old -> GoTo("reopen")
         [] OTHER -> Refuse

\* Faulty: the project is not looked at again before its save.
SaveUnchecked ==
    /\ pc = "save project"
    /\ GoTo("back up")

CheckBeforeSave ==
    /\ pc = "save project"
    /\ OnlyIf(project = Old, GoTo("back up"))

\* atomic_write with a backup: copy, then replace.
BackUpProject ==
    /\ pc = "back up"
    /\ projectBackup' = project
    /\ pc' = "replace"
    /\ UNCHANGED <<fileVars, project, journal, mem>>

ReplaceProject ==
    /\ pc = "replace"
    /\ project' = Expected
    /\ pc' = "reopen"
    /\ UNCHANGED <<fileVars, projectBackup, journal, mem>>

MarkComplete ==
    /\ pc = "reopen"
    /\ OnlyIf(project = Expected /\ OutputsCommitted,
              Checkpoint([mem EXCEPT !.stage = "Complete"], "clean"))

\* Faulty: the journal goes first.
RemoveJournalFirst ==
    /\ pc = "clean" /\ journal # None
    /\ journal' = None
    /\ pc' = "done"
    /\ mem' = None
    /\ UNCHANGED <<fileVars, projectVars>>

Leftovers == {f \in Faces : staged[f] # None \/ backup[f] # None}

\* cleanup_completed_route_migration_outputs: Face by Face, whatever is there.
RemoveLeftover(f) ==
    /\ pc = "clean"
    /\ f \in Leftovers /\ \A g \in Leftovers : f <= g
    /\ staged' = [staged EXCEPT ![f] = None]
    /\ backup' = IF staged[f] # None THEN backup ELSE [backup EXCEPT ![f] = None]
    /\ UNCHANGED <<final, projectVars, journal, mem, pc>>

RemoveJournal ==
    /\ pc = "clean" /\ Leftovers = {}
    /\ journal' = None
    /\ pc' = "done"
    /\ mem' = None
    /\ UNCHANGED <<fileVars, projectVars>>

-------------------------------------------------------------------------------
(***************************************************************************)
(* Everything that happens to a run.                                       *)
(***************************************************************************)
Step ==
    \/ Enter \/ BeginCommit \/ ClearStage \/ Render \/ SaveStage
    \/ SavePending \/ Classify \/ Restage \/ Rerender \/ SaveRestage
    \/ CheckBeforeMove \/ MoveToBackup \/ CheckBeforePublish \/ Publish
    \/ RecordCommitted
    \/ CheckOutputs \/ CheckBeforeSave \/ BackUpProject \/ ReplaceProject
    \/ MarkComplete \/ (\E f \in Faces : RemoveLeftover(f)) \/ RemoveJournal

\* The run ends between two operations: a crash, a panic, an error that left the
\* operation undone or that was reported after it.  (MaxFaults bounds it.)
Interrupt ==
    /\ pc \in Busy
    /\ faults < MaxFaults
    /\ faults' = faults + 1
    /\ pc' = "idle"
    /\ mem' = None
    /\ UNCHANGED <<fileVars, projectVars, journal, touched, late>>

\* Another program, or the app outside this run, replaces or deletes a file.
TouchOutput(f) ==
    \E other \in {Foreign, None} :
        /\ \/ final' = [final EXCEPT ![f] = other] /\ UNCHANGED <<staged, backup>>
           \/ staged' = [staged EXCEPT ![f] = other] /\ UNCHANGED <<final, backup>>
           \/ backup' = [backup EXCEPT ![f] = other] /\ UNCHANGED <<final, staged>>
        /\ touched' = touched \cup {f}
        /\ late' = late \cup {f}
        /\ UNCHANGED projectVars

\* A save of the project keeps what was there as the .bak.
TouchProject ==
    /\ project' = Foreign
    /\ projectBackup' \in {project, projectBackup}
    /\ touched' = touched \cup {0}
    /\ late' = late \cup {0}
    /\ UNCHANGED fileVars

Touch ==
    /\ faults < MaxFaults
    /\ faults' = faults + 1
    /\ TouchProject \/ \E f \in Faces : TouchOutput(f)
    /\ UNCHANGED <<journal, mem, pc>>

\* Where the run looks at the file it is about to replace.
Looks == {"commit", "move", "save project"}

Run ==
    /\ Start \/ Resume \/ Step
    /\ late' = IF pc \in Looks THEN {} ELSE late
    /\ UNCHANGED <<faults, touched>>

Next == Run \/ Cancel \/ Interrupt \/ Touch

Spec == Init /\ [][Next]_vars

\* A worker thread runs; the operator resumes what the journal says is unfinished.
Fairness ==
    /\ WF_vars(Step /\ Run)
    /\ WF_vars(Resume /\ Run)

FairSpec == Spec /\ Fairness
-------------------------------------------------------------------------------
(***************************************************************************)
(* What must hold.                                                         *)
(***************************************************************************)
\* Every variable has the shape its Rust type gives it, and a journal, in memory
\* or on disk, is one its own validation accepts.
TypeOK ==
    /\ {final, staged, backup} \subseteq [Faces -> Contents]
    /\ {project, projectBackup} \subseteq Projects
    /\ \A j \in {journal, mem} \ {None} : j \in Journal /\ Valid(j)
    /\ pc \in Ended \cup Busy
    /\ pc \in Busy <=> mem # None
    /\ faults \in 0..MaxFaults
    /\ touched \subseteq {0} \cup Faces
    /\ late \subseteq touched

\* As long as the project file is the captured one, the captured bytes of every
\* TIFF it lists exist, at their path or in the backup: at no moment, and after no
\* interruption, is there a project without its TIFFs.
NothingLost ==
    project = Old =>
        \A f \in Faces \ touched : final[f] = Old \/ backup[f] = Old

\* A migrated project lists exactly what is at the paths of its TIFFs.
ProjectListsOutputs ==
    project \in Migrated => \A f \in Faces \ touched : final[f] = project[f]

\* A run is refused only when somebody else has changed a file: whatever the point
\* where a run of its own was interrupted, the next one recognises it.
OwnTracesRecognised == pc = "refused" => touched # {}

\* A TIFF on record as committed is in place with its backup, until the
\* backups are no longer needed.
CommitsBacked ==
    journal # None =>
        \A f \in (1..journal.committed) \ touched :
            /\ final[f] = journal.staged[f]
            /\ journal.stage # "Complete" => backup[f] = Old

\* Staged files and backups are there only as long as the journal knows of them.
LeftoversOnRecord ==
    journal = None =>
        \A f \in Faces \ touched : staged[f] = None /\ backup[f] = None

\* Bytes the plan does not know are never replaced by a TIFF or by the project,
\* unless they came after the run last looked.
ForeignKept ==
    [][/\ \A f \in Faces : final[f] = Foreign /\ final'[f] # Foreign => f \in late'
       /\ project = Foreign /\ project' # Foreign => 0 \in late']_vars

\* The migration on record ends, unless somebody else changes a file: resumed
\* often enough it comes to the migrated project, whatever interrupts it.
MigrationEnds == journal # None ~> journal = None \/ touched # {}

\* How this implements the atomic migration.
OutputState(f) ==
    IF final[f] = Old THEN "old" ELSE IF final[f] = None THEN "gone" ELSE "new"

Promise == INSTANCE AtomicRoute WITH
    route <- IF project \in Migrated THEN "new" ELSE "old",
    outputs <- [f \in Faces |-> OutputState(f)],
    pending <- journal # None,
    tampered <- touched # {}

\* The project and its TIFFs change route together: no step and no interruption
\* shows a route the promise does not allow.
AtomicRouteSpec == Promise!Spec
===============================================================================
