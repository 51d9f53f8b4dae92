--------------------------- MODULE ProjectSession ---------------------------
(***************************************************************************)
(* The Source project open in the editor: project_lifecycle.rs decides     *)
(* when it may be replaced, project_persistence.rs guards its file against *)
(* other programs, recovery.rs keeps an autosaved copy, and main.rs runs   *)
(* Open, Save and Recover as one background job at a time.                 *)
(*                                                                         *)
(* Contents stand for the exact bytes of a project: edit number n leaves   *)
(* the content n.  The Windows build is modelled.  Windows and buttons are *)
(* not modal for the mouse, so every request is possible at any time.      *)
(***************************************************************************)
EXTENDS Integers, FiniteSets

CONSTANTS
    Paths,       \* project files
    None,        \* no file, no path, no transition, ...
    Empty,       \* the content of a new project: no Faces
    Old,         \* what the files hold at first
    Foreign,     \* what another program writes
    Broken,      \* another program's bytes that are not a project
    MaxEdits,    \* bound: edits by the operator
    OldFiles,    \* the files that exist at first
    MaxJobs,     \* bound: background jobs
    MaxFaults,   \* bound: changes by other programs, failures, panics, crashes
    MaxEvents,   \* bound: edits and faults together
    MaxStarts    \* bound: further starts of the process

VARIABLES
    disk,        \* path -> content
    bak,         \* path -> content of its .bak
    editor,      \* the project in memory: doc, path, dirty, revision
    life,        \* pending, afterSave, offer (backup_restore)
    authority,   \* active, prepared and failed baselines
    job,         \* the one background job
    autosave,    \* the autosave thread's copy, or None
    recovery,    \* the recovery file
    candidate,   \* the recovery offered since the start
    ended,       \* how the process ended, or "no"
    edits, jobs, faults, starts,  \* what the bounds count
    seen,        \* history: path -> contents this process opened from or saved to it
    owed,        \* history: the latest autosaved state not yet saved or given up
    inherited,   \* history: what was owed when an earlier process ended, as long as
                 \* neither a save, an autosave nor a Discard has followed it
    slipped,     \* history: the guarded file was replaced under its guard
    misarmed     \* history: the baseline is evidence of a stray question

files == <<disk, bak>>
rescue == <<autosave, recovery, candidate>>
bounds == <<edits, jobs, faults, starts>>
history == <<seen, owed, inherited, slipped, misarmed>>
vars == <<files, editor, life, authority, job, rescue, ended, bounds, history>>

Contents == {Empty, Old, Foreign, Broken} \union 1..MaxEdits
Parses(c) == c \notin {None, Broken}

Option(S) == S \union {None}

Transitions == [kind: {"New", "Exit", "Recover"}, path: {None}]
                   \union [kind: {"Open"}, path: Paths]

Evidence == [path: Paths, bytes: Contents, same: BOOLEAN, stray: BOOLEAN]
Baselines == [path: Paths, bytes: Contents]
Copies == [doc: Contents, origin: Option(Paths)]
Threads == [doc: Contents, origin: Option(Paths), revision: Nat, live: BOOLEAN]
Debts == [doc: Contents, revision: Nat]

ASSUME SessionAssumption ==
    /\ {MaxEdits, MaxJobs, MaxFaults, MaxEvents, MaxStarts} \subseteq Nat
    /\ OldFiles \subseteq Paths
    /\ Empty \notin {Old, Foreign, Broken} \union 1..MaxEdits
    /\ None \notin Paths \union Contents

(* None is no record. *)
ASSUME NoneAssumption ==
    None \notin Transitions \union Evidence \union Baselines
                     \union Copies \union Threads \union Debts

NoJob == [kind |-> "none", step |-> "idle", path |-> None, doc |-> None,
          revision |-> 0, expected |-> None]

Blank(r) == [doc |-> Empty, path |-> None, dirty |-> FALSE, revision |-> r]
Idle == [pending |-> None, afterSave |-> None, offer |-> None]
Unarmed == [active |-> None, prepared |-> None, failure |-> None]

(* complete_transition_after_save runs in the frame whose poll_job has just *)
(* left a clean project: the operator cannot act before it.                 *)
Due == life.afterSave # None /\ job = NoJob /\ ~editor.dirty

Acting == ended = "no" /\ ~Due

Init ==
    /\ disk = [p \in Paths |-> IF p \in OldFiles THEN Old ELSE None] /\ bak = disk
    /\ editor = Blank(0) /\ life = Idle /\ authority = Unarmed /\ job = NoJob
    /\ autosave = None /\ recovery = None /\ candidate = None
    /\ ended = "no" /\ edits = 0 /\ jobs = 0 /\ faults = 0 /\ starts = 0
    /\ seen = [p \in Paths |-> {}]
    /\ owed = None /\ inherited = None /\ slipped = FALSE /\ misarmed = FALSE

-----------------------------------------------------------------------------
(* Save authority                                                          *)

(* Evidence before an Open, or no evidence.  same stands for the comparison *)
(* of file generations: it ends with the next write of the file.            *)
Prepare(t, a) ==
    IF t.kind # "Open" THEN [a EXCEPT !.prepared = None, !.failure = None]
    ELSE IF disk[t.path] = None
    THEN [a EXCEPT !.prepared = None, !.failure = t.path]
    ELSE [a EXCEPT !.prepared = [path |-> t.path, bytes |-> disk[t.path], same |-> TRUE,
                                 stray |-> FALSE],
                   !.failure = None]

(* The question the evidence was taken for is cancelled or overtaken. *)
Stray(a) == IF a.prepared = None THEN a ELSE [a EXCEPT !.prepared.stray = TRUE]

(* Faulty: only the bytes are compared, not the generation of the file.    *)
RotateByBytes(a) ==
    LET e == a.prepared IN
    IF e = None THEN [a EXCEPT !.active = None]
    ELSE IF disk[e.path] = e.bytes
    THEN [Unarmed EXCEPT !.active = [path |-> e.path, bytes |-> e.bytes]]
    ELSE [Unarmed EXCEPT !.failure = e.path]

(* Faulty: a session without an Open keeps the baseline of the last one.   *)
RotateOnlyAfterOpen(a) ==
    LET e == a.prepared IN
    IF e = None THEN a
    ELSE IF e.same
    THEN [Unarmed EXCEPT !.active = [path |-> e.path, bytes |-> e.bytes]]
    ELSE [Unarmed EXCEPT !.failure = e.path]

(* A new session: prepared evidence that still holds becomes the baseline. *)
Rotate(a) ==
    LET e == a.prepared IN
    IF e = None THEN [a EXCEPT !.active = None]
    ELSE IF e.same
    THEN [Unarmed EXCEPT !.active = [path |-> e.path, bytes |-> e.bytes]]
    ELSE [Unarmed EXCEPT !.failure = e.path]

(* A write of file p, seen through its generation. *)
Outdated(a, p) ==
    IF a.prepared # None /\ a.prepared.path = p
    THEN [a EXCEPT !.prepared.same = FALSE] ELSE a

(* What expected_active_source_project_save_baseline answers for path p. *)
MayCreate(p) ==
    /\ disk[p] = None /\ authority.failure # p
    /\ authority.active = None \/ authority.active.path # p
MayReplace(p) == disk[p] # None /\ authority.active = [path |-> p, bytes |-> disk[p]]

-----------------------------------------------------------------------------
(* Transitions                                                             *)

(* requires_save_confirmation *)
MustAsk == editor.dirty \/ (editor.doc # Empty /\ editor.path = None)

SaveFailed(l) ==
    IF l.afterSave = None THEN l
    ELSE [l EXCEPT !.pending = l.afterSave, !.afterSave = None]

(* The operator gives up, or the file has, what the recovery file keeps. *)
Settle == owed' = None /\ autosave' = (IF autosave = None THEN None
                                       ELSE [autosave EXCEPT !.live = FALSE])

(* bump_session *)
Bump(a) ==
    /\ authority' = Rotate(a)
    /\ misarmed' = \/ authority'.active # None /\ a.prepared # None /\ a.prepared.stray
                   \/ misarmed /\ job.kind = "save"

(* launch_job *)
Launch(kind, step, path, doc, revision) ==
    /\ jobs' = jobs + 1
    /\ job' = [kind |-> kind, step |-> step, path |-> path, doc |-> doc,
               revision |-> revision, expected |-> None]

(* The bound on jobs holds for what the operator starts. *)
NeedsJob(t) == t.kind \in {"Open", "Recover"}
MayLaunch == jobs < MaxJobs

(* reset_to_new_project: cancel_pending, and only then the new session.    *)
NewProject(l, a) ==
    LET b == IF l.pending = None THEN a ELSE Stray(Prepare(l.pending, a)) IN
    /\ editor' = Blank(editor.revision)
    /\ life' = [l EXCEPT !.pending = None, !.afterSave = None]
    /\ Bump(b)
    /\ Settle
    /\ UNCHANGED <<job, jobs, candidate, ended>>

(* open_project_path; nothing happens while another job runs. *)
StartOpen(p, l, a) ==
    /\ authority' = a
    /\ IF job = NoJob
       THEN /\ Launch("open", "load", p, None, 0)
            /\ life' = [l EXCEPT !.offer = None] /\ candidate' = None
       ELSE life' = l /\ UNCHANGED <<job, jobs, candidate>>
    /\ UNCHANGED <<editor, ended, misarmed>>

(* recover_project_now *)
StartRecover(l, a) ==
    /\ life' = l /\ authority' = a
    /\ IF job = NoJob /\ candidate # None
       THEN /\ Launch("recover", "load", candidate.origin, candidate.doc, 0)
            /\ candidate' = None
       ELSE UNCHANGED <<job, jobs, candidate>>
    /\ UNCHANGED <<editor, ended, misarmed>>

(* What a process that ends leaves to the next one in the recovery file. *)
Bequeathed == IF owed # None THEN owed.doc ELSE inherited

(* The process is gone, with everything in memory. *)
Gone ==
    /\ editor' = Blank(0) /\ life' = Idle /\ authority' = Unarmed /\ job' = NoJob
    /\ autosave' = None /\ candidate' = None
    /\ seen' = [p \in Paths |-> {}] /\ owed' = None
    /\ slipped' = FALSE /\ misarmed' = FALSE

(* execute_project_transition, after a step that left l and a. *)
Execute(t, l, a) ==
    \/ t.kind = "New" /\ NewProject(l, a) /\ UNCHANGED <<seen, slipped>>
    \/ t.kind = "Open" /\ StartOpen(t.path, l, a) /\ UNCHANGED <<seen, slipped>>
    \/ t.kind = "Recover" /\ StartRecover(l, a) /\ UNCHANGED <<seen, slipped>>
    \/ t.kind = "Exit" /\ ended' = "exit" /\ Gone /\ UNCHANGED jobs

(* What is autosaved, in an execution without a Discard *)
Carried(t) ==
    /\ NeedsJob(t) => UNCHANGED <<owed, autosave>>
    /\ inherited' = IF t.kind = "Exit" THEN Bequeathed ELSE inherited

Request(t) ==
    /\ Acting /\ job = NoJob
    /\ t.kind = "Recover" => candidate # None
    /\ NeedsJob(t) => MayLaunch
    /\ LET a == Prepare(t, authority) IN
       IF MustAsk
       THEN /\ life' = [life EXCEPT !.pending = t] /\ authority' = a
            /\ UNCHANGED <<editor, job, jobs, candidate, ended, history, autosave>>
       ELSE Execute(t, life, a) /\ Carried(t)
    /\ UNCHANGED <<files, recovery, edits, faults, starts>>

Answered == [life EXCEPT !.pending = None, !.afterSave = None]

(* cancel_pending refreshes the evidence of an Open also when it is cancelled. *)
Cancel ==
    /\ Acting /\ life.pending # None
    /\ authority' = Stray(Prepare(life.pending, authority)) /\ life' = Answered
    /\ UNCHANGED <<files, editor, job, rescue, ended, bounds, history>>

Discard ==
    /\ Acting /\ life.pending # None
    /\ NeedsJob(life.pending) => MayLaunch
    /\ LET a == Prepare(life.pending, authority) IN
       Execute(life.pending, Answered, IF job = NoJob THEN a ELSE Stray(a))
    /\ IF life.pending.kind = "Recover" THEN UNCHANGED <<recovery, inherited>>
       ELSE recovery' = None /\ inherited' = None
    /\ life.pending.kind # "Exit" => Settle
    /\ UNCHANGED <<files, edits, faults, starts>>

(* complete_transition_after_save *)
AfterSave ==
    /\ ended = "no" /\ Due
    /\ Execute(life.afterSave, [life EXCEPT !.afterSave = None],
               Prepare(life.afterSave, authority))
    /\ Carried(life.afterSave)
    /\ UNCHANGED <<files, recovery, edits, faults, starts>>

-----------------------------------------------------------------------------
(* The operator's edits and saves                                          *)

(* mark_project_dirty; edits are possible while a job runs. *)
Edit ==
    /\ Acting /\ edits < MaxEdits /\ edits + faults < MaxEvents
    /\ edits' = edits + 1
    /\ editor' = [editor EXCEPT !.doc = edits + 1, !.dirty = TRUE, !.revision = @ + 1]
    /\ UNCHANGED <<files, life, authority, job, rescue, ended, jobs, faults, starts, history>>

(* save_project: Save goes to the project's own file, Save As and the first *)
(* save to any.                                                             *)
Targets(saveAs) == IF saveAs \/ editor.path = None THEN Paths ELSE {editor.path}

BeginSave(p) == Launch("save", "classify", p, editor.doc, editor.revision)

Save(saveAs) ==
    /\ Acting /\ job = NoJob /\ editor.doc # Empty /\ MayLaunch
    /\ \E p \in Targets(saveAs) : BeginSave(p)
    /\ UNCHANGED <<files, editor, life, authority, rescue, ended, edits, faults, starts, history>>

(* Save and continue; closing the file dialog asks the question again. *)
SaveAndContinue ==
    /\ Acting /\ job = NoJob /\ editor.doc # Empty /\ MayLaunch /\ life.pending # None
    /\ \/ /\ \E p \in Targets(FALSE) : BeginSave(p)
          /\ life' = [life EXCEPT !.pending = None, !.afterSave = life.pending]
       \/ editor.path = None /\ UNCHANGED <<job, jobs, life>>
    /\ UNCHANGED <<files, editor, authority, rescue, ended, edits, faults, starts, history>>

-----------------------------------------------------------------------------
(* The background job                                                      *)

At(kind, step) == ended = "no" /\ job.kind = kind /\ job.step = step

Became(step) == job' = [job EXCEPT !.step = step]

Read ==
    /\ At("open", "load")
    /\ job' = IF Parses(disk[job.path])
              THEN [job EXCEPT !.step = "ok", !.doc = disk[job.path]]
              ELSE [job EXCEPT !.step = "failed"]
    /\ UNCHANGED <<files, authority, seen, slipped, misarmed>>

ReadRecovered ==
    /\ At("recover", "load") /\ Became("ok")
    /\ UNCHANGED <<files, authority, seen, slipped, misarmed>>

(* The baseline is read when the worker gets there. *)
Classify ==
    /\ At("save", "classify")
    /\ job' = IF MayCreate(job.path) THEN [job EXCEPT !.step = "publish"]
              ELSE IF MayReplace(job.path)
              THEN [job EXCEPT !.step = "verify", !.expected = disk[job.path]]
              ELSE [job EXCEPT !.step = "failed"]
    /\ UNCHANGED <<files, authority, seen, slipped, misarmed>>

(* Under the guard: compare once more, then copy the file to .bak. *)
VerifyAndBackUp ==
    /\ At("save", "verify")
    /\ IF disk[job.path] = job.expected
       THEN Became("publish") /\ bak' = [bak EXCEPT ![job.path] = disk[job.path]]
       ELSE Became("failed") /\ bak' = bak
    /\ UNCHANGED <<disk, authority, seen, slipped, misarmed>>

(* The guard lives from the comparison to the rename. *)
Guards(p) == At("save", "publish") /\ job.path = p /\ job.expected # None

(* A guarded file is replaced; without a baseline a file is only created. *)
Publish ==
    /\ At("save", "publish")
    /\ IF job.expected # None \/ disk[job.path] = None
       THEN /\ disk' = [disk EXCEPT ![job.path] = job.doc]
            /\ authority' = Outdated(authority, job.path)
            /\ seen' = [seen EXCEPT ![job.path] = @ \union {job.doc}]
            /\ Became("accept")
       ELSE Became("failed") /\ UNCHANGED <<disk, authority, seen>>
    /\ slipped' = FALSE
    /\ UNCHANGED <<bak, misarmed>>

(* accept_saved_source_project trusts only the bytes it has published. *)
Accept ==
    /\ At("save", "accept")
    /\ LET found == disk[job.path] IN
       /\ Became(IF found = job.doc THEN "ok" ELSE "failed")
       /\ authority' =
            IF found = job.doc
            THEN [authority EXCEPT !.active = [path |-> job.path, bytes |-> found],
                                   !.failure = None]
            ELSE IF found = None THEN authority
            ELSE [authority EXCEPT !.active = None]
       /\ misarmed' = (misarmed /\ authority'.active = authority.active)
    /\ UNCHANGED <<files, seen, slipped>>

Fault == faults < MaxFaults /\ edits + faults < MaxEvents /\ faults' = faults + 1

Unfinished == ended = "no" /\ job # NoJob /\ job.step \notin {"ok", "failed", "panicked"}

(* Faulty: a panic ends the thread without a report. *)
JobDies ==
    /\ Unfinished /\ Fault /\ job.kind # "recover"
    /\ Became("dead") /\ slipped' = FALSE
    /\ UNCHANGED <<files, authority, seen, misarmed>>

(* A file operation fails, or the worker panics and the panic is reported. *)
JobFails ==
    /\ Unfinished /\ Fault
    /\ \/ job.kind # "recover" /\ Became("failed")
       \/ Became("panicked")
    /\ slipped' = FALSE
    /\ UNCHANGED <<files, authority, seen, misarmed>>

Worker ==
    /\ \/ JobFails
       \/ /\ Read \/ ReadRecovered \/ Classify \/ VerifyAndBackUp \/ Publish \/ Accept
          /\ UNCHANGED faults
    /\ UNCHANGED <<editor, life, rescue, ended, edits, jobs, starts, owed, inherited>>

-----------------------------------------------------------------------------
(* poll_job                                                                *)

Reported(kind, step) == At(kind, step) /\ job' = NoJob

Opened ==
    /\ Reported("open", "ok")
    /\ editor' = [Blank(editor.revision) EXCEPT !.doc = job.doc, !.path = job.path]
    /\ life' = [life EXCEPT !.offer = None]
    /\ Bump(authority)
    /\ seen' = [seen EXCEPT ![job.path] = @ \union {job.doc}]
    /\ Settle
    /\ UNCHANGED <<recovery, inherited>>

OpenFailed ==
    /\ Reported("open", "failed")
    /\ life' = IF Parses(bak[job.path]) THEN [life EXCEPT !.offer = job.path] ELSE life
    /\ UNCHANGED <<editor, authority, recovery, autosave, seen, owed, inherited, misarmed>>

Recovered ==
    /\ Reported("recover", "ok")
    /\ editor' = [doc |-> job.doc, path |-> job.path, dirty |-> TRUE,
                  revision |-> editor.revision + 1]
    /\ Bump(authority)
    /\ Settle
    /\ UNCHANGED <<life, recovery, seen, inherited>>

(* What was autosaved after the saved revision is still owed. *)
SettleUpTo(r) ==
    /\ owed' = IF owed = None \/ owed.revision <= r THEN None ELSE owed
    /\ autosave' = IF autosave = None \/ autosave.revision > r THEN autosave
                   ELSE [autosave EXCEPT !.live = FALSE]

(* Faulty: edits made during the save count as saved. *)
SavedWithEdits ==
    /\ Reported("save", "ok")
    /\ editor' = [editor EXCEPT !.path = job.path, !.dirty = FALSE]
    /\ recovery' = None /\ inherited' = None
    /\ SettleUpTo(job.revision)
    /\ UNCHANGED <<life, authority, seen, misarmed>>

(* The project is clean if its revision is still the saved one. *)
Saved ==
    /\ Reported("save", "ok")
    /\ editor' = [editor EXCEPT !.path = job.path,
                                !.dirty = @ /\ editor.revision # job.revision]
    /\ recovery' = None /\ inherited' = None
    /\ SettleUpTo(job.revision)
    /\ UNCHANGED <<life, authority, seen, misarmed>>

NotSaved ==
    /\ Reported("save", "failed")
    /\ life' = SaveFailed(life)
    /\ UNCHANGED <<editor, authority, recovery, autosave, seen, owed, inherited, misarmed>>

Panicked ==
    /\ ended = "no" /\ job.step = "panicked" /\ job' = NoJob
    /\ UNCHANGED <<editor, life, authority, recovery, autosave, seen, owed, inherited, misarmed>>

PollJob ==
    /\ Opened \/ OpenFailed \/ Recovered \/ Saved \/ NotSaved \/ Panicked
    /\ UNCHANGED <<files, candidate, ended, bounds, slipped>>

-----------------------------------------------------------------------------
(* Autosave, recovery and the restored backup                              *)

(* Faulty: an autosave may start while a job runs. *)
AutosaveAnyTime ==
    /\ Acting /\ editor.dirty /\ autosave = None /\ editor.doc # Empty
    /\ autosave' = [doc |-> editor.doc, origin |-> editor.path,
                    revision |-> editor.revision, live |-> TRUE]
    /\ UNCHANGED <<files, editor, life, authority, job, recovery, candidate,
                   ended, bounds, history>>

(* maybe_autosave: never while a job runs, one thread at a time. *)
MaybeAutosave ==
    /\ Acting /\ editor.dirty /\ autosave = None /\ job = NoJob /\ editor.doc # Empty
    /\ autosave' = [doc |-> editor.doc, origin |-> editor.path,
                    revision |-> editor.revision, live |-> TRUE]
    /\ UNCHANGED <<files, editor, life, authority, job, recovery, candidate,
                   ended, bounds, history>>

(* The thread writes the recovery file, or fails to. *)
AutosaveEnds ==
    /\ ended = "no" /\ autosave # None /\ autosave' = None
    /\ \/ /\ recovery' = [doc |-> autosave.doc, origin |-> autosave.origin]
          /\ inherited' = None
          /\ owed' = IF autosave.live
                     THEN [doc |-> autosave.doc, revision |-> autosave.revision] ELSE owed
          /\ UNCHANGED faults
       \/ Fault /\ UNCHANGED <<recovery, owed, inherited>>
    /\ UNCHANGED <<files, editor, life, authority, job, candidate, ended, edits, jobs, starts,
                   seen, slipped, misarmed>>

(* The recovery window's Discard removes whatever the recovery file holds now. *)
DiscardRecovery ==
    /\ Acting /\ candidate # None
    /\ candidate' = None /\ recovery' = None /\ owed' = None /\ inherited' = None
    /\ UNCHANGED <<files, editor, life, authority, job, autosave, ended, bounds,
                   seen, slipped, misarmed>>

(* The failed file goes to .corrupt, its .bak takes its place and is opened. *)
RestoreBackup ==
    /\ Acting /\ life.offer # None /\ MayLaunch
    /\ LET p == life.offer IN
       /\ Parses(bak[p])
       /\ disk' = [disk EXCEPT ![p] = bak[p]]
       /\ StartOpen(p, [life EXCEPT !.offer = None], Stray(Outdated(authority, p)))
    /\ UNCHANGED <<bak, autosave, recovery, edits, faults, starts, seen, owed, inherited, slipped>>

DeclineBackup ==
    /\ Acting /\ life.offer # None
    /\ life' = [life EXCEPT !.offer = None]
    /\ UNCHANGED <<files, editor, authority, job, rescue, ended, bounds, history>>

-----------------------------------------------------------------------------
(* Other programs, the end of the process and its next start               *)

(* The guard excludes writers, not deletion or replacement of the file. *)
Touch(p, c) ==
    /\ Fault /\ c # disk[p]
    /\ disk' = [disk EXCEPT ![p] = c]
    /\ authority' = Outdated(authority, p)
    /\ slipped' = (slipped \/ Guards(p))
    /\ UNCHANGED <<bak, editor, life, job, rescue, ended, edits, jobs, starts,
                   seen, owed, inherited, misarmed>>

Crash ==
    /\ ended = "no" /\ Fault /\ ended' = "crash" /\ Gone /\ inherited' = Bequeathed
    /\ UNCHANGED <<files, recovery, edits, jobs, starts>>

(* A start may name a project, which is then opened without a question. *)
Start(p) ==
    /\ ended # "no" /\ starts < MaxStarts
    /\ starts' = starts + 1 /\ ended' = "no"
    /\ IF p = None
       THEN candidate' = recovery /\ UNCHANGED <<authority, job, jobs>>
       ELSE /\ MayLaunch
            /\ authority' = Prepare([kind |-> "Open", path |-> p], Unarmed)
            /\ Launch("open", "load", p, None, 0) /\ UNCHANGED candidate
    /\ UNCHANGED <<files, editor, life, autosave, recovery, edits, faults, history>>

-----------------------------------------------------------------------------
Operator ==
    \/ \E t \in Transitions : Request(t)
    \/ Cancel \/ Discard \/ SaveAndContinue \/ Edit
    \/ \E saveAs \in BOOLEAN : Save(saveAs)
    \/ DiscardRecovery \/ RestoreBackup \/ DeclineBackup

Next ==
    \/ Operator \/ AfterSave \/ PollJob \/ Worker
    \/ MaybeAutosave \/ AutosaveEnds
    \/ \E p \in Paths, c \in {None, Old, Foreign, Broken} : Touch(p, c)
    \/ Crash
    \/ \E p \in Paths \union {None} : Start(p)

Spec == Init /\ [][Next]_vars

(* The UI polls in every frame, and what follows a save is done in the same *)
(* frame; a worker is straight code on a thread of its own.                 *)
FairSpec == Spec /\ WF_vars(PollJob) /\ WF_vars(AfterSave) /\ WF_vars(Worker)

-----------------------------------------------------------------------------
(* Properties                                                              *)

(* The state has the shape the code gives it; an armed baseline, a question *)
(* and an offer name project files.                                         *)
TypeOK ==
    /\ disk \in [Paths -> Option(Contents)] /\ bak \in [Paths -> Option(Contents)]
    /\ editor \in [doc: Contents, path: Option(Paths), dirty: BOOLEAN, revision: Nat]
    /\ life \in [pending: Option(Transitions), afterSave: Option(Transitions),
                 offer: Option(Paths)]
    /\ authority.active \in Option(Baselines)
    /\ authority.prepared \in Option(Evidence)
    /\ authority.failure \in Option(Paths)
    /\ job.kind \in {"none", "open", "save", "recover"}
    /\ job.step \in {"idle", "load", "classify", "verify", "publish", "accept",
                     "ok", "failed", "panicked"}
    /\ job.kind \in {"open", "save"} => job.path \in Paths
    /\ recovery \in Option(Copies)
    /\ candidate \in Option(Copies)

(* Guarded save (save_active_source_project): a save replaces only bytes    *)
(* that this process has itself opened from, or saved to, that file,        *)
(* whatever other programs write at whatever moment.  Two openings remain:  *)
(* a file replaced under the guard, and a baseline armed by an overtaken    *)
(* question.                                                                *)
NoLostUpdate ==
    [][\A p \in Paths :
        At("save", "publish") /\ job.path = p /\ disk'[p] # disk[p] /\ job'.step = "accept"
            => disk[p] \in seen[p] \union {None} \/ slipped \/ misarmed]_vars

(* The project in memory begins to be replaced, or is left. *)
Leaves ==
    \/ job = NoJob /\ job'.kind \in {"open", "recover"} /\ ended = "no"
    \/ ended = "no" /\ ended' = "exit"
    \/ ended = "no" /\ ended' = "no" /\ editor.doc # Empty /\ editor'.doc = Empty

Discards == life.pending # None /\ life'.pending = None

(* main.rs:3040: work remains untouched unless Save succeeds or Discard is *)
(* explicit.  When the project is left without a Discard, its content is   *)
(* one this process has opened from, or saved to, the project's own file,  *)
(* also when it was edited during the save.  (Restoring a backup asks      *)
(* nothing; edits made while an Open or a Recover runs are not covered.)   *)
EditsKept ==
    [][Leaves => \/ editor.doc = Empty
                 \/ editor.path # None /\ editor.doc \in seen[editor.path]
                 \/ Discards
                 \/ life.offer # None]_vars

(* recovery.rs: what was autosaved is in the recovery file until a save of  *)
(* that state or a later one succeeds or the operator gives it up; neither  *)
(* a late autosave thread nor a failed save takes it away.  It outlives its *)
(* process: after a crash it stays there through starts, opens and failed   *)
(* jobs, and when it is recovered, until the next save or autosave of       *)
(* whatever project is open then, or a Discard.  That next save need not be *)
(* of the recovered work: a start that names a project (main.rs:111) does   *)
(* not offer it, and any save clears the file (main.rs:2242).               *)
AutosavedWorkKept ==
    /\ owed # None => recovery # None /\ recovery.doc = owed.doc
    /\ inherited # None => recovery # None /\ recovery.doc = inherited

(* The armed baseline is of the open project's own file and of bytes this  *)
(* process knows, through failed opens and saves under another name; while *)
(* a save runs it may already be that of the new name.  Not so a baseline  *)
(* armed from the evidence of a question that was cancelled or overtaken   *)
(* (misarmed): see BaselineOwn, which the code breaks.                     *)
BaselineCurrent ==
    authority.active # None /\ job.kind # "save" /\ ~misarmed /\ ended = "no" =>
        /\ authority.active.path = editor.path
        /\ authority.active.bytes \in seen[editor.path]

(* project_lifecycle.rs:174: a plain Cancel may leave inert prepared         *)
(* evidence, but it cannot arm Save authority, because every subsequent      *)
(* transition replaces or disarms it first.  So the armed baseline is the    *)
(* open project's own whatever was asked and cancelled before.               *)
BaselineOwn ==
    authority.active # None /\ job.kind # "save" /\ ended = "no" =>
        authority.active.path = editor.path

(* A transition that waits for a save is executed, asked again, or left    *)
(* behind because newer edits or a panic kept the project dirty; a job that *)
(* fails or panics never keeps it waiting.                                 *)
SaveAndContinueEnds ==
    life.afterSave # None ~>
        (life.afterSave = None \/ (editor.dirty /\ job = NoJob) \/ ended # "no")

=============================================================================
