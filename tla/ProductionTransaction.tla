------------------------ MODULE ProductionTransaction ------------------------
(***************************************************************************)
(* One production conversion of one Face, as a worker thread runs it, and  *)
(* the files it leaves on disk.                                            *)
(*                                                                         *)
(* A worker executes exactly one pending Face of a batch: it works out     *)
(* what may happen to the Production project (disposition_for_face), runs  *)
(* the checks that must hold before anything is published, renders and     *)
(* publishes the TIFF behind the cancellation gate, and only then links    *)
(* the TIFF into the Production project.  The TIFF and the project are two *)
(* files, so between the two publications the disk holds a committed TIFF  *)
(* that no project knows about.                                            *)
(*                                                                         *)
(* Abstractions: the bytes of a TIFF are named by the batch capture that   *)
(* rendered them (the captured source and recipe determine them); a        *)
(* SHA-256 comparison is equality of contents; a Production project is the *)
(* TIFF bytes its provenance records for each path plus a count of         *)
(* production-side edits; a Source Face is identified with its             *)
(* deterministic TIFF path.                                                *)
(***************************************************************************)
EXTENDS Naturals, Sequences

CONSTANTS
    Ids,        \* queue ids a worker can run for (bound: 1..MaxId)
    Jobs,       \* immutable batch captures
    Tiffs,      \* output TIFF paths
    Projects,   \* Production project paths
    FacesOf,    \* the TIFF path of each Face of a capture, in Source order
    ProjectOf,  \* the one Production project a capture targets
    ModeOf,     \* the captured ProductionProjectDisposition mode
    DiscardOf,  \* allow_production_work_discard of a capture
    OwnedBy,    \* the TIFFs each project already owns; {}: no project yet
    MaxEdits,   \* bound: foreign edits of one project
    Faults,     \* what the environment may do, see FaultKinds
    None,       \* nothing: an absent file, the None of an Option
    Earlier,    \* TIFF bytes produced before these captures
    Foreign     \* TIFF bytes somebody else put at a path

Modes == {"CreateNew", "AppendExisting", "UpdateExistingRoute"}

(***************************************************************************)
(*   crash      the process dies and is started again                      *)
(*   panic      a worker panics                                            *)
(*   io         reading, rendering or writing a file fails                 *)
(*   readback   the TIFF is in place, then its directory sync, its hash or *)
(*              the clock fails                                            *)
(*   lineage    provenance, audit or project cannot be built after commit  *)
(*   persist    writing the queue file fails                               *)
(*   load       the queue file cannot be read at startup                   *)
(*   edit       somebody else saves a Production project                   *)
(*   create     somebody else puts a file at an unused TIFF path           *)
(*   remove     somebody else removes a TIFF                               *)
(***************************************************************************)
FaultKinds == {"crash", "panic", "io", "readback", "lineage", "persist",
               "load", "edit", "create", "remove"}

TransactionAssumptions ==
    /\ Ids \subseteq Nat \ {0}
    /\ FacesOf \in [Jobs -> Seq(Tiffs)]
    /\ \A j \in Jobs : Len(FacesOf[j]) > 0
    /\ \A j \in Jobs : \A k, m \in 1..Len(FacesOf[j]) :
           FacesOf[j][k] = FacesOf[j][m] => k = m
    /\ ProjectOf \in [Jobs -> Projects]
    /\ ModeOf \in [Jobs -> Modes]
    /\ DiscardOf \in [Jobs -> BOOLEAN]
    /\ OwnedBy \in [Projects -> SUBSET Tiffs]
    /\ MaxEdits \in Nat
    /\ Faults \subseteq FaultKinds
    /\ None \notin Jobs
    /\ Earlier \notin Jobs \cup {None}
    /\ Foreign \notin Jobs \cup {None, Earlier}
    /\ None \notin Ids

ASSUME TransactionAssumption == TransactionAssumptions

VARIABLES
    tiff,       \* the bytes at each TIFF path
    project,    \* the Production project at each project path
    worker,     \* the worker thread of each queue item
    rendered,   \* history: per capture, Faces whose TIFF was ever published
    registered  \* history: per capture, Faces ever linked into the project

diskVars == <<tiff, project>>
historyVars == <<rendered, registered>>
transactionVars == <<tiff, project, worker, rendered, registered>>

FaceCount(j) == Len(FacesOf[j])
Bytes == Jobs \cup {Earlier, Foreign}
Project == [faces : [Tiffs -> Bytes \cup {None}], edits : 0..MaxEdits]
MaybeProject == Project \cup {None}

\* An absent project file is not a project.
ASSUME NoneAssumption == None \notin Project

Disposition == [mode : Modes, expected : MaybeProject]

Pcs == {"start", "prepare", "render", "committed", "save", "verify", "write",
        "finished"}
Outcomes == {"none", "Completed", "Cancelled", "Failed", "NeedsRecovery"}
Running == [pc : Pcs, job : Jobs, ord : Nat, disp : Disposition,
            built : MaybeProject, cancel : BOOLEAN, outcome : Outcomes]
Idle == [pc |-> "idle"]

\* CapturedOutputPolicy: only a route update may replace an existing TIFF.
MustNotExist(j) == ModeOf[j] # "UpdateExistingRoute"

Path(w) == FacesOf[w.job][w.ord + 1]
Target(w) == ProjectOf[w.job]

\* A new Production project holds exactly the one converted Face.
NewProject(w) ==
    [faces |-> [t \in Tiffs |-> IF t = Path(w) THEN w.job ELSE None],
     edits |-> 0]

\* Append the converted Face, or replace it in place: same provenance slot.
WithFace(p, w) == [p EXCEPT !.faces[Path(w)] = w.job]

\* The project that a save of this worker's Face must produce.
Deterministic(w) ==
    IF w.disp.mode = "CreateNew" THEN NewProject(w)
    ELSE WithFace(w.disp.expected, w)

AtLeast(n, m) == IF n < m THEN m ELSE n

-------------------------------------------------------------------------------
(***************************************************************************)
(* The steps of a worker.                                                  *)
(***************************************************************************)
TransactionInit ==
    /\ tiff = [t \in Tiffs |->
                  IF \E p \in Projects : t \in OwnedBy[p] THEN Earlier ELSE None]
    /\ project = [p \in Projects |->
                     IF OwnedBy[p] = {} THEN None
                     ELSE [faces |-> [t \in Tiffs |-> IF t \in OwnedBy[p]
                                                       THEN Earlier ELSE None],
                           edits |-> 0]]
    /\ worker = [i \in Ids |-> Idle]
    /\ rendered = [j \in Jobs |-> 0]
    /\ registered = [j \in Jobs |-> 0]

Goto(i, pc) == worker' = [worker EXCEPT ![i].pc = pc]
Finish(i, outcome) ==
    worker' = [worker EXCEPT ![i].pc = "finished", ![i].outcome = outcome]

\* Faulty: the worker ends without telling why.
FailSilently(i) == Goto(i, "finished")

\* Err(_) if cancellation.is_requested() => CancelledBeforeCommit
FailOrCancel(i) ==
    Finish(i, IF worker[i].cancel THEN "Cancelled" ELSE "Failed")

\* Only Face 0 uses the captured disposition; later Faces append to (or update)
\* the project as it is now.
DispositionForFace(i) ==
    /\ worker[i].pc = "start"
    /\ ~worker[i].cancel
    /\ worker[i].ord > 0 => project[Target(worker[i])] # None
    /\ worker' = [worker EXCEPT
                    ![i].pc = "prepare",
                    ![i].disp = IF worker[i].ord = 0 THEN @
                                ELSE [mode |-> IF MustNotExist(worker[i].job)
                                               THEN "AppendExisting"
                                               ELSE "UpdateExistingRoute",
                                      expected |-> project[Target(worker[i])]]]
    /\ UNCHANGED <<tiff, project, rendered, registered>>

HaltBeforeFace(i) ==
    /\ worker[i].pc = "start"
    /\ \/ worker[i].cancel
       \/ /\ worker[i].ord > 0
          /\ project[Target(worker[i])] = None \/ "io" \in Faults
    /\ FailOrCancel(i)
    /\ UNCHANGED <<tiff, project, rendered, registered>>

\* Faulty: whatever lies at the path is taken for the recorded TIFF.
OwnsAnyDestination(w) ==
    w.disp.expected.faces[Path(w)] # None /\ w.disp.expected.edits > 0 =>
        DiscardOf[w.job]

\* The TIFF a route update replaces must be the one its provenance records;
\* production-side work is discarded only with explicit consent.
OwnsDestination(w) ==
    LET previous == w.disp.expected.faces[Path(w)]
    IN  /\ tiff[Path(w)] \in {None, previous}
        /\ previous # None /\ w.disp.expected.edits > 0 => DiscardOf[w.job]

MayRender(w) ==
    /\ w.disp.mode = "UpdateExistingRoute" =>
           project[Target(w)] = w.disp.expected /\ OwnsDestination(w)
    /\ MustNotExist(w.job) => tiff[Path(w)] = None

Prepare(i) ==
    /\ worker[i].pc = "prepare"
    /\ ~worker[i].cancel
    /\ MayRender(worker[i])
    /\ Goto(i, "render")
    /\ UNCHANGED <<tiff, project, rendered, registered>>

RefuseToRender(i) ==
    /\ worker[i].pc = "prepare"
    /\ worker[i].cancel \/ ~MayRender(worker[i]) \/ "io" \in Faults
    /\ FailOrCancel(i)
    /\ UNCHANGED <<tiff, project, rendered, registered>>

\* Faulty: what was checked before the render is not checked again.
PublishReplacing(i) ==
    /\ worker[i].pc = "render"
    /\ ~worker[i].cancel
    /\ tiff' = [tiff EXCEPT ![Path(worker[i])] = worker[i].job]
    /\ rendered' = [rendered EXCEPT
                      ![worker[i].job] = AtLeast(@, worker[i].ord + 1)]
    /\ Goto(i, "committed")
    /\ UNCHANGED <<project, registered>>

\* The staged TIFF is published: the commit point of the transaction.
Publish(i) ==
    /\ worker[i].pc = "render"
    /\ ~worker[i].cancel
    /\ MustNotExist(worker[i].job) => tiff[Path(worker[i])] = None
    /\ tiff' = [tiff EXCEPT ![Path(worker[i])] = worker[i].job]
    /\ rendered' = [rendered EXCEPT
                      ![worker[i].job] = AtLeast(@, worker[i].ord + 1)]
    /\ Goto(i, "committed")
    /\ UNCHANGED <<project, registered>>

AbandonRender(i) ==
    /\ worker[i].pc = "render"
    /\ \/ worker[i].cancel
       \/ MustNotExist(worker[i].job) /\ tiff[Path(worker[i])] # None
       \/ "io" \in Faults
    /\ FailOrCancel(i)
    /\ UNCHANGED <<tiff, project, rendered, registered>>

ReadBack(i) ==
    /\ worker[i].pc = "committed"
    /\ Goto(i, "save")
    /\ UNCHANGED <<tiff, project, rendered, registered>>

\* The directory sync of the publication (outside Windows), sha256_file and
\* unix_time_ms run after the TIFF is in place, and their error leaves
\* render_convert_and_commit like an error from before the commit.
ReadBackFails(i) ==
    /\ "readback" \in Faults
    /\ worker[i].pc = "committed"
    /\ FailOrCancel(i)
    /\ UNCHANGED <<tiff, project, rendered, registered>>

LineageFails(i) ==
    /\ "lineage" \in Faults
    /\ worker[i].pc = "committed"
    /\ Finish(i, "NeedsRecovery")
    /\ UNCHANGED <<tiff, project, rendered, registered>>

\* An append reloads the project and insists on the captured fingerprint; a
\* route update works on the project it prepared before the commit.
CanBuild(w) ==
    w.disp.mode = "AppendExisting" =>
        /\ project[Target(w)] = w.disp.expected
        /\ w.disp.expected.faces[Path(w)] = None

BuildProject(i) ==
    /\ worker[i].pc = "save"
    /\ CanBuild(worker[i])
    /\ worker' = [worker EXCEPT
                    ![i].pc = IF worker[i].disp.mode = "CreateNew" THEN "write"
                              ELSE "verify",
                    ![i].built = Deterministic(worker[i])]
    /\ UNCHANGED <<tiff, project, rendered, registered>>

\* The error leaves no appended_project behind.
RefuseToBuild(i) ==
    /\ worker[i].pc = "save"
    /\ \/ ~CanBuild(worker[i])
       \/ worker[i].disp.mode = "AppendExisting" /\ "io" \in Faults
    /\ Finish(i, "NeedsRecovery")
    /\ UNCHANGED <<tiff, project, rendered, registered>>

VerifyProject(i) ==
    /\ worker[i].pc = "verify"
    /\ project[Target(worker[i])] = worker[i].disp.expected
    /\ Goto(i, "write")
    /\ UNCHANGED <<tiff, project, rendered, registered>>

\* save_new publishes only to an absent path; save replaces.
MayWrite(w) == w.disp.mode = "CreateNew" => project[Target(w)] = None

Link(i) ==
    /\ project' = [project EXCEPT ![Target(worker[i])] = worker[i].built]
    /\ registered' = [registered EXCEPT
                        ![worker[i].job] = AtLeast(@, worker[i].ord + 1)]

WriteProject(i) ==
    /\ worker[i].pc = "write"
    /\ MayWrite(worker[i])
    /\ Link(i)
    /\ Finish(i, "Completed")
    /\ UNCHANGED <<tiff, rendered>>

\* The rename took effect and the directory sync after it failed.
WriteUncertain(i) ==
    /\ "io" \in Faults
    /\ worker[i].pc = "write"
    /\ MayWrite(worker[i])
    /\ Link(i)
    /\ Finish(i, "NeedsRecovery")
    /\ UNCHANGED <<tiff, rendered>>

SaveFails(i) ==
    /\ \/ /\ worker[i].pc = "verify"
          /\ \/ project[Target(worker[i])] # worker[i].disp.expected
             \/ "io" \in Faults
       \/ /\ worker[i].pc = "write"
          /\ ~MayWrite(worker[i]) \/ "io" \in Faults
    /\ Finish(i, "NeedsRecovery")
    /\ UNCHANGED <<tiff, project, rendered, registered>>

\* catch_unwind reports any panic as FailedBeforeCommit, wherever it struck.
Panic(i) ==
    /\ "panic" \in Faults
    /\ worker[i].pc \in Pcs \ {"finished"}
    /\ Finish(i, "Failed")
    /\ UNCHANGED <<tiff, project, rendered, registered>>

WorkerStep(i) ==
    \/ DispositionForFace(i) \/ HaltBeforeFace(i)
    \/ Prepare(i) \/ RefuseToRender(i)
    \/ Publish(i) \/ AbandonRender(i)
    \/ ReadBack(i) \/ ReadBackFails(i) \/ LineageFails(i)
    \/ BuildProject(i) \/ RefuseToBuild(i)
    \/ VerifyProject(i) \/ WriteProject(i) \/ WriteUncertain(i) \/ SaveFails(i)
    \/ Panic(i)

-------------------------------------------------------------------------------
(***************************************************************************)
(* Project-only recovery: rec is [disp, built], the exact state captured   *)
(* by the worker whose project save failed after it published t for j.     *)
(***************************************************************************)
Recoverable(j, t, rec) == tiff[t] = j /\ rec.built # None

AlreadyLinked(j, t, rec) ==
    Recoverable(j, t, rec) /\ project[ProjectOf[j]] = rec.built

\* Only the state the captured save started from may be saved over.
Replayable(j, t, rec) ==
    LET current == project[ProjectOf[j]]
    IN  /\ Recoverable(j, t, rec)
        /\ current # rec.built
        /\ current = IF rec.disp.mode = "CreateNew" THEN None ELSE rec.disp.expected

\* save_new publishes only to an absent path; save replaces what is there now.
MayReplay(j, rec) == rec.disp.mode = "CreateNew" => project[ProjectOf[j]] = None

-------------------------------------------------------------------------------
(***************************************************************************)
(* Other programs on the same files.                                       *)
(***************************************************************************)
ForeignEdit(p) ==
    /\ "edit" \in Faults
    /\ project[p] # None
    /\ project[p].edits < MaxEdits
    /\ project' = [project EXCEPT ![p].edits = @ + 1]
    /\ UNCHANGED <<tiff, worker, rendered, registered>>

ForeignCreate(t) ==
    /\ "create" \in Faults
    /\ tiff[t] = None
    /\ tiff' = [tiff EXCEPT ![t] = Foreign]
    /\ UNCHANGED <<project, worker, rendered, registered>>

ForeignRemove(t) ==
    /\ "remove" \in Faults
    /\ tiff[t] # None
    /\ tiff' = [tiff EXCEPT ![t] = None]
    /\ UNCHANGED <<project, worker, rendered, registered>>

Environment ==
    \/ \E p \in Projects : ForeignEdit(p)
    \/ \E t \in Tiffs : ForeignCreate(t) \/ ForeignRemove(t)
===============================================================================
