------------------------ MODULE ProjectSessionProofs ------------------------
(***************************************************************************)
(* The safety of the Source project in the editor, for any files, contents *)
(* and bounds: its types, the lost updates, the baseline, the operator's   *)
(* edits and the autosaved work.  All of them follow from one inductive    *)
(* invariant, SessionInv; each of its parts says what the state that one   *)
(* module of the program keeps means to the others.                        *)
(***************************************************************************)
EXTENDS ProjectSession, TLAPS

\* A project somebody has put content into; only such a one is ever written.
Filled == Contents \ {Empty}

Jobs == [kind: {"none", "open", "save", "recover"},
         step: {"idle", "load", "classify", "verify", "publish", "accept", "ok", "failed",
                "panicked"},
         path: Option(Paths), doc: Option(Contents), revision: Nat,
         expected: Option(Contents)]
Authorities == [active: Option(Baselines), prepared: Option(Evidence), failure: Option(Paths)]
Lives == [pending: Option(Transitions), afterSave: Option(Transitions), offer: Option(Paths)]

\* The shape of the whole state.  Files and copies of the project are never
\* empty: an empty project is neither saved nor autosaved.
SessionTypes ==
    /\ disk \in [Paths -> Option(Filled)] /\ bak \in [Paths -> Option(Filled)]
    /\ editor \in [doc: Contents, path: Option(Paths), dirty: BOOLEAN, revision: Nat]
    /\ life \in Lives /\ authority \in Authorities /\ job \in Jobs
    /\ autosave \in Option({c \in Threads : c.doc # Empty})
    /\ recovery \in Option({c \in Copies : c.doc # Empty})
    /\ candidate \in Option({c \in Copies : c.doc # Empty})
    /\ ended \in {"no", "exit", "crash"} /\ edits \in 0..MaxEdits
    /\ seen \in [Paths -> SUBSET Contents] /\ owed \in Option(Debts)
    /\ slipped \in BOOLEAN /\ misarmed \in BOOLEAN

\* What the background job carries, and that nothing outlives the process.
JobSound ==
    /\ job.kind = "none" => job = NoJob
    /\ job.kind \in {"open", "save"} => job.path \in Paths
    /\ job.kind \in {"save", "recover"} => job.doc \in Filled
    /\ job.kind = "open" /\ job.step = "ok" => job.doc \in Filled
    /\ ended # "no" =>
          /\ job = NoJob /\ authority = Unarmed /\ life = Idle /\ editor = Blank(0)
          /\ autosave = None /\ owed = None

\* A clean project is the content of its own file, and a save in progress may
\* make it clean only with the content it writes.
EditorSound ==
    /\ ~editor.dirty => \/ editor.doc = Empty
                        \/ editor.path # None /\ editor.doc \in seen[editor.path]
    /\ job.kind = "save" =>
          /\ job.revision <= editor.revision
          /\ ~editor.dirty \/ editor.revision = job.revision => editor.doc \in {Empty, job.doc}

\* Evidence whose generation still matches tells the file's bytes; while an Open
\* runs it is of the file being opened unless its question was overtaken.
EvidenceSound ==
    authority.prepared # None =>
        LET e == authority.prepared IN
        /\ e.same => disk[e.path] = e.bytes
        /\ job.kind = "recover" => e.stray
        /\ job.kind = "open" /\ ~e.stray =>
              /\ e.path = job.path
              /\ job.step = "ok" /\ e.same => e.bytes = job.doc

\* The armed baseline is of the editor's own file, or of the one a save has just
\* accepted and the poll has not reported yet.
BaselineSound ==
    /\ job.kind = "save" /\ job.step \in {"accept", "ok"} => job.doc \in seen[job.path]
    /\ authority.active # None /\ ~misarmed =>
          IF job.kind = "save" /\ job.step = "ok"
          THEN authority.active = [path |-> job.path, bytes |-> job.doc]
          ELSE /\ authority.active.path = editor.path
               /\ authority.active.bytes \in seen[editor.path]

\* What a save expects to replace is known to this process.  Under the guard the
\* file is still that, and so is its .bak, even if a backup is restored meanwhile.
GuardSound ==
    job.kind = "save" =>
        /\ job.step = "classify" => job.expected = None
        /\ job.step \in {"verify", "publish"} /\ job.expected # None =>
              job.expected \in seen[job.path] \/ misarmed
        /\ job.step = "publish" /\ job.expected # None =>
              /\ disk[job.path] = job.expected \/ slipped
              /\ bak[job.path] = job.expected

\* No autosaved state is newer than the project, nor than the save in progress,
\* and a thread whose work was given up can no longer make anything owed.
AutosaveSound ==
    /\ autosave # None =>
          /\ autosave.revision <= editor.revision
          /\ ~autosave.live => owed = None
          /\ job.kind = "save" => autosave.revision <= job.revision
          /\ owed # None => owed.revision <= autosave.revision
    /\ owed # None =>
          /\ owed.revision <= editor.revision
          /\ job.kind = "save" => owed.revision <= job.revision
    /\ AutosavedWorkKept

\* The inductive invariant.
SessionInv ==
    /\ SessionTypes /\ JobSound /\ EditorSound /\ EvidenceSound
    /\ BaselineSound /\ GuardSound /\ AutosaveSound

\* What an earlier process left stays in the recovery file, is added to by one that
\* ends, or is no longer claimed.
Passed == \/ inherited' = None
          \/ recovery' = recovery /\ inherited' \in {inherited, Bequeathed}

-----------------------------------------------------------------------------
(***************************************************************************)
(* What the helpers return.                                                *)
(***************************************************************************)
LEMMA NoneApart ==
    /\ None \notin Paths /\ None \notin Contents /\ None \notin Transitions
    /\ None \notin Evidence /\ None \notin Baselines /\ None \notin Copies
    /\ None \notin Threads /\ None \notin Debts /\ None # Empty
    /\ Empty \in Contents /\ {Old, Foreign, Broken} \subseteq Filled
    /\ 1..MaxEdits \subseteq Filled
  BY SessionAssumption, NoneAssumption DEF SessionAssumption, NoneAssumption, Contents, Filled

LEMMA PrepareResult ==
    ASSUME SessionTypes, NEW t \in Transitions, NEW a \in Authorities
    PROVE  /\ Prepare(t, a) \in Authorities /\ Prepare(t, a).active = a.active
           /\ Prepare(t, a).prepared # None =>
                 /\ t.kind = "Open" /\ t.path \in Paths
                 /\ Prepare(t, a).prepared.path = t.path
                 /\ Prepare(t, a).prepared.bytes = disk[t.path]
<1>1. t.kind = "Open" => t.path \in Paths
  BY DEF Transitions
<1>2. CASE t.kind # "Open"
  BY <1>2 DEF Prepare, Authorities, Option
<1>3. CASE t.kind = "Open" /\ disk[t.path] = None
  BY <1>1, <1>3 DEF Prepare, Authorities, Option
<1>4. CASE t.kind = "Open" /\ disk[t.path] # None
  <2>1. [path |-> t.path, bytes |-> disk[t.path], same |-> TRUE, stray |-> FALSE] \in Evidence
    BY <1>1, <1>4 DEF SessionTypes, Evidence, Option, Filled
  <2> QED BY <1>1, <1>4, <2>1 DEF Prepare, Authorities, Option
<1> QED BY <1>2, <1>3, <1>4

LEMMA StrayResult ==
    ASSUME NEW a \in Authorities
    PROVE  /\ Stray(a) \in Authorities /\ Stray(a).active = a.active
           /\ Stray(a).prepared # None =>
                 /\ a.prepared # None /\ Stray(a).prepared.stray
                 /\ Stray(a).prepared.path = a.prepared.path
                 /\ Stray(a).prepared.bytes = a.prepared.bytes
                 /\ Stray(a).prepared.same = a.prepared.same
  BY DEF Stray, Authorities, Evidence, Option

LEMMA OutdatedResult ==
    ASSUME NEW a \in Authorities, NEW p
    PROVE  /\ Outdated(a, p) \in Authorities /\ Outdated(a, p).active = a.active
           /\ Outdated(a, p).prepared # None =>
                 /\ a.prepared # None
                 /\ Outdated(a, p).prepared.path = a.prepared.path
                 /\ Outdated(a, p).prepared.bytes = a.prepared.bytes
                 /\ Outdated(a, p).prepared.stray = a.prepared.stray
                 /\ Outdated(a, p).prepared.same =>
                       a.prepared.same /\ a.prepared.path # p
  BY DEF Outdated, Authorities, Evidence, Option

LEMMA RotateResult ==
    ASSUME NEW a \in Authorities
    PROVE  /\ Rotate(a) \in Authorities /\ Rotate(a).prepared = None
           /\ Rotate(a).active # None =>
                 /\ a.prepared # None /\ a.prepared.same
                 /\ Rotate(a).active = [path |-> a.prepared.path, bytes |-> a.prepared.bytes]
<1>1. a.prepared \in Option(Evidence) /\ a.active \in Option(Baselines)
      /\ a.failure \in Option(Paths)
  BY DEF Authorities
<1>2. CASE a.prepared = None
  BY <1>2 DEF Rotate, Authorities, Option
<1>3. CASE a.prepared # None
  <2>1. /\ a.prepared.path \in Paths
        /\ [path |-> a.prepared.path, bytes |-> a.prepared.bytes] \in Baselines
    BY <1>1, <1>3 DEF Evidence, Baselines, Option
  <2> QED BY <1>3, <2>1 DEF Rotate, Unarmed, Authorities, Option
<1> QED BY <1>2, <1>3

\* The conjuncts a step that leaves their variables alone does not disturb.
LEMMA AutosaveSame ==
    ASSUME SessionInv, UNCHANGED <<autosave, owed, recovery>>, Passed,
           editor'.revision \in Nat, editor'.revision >= editor.revision,
           job'.kind = "save" =>
               \/ job'.revision = editor.revision
               \/ job.kind = "save" /\ job'.revision = job.revision
    PROVE  AutosaveSound'
<1> USE DEF SessionInv
<1>1. editor.revision \in Nat /\ job.revision \in Nat
  BY DEF SessionTypes, Jobs
<1>2. /\ autosave # None => autosave.revision \in Nat
      /\ owed # None => owed.revision \in Nat
  BY DEF SessionTypes, Option, Threads, Debts
<1> QED BY <1>1, <1>2 DEF AutosaveSound, AutosavedWorkKept, Passed, Bequeathed

LEMMA AutosaveSettled ==
    ASSUME SessionInv, Settle, Passed, editor'.revision \in Nat, editor'.revision >= editor.revision,
           job' = job \/ job'.kind # "save"
    PROVE  AutosaveSound' /\ owed' = None
           /\ autosave' \in Option({c \in Threads : c.doc # Empty})
<1> USE DEF SessionInv
<1>1. owed' = None
  BY DEF Settle
<1>2. CASE autosave = None
  BY <1>1, <1>2 DEF Settle, AutosaveSound, AutosavedWorkKept, Passed, Bequeathed, Option
<1>3. CASE autosave # None
  <2>1. autosave' = [autosave EXCEPT !.live = FALSE] /\ autosave \in Threads
        /\ autosave.doc # Empty
    BY <1>3 DEF Settle, SessionTypes, Option
  <2>2. autosave' \in Threads /\ autosave'.revision = autosave.revision
        /\ autosave.revision \in Nat /\ autosave'.doc = autosave.doc
    BY <2>1 DEF Threads
  <2>3. editor.revision \in Nat /\ autosave.revision <= editor.revision
        /\ (job.kind = "save" => autosave.revision <= job.revision)
    BY <1>3 DEF AutosaveSound, SessionTypes
  <2>4. AutosaveSound'
    BY <1>1, <2>2, <2>3 DEF AutosaveSound, AutosavedWorkKept, Passed, Bequeathed
  <2> QED BY <1>1, <2>1, <2>2, <2>4 DEF Option
<1> QED BY <1>2, <1>3

LEMMA SessionInits == Init => SessionInv
<1> SUFFICES ASSUME Init PROVE SessionInv
  OBVIOUS
<1> USE DEF Init
<1>1. SessionTypes
  <2>1. disk \in [Paths -> Option(Filled)] /\ bak \in [Paths -> Option(Filled)]
    BY NoneApart DEF Option
  <2>2. editor \in [doc: Contents, path: Option(Paths), dirty: BOOLEAN, revision: Nat]
    BY NoneApart DEF Option, Blank
  <2>3. life \in Lives /\ authority \in Authorities /\ job \in Jobs
    BY DEF Option, Idle, Lives, Unarmed, Authorities, NoJob, Jobs
  <2>4. edits \in 0..MaxEdits
    BY SessionAssumption DEF SessionAssumption
  <2>5. seen \in [Paths -> SUBSET Contents]
    OBVIOUS
  <2> QED BY <2>1, <2>2, <2>3, <2>4, <2>5 DEF SessionTypes, Option
<1>2. JobSound /\ EditorSound /\ EvidenceSound
  BY DEF JobSound, EditorSound, EvidenceSound, Unarmed, Blank, NoJob
<1>3. BaselineSound /\ GuardSound /\ AutosaveSound
  BY DEF BaselineSound, GuardSound, AutosaveSound, AutosavedWorkKept, Unarmed, NoJob
<1> QED BY <1>1, <1>2, <1>3 DEF SessionInv

-----------------------------------------------------------------------------
(***************************************************************************)
(* Transitions.                                                            *)
(***************************************************************************)
\* Evidence an execution may start from: it is true of the files, and it has
\* been taken for the file that is opened next, or is marked as stray.
EvidenceFor(a, p) ==
    a.prepared # None => /\ a.prepared.same => disk[a.prepared.path] = a.prepared.bytes
                         /\ a.prepared.stray \/ (job = NoJob /\ a.prepared.path = p)

LEMMA PreparedFor ==
    ASSUME SessionInv, job = NoJob, NEW t \in Transitions
    PROVE  /\ Prepare(t, authority) \in Authorities
           /\ Prepare(t, authority).active = authority.active
           /\ EvidenceFor(Prepare(t, authority), t.path)
           /\ t.kind # "Open" => Prepare(t, authority).prepared = None
  BY PrepareResult DEF SessionInv, SessionTypes, EvidenceFor

LEMMA StrayFor ==
    ASSUME SessionInv, NEW t \in Transitions, NEW p
    PROVE  /\ Stray(Prepare(t, authority)) \in Authorities
           /\ Stray(Prepare(t, authority)).active = authority.active
           /\ EvidenceFor(Stray(Prepare(t, authority)), p)
           /\ t.kind # "Open" => Stray(Prepare(t, authority)).prepared = None
<1>1. authority \in Authorities /\ SessionTypes
  BY DEF SessionInv, SessionTypes
<1> DEFINE a == Prepare(t, authority)
<1>2. /\ a \in Authorities /\ a.active = authority.active
      /\ a.prepared # None => /\ t.kind = "Open"
                              /\ disk[a.prepared.path] = a.prepared.bytes
  BY <1>1, PrepareResult
<1> HIDE DEF a
<1>3. /\ Stray(a) \in Authorities /\ Stray(a).active = authority.active
      /\ EvidenceFor(Stray(a), p)
      /\ t.kind # "Open" => Stray(a).prepared = None
  BY <1>2, StrayResult DEF EvidenceFor
<1> QED BY <1>3 DEF a

\* Only what is asked, offered or prepared changes.
LEMMA AuthorityChanges ==
    ASSUME SessionInv, ended = "no", life' \in Lives, authority' \in Authorities,
           authority'.active = authority.active,
           authority'.prepared # None =>
               /\ authority'.prepared.same =>
                     disk[authority'.prepared.path] = authority'.prepared.bytes
               /\ job.kind = "recover" => authority'.prepared.stray
               /\ job.kind = "open" /\ ~authority'.prepared.stray =>
                     /\ authority'.prepared.path = job.path
                     /\ job.step = "ok" /\ authority'.prepared.same =>
                           authority'.prepared.bytes = job.doc,
           UNCHANGED <<files, editor, job, rescue, ended, edits, history>>
    PROVE  SessionInv'
<1> USE DEF SessionInv, files, rescue, history
<1>1. SessionTypes'
  BY DEF SessionTypes
<1>2. JobSound' /\ EditorSound'
  BY DEF JobSound, EditorSound
<1>3. EvidenceSound'
  BY DEF EvidenceSound
<1>4. BaselineSound' /\ GuardSound'
  BY DEF BaselineSound, GuardSound
<1>5. AutosaveSound'
  BY DEF AutosaveSound, AutosavedWorkKept
<1> QED BY <1>1, <1>2, <1>3, <1>4, <1>5

LEMMA NewProjectKeeps ==
    ASSUME SessionInv, ended = "no", NEW l \in Lives, NEW a \in Authorities, NEW p,
           EvidenceFor(a, p), a.prepared # None => a.prepared.stray,
           NewProject(l, a), recovery' \in {recovery, None}, Passed,
           UNCHANGED <<files, edits, seen, slipped>>
    PROVE  SessionInv'
<1> USE DEF SessionInv, files
<1> PICK b \in Authorities :
        /\ EvidenceFor(b, p) /\ (b.prepared # None => b.prepared.stray)
        /\ authority' = Rotate(b)
        /\ misarmed' = \/ authority'.active # None /\ b.prepared # None /\ b.prepared.stray
                       \/ misarmed /\ job.kind = "save"
  <2>1. CASE l.pending = None
    BY <2>1 DEF NewProject, Bump
  <2>2. CASE l.pending # None
    <3> DEFINE e == Prepare(l.pending, a)
    <3>1. l.pending \in Transitions
      BY <2>2 DEF Lives, Option
    <3>2. /\ e \in Authorities
          /\ e.prepared # None => disk[e.prepared.path] = e.prepared.bytes
      BY <3>1, PrepareResult
    <3>3. authority' = Rotate(Stray(e))
          /\ misarmed' = \/ /\ authority'.active # None /\ Stray(e).prepared # None
                            /\ Stray(e).prepared.stray
                         \/ misarmed /\ job.kind = "save"
      BY <2>2 DEF NewProject, Bump
    <3> HIDE DEF e
    <3>4. /\ Stray(e) \in Authorities /\ EvidenceFor(Stray(e), p)
          /\ Stray(e).prepared # None => Stray(e).prepared.stray
      BY <3>2, StrayResult DEF EvidenceFor
    <3> QED BY <3>3, <3>4
  <2> QED BY <2>1, <2>2
<1>1. /\ authority' \in Authorities /\ authority'.prepared = None
      /\ authority'.active # None => b.prepared # None
      /\ misarmed' \in BOOLEAN
  BY RotateResult
<1>2. authority'.active # None => misarmed'
  BY <1>1
<1>3. /\ editor' = Blank(editor.revision) /\ editor.revision \in Nat
      /\ life' = [l EXCEPT !.pending = None, !.afterSave = None]
      /\ Settle /\ UNCHANGED <<job, candidate, ended>>
  BY DEF NewProject, SessionTypes
<1>4. AutosaveSound' /\ owed' = None
      /\ autosave' \in Option({c \in Threads : c.doc # Empty})
  BY <1>3, AutosaveSettled DEF Blank
<1>5. SessionTypes'
  <2>1. editor' \in [doc: Contents, path: Option(Paths), dirty: BOOLEAN, revision: Nat]
    BY <1>3, NoneApart DEF Blank, Option
  <2>2. life' \in Lives
    BY <1>3 DEF Lives, Option
  <2>3. recovery' \in Option({c \in Copies : c.doc # Empty})
    BY DEF SessionTypes, Option
  <2> QED BY <1>1, <1>3, <1>4, <2>1, <2>2, <2>3 DEF SessionTypes, Option
<1>6. JobSound'
  BY <1>3 DEF JobSound
<1>7. EditorSound'
  BY <1>3 DEF EditorSound, Blank
<1>8. EvidenceSound'
  BY <1>1 DEF EvidenceSound
<1>9. BaselineSound'
  BY <1>2, <1>3 DEF BaselineSound
<1>10. GuardSound'
  <2>1. misarmed /\ job.kind = "save" => misarmed'
    OBVIOUS
  <2> QED BY <1>3, <2>1 DEF GuardSound
<1> QED BY <1>4, <1>5, <1>6, <1>7, <1>8, <1>9, <1>10

\* A project file is named by a path, or by a failed open that is restored.
LEMMA StartOpenKeeps ==
    ASSUME SessionInv, ended = "no", NEW l \in Lives, NEW a \in Authorities, NEW p \in Paths,
           a.active = authority.active,
           a.prepared # None =>
               /\ a.prepared.same => disk'[a.prepared.path] = a.prepared.bytes
               /\ a.prepared.stray \/ (job = NoJob /\ a.prepared.path = p),
           StartOpen(p, l, a),
           disk' \in [Paths -> Option(Filled)], \A q \in Paths : disk'[q] \in {disk[q], bak[q]},
           \/ UNCHANGED <<autosave, owed, recovery>>
           \/ Settle /\ recovery' \in {recovery, None},
           Passed,
           UNCHANGED <<bak, edits, seen, slipped>>
    PROVE  SessionInv'
<1> USE DEF SessionInv
<1>1. /\ authority' = a /\ UNCHANGED <<editor, ended, misarmed>>
      /\ editor.revision \in Nat
  BY DEF StartOpen, SessionTypes
<1>2. /\ life' \in Lives /\ candidate' \in {candidate, None}
      /\ \/ /\ job = NoJob
            /\ job' = [kind |-> "open", step |-> "load", path |-> p, doc |-> None,
                       revision |-> 0, expected |-> None]
         \/ job # NoJob /\ job' = job
  BY DEF StartOpen, Launch, Lives, Option
<1>3. job' \in Jobs /\ (job' = job \/ job'.kind # "save")
  BY <1>2 DEF Jobs, Option, SessionTypes
<1>4. /\ AutosaveSound' /\ owed' \in Option(Debts)
      /\ autosave' \in Option({c \in Threads : c.doc # Empty})
  <2>1. CASE UNCHANGED <<autosave, owed, recovery>>
    <3>1. AutosaveSound'
      BY <1>1, <1>3, <2>1, AutosaveSame
    <3> QED BY <2>1, <3>1 DEF SessionTypes
  <2>2. CASE Settle
    BY <1>1, <1>3, <2>2, AutosaveSettled DEF Option
  <2> QED BY <2>1, <2>2
<1>5. SessionTypes'
  <2>1. recovery' \in Option({c \in Copies : c.doc # Empty})
        /\ candidate' \in Option({c \in Copies : c.doc # Empty})
    BY <1>2 DEF SessionTypes, Option
  <2> QED BY <1>1, <1>2, <1>3, <1>4, <2>1 DEF SessionTypes
<1>6. JobSound'
  BY <1>1, <1>2 DEF JobSound
<1>7. EditorSound'
  BY <1>1, <1>2 DEF EditorSound
<1>8. EvidenceSound'
  BY <1>1, <1>2 DEF EvidenceSound
<1>9. BaselineSound'
  BY <1>1, <1>2 DEF BaselineSound, NoJob
<1>10. GuardSound'
  <2>1. CASE job.kind = "save"
    <3>1. job' = job /\ job.path \in Paths
      BY <1>2, <2>1 DEF JobSound, NoJob
    <3> QED BY <1>1, <2>1, <3>1 DEF GuardSound
  <2>2. CASE job.kind # "save"
    BY <1>3, <2>2 DEF GuardSound
  <2> QED BY <2>1, <2>2
<1> QED BY <1>4, <1>5, <1>6, <1>7, <1>8, <1>9, <1>10

LEMMA StartRecoverKeeps ==
    ASSUME SessionInv, ended = "no", NEW l \in Lives, NEW a \in Authorities,
           a.active = authority.active, a.prepared = None, StartRecover(l, a),
           \/ UNCHANGED <<autosave, owed, recovery>>
           \/ Settle /\ recovery' \in {recovery, None},
           Passed,
           UNCHANGED <<files, edits, seen, slipped>>
    PROVE  SessionInv'
<1> USE DEF SessionInv, files
<1>1. /\ authority' = a /\ life' = l /\ UNCHANGED <<editor, ended, misarmed>>
      /\ editor.revision \in Nat
  BY DEF StartRecover, SessionTypes
<1>2. /\ candidate' \in {candidate, None}
      /\ \/ /\ job = NoJob /\ candidate # None
            /\ job' = [kind |-> "recover", step |-> "load", path |-> candidate.origin,
                       doc |-> candidate.doc, revision |-> 0, expected |-> None]
         \/ job' = job
  BY DEF StartRecover, Launch
<1>3. candidate # None => candidate.doc \in Filled /\ candidate.origin \in Option(Paths)
  BY DEF SessionTypes, Option, Copies, Filled
<1>4. job' \in Jobs /\ (job' = job \/ job'.kind # "save")
  BY <1>2, <1>3 DEF Jobs, Option, SessionTypes, Filled
<1>5. /\ AutosaveSound' /\ owed' \in Option(Debts)
      /\ autosave' \in Option({c \in Threads : c.doc # Empty})
  <2>1. CASE UNCHANGED <<autosave, owed, recovery>>
    <3>1. AutosaveSound'
      BY <1>1, <1>4, <2>1, AutosaveSame
    <3> QED BY <2>1, <3>1 DEF SessionTypes
  <2>2. CASE Settle
    BY <1>1, <1>4, <2>2, AutosaveSettled DEF Option
  <2> QED BY <2>1, <2>2
<1>6. SessionTypes'
  <2>1. recovery' \in Option({c \in Copies : c.doc # Empty})
        /\ candidate' \in Option({c \in Copies : c.doc # Empty})
    BY <1>2 DEF SessionTypes, Option
  <2> QED BY <1>1, <1>2, <1>4, <1>5, <2>1 DEF SessionTypes
<1>7. JobSound'
  BY <1>1, <1>2, <1>3 DEF JobSound
<1>8. EditorSound' /\ EvidenceSound'
  BY <1>1, <1>2 DEF EditorSound, EvidenceSound
<1>9. BaselineSound' /\ GuardSound'
  BY <1>1, <1>2 DEF BaselineSound, GuardSound, NoJob
<1> QED BY <1>5, <1>6, <1>7, <1>8, <1>9

LEMMA GoneKeeps ==
    ASSUME SessionInv, Gone, ended' \in {"exit", "crash"},
           recovery' \in {recovery, None}, Passed, UNCHANGED <<files, edits>>
    PROVE  SessionInv'
<1> USE DEF SessionInv, files, Gone
<1>1. SessionTypes'
  <2>1. editor' \in [doc: Contents, path: Option(Paths), dirty: BOOLEAN, revision: Nat]
    BY NoneApart DEF Blank, Option
  <2>2. life' \in Lives /\ authority' \in Authorities /\ job' \in Jobs
    BY DEF Option, Idle, Lives, Unarmed, Authorities, NoJob, Jobs
  <2>3. seen' \in [Paths -> SUBSET Contents]
    OBVIOUS
  <2>4. recovery' \in Option({c \in Copies : c.doc # Empty})
    BY DEF SessionTypes, Option
  <2> QED BY <2>1, <2>2, <2>3, <2>4 DEF SessionTypes, Option
<1>2. JobSound' /\ EditorSound' /\ EvidenceSound'
  BY DEF JobSound, EditorSound, EvidenceSound, NoJob, Blank, Unarmed
<1>3. BaselineSound' /\ GuardSound' /\ AutosaveSound'
  BY DEF BaselineSound, GuardSound, AutosaveSound, AutosavedWorkKept, NoJob, Unarmed, Passed,
         Bequeathed
<1> QED BY <1>1, <1>2, <1>3

LEMMA ExecuteKeeps ==
    ASSUME SessionInv, ended = "no", NEW t \in Transitions, NEW l \in Lives,
           NEW a \in Authorities, a.active = authority.active, EvidenceFor(a, t.path),
           t.kind # "Open" => a.prepared = None, Execute(t, l, a),
           NeedsJob(t) => \/ UNCHANGED <<autosave, owed, recovery>>
                          \/ Settle,
           recovery' \in {recovery, None}, Passed, UNCHANGED <<files, edits>>
    PROVE  SessionInv'
<1>1. CASE t.kind = "New" /\ NewProject(l, a) /\ UNCHANGED <<seen, slipped>>
  BY <1>1, NewProjectKeeps
<1>2. CASE t.kind = "Open" /\ StartOpen(t.path, l, a) /\ UNCHANGED <<seen, slipped>>
  <2>1. t.path \in Paths /\ NeedsJob(t)
    BY <1>2 DEF Transitions, NeedsJob
  <2>2. /\ disk' \in [Paths -> Option(Filled)] /\ \A q \in Paths : disk'[q] \in {disk[q], bak[q]}
        /\ a.prepared # None =>
               /\ a.prepared.same => disk'[a.prepared.path] = a.prepared.bytes
               /\ a.prepared.stray \/ (job = NoJob /\ a.prepared.path = t.path)
        /\ UNCHANGED bak
    BY DEF files, SessionInv, SessionTypes, EvidenceFor
  <2> QED BY <1>2, <2>1, <2>2, StartOpenKeeps
<1>3. CASE t.kind = "Recover" /\ StartRecover(l, a) /\ UNCHANGED <<seen, slipped>>
  BY <1>3, StartRecoverKeeps DEF NeedsJob
<1>4. CASE t.kind = "Exit" /\ ended' = "exit" /\ Gone /\ UNCHANGED jobs
  BY <1>4, GoneKeeps
<1> QED BY <1>1, <1>2, <1>3, <1>4 DEF Execute

LEMMA RequestKeeps ==
    ASSUME SessionInv, NEW t \in Transitions, Request(t)
    PROVE  SessionInv'
<1> DEFINE a == Prepare(t, authority)
<1>1. /\ ended = "no" /\ job = NoJob
      /\ UNCHANGED <<files, recovery, edits, faults, starts>>
      /\ IF MustAsk
         THEN /\ life' = [life EXCEPT !.pending = t] /\ authority' = a
              /\ UNCHANGED <<editor, job, jobs, candidate, ended, history, autosave>>
         ELSE Execute(t, life, a) /\ Carried(t)
  BY DEF Request, Acting
<1>2. /\ a \in Authorities /\ a.active = authority.active /\ EvidenceFor(a, t.path)
      /\ t.kind # "Open" => a.prepared = None
  BY <1>1, PreparedFor
<1>3. life \in Lives
  BY DEF SessionInv, SessionTypes
<1> HIDE DEF a
<1>4. CASE MustAsk
  <2>1. life' \in Lives
    BY <1>1, <1>3, <1>4 DEF Lives, Option
  <2>2. job.kind = "none"
    BY <1>1 DEF NoJob
  <2>3. UNCHANGED <<files, editor, job, rescue, ended, edits, history>> /\ authority' = a
    BY <1>1, <1>4 DEF rescue
  <2> QED BY <1>1, <1>2, <2>1, <2>2, <2>3, AuthorityChanges DEF EvidenceFor
<1>5. CASE ~MustAsk
  BY <1>1, <1>2, <1>3, <1>5, ExecuteKeeps DEF Carried, Passed
<1> QED BY <1>4, <1>5

LEMMA CancelKeeps == ASSUME SessionInv, Cancel PROVE SessionInv'
<1> DEFINE a == Stray(Prepare(life.pending, authority))
<1>1. /\ ended = "no" /\ life.pending # None /\ authority' = a /\ life' = Answered
      /\ UNCHANGED <<files, editor, job, rescue, ended, edits, history>>
  BY DEF Cancel, Acting, bounds
<1>2. life.pending \in Transitions /\ life' \in Lives
  BY <1>1 DEF SessionInv, SessionTypes, Lives, Option, Answered
<1>3. authority \in Authorities /\ SessionTypes
  BY DEF SessionInv, SessionTypes
<1>4. /\ a \in Authorities /\ a.active = authority.active
      /\ a.prepared # None => a.prepared.stray /\ disk[a.prepared.path] = a.prepared.bytes
  BY <1>2, <1>3, PrepareResult, StrayResult
<1> HIDE DEF a
<1> QED BY <1>1, <1>2, <1>4, AuthorityChanges

LEMMA DiscardKeeps == ASSUME SessionInv, Discard PROVE SessionInv'
<1> DEFINE t == life.pending
           e == Prepare(t, authority)
           a == IF job = NoJob THEN e ELSE Stray(e)
<1>1. /\ ended = "no" /\ t # None /\ Execute(t, Answered, a)
      /\ recovery' \in {recovery, None} /\ (t.kind # "Exit" => Settle)
      /\ Passed /\ UNCHANGED <<files, edits>>
  BY DEF Discard, Acting, Passed
<1>2. t \in Transitions /\ Answered \in Lives
  BY <1>1 DEF SessionInv, SessionTypes, Lives, Option, Answered
<1>3. /\ a \in Authorities /\ a.active = authority.active /\ EvidenceFor(a, t.path)
      /\ t.kind # "Open" => a.prepared = None
  BY <1>2, PreparedFor, StrayFor
<1> HIDE DEF a
<1> QED BY <1>1, <1>2, <1>3, ExecuteKeeps DEF NeedsJob

LEMMA AfterSaveKeeps == ASSUME SessionInv, AfterSave PROVE SessionInv'
<1> DEFINE t == life.afterSave
           l == [life EXCEPT !.afterSave = None]
           a == Prepare(t, authority)
<1>1. /\ ended = "no" /\ t # None /\ job = NoJob /\ Execute(t, l, a) /\ Carried(t)
      /\ UNCHANGED <<files, recovery, edits>>
  BY DEF AfterSave, Due
<1>2. t \in Transitions /\ l \in Lives
  BY <1>1 DEF SessionInv, SessionTypes, Lives, Option
<1>3. /\ a \in Authorities /\ a.active = authority.active /\ EvidenceFor(a, t.path)
      /\ t.kind # "Open" => a.prepared = None
  BY <1>1, <1>2, PreparedFor
<1> HIDE DEF a, l
<1> QED BY <1>1, <1>2, <1>3, ExecuteKeeps DEF Carried, Passed

LEMMA DeclineKeeps == ASSUME SessionInv, DeclineBackup PROVE SessionInv'
<1>1. /\ ended = "no" /\ life' = [life EXCEPT !.offer = None]
      /\ UNCHANGED <<files, editor, authority, job, rescue, ended, edits, history>>
  BY DEF DeclineBackup, Acting, bounds
<1>2. life' \in Lives /\ authority' \in Authorities
  BY <1>1 DEF SessionInv, SessionTypes, Lives, Option
<1> QED BY <1>1, <1>2, AuthorityChanges DEF SessionInv, EvidenceSound

LEMMA RestoreKeeps == ASSUME SessionInv, RestoreBackup PROVE SessionInv'
<1> DEFINE p == life.offer
           l == [life EXCEPT !.offer = None]
           a == Stray(Outdated(authority, p))
<1>1. /\ ended = "no" /\ p # None /\ disk' = [disk EXCEPT ![p] = bak[p]]
      /\ StartOpen(p, l, a)
      /\ UNCHANGED <<bak, autosave, recovery, edits, seen, owed, slipped>> /\ Passed
  BY DEF RestoreBackup, Acting, Passed
<1>2. p \in Paths /\ l \in Lives
  BY <1>1 DEF SessionInv, SessionTypes, Lives, Option
<1>3. /\ disk' \in [Paths -> Option(Filled)]
      /\ \A q \in Paths : disk'[q] = IF q = p THEN bak[q] ELSE disk[q]
  BY <1>1, <1>2 DEF SessionInv, SessionTypes
<1>4. /\ a \in Authorities /\ a.active = authority.active
      /\ a.prepared # None =>
             /\ a.prepared.stray /\ authority.prepared # None
             /\ a.prepared.path = authority.prepared.path
             /\ a.prepared.bytes = authority.prepared.bytes
             /\ a.prepared.same => authority.prepared.same /\ a.prepared.path # p
  <2>1. authority \in Authorities
    BY DEF SessionInv, SessionTypes
  <2> QED BY <2>1, OutdatedResult, StrayResult
<1>5. a.prepared # None => a.prepared.path \in Paths
  BY <1>4 DEF Authorities, Option, Evidence
<1>6. a.prepared # None /\ a.prepared.same => disk'[a.prepared.path] = a.prepared.bytes
  BY <1>3, <1>4, <1>5 DEF SessionInv, EvidenceSound
<1> HIDE DEF a, l
<1> QED BY <1>1, <1>2, <1>3, <1>4, <1>6, StartOpenKeeps

-----------------------------------------------------------------------------
(***************************************************************************)
(* Edits, saves, and the recovery file.                                    *)
(***************************************************************************)
LEMMA EditKeeps == ASSUME SessionInv, Edit PROVE SessionInv'
<1> USE DEF SessionInv, files, rescue, history
<1>1. /\ ended = "no" /\ edits < MaxEdits /\ edits' = edits + 1
      /\ editor' = [editor EXCEPT !.doc = edits + 1, !.dirty = TRUE,
                                  !.revision = editor.revision + 1]
      /\ UNCHANGED <<disk, bak, life, authority, job, autosave, recovery, candidate, ended,
                     seen, owed, inherited, slipped, misarmed>>
  BY DEF Edit, Acting
<1>2. edits + 1 \in 1..MaxEdits /\ MaxEdits \in Nat
  BY <1>1, SessionAssumption DEF SessionAssumption, SessionTypes
<1>3. edits + 1 \in Contents
  BY <1>2 DEF Contents
<1>4. /\ editor'.dirty = TRUE /\ editor'.path = editor.path /\ editor.revision \in Nat
      /\ editor'.revision = editor.revision + 1
      /\ editor' \in [doc: Contents, path: Option(Paths), dirty: BOOLEAN, revision: Nat]
  <2>1. editor \in [doc: Contents, path: Option(Paths), dirty: BOOLEAN, revision: Nat]
    BY DEF SessionTypes
  <2>2. editor' = [doc |-> edits + 1, path |-> editor.path, dirty |-> TRUE,
                   revision |-> editor.revision + 1]
    BY <1>1, <2>1
  <2> QED BY <1>3, <2>1, <2>2
<1>5. SessionTypes'
  BY <1>1, <1>2, <1>4 DEF SessionTypes
<1>6. JobSound'
  BY <1>1 DEF JobSound
<1>7. EditorSound'
  <2>1. job.revision \in Nat
    BY DEF SessionTypes, Jobs
  <2> QED BY <1>1, <1>4, <2>1 DEF EditorSound
<1>8. EvidenceSound' /\ GuardSound'
  BY <1>1 DEF EvidenceSound, GuardSound
<1>9. BaselineSound'
  BY <1>1, <1>4 DEF BaselineSound
<1>10. AutosaveSound'
  BY <1>1, <1>4, AutosaveSame DEF Passed
<1> QED BY <1>5, <1>6, <1>7, <1>8, <1>9, <1>10

LEMMA BeginSaveKeeps ==
    ASSUME SessionInv, ended = "no", job = NoJob, editor.doc # Empty, NEW p \in Paths,
           BeginSave(p), life' \in Lives,
           UNCHANGED <<files, editor, authority, rescue, ended, edits, history>>
    PROVE  SessionInv'
<1> USE DEF SessionInv, files, rescue, history
<1>1. job' = [kind |-> "save", step |-> "classify", path |-> p, doc |-> editor.doc,
              revision |-> editor.revision, expected |-> None]
  BY DEF BeginSave, Launch
<1>2. editor.doc \in Filled /\ editor.revision \in Nat
  BY DEF SessionTypes, Filled
<1>3. SessionTypes'
  <2>1. job' \in Jobs
    BY <1>1, <1>2 DEF Jobs, Option, Filled
  <2> QED BY <2>1 DEF SessionTypes
<1>4. JobSound' /\ EvidenceSound' /\ GuardSound'
  BY <1>1, <1>2 DEF JobSound, EvidenceSound, GuardSound
<1>5. EditorSound'
  BY <1>1, <1>2 DEF EditorSound
<1>6. BaselineSound'
  BY <1>1 DEF BaselineSound, NoJob
<1>7. AutosaveSound'
  BY <1>1, <1>2, AutosaveSame DEF Passed
<1> QED BY <1>3, <1>4, <1>5, <1>6, <1>7

LEMMA SavesKeep ==
    ASSUME SessionInv, SaveAndContinue \/ \E saveAs \in BOOLEAN : Save(saveAs)
    PROVE  SessionInv'
<1>1. \A saveAs \in BOOLEAN : Targets(saveAs) \subseteq Paths
  BY DEF Targets, SessionInv, SessionTypes, Option
<1>2. ASSUME NEW saveAs \in BOOLEAN, Save(saveAs) PROVE SessionInv'
  BY <1>1, <1>2, BeginSaveKeeps DEF Save, Acting, SessionInv, SessionTypes
<1>3. CASE SaveAndContinue
  <2>1. CASE \E p \in Targets(FALSE) : BeginSave(p)
    <3>1. CASE life' = [life EXCEPT !.pending = None, !.afterSave = life.pending]
      <4>1. life' \in Lives
        BY <3>1 DEF SessionInv, SessionTypes, Lives, Option
      <4> QED BY <1>1, <1>3, <2>1, <4>1, BeginSaveKeeps DEF SaveAndContinue, Acting
    <3>2. CASE UNCHANGED life
      <4>1. life' \in Lives
        BY <3>2 DEF SessionInv, SessionTypes
      <4> QED BY <1>1, <1>3, <2>1, <4>1, BeginSaveKeeps DEF SaveAndContinue, Acting
    <3> QED BY <1>3, <3>1, <3>2 DEF SaveAndContinue
  <2>2. CASE UNCHANGED <<job, life>>
    BY <1>3, <2>2, AuthorityChanges
    DEF SaveAndContinue, Acting, SessionInv, SessionTypes, EvidenceSound
  <2> QED BY <1>3, <2>1, <2>2 DEF SaveAndContinue
<1> QED BY <1>2, <1>3

-----------------------------------------------------------------------------
(***************************************************************************)
(* What the poll does with a job that has ended.                           *)
(***************************************************************************)
PollFrame == UNCHANGED <<files, candidate, ended, bounds, slipped>>

LEMMA OpenedKeeps == ASSUME SessionInv, Opened, PollFrame PROVE SessionInv'
<1> USE DEF SessionInv, PollFrame, files, bounds
<1>1. /\ ended = "no" /\ job.kind = "open" /\ job.step = "ok" /\ job' = NoJob
      /\ editor' = [Blank(editor.revision) EXCEPT !.doc = job.doc, !.path = job.path]
      /\ life' = [life EXCEPT !.offer = None] /\ Settle
      /\ authority' = Rotate(authority)
      /\ misarmed' = \/ /\ authority'.active # None /\ authority.prepared # None
                        /\ authority.prepared.stray
                     \/ misarmed /\ job.kind = "save"
      /\ seen' = [seen EXCEPT ![job.path] = @ \union {job.doc}]
      /\ UNCHANGED <<disk, bak, recovery, inherited, candidate, ended, edits, slipped>>
  BY DEF Opened, Reported, At, Bump
<1>2. job.path \in Paths /\ job.doc \in Contents
  BY <1>1 DEF JobSound, Filled
<1>3. /\ editor' = [doc |-> job.doc, path |-> job.path, dirty |-> FALSE,
                    revision |-> editor.revision]
      /\ editor.revision \in Nat
  BY <1>1 DEF Blank, SessionTypes
<1>4. /\ authority' \in Authorities /\ authority'.prepared = None
      /\ authority'.active # None =>
            /\ authority.prepared # None /\ authority.prepared.same
            /\ authority'.active = [path |-> authority.prepared.path,
                                    bytes |-> authority.prepared.bytes]
  BY <1>1, RotateResult DEF SessionTypes
<1>5. seen' \in [Paths -> SUBSET Contents] /\ job.doc \in seen'[job.path]
  BY <1>1, <1>2 DEF SessionTypes
<1>6. /\ AutosaveSound' /\ owed' = None
      /\ autosave' \in Option({c \in Threads : c.doc # Empty})
  <2>1. editor'.revision \in Nat /\ editor'.revision >= editor.revision
    BY <1>3
  <2>2. Settle /\ job'.kind # "save" /\ Passed
    BY <1>1 DEF NoJob, Passed
  <2> QED BY <2>1, <2>2, AutosaveSettled
<1>7. SessionTypes'
  <2>1. life' \in Lives
    BY <1>1 DEF SessionTypes, Lives, Option
  <2>2. editor' \in [doc: Contents, path: Option(Paths), dirty: BOOLEAN, revision: Nat]
    BY <1>2, <1>3 DEF Option
  <2>3. job' \in Jobs
    BY <1>1 DEF NoJob, Jobs, Option
  <2>4. misarmed' \in BOOLEAN
    BY <1>1
  <2> QED BY <1>1, <1>4, <1>5, <1>6, <2>1, <2>2, <2>3, <2>4 DEF SessionTypes, Option
<1>8. JobSound' /\ GuardSound' /\ EvidenceSound'
  BY <1>1, <1>4 DEF JobSound, GuardSound, EvidenceSound, NoJob
<1>9. EditorSound'
  BY <1>1, <1>2, <1>3, <1>5, NoneApart DEF EditorSound, NoJob
<1>10. BaselineSound'
  <2>1. ASSUME authority'.active # None, ~misarmed'
        PROVE  authority'.active = [path |-> job.path, bytes |-> job.doc]
    BY <1>1, <1>4, <2>1 DEF EvidenceSound
  <2>2. /\ authority'.active # None /\ ~misarmed' =>
              /\ authority'.active.path = editor'.path
              /\ authority'.active.bytes \in seen'[editor'.path]
    BY <1>3, <1>5, <2>1
  <2> QED BY <1>1, <2>2 DEF BaselineSound, NoJob
<1> QED BY <1>6, <1>7, <1>8, <1>9, <1>10

LEMMA RecoveredKeeps == ASSUME SessionInv, Recovered, PollFrame PROVE SessionInv'
<1> USE DEF SessionInv, PollFrame, files, bounds
<1>1. /\ ended = "no" /\ job.kind = "recover" /\ job' = NoJob
      /\ editor' = [doc |-> job.doc, path |-> job.path, dirty |-> TRUE,
                    revision |-> editor.revision + 1]
      /\ Settle
      /\ authority' = Rotate(authority)
      /\ misarmed' = \/ /\ authority'.active # None /\ authority.prepared # None
                        /\ authority.prepared.stray
                     \/ misarmed /\ job.kind = "save"
      /\ UNCHANGED <<disk, bak, life, recovery, candidate, ended, edits, seen, slipped>>
      /\ Passed
  BY DEF Recovered, Passed, Reported, At, Bump
<1>2. job.path \in Option(Paths) /\ job.doc \in Contents /\ editor.revision \in Nat
  BY <1>1 DEF JobSound, Filled, SessionTypes, Jobs
<1>3. /\ authority' \in Authorities /\ authority'.prepared = None
      /\ authority'.active # None => authority.prepared # None /\ authority.prepared.stray
  BY <1>1, RotateResult DEF SessionTypes, EvidenceSound
<1>4. editor'.revision \in Nat /\ editor'.revision >= editor.revision
  BY <1>1, <1>2
<1>5. /\ AutosaveSound' /\ owed' = None
      /\ autosave' \in Option({c \in Threads : c.doc # Empty})
  BY <1>1, <1>4, AutosaveSettled DEF NoJob
<1>6. SessionTypes'
  <2>1. editor' \in [doc: Contents, path: Option(Paths), dirty: BOOLEAN, revision: Nat]
    BY <1>1, <1>2
  <2>2. job' \in Jobs
    BY <1>1 DEF NoJob, Jobs, Option
  <2>3. misarmed' \in BOOLEAN
    BY <1>1
  <2> QED BY <1>1, <1>3, <1>5, <2>1, <2>2, <2>3 DEF SessionTypes, Option
<1>7. JobSound' /\ GuardSound' /\ EvidenceSound' /\ EditorSound'
  BY <1>1, <1>3 DEF JobSound, GuardSound, EvidenceSound, EditorSound, NoJob
<1>8. BaselineSound'
  BY <1>1, <1>3 DEF BaselineSound, NoJob
<1> QED BY <1>5, <1>6, <1>7, <1>8

LEMMA SavedKeeps == ASSUME SessionInv, Saved, PollFrame PROVE SessionInv'
<1> USE DEF SessionInv, PollFrame, files, bounds
<1>1. /\ ended = "no" /\ job.kind = "save" /\ job.step = "ok" /\ job' = NoJob
      /\ editor' = [editor EXCEPT !.path = job.path,
                                  !.dirty = @ /\ editor.revision # job.revision]
      /\ recovery' = None /\ inherited' = None /\ SettleUpTo(job.revision)
      /\ UNCHANGED <<disk, bak, life, authority, candidate, ended, edits, seen, slipped,
                     misarmed>>
  BY DEF Saved, Reported, At
<1>2. /\ job.path \in Paths /\ job.doc \in Contents /\ job.doc \in seen[job.path]
      /\ job.revision \in Nat
  BY <1>1 DEF JobSound, Filled, SessionTypes, Jobs, BaselineSound
<1>3. /\ editor'.doc = editor.doc /\ editor'.path = job.path
      /\ editor'.revision = editor.revision
      /\ editor'.dirty = (editor.dirty /\ editor.revision # job.revision)
      /\ editor' \in [doc: Contents, path: Option(Paths), dirty: BOOLEAN, revision: Nat]
  BY <1>1, <1>2 DEF SessionTypes, Option
<1>4. owed' = None
  <2>1. CASE owed = None
    BY <1>1, <2>1 DEF SettleUpTo
  <2>2. CASE owed # None
    BY <1>1, <2>2 DEF SettleUpTo, AutosaveSound
  <2> QED BY <2>1, <2>2
<1>5. /\ autosave' \in Option({c \in Threads : c.doc # Empty})
      /\ autosave' # None => autosave # None /\ autosave'.revision = autosave.revision
  <2>1. CASE autosave = None
    BY <1>1, <2>1 DEF SettleUpTo, Option
  <2>2. CASE autosave # None
    <3>1. autosave \in Threads /\ autosave.doc # Empty
      BY <2>2 DEF SessionTypes, Option
    <3>2. autosave' = autosave \/ autosave' = [autosave EXCEPT !.live = FALSE]
      BY <1>1, <2>2 DEF SettleUpTo
    <3> QED BY <2>2, <3>1, <3>2 DEF Threads, Option
  <2> QED BY <2>1, <2>2
<1>6. AutosaveSound'
  BY <1>1, <1>3, <1>4, <1>5 DEF AutosaveSound, AutosavedWorkKept, NoJob
<1>7. SessionTypes'
  <2>1. job' \in Jobs
    BY <1>1 DEF NoJob, Jobs, Option
  <2> QED BY <1>1, <1>3, <1>4, <1>5, <2>1 DEF SessionTypes, Option
<1>8. JobSound' /\ GuardSound' /\ EvidenceSound'
  BY <1>1 DEF JobSound, GuardSound, EvidenceSound, NoJob
<1>9. EditorSound'
  BY <1>1, <1>2, <1>3, NoneApart DEF EditorSound, NoJob
<1>10. BaselineSound'
  BY <1>1, <1>2, <1>3 DEF BaselineSound, NoJob
<1> QED BY <1>6, <1>7, <1>8, <1>9, <1>10

\* A job that failed or panicked leaves the project as it is.
LEMMA DroppedKeeps ==
    ASSUME SessionInv, ended = "no", job' = NoJob, life' \in Lives,
           ~(job.kind = "save" /\ job.step = "ok"),
           UNCHANGED <<files, editor, authority, rescue, ended, edits, history>>
    PROVE  SessionInv'
<1> USE DEF SessionInv, files, rescue, history
<1>1. SessionTypes'
  <2>1. job' \in Jobs
    BY DEF NoJob, Jobs, Option
  <2> QED BY <2>1 DEF SessionTypes
<1>2. JobSound' /\ GuardSound' /\ EvidenceSound' /\ EditorSound'
  BY DEF JobSound, GuardSound, EvidenceSound, EditorSound, NoJob
<1>3. BaselineSound'
  BY DEF BaselineSound, NoJob
<1>4. AutosaveSound'
  BY DEF AutosaveSound, AutosavedWorkKept, NoJob
<1> QED BY <1>1, <1>2, <1>3, <1>4

LEMMA PollKeeps == ASSUME SessionInv, PollJob PROVE SessionInv'
<1>1. PollFrame
  BY DEF PollJob, PollFrame
<1>2. life \in Lives
  BY DEF SessionInv, SessionTypes
<1>3. CASE OpenFailed
  <2>1. life' \in Lives
    BY <1>2, <1>3 DEF OpenFailed, Reported, At, Lives, Option, SessionInv, JobSound
  <2> QED BY <1>1, <1>3, <2>1, DroppedKeeps
      DEF OpenFailed, Reported, At, PollFrame, rescue, bounds, history
<1>4. CASE NotSaved
  <2>1. life' \in Lives
    BY <1>2, <1>4 DEF NotSaved, SaveFailed, Lives, Option
  <2> QED BY <1>1, <1>4, <2>1, DroppedKeeps
      DEF NotSaved, Reported, At, PollFrame, rescue, bounds, history
<1>5. CASE Panicked
  BY <1>1, <1>2, <1>5, DroppedKeeps DEF Panicked, PollFrame, rescue, bounds, history
<1> QED BY <1>1, <1>3, <1>4, <1>5, OpenedKeeps, RecoveredKeeps, SavedKeeps DEF PollJob

-----------------------------------------------------------------------------
(***************************************************************************)
(* The worker.                                                             *)
(***************************************************************************)
WorkerFrame == UNCHANGED <<editor, life, rescue, ended, edits, jobs, starts, owed, inherited>>

\* A step that leaves authority and the files alone and does not end a save.
LEMMA WorkKeeps ==
    ASSUME SessionInv, ended = "no", job.kind # "none", NEW next \in Jobs, job' = next,
           next.kind = job.kind, next.path = job.path, next.revision = job.revision,
           next.doc = job.doc \/ job.kind = "open",
           job.kind = "open" /\ next.step = "ok" =>
               next.doc \in Filled /\ next.doc = disk[job.path],
           job.kind = "save" =>
               job.step # "ok" /\ next.step \notin {"accept", "ok"},
           GuardSound', slipped' \in BOOLEAN,
           bak' \in [Paths -> Option(Filled)], UNCHANGED <<disk, authority, seen, misarmed>>,
           WorkerFrame
    PROVE  SessionInv'
<1> USE DEF SessionInv, WorkerFrame, rescue
<1>1. SessionTypes'
  BY DEF SessionTypes
<1>2. JobSound'
  BY DEF JobSound
<1>3. EditorSound'
  BY DEF EditorSound
<1>4. EvidenceSound'
  BY DEF EvidenceSound
<1>5. BaselineSound'
  BY DEF BaselineSound
<1>6. AutosaveSound'
  BY DEF AutosaveSound, AutosavedWorkKept
<1> QED BY <1>1, <1>2, <1>3, <1>4, <1>5, <1>6

LEMMA SteppedJob ==
    ASSUME job \in Jobs, NEW step \in {"verify", "publish", "accept", "ok", "failed", "panicked"}
    PROVE  LET next == [job EXCEPT !.step = step] IN
           /\ next \in Jobs /\ next.step = step /\ next.kind = job.kind /\ next.path = job.path
           /\ next.revision = job.revision /\ next.doc = job.doc
           /\ next.expected = job.expected
  BY DEF Jobs

LEMMA VerifiedJob ==
    ASSUME job \in Jobs, NEW bytes \in Option(Contents)
    PROVE  LET next == [job EXCEPT !.step = "verify", !.expected = bytes] IN
           /\ next \in Jobs /\ next.step = "verify" /\ next.kind = job.kind
           /\ next.path = job.path /\ next.revision = job.revision /\ next.doc = job.doc
           /\ next.expected = bytes
  BY DEF Jobs

LEMMA JobFailsKeeps == ASSUME SessionInv, JobFails, WorkerFrame PROVE SessionInv'
<1>1. PICK step \in {"failed", "panicked"} : job' = [job EXCEPT !.step = step]
  BY DEF JobFails, Became
<1>2. /\ ended = "no" /\ job # NoJob /\ job.step # "ok"
      /\ slipped' = FALSE /\ UNCHANGED <<files, authority, seen, misarmed>>
  BY DEF JobFails, Unfinished
<1>3. job \in Jobs /\ job.kind # "none" /\ bak \in [Paths -> Option(Filled)]
  BY <1>2 DEF SessionInv, SessionTypes, JobSound
<1> DEFINE next == [job EXCEPT !.step = step]
<1>4. /\ next \in Jobs /\ next.step = step /\ next.kind = job.kind /\ next.path = job.path
      /\ next.revision = job.revision /\ next.doc = job.doc
  BY <1>3, SteppedJob
<1> HIDE DEF next
<1>5. GuardSound'
  BY <1>1, <1>4 DEF GuardSound, next
<1>6. job' = next
  BY <1>1 DEF next
<1> QED BY <1>2, <1>3, <1>4, <1>5, <1>6, WorkKeeps DEF files

LEMMA ReadsKeep == ASSUME SessionInv, Read \/ ReadRecovered, WorkerFrame PROVE SessionInv'
<1>1. /\ ended = "no" /\ job.kind \in {"open", "recover"}
      /\ UNCHANGED <<files, authority, seen, slipped, misarmed>>
  BY DEF Read, ReadRecovered, At
<1>2. job \in Jobs /\ disk \in [Paths -> Option(Filled)] /\ slipped \in BOOLEAN
      /\ bak \in [Paths -> Option(Filled)]
  BY DEF SessionInv, SessionTypes
<1>3. /\ job' \in Jobs /\ job'.kind = job.kind /\ job'.path = job.path
      /\ job'.revision = job.revision
      /\ job'.doc = job.doc \/ job.kind = "open"
      /\ job.kind = "open" /\ job'.step = "ok" =>
             job'.doc \in Filled /\ job'.doc = disk[job.path]
  <2>1. CASE ReadRecovered
    BY <1>2, <2>1 DEF ReadRecovered, At, Became, Jobs
  <2>2. CASE Read
    <3>1. job.kind = "open" /\ job.path \in Paths
      BY <2>2 DEF Read, At, SessionInv, JobSound
    <3>2. CASE Parses(disk[job.path])
      <4>1. disk[job.path] \in Filled
        BY <1>2, <3>1, <3>2 DEF Parses, Option
      <4>2. job' = [job EXCEPT !.step = "ok", !.doc = disk[job.path]]
        BY <2>2, <3>2 DEF Read
      <4> QED BY <1>2, <3>1, <4>1, <4>2 DEF Jobs, Option, Filled
    <3>3. CASE ~Parses(disk[job.path])
      <4>1. job' = [job EXCEPT !.step = "failed"]
        BY <2>2, <3>3 DEF Read
      <4> QED BY <1>2, <3>1, <4>1 DEF Jobs
    <3> QED BY <3>2, <3>3
  <2> QED BY <2>1, <2>2
<1>4. GuardSound'
  BY <1>1, <1>3 DEF GuardSound
<1> QED BY <1>1, <1>2, <1>3, <1>4, WorkKeeps DEF files

LEMMA ClassifyKeeps == ASSUME SessionInv, Classify, WorkerFrame PROVE SessionInv'
<1> DEFINE p == job.path
<1>1. /\ ended = "no" /\ job.kind = "save" /\ job.step = "classify"
      /\ UNCHANGED <<disk, bak, authority, seen, slipped, misarmed>>
  BY DEF Classify, At, files
<1>2. \/ \E step \in {"publish", "failed"} : job' = [job EXCEPT !.step = step]
      \/ MayReplace(p) /\ job' = [job EXCEPT !.step = "verify", !.expected = disk[p]]
  BY DEF Classify
<1>3. /\ job \in Jobs /\ bak \in [Paths -> Option(Filled)] /\ slipped \in BOOLEAN
      /\ p \in Paths /\ job.expected = None /\ disk[p] \in Option(Filled)
  BY <1>1 DEF SessionInv, SessionTypes, JobSound, GuardSound
<1>4. /\ job' \in Jobs /\ job'.kind = job.kind /\ job'.path = job.path /\ job'.doc = job.doc
      /\ job'.revision = job.revision
      /\ job'.step \in {"publish", "verify", "failed"}
      /\ job'.expected # None =>
            job'.step = "verify" /\ job'.expected = disk[p] /\ MayReplace(p)
  <2>1. CASE \E step \in {"publish", "failed"} : job' = [job EXCEPT !.step = step]
    <3>1. PICK step \in {"publish", "failed"} : job' = [job EXCEPT !.step = step]
      BY <2>1
    <3> QED BY <1>3, <3>1, SteppedJob
  <2>2. CASE MayReplace(p) /\ job' = [job EXCEPT !.step = "verify", !.expected = disk[p]]
    <3>1. disk[p] \in Option(Contents)
      BY <1>3 DEF Option, Filled
    <3> QED BY <1>3, <2>2, <3>1, VerifiedJob
  <2> QED BY <1>2, <2>1, <2>2
<1>5. MayReplace(p) => disk[p] \in seen[p] \/ misarmed
  <2> SUFFICES ASSUME MayReplace(p) PROVE disk[p] \in seen[p] \/ misarmed
    OBVIOUS
  <2>1. authority.active.path = p /\ authority.active.bytes = disk[p]
    BY DEF MayReplace
  <2>2. [path |-> p, bytes |-> disk[p]] \in Baselines
    BY <1>3 DEF MayReplace, Baselines, Option, Filled
  <2>3. authority.active # None
    BY <2>2, NoneApart DEF MayReplace
  <2> QED BY <1>1, <2>1, <2>3 DEF SessionInv, BaselineSound
<1>6. GuardSound'
  BY <1>1, <1>4, <1>5 DEF GuardSound
<1> QED BY <1>1, <1>3, <1>4, <1>6, WorkKeeps

LEMMA VerifyKeeps == ASSUME SessionInv, VerifyAndBackUp, WorkerFrame PROVE SessionInv'
<1> DEFINE p == job.path
<1>1. /\ ended = "no" /\ job.kind = "save" /\ job.step = "verify"
      /\ UNCHANGED <<disk, authority, seen, slipped, misarmed>>
      /\ \/ /\ disk[p] = job.expected /\ job' = [job EXCEPT !.step = "publish"]
            /\ bak' = [bak EXCEPT ![p] = disk[p]]
         \/ job' = [job EXCEPT !.step = "failed"] /\ bak' = bak
  BY DEF VerifyAndBackUp, At, Became
<1>2. /\ job \in Jobs /\ bak \in [Paths -> Option(Filled)] /\ slipped \in BOOLEAN
      /\ p \in Paths /\ disk[p] \in Option(Filled)
      /\ job.expected # None => job.expected \in seen[p] \/ misarmed
  BY <1>1 DEF SessionInv, SessionTypes, JobSound, GuardSound
<1> HIDE DEF p
<1>3. PICK step \in {"publish", "failed"} :
          /\ job' = [job EXCEPT !.step = step]
          /\ step = "publish" => disk[p] = job.expected /\ bak' = [bak EXCEPT ![p] = disk[p]]
          /\ step = "failed" => bak' = bak
  BY <1>1
<1>4. /\ job' \in Jobs /\ job'.kind = "save" /\ job'.path = p /\ job'.doc = job.doc
      /\ job'.revision = job.revision /\ job'.step = step /\ job'.expected = job.expected
  BY <1>1, <1>2, <1>3, SteppedJob DEF p
<1>5. /\ bak' \in [Paths -> Option(Filled)]
      /\ step = "publish" => disk[p] = job.expected /\ bak'[p] = job.expected
  BY <1>2, <1>3
<1>6. GuardSound'
  BY <1>1, <1>2, <1>4, <1>5 DEF GuardSound
<1> QED BY <1>1, <1>2, <1>4, <1>5, <1>6, WorkKeeps DEF p

LEMMA PublishKeeps == ASSUME SessionInv, Publish, WorkerFrame PROVE SessionInv'
<1> DEFINE p == job.path
<1>1. /\ ended = "no" /\ job.kind = "save" /\ job.step = "publish" /\ slipped' = FALSE
      /\ UNCHANGED <<bak, misarmed>>
      /\ \/ /\ disk' = [disk EXCEPT ![p] = job.doc] /\ authority' = Outdated(authority, p)
            /\ seen' = [seen EXCEPT ![p] = @ \union {job.doc}]
            /\ job' = [job EXCEPT !.step = "accept"]
         \/ job' = [job EXCEPT !.step = "failed"] /\ UNCHANGED <<disk, authority, seen>>
  BY DEF Publish, At, Became
<1>2. /\ job \in Jobs /\ bak \in [Paths -> Option(Filled)] /\ p \in Paths
      /\ disk \in [Paths -> Option(Filled)] /\ seen \in [Paths -> SUBSET Contents]
      /\ authority \in Authorities /\ job.doc \in Filled /\ job.doc \in Contents
  BY <1>1 DEF SessionInv, SessionTypes, JobSound, Filled
<1> HIDE DEF p
<1>3. PICK step \in {"accept", "failed"} :
          /\ job' = [job EXCEPT !.step = step]
          /\ step = "accept" =>
                 /\ disk' = [disk EXCEPT ![p] = job.doc]
                 /\ authority' = Outdated(authority, p)
                 /\ seen' = [seen EXCEPT ![p] = @ \union {job.doc}]
          /\ step = "failed" => UNCHANGED <<disk, authority, seen>>
  BY <1>1
<1>4. /\ job' \in Jobs /\ job'.kind = "save" /\ job'.path = p /\ job'.doc = job.doc
      /\ job'.revision = job.revision /\ job'.step = step
  BY <1>1, <1>2, <1>3, SteppedJob DEF p
<1>5. GuardSound'
  BY <1>4 DEF GuardSound
<1>6. CASE step = "failed"
  BY <1>1, <1>2, <1>3, <1>4, <1>5, <1>6, WorkKeeps DEF p
<1>7. CASE step = "accept"
  <2> USE DEF SessionInv, WorkerFrame, rescue
  <2>1. /\ disk' = [disk EXCEPT ![p] = job.doc] /\ authority' = Outdated(authority, p)
        /\ seen' = [seen EXCEPT ![p] = @ \union {job.doc}]
    BY <1>3, <1>7
  <2>2. /\ disk' \in [Paths -> Option(Filled)] /\ seen' \in [Paths -> SUBSET Contents]
        /\ job.doc \in seen'[p] /\ \A q \in Paths : seen[q] \subseteq seen'[q]
        /\ \A q \in Paths : q # p => disk'[q] = disk[q]
    BY <1>2, <2>1 DEF Option
  <2>3. /\ authority' \in Authorities /\ authority'.active = authority.active
        /\ authority'.prepared # None =>
              /\ authority.prepared # None
              /\ authority'.prepared.path = authority.prepared.path
              /\ authority'.prepared.bytes = authority.prepared.bytes
              /\ authority'.prepared.same => authority.prepared.same
                                             /\ authority.prepared.path # p
    BY <1>2, <2>1, OutdatedResult
  <2>4. authority.prepared # None => authority.prepared.path \in Paths
    BY <1>2 DEF Authorities, Option, Evidence
  <2>5. editor.path \in Option(Paths)
    BY DEF SessionTypes
  <2>6. SessionTypes'
    BY <1>1, <1>2, <1>4, <2>2, <2>3 DEF SessionTypes
  <2>7. JobSound'
    BY <1>1, <1>2, <1>4 DEF JobSound
  <2>8. EditorSound'
    <3>1. editor.path # None => seen[editor.path] \subseteq seen'[editor.path]
      BY <2>2, <2>5 DEF Option
    <3> QED BY <1>1, <1>4, <3>1 DEF EditorSound
  <2>9. EvidenceSound'
    BY <1>4, <2>2, <2>3, <2>4 DEF EvidenceSound
  <2>10. BaselineSound'
    <3>1. authority.active # None => authority.active.path \in Paths
      BY <1>2 DEF Authorities, Option, Baselines
    <3>2. authority.active # None /\ ~misarmed =>
              /\ authority.active.path = editor.path
              /\ authority.active.bytes \in seen'[editor.path]
      BY <1>1, <2>2, <3>1 DEF BaselineSound
    <3> QED BY <1>1, <1>4, <1>7, <2>2, <2>3, <3>2 DEF BaselineSound
  <2>11. AutosaveSound'
    BY <1>1, <1>4 DEF AutosaveSound, AutosavedWorkKept
  <2> QED BY <1>5, <2>6, <2>7, <2>8, <2>9, <2>10, <2>11
<1> QED BY <1>6, <1>7

LEMMA AcceptKeeps == ASSUME SessionInv, Accept, WorkerFrame PROVE SessionInv'
<1> USE DEF SessionInv, WorkerFrame, rescue, files
<1> DEFINE p == job.path
           found == disk[p]
<1>1. /\ ended = "no" /\ job.kind = "save" /\ job.step = "accept"
      /\ job' = [job EXCEPT !.step = IF found = job.doc THEN "ok" ELSE "failed"]
      /\ authority' =
            IF found = job.doc
            THEN [authority EXCEPT !.active = [path |-> p, bytes |-> found], !.failure = None]
            ELSE IF found = None THEN authority
            ELSE [authority EXCEPT !.active = None]
      /\ misarmed' = (misarmed /\ authority'.active = authority.active)
      /\ UNCHANGED <<disk, bak, seen, slipped>>
  BY DEF Accept, At, Became
<1>2. /\ job \in Jobs /\ p \in Paths /\ authority \in Authorities
      /\ job.doc \in Contents /\ job.doc \in seen[p]
  BY <1>1 DEF SessionTypes, JobSound, Filled, BaselineSound
<1>3. /\ job' \in Jobs /\ job'.kind = "save" /\ job'.path = p /\ job'.doc = job.doc
      /\ job'.revision = job.revision
      /\ job'.step = IF found = job.doc THEN "ok" ELSE "failed"
  BY <1>1, <1>2, SteppedJob
<1>4. /\ authority' \in Authorities /\ authority'.prepared = authority.prepared
      /\ authority'.active = IF found = job.doc THEN [path |-> p, bytes |-> job.doc]
                             ELSE IF found = None THEN authority.active ELSE None
  <2>1. [path |-> p, bytes |-> job.doc] \in Baselines
    BY <1>2 DEF Baselines
  <2> QED BY <1>1, <1>2, <2>1 DEF Authorities, Option
<1> HIDE DEF found, p
<1>5. misarmed' \in BOOLEAN
  BY <1>1
<1>6. SessionTypes'
  BY <1>1, <1>3, <1>4, <1>5 DEF SessionTypes
<1>7. JobSound' /\ GuardSound' /\ EditorSound'
  <2>1. p = job.path
    BY DEF p
  <2> QED BY <1>1, <1>2, <1>3, <2>1 DEF JobSound, GuardSound, EditorSound
<1>8. EvidenceSound'
  BY <1>1, <1>3, <1>4 DEF EvidenceSound
<1>9. BaselineSound'
  <2>1. CASE found = job.doc
    BY <1>1, <1>2, <1>3, <1>4, <2>1 DEF BaselineSound
  <2>2. CASE found # job.doc
    <3>1. authority'.active # None => authority'.active = authority.active
      BY <1>4, <2>2
    <3>2. authority'.active # None /\ ~misarmed' => ~misarmed
      BY <1>1, <3>1
    <3> QED BY <1>1, <1>3, <2>2, <3>1, <3>2 DEF BaselineSound
  <2> QED BY <2>1, <2>2
<1>10. AutosaveSound'
  BY <1>1, <1>3 DEF AutosaveSound, AutosavedWorkKept
<1> QED BY <1>6, <1>7, <1>8, <1>9, <1>10

LEMMA WorkerKeeps == ASSUME SessionInv, Worker PROVE SessionInv'
<1>1. WorkerFrame
  BY DEF Worker, WorkerFrame
<1> QED BY <1>1, JobFailsKeeps, ReadsKeep, ClassifyKeeps, VerifyKeeps, PublishKeeps,
        AcceptKeeps DEF Worker

-----------------------------------------------------------------------------
(***************************************************************************)
(* The recovery file, other programs, crashes and starts.                  *)
(***************************************************************************)
LEMMA MaybeAutosaveKeeps == ASSUME SessionInv, MaybeAutosave PROVE SessionInv'
<1> USE DEF SessionInv
<1>1. /\ ended = "no" /\ job = NoJob /\ editor.doc # Empty
      /\ autosave' = [doc |-> editor.doc, origin |-> editor.path,
                      revision |-> editor.revision, live |-> TRUE]
      /\ UNCHANGED <<disk, bak, editor, life, authority, job, recovery, candidate, ended,
                     edits, seen, owed, inherited, slipped, misarmed>>
  BY DEF MaybeAutosave, Acting, files, bounds, history
<1>2. editor \in [doc: Contents, path: Option(Paths), dirty: BOOLEAN, revision: Nat]
  BY DEF SessionTypes
<1>3. /\ autosave'.revision = editor.revision /\ autosave'.live
      /\ autosave' \in Option({c \in Threads : c.doc # Empty})
  BY <1>1, <1>2 DEF Threads, Option
<1>4. SessionTypes'
  BY <1>1, <1>3 DEF SessionTypes
<1>5. JobSound' /\ EditorSound' /\ EvidenceSound' /\ BaselineSound' /\ GuardSound'
  BY <1>1 DEF JobSound, EditorSound, EvidenceSound, BaselineSound, GuardSound
<1>6. AutosaveSound'
  BY <1>1, <1>2, <1>3 DEF AutosaveSound, AutosavedWorkKept, NoJob
<1> QED BY <1>4, <1>5, <1>6

\* The recovery file and what it owes change, and the autosave thread may end.
LEMMA RescueKeeps ==
    ASSUME SessionInv, ended = "no", autosave' \in {autosave, None},
           candidate' \in {candidate, None},
           recovery' \in Option({c \in Copies : c.doc # Empty}), owed' \in Option(Debts),
           AutosaveSound',
           UNCHANGED <<files, editor, life, authority, job, ended, edits, seen, slipped,
                       misarmed>>
    PROVE  SessionInv'
<1> USE DEF SessionInv, files
<1>1. SessionTypes'
  <2>1. /\ autosave' \in Option({c \in Threads : c.doc # Empty})
        /\ candidate' \in Option({c \in Copies : c.doc # Empty})
    BY DEF SessionTypes, Option
  <2> QED BY <2>1 DEF SessionTypes
<1>2. JobSound' /\ EditorSound' /\ EvidenceSound' /\ BaselineSound' /\ GuardSound'
  BY DEF JobSound, EditorSound, EvidenceSound, BaselineSound, GuardSound
<1> QED BY <1>1, <1>2

LEMMA AutosaveEndsKeeps == ASSUME SessionInv, AutosaveEnds PROVE SessionInv'
<1> USE DEF SessionInv, SessionTypes
<1>1. /\ ended = "no" /\ autosave # None /\ autosave' = None
      /\ UNCHANGED <<files, editor, life, authority, job, candidate, ended, edits,
                     seen, slipped, misarmed>>
  BY DEF AutosaveEnds
<1>2. /\ autosave \in Threads /\ autosave.doc # Empty
      /\ autosave.revision <= editor.revision
      /\ ~autosave.live => owed = None
      /\ job.kind = "save" => autosave.revision <= job.revision
  BY <1>1 DEF Option, AutosaveSound
<1>3. CASE /\ recovery' = [doc |-> autosave.doc, origin |-> autosave.origin]
           /\ inherited' = None
           /\ owed' = IF autosave.live
                      THEN [doc |-> autosave.doc, revision |-> autosave.revision] ELSE owed
  <2>1. recovery' \in Option({c \in Copies : c.doc # Empty}) /\ recovery' # None
        /\ recovery'.doc = autosave.doc
    <3>1. [doc |-> autosave.doc, origin |-> autosave.origin] \in Copies
      BY <1>2 DEF Threads, Copies
    <3>2. [doc |-> autosave.doc, origin |-> autosave.origin] # None
      BY <3>1, NoneApart
    <3> QED BY <1>2, <1>3, <3>1, <3>2 DEF Option
  <2>2. /\ owed' \in Option(Debts)
        /\ owed' # None => owed'.doc = autosave.doc /\ owed'.revision = autosave.revision
    BY <1>2, <1>3 DEF Threads, Debts, Option
  <2>3. AutosaveSound'
    BY <1>1, <1>2, <1>3, <2>1, <2>2 DEF AutosaveSound, AutosavedWorkKept
  <2> QED BY <1>1, <2>1, <2>2, <2>3, RescueKeeps
<1>4. CASE UNCHANGED <<recovery, owed, inherited>>
  <2>1. AutosaveSound'
    BY <1>1, <1>4 DEF AutosaveSound, AutosavedWorkKept
  <2> QED BY <1>1, <1>4, <2>1, RescueKeeps
<1> QED BY <1>3, <1>4 DEF AutosaveEnds

LEMMA DiscardRecoveryKeeps == ASSUME SessionInv, DiscardRecovery PROVE SessionInv'
<1>1. /\ ended = "no" /\ candidate' = None /\ recovery' = None /\ owed' = None
      /\ inherited' = None
      /\ UNCHANGED <<files, editor, life, authority, job, autosave, ended, edits,
                     seen, slipped, misarmed>>
  BY DEF DiscardRecovery, Acting, bounds
<1>2. AutosaveSound'
  BY <1>1 DEF SessionInv, AutosaveSound, AutosavedWorkKept
<1> QED BY <1>1, <1>2, RescueKeeps DEF Option

LEMMA TouchKeeps ==
    ASSUME SessionInv, NEW p \in Paths, NEW c \in {None, Old, Foreign, Broken}, Touch(p, c)
    PROVE  SessionInv'
<1> USE DEF SessionInv, rescue
<1>1. /\ disk' = [disk EXCEPT ![p] = c] /\ authority' = Outdated(authority, p)
      /\ slipped' = (slipped \/ Guards(p))
      /\ UNCHANGED <<bak, editor, life, job, autosave, recovery, candidate, ended, edits,
                     seen, owed, inherited, misarmed>>
  BY DEF Touch
<1>2. /\ disk \in [Paths -> Option(Filled)] /\ authority \in Authorities
      /\ slipped \in BOOLEAN
  BY DEF SessionTypes
<1>3. /\ disk' \in [Paths -> Option(Filled)] /\ slipped' \in BOOLEAN
      /\ \A q \in Paths : q # p => disk'[q] = disk[q]
  BY <1>1, <1>2, NoneApart DEF Option, Guards, At
<1>4. /\ authority' \in Authorities /\ authority'.active = authority.active
      /\ authority'.prepared # None =>
            /\ authority.prepared # None
            /\ authority'.prepared.path = authority.prepared.path
            /\ authority'.prepared.bytes = authority.prepared.bytes
            /\ authority'.prepared.stray = authority.prepared.stray
            /\ authority'.prepared.same => authority.prepared.same
                                           /\ authority.prepared.path # p
  BY <1>1, <1>2, OutdatedResult
<1>5. authority.prepared # None => authority.prepared.path \in Paths
  BY <1>2 DEF Authorities, Option, Evidence
<1>6. SessionTypes'
  BY <1>1, <1>3, <1>4 DEF SessionTypes
<1>7. JobSound'
  <2>1. ended # "no" => authority' = Unarmed
    BY <1>1 DEF JobSound, Unarmed, Outdated
  <2> QED BY <1>1, <2>1 DEF JobSound
<1>8. EditorSound'
  BY <1>1 DEF EditorSound
<1>9. EvidenceSound'
  BY <1>1, <1>3, <1>4, <1>5 DEF EvidenceSound
<1>10. BaselineSound'
  BY <1>1, <1>4 DEF BaselineSound
<1>11. GuardSound'
  <2>1. job.kind = "save" => job.path \in Paths /\ ended = "no"
    BY DEF JobSound, NoJob
  <2>2. job.kind = "save" /\ job.step = "publish" /\ job.expected # None /\ job.path = p
            => slipped'
    BY <1>1, <2>1 DEF Guards, At
  <2> QED BY <1>1, <1>3, <2>1, <2>2 DEF GuardSound
<1>12. AutosaveSound'
  BY <1>1 DEF AutosaveSound, AutosavedWorkKept
<1> QED BY <1>6, <1>7, <1>8, <1>9, <1>10, <1>11, <1>12

LEMMA CrashKeeps == ASSUME SessionInv, Crash PROVE SessionInv'
  BY GoneKeeps DEF Crash, Passed

LEMMA StartKeeps ==
    ASSUME SessionInv, NEW p \in Paths \union {None}, Start(p)
    PROVE  SessionInv'
<1> USE DEF SessionInv
<1>1. /\ job = NoJob /\ authority = Unarmed /\ life = Idle /\ editor = Blank(0)
      /\ autosave = None /\ owed = None /\ ended' = "no"
      /\ UNCHANGED <<disk, bak, editor, life, autosave, recovery, edits, seen, owed, inherited, slipped,
                     misarmed>>
  BY DEF Start, JobSound, files, history
<1> DEFINE t == [kind |-> "Open", path |-> p]
           a == Prepare(t, Unarmed)
<1>2. \/ candidate' = recovery /\ UNCHANGED <<authority, job>>
      \/ /\ p \in Paths /\ authority' = a /\ UNCHANGED candidate
         /\ job' = [kind |-> "open", step |-> "load", path |-> p, doc |-> None,
                    revision |-> 0, expected |-> None]
  BY DEF Start, Launch
<1>3. Unarmed \in Authorities
  BY <1>1 DEF SessionTypes
<1>4. p \in Paths => /\ a \in Authorities /\ a.active = None
                     /\ a.prepared # None =>
                           /\ a.prepared.path = p /\ a.prepared.bytes = disk[p]
  <2>1. ASSUME p \in Paths PROVE t \in Transitions /\ t.path = p
    BY <2>1 DEF Transitions
  <2>2. Unarmed.active = None
    BY DEF Unarmed
  <2> HIDE DEF t
  <2> QED BY <1>3, <2>1, <2>2, PrepareResult
<1> HIDE DEF a
<1>5. /\ authority' \in Authorities /\ authority'.active = None
      /\ authority'.prepared # None =>
            /\ p \in Paths /\ job'.kind = "open" /\ job'.path = p /\ job'.step = "load"
            /\ authority'.prepared.path = p /\ authority'.prepared.bytes = disk[p]
  BY <1>1, <1>2, <1>3, <1>4 DEF Unarmed
<1>6. /\ job' \in Jobs /\ job'.kind \in {"none", "open"}
      /\ job'.kind = "none" => job' = NoJob
      /\ job'.kind = "open" => job'.path \in Paths /\ job'.step = "load"
  BY <1>1, <1>2 DEF Jobs, Option, NoJob
<1>7. SessionTypes'
  <2>1. candidate' \in Option({c \in Copies : c.doc # Empty})
    BY <1>2 DEF SessionTypes
  <2> QED BY <1>1, <1>5, <1>6, <2>1 DEF SessionTypes
<1>8. JobSound' /\ EditorSound' /\ EvidenceSound'
  BY <1>1, <1>5, <1>6 DEF JobSound, EditorSound, EvidenceSound, Blank
<1>9. BaselineSound' /\ GuardSound' /\ AutosaveSound'
  BY <1>1, <1>5, <1>6 DEF BaselineSound, GuardSound, AutosaveSound, AutosavedWorkKept
<1> QED BY <1>7, <1>8, <1>9

LEMMA SessionStutters == ASSUME SessionInv, UNCHANGED vars PROVE SessionInv'
<1> USE DEF SessionInv, vars, files, rescue, bounds, history
<1>1. SessionTypes' /\ JobSound' /\ EditorSound'
  BY DEF SessionTypes, JobSound, EditorSound
<1>2. EvidenceSound' /\ BaselineSound' /\ GuardSound' /\ AutosaveSound'
  BY DEF EvidenceSound, BaselineSound, GuardSound, AutosaveSound, AutosavedWorkKept
<1> QED BY <1>1, <1>2

LEMMA SessionNextKeeps == SessionInv /\ [Next]_vars => SessionInv'
<1> SUFFICES ASSUME SessionInv, [Next]_vars PROVE SessionInv'
  OBVIOUS
<1>1. CASE Operator
  BY <1>1, RequestKeeps, CancelKeeps, DiscardKeeps, SavesKeep, EditKeeps,
     DiscardRecoveryKeeps, RestoreKeeps, DeclineKeeps DEF Operator
<1>2. CASE Next /\ ~Operator
  BY <1>2, AfterSaveKeeps, PollKeeps, WorkerKeeps, MaybeAutosaveKeeps, AutosaveEndsKeeps,
     TouchKeeps, CrashKeeps, StartKeeps DEF Next
<1> QED BY <1>1, <1>2, SessionStutters

-----------------------------------------------------------------------------
(***************************************************************************)
(* The theorems.                                                           *)
(***************************************************************************)
\* SessionInv holds of every reachable state: project_lifecycle.rs,
\* project_persistence.rs, recovery.rs and main.rs keep their states in step.
THEOREM SessionInvHolds == Spec => []SessionInv
  BY SessionInits, SessionNextKeeps, PTL DEF Spec


\* The state always has the shape the code gives it, and a file named by an armed
\* baseline, a question or an offer is a project file.
THEOREM SessionTypeCorrect == Spec => []TypeOK
<1>1. SessionInv => TypeOK
  BY DEF SessionInv, SessionTypes, JobSound, TypeOK, Lives, Authorities, Jobs, Option, Filled
<1> QED BY <1>1, SessionInvHolds, PTL

\* What was autosaved stays in the recovery file until a save of it succeeds or the
\* operator gives it up (recovery.rs); what a crash left there stays until the next
\* save or autosave of any project, or a Discard.
THEOREM AutosavedWorkIsKept == Spec => []AutosavedWorkKept
<1>1. SessionInv => AutosavedWorkKept
  BY DEF SessionInv, AutosaveSound
<1> QED BY <1>1, SessionInvHolds, PTL

\* The armed save baseline (project_persistence.rs) is of the open project's own
\* file, and of bytes this process has read from it or written to it, unless it was
\* armed from the evidence of a question that had been cancelled or overtaken.
THEOREM BaselineIsCurrent == Spec => []BaselineCurrent
<1>1. SessionInv => BaselineCurrent
  BY DEF SessionInv, BaselineSound, BaselineCurrent
<1> QED BY <1>1, SessionInvHolds, PTL

\* Nothing but the worker takes a running save further.
LEMMA OnlyTheWorker ==
    ASSUME SessionInv, Next, ended = "no", job.kind = "save", job.step = "publish", ~Worker
    PROVE  job' \in {job, NoJob}
<1>1. job # NoJob /\ ~Due
  BY DEF NoJob, Due
<1>2. ASSUME NEW t, NEW l, NEW a, Execute(t, l, a) PROVE job' \in {job, NoJob}
  BY <1>1, <1>2 DEF Execute, NewProject, StartOpen, StartRecover, Gone
<1>3. CASE Operator
  BY <1>1, <1>2, <1>3
     DEF Operator, Request, Cancel, Discard, SaveAndContinue, Edit, Save, DiscardRecovery,
         RestoreBackup, StartOpen, DeclineBackup
<1>4. CASE AfterSave \/ PollJob
  BY <1>1, <1>4
     DEF AfterSave, PollJob, Opened, OpenFailed, Recovered, Saved, NotSaved, Panicked, Reported,
         At
<1>5. CASE MaybeAutosave \/ AutosaveEnds \/ Crash
  BY <1>5 DEF MaybeAutosave, AutosaveEnds, Crash, Gone
<1>6. CASE \E p \in Paths, c \in {None, Old, Foreign, Broken} : Touch(p, c)
  BY <1>6 DEF Touch
<1>7. ASSUME NEW p \in Paths \union {None}, Start(p) PROVE FALSE
  BY <1>7 DEF Start
<1> QED BY <1>3, <1>4, <1>5, <1>6, <1>7 DEF Next

\* One step of the worker replaces only bytes that its process knows.
LEMMA StepLosesNoUpdate ==
    ASSUME SessionInv, Next, NEW p \in Paths, At("save", "publish"), job.path = p,
           disk'[p] # disk[p], job'.step = "accept"
    PROVE  disk[p] \in seen[p] \union {None} \/ slipped \/ misarmed
<1>1. job # NoJob /\ ended = "no" /\ job.step = "publish" /\ job.kind = "save" /\ job \in Jobs
  BY DEF At, NoJob, SessionInv, SessionTypes
<1>2. job' # job
  BY <1>1
<1>3. CASE Worker
  <2>1. CASE Publish
    BY <1>1, <2>1 DEF Publish, SessionInv, GuardSound, Became
  <2> QED BY <1>1, <1>3, <2>1
      DEF Worker, JobFails, Read, ReadRecovered, Classify, VerifyAndBackUp, Accept, At, files
<1>4. CASE ~Worker
  BY <1>1, <1>2, <1>4, OnlyTheWorker DEF NoJob
<1> QED BY <1>3, <1>4

\* save_active_source_project never replaces what another program wrote, but for
\* a write under the guard and a baseline armed by an overtaken question.
THEOREM NoUpdateIsLost == Spec => NoLostUpdate
<1>1. SessionInv /\ [Next]_vars =>
        [\A p \in Paths :
            At("save", "publish") /\ job.path = p /\ disk'[p] # disk[p] /\ job'.step = "accept"
                => disk[p] \in seen[p] \union {None} \/ slipped \/ misarmed]_vars
  BY StepLosesNoUpdate
<1> QED BY <1>1, SessionInvHolds, PTL DEF Spec, NoLostUpdate

\* What the operator sees is a new project, or is in the project's own file.
Kept == editor.doc = Empty \/ (editor.path # None /\ editor.doc \in seen[editor.path])

\* The steps that start no job of this kind, end no process and empty no project.
LEMMA OthersStay ==
    ASSUME SessionInv, ended = "no",
           \/ Cancel \/ SaveAndContinue \/ Edit \/ DiscardRecovery \/ DeclineBackup
           \/ \E saveAs \in BOOLEAN : Save(saveAs)
           \/ PollJob \/ Worker \/ MaybeAutosave \/ AutosaveEnds \/ Crash
           \/ \E p \in Paths, c \in {None, Old, Foreign, Broken} : Touch(p, c)
    PROVE  ~Leaves
<1> USE DEF Leaves
<1>1. CASE Cancel \/ DiscardRecovery \/ DeclineBackup \/ MaybeAutosave \/ AutosaveEnds
  <2>1. UNCHANGED <<editor, job, ended>>
    BY <1>1 DEF Cancel, DiscardRecovery, DeclineBackup, MaybeAutosave, AutosaveEnds
  <2>2. job = NoJob => job.kind = "none"
    BY DEF NoJob
  <2> QED BY <2>1, <2>2
<1>2. CASE SaveAndContinue \/ \E saveAs \in BOOLEAN : Save(saveAs)
  <2>1. UNCHANGED <<editor, ended>>
    BY <1>2 DEF SaveAndContinue, Save
  <2>2. job' = job \/ job'.kind = "save"
    <3>1. \A p : BeginSave(p) => job'.kind = "save"
      BY DEF BeginSave, Launch
    <3>2. CASE SaveAndContinue
      BY <3>1, <3>2 DEF SaveAndContinue
    <3>3. CASE \E saveAs \in BOOLEAN : Save(saveAs)
      BY <3>1, <3>3 DEF Save
    <3> QED BY <1>2, <3>2, <3>3
  <2>3. job = NoJob => job.kind = "none"
    BY DEF NoJob
  <2> QED BY <2>1, <2>2, <2>3
<1>3. CASE Edit
  <2>1. /\ editor'.doc = edits + 1 /\ edits + 1 \in 1..MaxEdits
        /\ UNCHANGED <<job, ended>>
    BY <1>3, SessionAssumption DEF Edit, SessionInv, SessionTypes, SessionAssumption
  <2>2. editor'.doc # Empty
    BY <2>1, NoneApart DEF Filled
  <2>3. job = NoJob => job.kind = "none"
    BY DEF NoJob
  <2> QED BY <2>1, <2>2, <2>3
<1>4. CASE PollJob
  <2>1. job'.kind = "none" /\ ended' = ended
    BY <1>4 DEF PollJob, Opened, OpenFailed, Recovered, Saved, NotSaved, Panicked, Reported,
                NoJob
  <2>2. editor'.doc = editor.doc \/ (editor'.doc = job.doc /\ job.doc \in Filled)
    <3>1. CASE Opened
      BY <3>1 DEF Opened, Reported, At, Blank, SessionInv, JobSound
    <3>2. CASE Recovered
      BY <3>2 DEF Recovered, Reported, At, SessionInv, JobSound
    <3>3. CASE Saved
      <4>1. editor \in [doc: Contents, path: Option(Paths), dirty: BOOLEAN, revision: Nat]
        BY DEF SessionInv, SessionTypes
      <4>2. editor' = [editor EXCEPT !.path = job.path,
                                     !.dirty = @ /\ editor.revision # job.revision]
        BY <3>3 DEF Saved
      <4> QED BY <4>1, <4>2
    <3> QED BY <1>4, <3>1, <3>2, <3>3 DEF PollJob, OpenFailed, NotSaved, Panicked
  <2> QED BY <2>1, <2>2 DEF Filled
<1>5. CASE Worker
  <2>1. job # NoJob /\ UNCHANGED <<editor, ended>>
    BY <1>5 DEF Worker, JobFails, Unfinished, Read, ReadRecovered, Classify, VerifyAndBackUp,
                Publish, Accept, At, NoJob
  <2> QED BY <2>1
<1>6. CASE Crash
  BY <1>6 DEF Crash, Gone, NoJob
<1>7. CASE \E p \in Paths, c \in {None, Old, Foreign, Broken} : Touch(p, c)
  <2>1. UNCHANGED <<editor, job, ended>>
    BY <1>7 DEF Touch
  <2>2. job = NoJob => job.kind = "none"
    BY DEF NoJob
  <2> QED BY <2>1, <2>2
<1> QED BY <1>1, <1>2, <1>3, <1>4, <1>5, <1>6, <1>7

\* Only a question, its answer, a finished save or a restored backup leaves it.
LEMMA StepKeepsEdits ==
    ASSUME SessionInv, Next, Leaves
    PROVE  Kept \/ Discards \/ life.offer # None
<1>1. ended = "no"
  BY DEF Leaves
<1>2. ~editor.dirty => Kept
  BY DEF Kept, SessionInv, EditorSound
<1>3. ASSUME NEW t \in Transitions, Request(t) PROVE Kept
  <2>1. CASE MustAsk
    <3>1. UNCHANGED <<editor, job, ended>> /\ job = NoJob
      BY <1>3, <2>1 DEF Request
    <3> QED BY <3>1 DEF Leaves, NoJob
  <2>2. CASE ~MustAsk
    BY <1>2, <2>2 DEF MustAsk
  <2> QED BY <2>1, <2>2
<1>4. CASE Discard
  <2>1. life.pending # None /\ \E a : Execute(life.pending, Answered, a)
    BY <1>4 DEF Discard
  <2>2. Answered.pending = None /\ Answered \in Lives
    BY DEF Answered, SessionInv, SessionTypes, Lives, Option
  <2>3. life'.pending = None
    <3>1. PICK a : Execute(life.pending, Answered, a)
      BY <2>1
    <3> DEFINE l == Answered
    <3>2. l \in Lives /\ l.pending = None
      BY <2>2
    <3> HIDE DEF l
    <3>3. [l EXCEPT !.pending = None, !.afterSave = None].pending = None
          /\ [l EXCEPT !.offer = None].pending = None /\ Idle.pending = None
      BY <3>2 DEF Lives, Idle
    <3>4. life' \in {[l EXCEPT !.pending = None, !.afterSave = None],
                     [l EXCEPT !.offer = None], l, Idle}
      <4>1. CASE NewProject(Answered, a)
        BY <4>1 DEF NewProject, l
      <4>2. CASE \E p : StartOpen(p, Answered, a)
        BY <4>2 DEF StartOpen, l
      <4>3. CASE StartRecover(Answered, a) \/ Gone
        BY <4>3 DEF StartRecover, Gone, l
      <4> QED BY <3>1, <4>1, <4>2, <4>3 DEF Execute
    <3> QED BY <3>2, <3>3, <3>4
  <2> QED BY <2>1, <2>3 DEF Discards
<1>5. CASE AfterSave
  BY <1>2, <1>5 DEF AfterSave, Due
<1>6. CASE RestoreBackup
  BY <1>6 DEF RestoreBackup
<1>7. ASSUME NEW p \in Paths \union {None}, Start(p) PROVE FALSE
  BY <1>1, <1>7 DEF Start
<1> QED BY <1>1, <1>3, <1>4, <1>5, <1>6, <1>7, OthersStay DEF Next, Operator

\* The project is left only when its content is in its own file, or by an explicit
\* Discard, or for a restored backup (main.rs:3040, project_lifecycle.rs).
THEOREM EditsAreKept == Spec => EditsKept
<1>1. SessionInv /\ [Next]_vars =>
        [Leaves => \/ editor.doc = Empty
                   \/ editor.path # None /\ editor.doc \in seen[editor.path]
                   \/ Discards
                   \/ life.offer # None]_vars
  BY StepKeepsEdits DEF Kept
<1> QED BY <1>1, SessionInvHolds, PTL DEF Spec, EditsKept
=============================================================================
