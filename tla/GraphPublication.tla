-------------------------- MODULE GraphPublication --------------------------
(***************************************************************************)
(* Building a road graph into a replay package: under the package's lock a *)
(* journal is linked, the graph is linked, the manifest is replaced and    *)
(* the journal is moved away, each followed by an fsync.  A builder may be *)
(* killed at any step, a file system call may fail, and the machine may    *)
(* crash and lose what was not synced.  The next build recovers from the   *)
(* journal.                                                                *)
(*                                                                         *)
(* A digest identifies content, an inode number a file; files are synced   *)
(* in a stage directory before they are linked.  One bounding box: a build *)
(* with another is refused before it changes anything.                     *)
(***************************************************************************)
EXTENDS Integers, FiniteSets, Functions

CONSTANTS
    Builders,     \* processes that run the build command
    Outputs,      \* names a graph may be built under
    Digests,      \* contents the retriever may return
    MaxBuilds,    \* bound: graph files ever staged
    MaxFaults,    \* bound: kills, crashes, failed calls and retrievals
    MaxRevision,  \* bound: calls of write_atomic that replace the manifest
    MaxMeddling   \* bound: files put at an output past the lock

ASSUME PublicationAssumption ==
    /\ {MaxBuilds, MaxFaults, MaxRevision, MaxMeddling} \subseteq Nat
    /\ {"foreign", "none"} \cap Digests = {}
    /\ "none" \notin Outputs
    /\ {"free", "writer"} \cap Builders = {}

VARIABLES
    dir,       \* the package directory as processes see it
    disk,      \* what it was when last synced, and since
    lock,      \* holder of .replay-package-write.lock
    build,     \* what each builder is doing
    staged,    \* inodes used so far
    writer,    \* the manifest that the caller of write_atomic has read
    written,   \* revisions written so far: write number n adds revision n
    kept,      \* the revisions whose write_atomic returned
    released,  \* a build returned its output
    faults,    \* faults so far
    meddled    \* meddlings so far

revising == <<writer, written, kept>>
vars == <<dir, disk, lock, build, staged, writer, written, kept, released, faults, meddled>>

NoFile == [ino |-> 0, digest |-> "none"]
Foreign == [ino |-> -1, digest |-> "foreign"]
NoPin == [output |-> "none", digest |-> "none"]
NoJournal == [output |-> "none"]
Free == "free"
Writer == "writer"
Idle == [pc |-> "idle"]

Init ==
    /\ dir = [manifest |-> [revisions |-> {}, pin |-> NoPin],
              graph |-> [o \in Outputs |-> NoFile], journal |-> NoJournal]
    /\ disk = {dir}
    /\ lock = Free
    /\ build = [b \in Builders |-> Idle]
    /\ staged = 0
    /\ writer = dir.manifest
    /\ written = 0
    /\ kept = {}
    /\ released = FALSE
    /\ faults = 0
    /\ meddled = 0

\* A change is seen at once and not yet synced.
Change(new) == dir' = new /\ disk' = disk \cup {new}
NoChange == UNCHANGED <<dir, disk>>

At(b, pc) == build[b].pc = pc
Goto(b, pc) == build' = [build EXCEPT ![b].pc = pc]
WithGraph(manifest, o, file) ==
    [manifest EXCEPT !.pin = [output |-> o, digest |-> file.digest]]

\* The build ends; finish says how, and a failure is told apart from a
\* refusal (a RoadGraphBuildError raised before or instead of a change).
Finish(b, how) ==
    /\ build' = [build EXCEPT ![b] = Idle]
    /\ lock' = Free
    /\ released' = (released \/ how = "ok")

\* A call that raises OSError: nothing changes but that the build ends.
CallFails(b) ==
    /\ faults < MaxFaults
    /\ faults' = faults + 1
    /\ Finish(b, "failed")
    /\ UNCHANGED <<dir, disk, staged, revising, meddled>>

Sync(b, from, to) ==
    /\ At(b, from)
    /\ disk' = {dir}
    /\ Goto(b, to)
    /\ UNCHANGED <<dir, lock, staged, revising, released, faults, meddled>>

-----------------------------------------------------------------------------
(* The start of a build: recovery and preflight *)

\* flock waits for the lock; a build holds it to its end.
Start(b, o) ==
    /\ At(b, "idle")
    /\ lock = Free
    /\ lock' = b
    /\ build' = [build EXCEPT ![b] =
                    [pc |-> "recover", output |-> o, found |-> dir.manifest,
                     base |-> dir.manifest, file |-> NoFile, then |-> "none",
                     retire |-> "stageRetire"]]
    /\ UNCHANGED <<dir, disk, staged, revising, released, faults, meddled>>

\* What _recover_publication makes of the journal, read under the lock.
BaseMatches == dir.manifest = dir.journal.base
OwnsGraph == dir.graph[dir.journal.output] = dir.journal.file

\* Faulty: the journal is not looked at.
NextOfRecoverNone(o) == "preflight"

NextOfRecover(o) ==
    IF dir.journal = NoJournal THEN "preflight"
    ELSE IF dir.journal.output # o THEN "refuse"
    ELSE IF dir.graph[o] = NoFile THEN (IF BaseMatches THEN "stageRetire" ELSE "refuse")
    ELSE IF ~OwnsGraph THEN "refuse"
    ELSE IF BaseMatches THEN "stageCommit"
    ELSE IF dir.manifest = WithGraph(dir.journal.base, o, dir.journal.file) THEN "stageRetire"
    ELSE "refuse"

Recover(b) ==
    /\ At(b, "recover")
    /\ LET o == build[b].output
           step == NextOfRecover(o)
           fresh == dir.graph[o] = NoFile
       IN build' = [build EXCEPT
             ![b].pc = step,
             ![b].then = IF fresh THEN "preflight" ELSE "ok",
             ![b].file = IF step = "stageCommit" THEN dir.journal.file ELSE @]
    /\ UNCHANGED <<dir, disk, lock, staged, revising, released, faults, meddled>>

\* Faulty: the directory of the stage is not synced.
StageLate(b) ==
    /\ At(b, "stageCommit") \/ At(b, "stageRetire")
    /\ Goto(b, IF At(b, "stageCommit") THEN "check" ELSE "retire")
    /\ UNCHANGED <<dir, disk, lock, staged, revising, released, faults, meddled>>

\* A recovery makes a stage of its own to commit from or to retire into,
\* which syncs whatever the build before it left unsynced.
Stage(b) == Sync(b, "stageCommit", "check") \/ Sync(b, "stageRetire", "retire")

\* The error is raised with the journal, if any, left for a later build.
Refuse(b) ==
    /\ At(b, "refuse")
    /\ Finish(b, "refused")
    /\ UNCHANGED <<dir, disk, staged, revising, faults, meddled>>

\* The output must not exist and the manifest must not pin a graph.
Preflight(b) ==
    /\ At(b, "preflight")
    /\ IF dir.graph[build[b].output] # NoFile \/ dir.manifest.pin # NoPin
       THEN Goto(b, "refuse")
       ELSE build' = [build EXCEPT ![b].pc = "retrieve", ![b].base = dir.manifest,
                                   ![b].retire = "retire"]
    /\ UNCHANGED <<dir, disk, lock, staged, revising, released, faults, meddled>>

-----------------------------------------------------------------------------
(* Publication *)

\* The stage is made, which syncs the package, and holds the graph and the
\* journal; the manifest must be the base still.  Linking the journal follows
\* at once: nothing reads it past the lock.
Retrieve(b) ==
    /\ At(b, "retrieve")
    /\ staged < MaxBuilds
    /\ staged' = staged + 1
    /\ IF dir.manifest # build[b].base THEN Goto(b, "refuse") /\ NoChange
       ELSE \E digest \in Digests :
            LET file == [ino |-> staged', digest |-> digest]
            IN /\ build' = [build EXCEPT ![b].pc = "syncJournal", ![b].file = file,
                                         ![b].then = "ok"]
               /\ dir' = [dir EXCEPT !.journal =
                            [output |-> build[b].output, file |-> file,
                             base |-> build[b].base]]
               /\ disk' = {dir, dir'}
    /\ UNCHANGED <<lock, revising, released, faults, meddled>>

\* Faulty: the journal is not synced before the graph is linked.
SyncJournalLate(b) ==
    /\ At(b, "syncJournal")
    /\ Goto(b, "linkGraph")
    /\ UNCHANGED <<dir, disk, lock, staged, revising, released, faults, meddled>>

SyncJournal(b) == Sync(b, "syncJournal", "linkGraph")

\* link() never replaces an existing entry; when it fails, for that or another
\* reason, the journal is taken back.
LinkGraph(b) ==
    /\ At(b, "linkGraph")
    /\ \/ /\ dir.graph[build[b].output] = NoFile
          /\ Change([dir EXCEPT !.graph[build[b].output] = build[b].file])
          /\ Goto(b, "syncGraph")
          /\ UNCHANGED faults
       \/ /\ IF dir.graph[build[b].output] # NoFile THEN UNCHANGED faults
             ELSE faults < MaxFaults /\ faults' = faults + 1
          /\ build' = [build EXCEPT ![b].pc = build[b].retire, ![b].then = "refuse"]
          /\ NoChange
    /\ UNCHANGED <<lock, staged, revising, released, meddled>>

SyncGraph(b) == Sync(b, "syncGraph", "check")

-----------------------------------------------------------------------------
(* _commit_manifest *)

GraphInPlace(b) == dir.graph[build[b].output] = build[b].file

Published(b) == WithGraph(build[b].base, build[b].output, build[b].file)

Check(b) ==
    /\ At(b, "check")
    /\ IF dir.manifest = build[b].base /\ GraphInPlace(b) THEN Goto(b, "replace")
       ELSE build' = [build EXCEPT ![b].pc = build[b].retire, ![b].then = "refuse"]
    /\ UNCHANGED <<dir, disk, lock, staged, revising, released, faults, meddled>>

Replace(b) ==
    /\ At(b, "replace")
    /\ Change([dir EXCEPT !.manifest = Published(b)])
    /\ Goto(b, "syncManifest")
    /\ UNCHANGED <<lock, staged, revising, released, faults, meddled>>

SyncManifest(b) == Sync(b, "syncManifest", "verify")

\* The manifest that was replaced is put back if the graph is not the one
\* that was linked.
Verify(b) ==
    /\ At(b, "verify")
    /\ build' = IF GraphInPlace(b)
                THEN [build EXCEPT ![b].pc = build[b].retire, ![b].then = "ok"]
                ELSE [build EXCEPT ![b].pc = "rollBack"]
    /\ UNCHANGED <<dir, disk, lock, staged, revising, released, faults, meddled>>

RollBack(b) ==
    /\ At(b, "rollBack")
    /\ Change([dir EXCEPT !.manifest = build[b].base])
    /\ build' = [build EXCEPT ![b].pc = "syncRollBack", ![b].then = "refuse"]
    /\ UNCHANGED <<lock, staged, revising, released, faults, meddled>>

SyncRollBack(b) == Sync(b, "syncRollBack", build[b].retire)

\* The journal is moved out of the package, synced in the next step.
Retire(b) ==
    /\ At(b, "retire")
    /\ Change([dir EXCEPT !.journal = NoJournal])
    /\ Goto(b, "syncRetired")
    /\ UNCHANGED <<lock, staged, revising, released, faults, meddled>>

SyncRetired(b) ==
    /\ At(b, "syncRetired")
    /\ disk' = {dir}
    /\ IF build[b].then = "ok" THEN Finish(b, "ok")
       ELSE Goto(b, build[b].then) /\ UNCHANGED <<lock, released>>
    /\ UNCHANGED <<dir, staged, revising, faults, meddled>>

-----------------------------------------------------------------------------
(* Another writer, faults and meddling *)

\* A caller of write_atomic reads the manifest without the lock.
ReadManifest ==
    /\ writer # dir.manifest
    /\ writer' = dir.manifest
    /\ UNCHANGED <<dir, disk, lock, build, staged, written, kept, released, faults, meddled>>

Revise ==
    /\ written < MaxRevision
    /\ written' = written + 1
    /\ Change([dir EXCEPT !.manifest = [writer EXCEPT !.revisions = @ \cup {written'}]])
    /\ lock' = Writer
    /\ UNCHANGED <<build, staged, writer, kept, released, faults, meddled>>

\* Faulty: the manifest is replaced whatever it is by now.
WriteBlindly == lock = Free /\ Revise

\* write_atomic, under the lock: only over what its caller has read.
WriteAtomic == lock = Free /\ dir.manifest = writer /\ Revise

\* It syncs the directory, releases the lock and returns.
SyncWrite ==
    /\ lock = Writer
    /\ disk' = {dir}
    /\ lock' = Free
    /\ kept' = kept \cup {written}
    /\ UNCHANGED <<dir, build, staged, writer, written, released, faults, meddled>>

\* It is killed, or its fsync fails, with the manifest replaced.
WriterDies ==
    /\ lock = Writer
    /\ faults < MaxFaults
    /\ faults' = faults + 1
    /\ lock' = Free
    /\ UNCHANGED <<dir, disk, build, staged, revising, released, meddled>>

\* A kill at any step, or a call or the retriever failing in it: the lock
\* is released and the directory stays as it is.
Die(b) == build[b] # Idle /\ CallFails(b)

\* Every entry as it is in one of the unsynced states, each for itself.
Mixed ==
    {[manifest |-> d.manifest, journal |-> e.journal, graph |-> graph] :
        d \in disk, e \in disk,
        graph \in {g \in [Outputs -> UNION {Range(d.graph) : d \in disk}] :
                     \A o \in Outputs : \E d \in disk : g[o] = d.graph[o]}}

\* The machine stops; of what was not synced, any part is lost.
MachineCrash ==
    /\ faults < MaxFaults
    /\ faults' = faults + 1
    /\ dir' \in Mixed
    /\ disk' = {dir'}
    /\ build' = [b \in Builders |-> Idle]
    /\ lock' = Free
    /\ UNCHANGED <<staged, revising, released, meddled>>

\* Somebody puts a file of his own at an output, without the lock.
Meddle(o) ==
    /\ meddled < MaxMeddling
    /\ meddled' = meddled + 1
    /\ dir' = [dir EXCEPT !.graph[o] = Foreign]
    /\ disk' = {[d EXCEPT !.graph[o] = Foreign] : d \in disk}
    /\ UNCHANGED <<lock, build, staged, revising, released, faults>>

Step(b) ==
    \/ Recover(b) \/ Stage(b) \/ Refuse(b) \/ Preflight(b) \/ Retrieve(b) \/ SyncJournal(b)
    \/ LinkGraph(b) \/ SyncGraph(b) \/ Check(b) \/ Replace(b) \/ SyncManifest(b)
    \/ Verify(b) \/ RollBack(b) \/ SyncRollBack(b) \/ Retire(b) \/ SyncRetired(b)

Next ==
    \/ \E b \in Builders : Step(b) \/ Die(b) \/ \E o \in Outputs : Start(b, o)
    \/ ReadManifest
    \/ WriteAtomic \/ SyncWrite \/ WriterDies
    \/ MachineCrash
    \/ \E o \in Outputs : Meddle(o)

Spec == Init /\ [][Next]_vars

\* A build that was interrupted is run again for its output, and a run, or a
\* write, goes on unless it is killed.
FairSpec ==
    /\ Spec
    /\ \A b \in Builders : WF_vars(Step(b))
    /\ WF_vars(SyncWrite)
    /\ \A o \in Outputs : SF_vars(\E b \in Builders : Start(b, o))

-----------------------------------------------------------------------------
(* Properties *)

Pinned(d) == d.manifest.pin # NoPin

File == [ino : 1..MaxBuilds, digest : Digests]
Manifest == [revisions : SUBSET (1..MaxRevision),
             pin : {NoPin} \cup [output : Outputs, digest : Digests]]
Journal == [output : Outputs, file : File, base : Manifest]
Directory == [manifest : Manifest, graph : [Outputs -> {NoFile, Foreign} \cup File],
              journal : {NoJournal} \cup Journal]
Phases == {"recover", "stageCommit", "stageRetire", "refuse", "preflight", "retrieve",
           "syncJournal", "linkGraph", "syncGraph", "check", "replace", "syncManifest",
           "verify", "rollBack", "syncRollBack", "retire", "syncRetired"}
Job == [pc : Phases, output : Outputs, found : Manifest, base : Manifest,
        file : {NoFile} \cup File, then : {"none", "preflight", "ok", "refuse"},
        retire : {"stageRetire", "retire"}]

TypeOK ==
    /\ dir \in disk
    /\ disk \subseteq Directory
    /\ lock \in Builders \cup {Free, Writer}
    /\ build \in [Builders -> {Idle} \cup Job]
    /\ \A b \in Builders : build[b] # Idle <=> lock = b
    /\ writer \in Manifest
    /\ written \in 0..MaxRevision
    /\ kept \subseteq 1..written
    /\ released \in BOOLEAN
    /\ staged \in 0..MaxBuilds /\ faults \in 0..MaxFaults /\ meddled \in 0..MaxMeddling

\* A crash leaves the graph files, the journal and the pin as they were together
\* at one moment, however often builds and writers were killed: builds sync each
\* link, replace and move before the next.  Only other writers' revisions of
\* the manifest may be from another moment, for write_atomic
\* replaces the manifest before it syncs what it found.
CrashLeavesAPast ==
    \A d \in Mixed : \E e \in disk :
        d.graph = e.graph /\ d.journal = e.journal /\ d.manifest.pin = e.manifest.pin

\* A revision whose write_atomic returned survives every crash.
ReturnedWritesStay == \A d \in Mixed : kept \subseteq d.manifest.revisions

\* A graph file that no manifest pins is one the journal knows, whatever
\* was killed or crashed, so that a later build does not fail for ever on
\* an output that already exists (_publish_graph_and_manifest).
NeverStranded ==
    meddled = 0 => \A d \in Mixed : \A o \in Outputs :
        d.graph[o] # NoFile /\ d.manifest.pin.output # o =>
            d.journal # NoJournal /\ d.journal.output = o /\ d.journal.file = d.graph[o]

\* What a loader makes of the manifest and the file it pins.
Shown ==
    LET pin == dir.manifest.pin
    IN IF meddled > 0 THEN "tampered"
       ELSE IF pin = NoPin THEN "plain"
       ELSE IF dir.graph[pin.output].digest = pin.digest THEN "extended" ELSE "corrupt"

Release == INSTANCE PackageRelease WITH shown <- Shown

\* The package always reads as one without or with the whole graph, and
\* reported success outlives a crash (build_road_graph).
ImplementsRelease == Release!Spec

\* The two writers of the manifest never lose each other's work: but for a
\* crash no revision is taken back, and no pin but for a crash or a graph that
\* others replaced (write_atomic, replay_package_writer).
WorkKept ==
    [][MachineCrash \/
        /\ dir.manifest.revisions \subseteq dir'.manifest.revisions
        /\ Pinned(dir) /\ ~Pinned(dir') => meddled > 0]_vars

\* A file somebody else put at an output is left there (os.link).
ForeignKept ==
    [][\A o \in Outputs : dir.graph[o] = Foreign => dir'.graph[o] = Foreign]_vars

\* A build that ends refused leaves the manifest as it found it, even when
\* the graph was replaced in the middle of its commit (_commit_manifest).
RefusalRestores ==
    \A b \in Builders : At(b, "refuse") => dir.manifest = build[b].found

\* Once faults stop, building again and again ends with the graph in the
\* manifest (_recover_publication), unless somebody else wrote into the package:
\* a journal whose base is gone is refused for ever.
EventuallyPinned == <>[](Pinned(dir) \/ dir.manifest.revisions # {} \/ meddled > 0)

\* No state a crash leaves is a dead end or mixes what a build has done, it
\* has every revision that was reported, and a refusal leaves none of its own.
FilesSound ==
    TypeOK /\ CrashLeavesAPast /\ ReturnedWritesStay /\ NeverStranded /\ RefusalRestores

\* Nobody's files or revisions are lost to another.
NothingLost == WorkKept /\ ForeignKept
=============================================================================
