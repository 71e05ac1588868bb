----------------------- MODULE GraphPublicationProofs -----------------------
(***************************************************************************)
(* Crash consistency of the graph's publication, for any number of         *)
(* builders, outputs, graph files, faults and revisions: what is synced,   *)
(* what the journal knows and how far the holder of the lock has come      *)
(* always fit together, so that every state of the files, and whatever a   *)
(* crash leaves of it, is one that the next build can go on from.          *)
(***************************************************************************)
EXTENDS GraphPublication, TLAPS

-----------------------------------------------------------------------------
(* The inductive invariant *)

\* But for the revisions of the manifest, the package directory differs in one
\* entry at most from what is synced.
OneUnsynced ==
    \/ \A d, e \in disk : d.journal = e.journal /\ d.graph = e.graph
    \/ \A d, e \in disk : d.manifest.pin = e.manifest.pin /\ d.graph = e.graph
    \/ /\ \A d, e \in disk : d.manifest.pin = e.manifest.pin /\ d.journal = e.journal
       /\ \E o \in Outputs : \A d, e \in disk :
             \A other \in Outputs \ {o} : d.graph[other] = e.graph[other]

\* A crash takes no file back that somebody else put there.
Alike(d, e) == \A o \in Outputs : d.graph[o] = Foreign => e.graph[o] = Foreign

\* No write that returned is missing.
KeepsWrites(d) == kept \subseteq d.manifest.revisions

\* A build only starts from a manifest without a graph.
BasePlain(d) == d.journal # NoJournal => d.journal.base.pin = NoPin

\* A file is pinned or known to the journal, and the pinned one is the one
\* that was built.
Consistent(d) ==
    /\ \A o \in Outputs :
          d.graph[o] # NoFile /\ d.manifest.pin.output # o =>
             d.journal # NoJournal /\ d.journal.output = o /\ d.journal.file = d.graph[o]
    /\ Pinned(d) => d.graph[d.manifest.pin.output].digest = d.manifest.pin.digest

FilesFit ==
    /\ OneUnsynced
    /\ \A d, e \in disk : Alike(d, e)
    /\ \A d \in disk : BasePlain(d) /\ KeepsWrites(d)
    /\ meddled = 0 => \A d \in disk : Consistent(d) /\ (released => Pinned(d))

\* How far a build has come.
Committing == {"stageCommit", "check", "replace", "syncManifest", "verify"}
Building == {"syncJournal", "linkGraph", "syncGraph"}
Undoing == {"rollBack", "syncRollBack"}
Retiring == {"stageRetire", "retire"}
Ending(w) == w.pc \in Retiring \cup {"syncRetired"}

\* What the holder's job w knows of the directory d, whose synced states are K.
Follows(w, d, K) ==
    /\ w.pc \in {"linkGraph", "check", "replace", "verify", "rollBack", "retire"} => K = {d}
    /\ w.base = w.found
    /\ w.pc \notin {"syncManifest", "verify", "rollBack"} /\ ~(Ending(w) /\ w.then = "ok")
          => d.manifest = w.found
    /\ w.pc \in {"syncManifest", "verify", "rollBack"}
          => d.manifest = WithGraph(w.base, w.output, w.file)
    /\ w.pc \in {"preflight", "retrieve", "syncRetired"} => d.journal = NoJournal
    /\ w.pc \in Building \cup Committing \cup Undoing \cup Retiring
          => d.journal # NoJournal /\ d.journal.output = w.output
    /\ w.pc \in Building \cup Committing => w.file = d.journal.file /\ w.file \in File
    /\ w.pc \in Building \cup Committing \cup {"retrieve"} => w.base.pin = NoPin
    /\ w.pc = "syncRollBack" => w.then = "refuse"
    /\ Ending(w) => w.then # "none"

\* The same as long as nobody puts files of his own into the package.
Unspoilt(w, d) ==
    /\ w.pc \in {"retrieve", "syncJournal", "linkGraph"} => d.graph[w.output] = NoFile
    /\ w.pc \in Committing \cup {"syncGraph"} => d.graph[w.output] = w.file
    /\ w.pc \notin Undoing
    /\ Ending(w) => /\ w.then = "ok" => Pinned(d) /\ d.manifest.pin.output = w.output
                    /\ w.then # "ok" => d.graph[w.output] = NoFile

JobsFit ==
    \A b \in Builders : build[b] # Idle =>
        Follows(build[b], dir, disk) /\ (meddled = 0 => Unspoilt(build[b], dir))

\* Whoever replaces the manifest has put his revision there.
WriteFits == lock = Writer => written \in 1 .. MaxRevision /\ written \in dir.manifest.revisions

Inv == TypeOK /\ FilesFit /\ JobsFit /\ WriteFits

-----------------------------------------------------------------------------
(* Absent things, and what a crash can leave *)

\* What stands for nothing is none of the things it may be taken for.
LEMMA Absent ==
    /\ NoJournal \notin Journal
    /\ Idle \notin Job
    /\ NoFile \notin File /\ Foreign \notin File /\ NoFile # Foreign
    /\ NoPin \notin [output : Outputs, digest : Digests]
<1>1. NoJournal \notin Journal
  BY DEF NoJournal, Journal
<1>2. Idle \notin Job
  BY DEF Idle, Job
<1>3. NoFile \notin File /\ Foreign \notin File /\ NoFile # Foreign
  BY DEF NoFile, Foreign, File
<1>4. NoPin \notin [output : Outputs, digest : Digests]
  BY PublicationAssumption DEF NoPin
<1>5. QED
  BY <1>1, <1>2, <1>3, <1>4

\* With one entry unsynced, a crash keeps graph, journal and pin of one moment.
LEMMA CrashIsPast ==
    ASSUME disk \subseteq Directory, OneUnsynced
    PROVE  CrashLeavesAPast
<1> SUFFICES ASSUME NEW crashed \in Mixed
             PROVE  \E k \in disk : /\ crashed.graph = k.graph /\ crashed.journal = k.journal
                                    /\ crashed.manifest.pin = k.manifest.pin
  BY DEF CrashLeavesAPast
<1> PICK d \in disk, e \in disk, graph \in [Outputs -> UNION {Range(k.graph) : k \in disk}] :
       /\ crashed = [manifest |-> d.manifest, journal |-> e.journal, graph |-> graph]
       /\ \A o \in Outputs : \E k \in disk : graph[o] = k.graph[o]
  BY DEF Mixed
<1> /\ crashed.graph = graph /\ crashed.journal = e.journal
    /\ crashed.manifest = d.manifest
  OBVIOUS
<1>1. ASSUME NEW k \in disk, \A o \in Outputs : k.graph[o] = graph[o]
      PROVE  graph = k.graph
  BY <1>1 DEF Directory
<1>2. CASE \A k, l \in disk : k.journal = l.journal /\ k.graph = l.graph
  BY <1>1, <1>2
<1>3. CASE \A k, l \in disk : k.manifest.pin = l.manifest.pin /\ k.graph = l.graph
  BY <1>1, <1>3
<1>4. CASE /\ \A k, l \in disk : k.manifest.pin = l.manifest.pin /\ k.journal = l.journal
           /\ \E o \in Outputs : \A k, l \in disk :
                 \A other \in Outputs \ {o} : k.graph[other] = l.graph[other]
  <2>1. PICK o \in Outputs : \A k, l \in disk :
           \A other \in Outputs \ {o} : k.graph[other] = l.graph[other]
    BY <1>4
  <2>2. PICK k \in disk : graph[o] = k.graph[o]
    OBVIOUS
  <2>3. \A other \in Outputs : k.graph[other] = graph[other]
    BY <2>1, <2>2
  <2>4. QED
    BY <1>1, <1>4, <2>3
<1>5. QED
  BY <1>2, <1>3, <1>4 DEF OneUnsynced

\* What a crash leaves is made of entries that were there.
LEMMA MixedIs ==
    ASSUME NEW d \in Mixed
    PROVE  /\ \E e \in disk : d.manifest = e.manifest
           /\ \E e \in disk : d.journal = e.journal
           /\ \A o \in Outputs : \E e \in disk : d.graph[o] = e.graph[o]
BY DEF Mixed

\* A crash leaves a directory.
LEMMA MixedIsDirectory ==
    ASSUME disk \subseteq Directory, NEW d \in Mixed
    PROVE  d \in Directory
<1>1. PICK k \in disk, l \in disk, graph \in [Outputs -> UNION {Range(e.graph) : e \in disk}] :
         /\ d = [manifest |-> k.manifest, journal |-> l.journal, graph |-> graph]
         /\ \A o \in Outputs : \E e \in disk : graph[o] = e.graph[o]
  BY DEF Mixed
<1>2. k \in Directory /\ l \in Directory
  OBVIOUS
<1>3. graph \in [Outputs -> {NoFile, Foreign} \cup File]
  <2>1. ASSUME NEW o \in Outputs PROVE graph[o] \in {NoFile, Foreign} \cup File
    <3>1. PICK e \in disk : graph[o] = e.graph[o]
      BY <1>1
    <3>2. QED
      BY <3>1 DEF Directory
  <2>2. QED
    BY <1>1, <2>1
<1>4. QED
  BY <1>1, <1>2, <1>3 DEF Directory

-----------------------------------------------------------------------------
(* How steps move the files *)

\* One of the synced states becomes the only one.
LEMMA SyncedFit ==
    ASSUME FilesFit, dir' \in disk, disk' = {dir'}, meddled' = meddled,
           kept' = kept \/ kept' \subseteq dir'.manifest.revisions,
           meddled = 0 /\ released' => released \/ Pinned(dir')
    PROVE  FilesFit'
BY DEF FilesFit, OneUnsynced, KeepsWrites

\* One entry of a synced directory changes.
LEMMA ChangedFit ==
    ASSUME FilesFit, dir \in disk, disk' = {dir, dir'}, UNCHANGED <<kept, released, meddled>>,
           \/ dir'.journal = dir.journal /\ dir'.graph = dir.graph
           \/ dir'.manifest = dir.manifest /\ dir'.graph = dir.graph
           \/ /\ dir'.manifest = dir.manifest /\ dir'.journal = dir.journal
              /\ \E o \in Outputs : \A other \in Outputs \ {o} :
                    dir'.graph[other] = dir.graph[other],
           dir'.manifest.revisions = dir.manifest.revisions,
           Alike(dir, dir'), Alike(dir', dir), BasePlain(dir'),
           meddled = 0 => Consistent(dir') /\ (released => Pinned(dir'))
    PROVE  FilesFit'
<1>1. OneUnsynced'
  BY DEF OneUnsynced
<1>2. \A d, e \in disk' : Alike(d, e)
  BY DEF FilesFit, Alike
<1>3. \A d \in disk' : BasePlain(d) /\ KeepsWrites(d)'
  BY DEF FilesFit, KeepsWrites
<1>4. meddled' = 0 => \A d \in disk' : Consistent(d) /\ (released' => Pinned(d))
  BY DEF FilesFit
<1>5. QED
  BY <1>1, <1>2, <1>3, <1>4 DEF FilesFit, KeepsWrites

\* Only the holder of the lock has a job, and it is w from now on.
LEMMA HolderInv ==
    ASSUME Inv, NEW b \in Builders, NEW w \in Job,
           lock \in {b, Free}, lock' = b, build' = [build EXCEPT ![b] = w],
           dir' \in disk', disk' \subseteq Directory,
           UNCHANGED <<revising, meddled>>, faults' \in 0 .. MaxFaults,
           staged' \in 0 .. MaxBuilds, released' \in BOOLEAN,
           FilesFit',
           Follows(w, dir', disk'), meddled = 0 => Unspoilt(w, dir')
    PROVE  Inv'
<1>1. build \in [Builders -> {Idle} \cup Job]
  BY DEF Inv, TypeOK
<1>2. build' \in [Builders -> {Idle} \cup Job] /\ build'[b] = w
  BY <1>1
<1>3. b # Free /\ b # Writer /\ w # Idle
  BY PublicationAssumption, Absent DEF Free, Writer
<1>4. ASSUME NEW c \in Builders, c # b
      PROVE  build'[c] = Idle
  BY <1>1, <1>3, <1>4, PublicationAssumption DEF Inv, TypeOK, Free
<1>5. TypeOK'
  BY <1>2, <1>3, <1>4 DEF Inv, TypeOK, revising
<1>6. JobsFit' /\ WriteFits'
  BY <1>2, <1>3, <1>4 DEF JobsFit, WriteFits
<1>7. QED
  BY <1>5, <1>6 DEF Inv

\* Nobody has a job while the lock is free or with the other writer.
LEMMA FreeInv ==
    ASSUME TypeOK, lock' \in {Free, Writer}, \A b \in Builders : build'[b] = Idle,
           build' \in [Builders -> {Idle} \cup Job],
           dir' \in disk', disk' \subseteq Directory,
           writer' \in Manifest, released' \in BOOLEAN, staged' \in 0 .. MaxBuilds,
           written' \in 0 .. MaxRevision, kept' \subseteq 1 .. written',
           faults' \in 0 .. MaxFaults, meddled' \in 0 .. MaxMeddling,
           FilesFit', WriteFits'
    PROVE  Inv'
<1>1. \A b \in Builders : b # Free /\ b # Writer
  BY PublicationAssumption DEF Free, Writer
<1>2. TypeOK'
  BY <1>1 DEF TypeOK
<1>3. JobsFit'
  BY DEF JobsFit
<1>4. QED
  BY <1>2, <1>3 DEF Inv

\* The job that goes on to pc.
LEMMA Gone ==
    ASSUME TypeOK, NEW b \in Builders, build[b] # Idle, NEW pc \in Phases, Goto(b, pc)
    PROVE  \E w \in Job : /\ build' = [build EXCEPT ![b] = w]
                          /\ w = [build[b] EXCEPT !.pc = pc]
                          /\ w.pc = pc /\ w.output = build[b].output /\ w.found = build[b].found
                          /\ w.base = build[b].base /\ w.file = build[b].file
                          /\ w.then = build[b].then /\ w.retire = build[b].retire
<1>1. build \in [Builders -> {Idle} \cup Job] /\ build[b] \in Job
  BY DEF TypeOK
<1> DEFINE w == [build[b] EXCEPT !.pc = pc]
<1>2. /\ w \in Job
      /\ w.pc = pc /\ w.output = build[b].output /\ w.found = build[b].found
      /\ w.base = build[b].base /\ w.file = build[b].file
      /\ w.then = build[b].then /\ w.retire = build[b].retire
  BY <1>1 DEF Job
<1>3. build' = [build EXCEPT ![b] = w]
  BY <1>1 DEF Goto
<1>4. QED
  BY <1>2, <1>3

\* The job of a builder that does something.
LEMMA JobIs ==
    ASSUME Inv, NEW b \in Builders, NEW pc, pc # "idle", At(b, pc)
    PROVE  /\ build[b] \in Job /\ build[b] # Idle /\ build[b].pc = pc
           /\ lock = b
           /\ build \in [Builders -> {Idle} \cup Job]
           /\ dir \in Directory /\ dir \in disk
           /\ Follows(build[b], dir, disk)
           /\ meddled = 0 => Unspoilt(build[b], dir)
<1>1. build[b] # Idle
  BY DEF At, Idle
<1>2. QED
  BY <1>1 DEF At, Inv, TypeOK, JobsFit

-----------------------------------------------------------------------------
(* One lemma per operation: the start of a build                           *)

\* Nothing happens to the files.
LEMMA SameFit ==
    ASSUME FilesFit, UNCHANGED <<dir, disk, kept, released, meddled>>
    PROVE  FilesFit'
BY DEF FilesFit, OneUnsynced, KeepsWrites

\* The holder goes on to w and touches nothing.
LEMMA QuietInv ==
    ASSUME Inv, NEW b \in Builders, NEW w \in Job,
           lock \in {b, Free}, lock' = b, build' = [build EXCEPT ![b] = w],
           UNCHANGED <<dir, disk, staged, revising, released, meddled>>,
           faults' \in {faults} \cup 0 .. MaxFaults,
           Follows(w, dir, disk), meddled = 0 => Unspoilt(w, dir)
    PROVE  Inv'
<1>1. FilesFit'
  BY SameFit DEF Inv, revising
<1>2. Follows(w, dir', disk') /\ (meddled = 0 => Unspoilt(w, dir'))
  OBVIOUS
<1>3. /\ dir' \in disk' /\ disk' \subseteq Directory /\ faults' \in 0 .. MaxFaults
      /\ staged' \in 0 .. MaxBuilds /\ released' \in BOOLEAN
  BY DEF Inv, TypeOK
<1>4. QED
  BY <1>1, <1>2, <1>3, HolderInv

\* A build takes the lock and remembers the manifest it finds.
LEMMA StartInv ==
    ASSUME Inv, NEW b \in Builders, NEW o \in Outputs, Start(b, o)
    PROVE  Inv'
<1>1. dir.manifest \in Manifest /\ build \in [Builders -> {Idle} \cup Job]
  BY DEF Inv, TypeOK, Directory
<1>2. PICK w : w = [pc |-> "recover", output |-> o, found |-> dir.manifest,
                    base |-> dir.manifest, file |-> NoFile, then |-> "none",
                    retire |-> "stageRetire"]
  OBVIOUS
<1>3. w \in Job
  BY <1>1, <1>2 DEF Job, Phases
<1>4. Follows(w, dir, disk) /\ Unspoilt(w, dir)
  BY <1>2 DEF Follows, Unspoilt, Building, Committing, Undoing, Retiring, Ending
<1>5. build' = [build EXCEPT ![b] = w] /\ lock = Free /\ lock' = b
  BY <1>2 DEF Start
<1>6. QED
  BY <1>3, <1>4, <1>5, QuietInv DEF Start

\* The journal tells where an interrupted build is taken up.
LEMMA RecoverInv ==
    ASSUME Inv, NEW b \in Builders, Recover(b)
    PROVE  Inv'
<1> DEFINE o == build[b].output
           step == NextOfRecover(o)
           fresh == dir.graph[o] = NoFile
<1>1. /\ build[b] \in Job /\ build[b].pc = "recover" /\ lock = b
      /\ dir \in Directory /\ dir \in disk
      /\ build \in [Builders -> {Idle} \cup Job]
      /\ Follows(build[b], dir, disk)
  BY JobIs DEF Recover
<1>2. step \in {"preflight", "refuse", "stageRetire", "stageCommit"}
  BY DEF NextOfRecover
<1>3. PICK w : w = [build[b] EXCEPT !.pc = step,
                                    !.then = IF fresh THEN "preflight" ELSE "ok",
                                    !.file = IF step = "stageCommit" THEN dir.journal.file ELSE @]
  OBVIOUS
<1>4. /\ w.pc = step /\ w.then = (IF fresh THEN "preflight" ELSE "ok")
      /\ w.file = IF step = "stageCommit" THEN dir.journal.file ELSE build[b].file
      /\ w.output = o /\ w.found = build[b].found /\ w.base = build[b].base
      /\ w.retire = build[b].retire
  BY <1>1, <1>3 DEF Job
<1>5. /\ step = "preflight" => dir.journal = NoJournal
      /\ step \in {"stageRetire", "stageCommit"} =>
            dir.journal # NoJournal /\ dir.journal.output = o
      /\ step = "stageCommit" =>
            ~fresh /\ dir.graph[o] = dir.journal.file /\ dir.manifest = dir.journal.base
      /\ step = "stageRetire" =>
            fresh \/ dir.manifest = WithGraph(dir.journal.base, o, dir.journal.file)
  BY DEF NextOfRecover, BaseMatches, OwnsGraph
<1>6. dir.journal # NoJournal => dir.journal \in Journal /\ dir.journal.base.pin = NoPin
  BY <1>1 DEF Directory, Inv, FilesFit, BasePlain
<1>7. w \in Job
  <2>1. w.file \in {NoFile} \cup File
    BY <1>1, <1>4, <1>5, <1>6 DEF Job, Journal
  <2>2. w = [build[b] EXCEPT !.pc = w.pc, !.then = w.then, !.file = w.file]
    BY <1>1, <1>3, <1>4 DEF Job
  <2>3. w.pc \in Phases /\ w.then \in {"none", "preflight", "ok", "refuse"}
    BY <1>2, <1>4 DEF Phases
  <2>4. QED
    BY <1>1, <2>1, <2>2, <2>3 DEF Job
<1>8. dir.manifest = build[b].found /\ build[b].base = build[b].found
  BY <1>1 DEF Follows, Ending, Retiring
<1>9. step = "stageCommit" => w.file \in File /\ w.base.pin = NoPin
  BY <1>4, <1>5, <1>6, <1>8 DEF Journal
<1>10. Follows(w, dir, disk)
  BY <1>2, <1>4, <1>5, <1>8, <1>9
     DEF Follows, Building, Committing, Undoing, Retiring, Ending
<1>11. step = "stageRetire" /\ ~fresh => Pinned(dir) /\ dir.manifest.pin.output = o
  <2>1. SUFFICES ASSUME dir.manifest = WithGraph(dir.journal.base, o, dir.journal.file),
                        dir.journal \in Journal
                 PROVE  Pinned(dir) /\ dir.manifest.pin.output = o
    BY <1>5, <1>6
  <2>2. dir.manifest.pin = [output |-> o, digest |-> dir.journal.file.digest]
    BY <2>1 DEF WithGraph, Journal, Manifest
  <2>3. o \in Outputs
    BY <1>1 DEF Job
  <2>4. QED
    BY <2>2, <2>3, PublicationAssumption DEF Pinned, NoPin
<1>12. Unspoilt(w, dir)
  BY <1>2, <1>4, <1>5, <1>11 DEF Unspoilt, Committing, Undoing, Retiring, Ending
<1>13. build' = [build EXCEPT ![b] = w] /\ lock' = b
  BY <1>1, <1>3 DEF Recover
<1>14. QED
  BY <1>1, <1>7, <1>10, <1>12, <1>13, QuietInv DEF Recover

\* The preflight lets nothing pass but a package without a graph.
LEMMA PreflightInv ==
    ASSUME Inv, NEW b \in Builders, Preflight(b)
    PROVE  Inv'
<1>1. /\ build[b] \in Job /\ build[b] # Idle /\ build[b].pc = "preflight" /\ lock = b
      /\ dir \in Directory /\ dir \in disk
      /\ build \in [Builders -> {Idle} \cup Job]
      /\ Follows(build[b], dir, disk)
  BY JobIs DEF Preflight
<1>2. dir.manifest = build[b].found /\ build[b].base = build[b].found /\ dir.journal = NoJournal
  BY <1>1 DEF Follows, Ending, Retiring
<1>3. CASE dir.graph[build[b].output] # NoFile \/ dir.manifest.pin # NoPin
  <2>1. Goto(b, "refuse") /\ "refuse" \in Phases
    BY <1>3 DEF Preflight, Phases
  <2>2. PICK w \in Job : /\ build' = [build EXCEPT ![b] = w]
                         /\ w.pc = "refuse" /\ w.output = build[b].output
                         /\ w.found = build[b].found /\ w.base = build[b].base
    BY <1>1, <2>1, Gone DEF Inv
  <2>3. Follows(w, dir, disk) /\ Unspoilt(w, dir)
    BY <1>2, <2>2 DEF Follows, Unspoilt, Building, Committing, Undoing, Retiring, Ending
  <2>4. QED
    BY <1>1, <2>2, <2>3, QuietInv DEF Preflight
<1>4. CASE dir.graph[build[b].output] = NoFile /\ dir.manifest.pin = NoPin
  <2>1. PICK w : w = [build[b] EXCEPT !.pc = "retrieve", !.base = dir.manifest, !.retire = "retire"]
    OBVIOUS
  <2>2. w \in Job /\ w.pc = "retrieve" /\ w.base = dir.manifest /\ w.found = build[b].found
        /\ w.output = build[b].output
    BY <1>1, <2>1 DEF Job, Phases, Directory
  <2>3. Follows(w, dir, disk) /\ Unspoilt(w, dir)
    BY <1>2, <1>4, <2>2 DEF Follows, Unspoilt, Building, Committing, Undoing, Retiring, Ending
  <2>4. build' = [build EXCEPT ![b] = w]
    BY <1>1, <1>4, <2>1 DEF Preflight
  <2>5. QED
    BY <1>1, <2>2, <2>3, <2>4, QuietInv DEF Preflight
<1>5. QED
  BY <1>3, <1>4

-----------------------------------------------------------------------------
(* One lemma per operation: publication                                    *)

\* An fsync makes what processes see the only state, and the job goes on.
LEMMA SyncInv ==
    ASSUME Inv, NEW b \in Builders, NEW w \in Job,
           build[b] # Idle, build' = [build EXCEPT ![b] = w], disk' = {dir},
           UNCHANGED <<dir, lock, staged, revising, released, faults, meddled>>,
           Follows(w, dir, {dir}), meddled = 0 => Unspoilt(w, dir)
    PROVE  Inv'
<1>1. lock = b /\ dir \in disk /\ disk \subseteq Directory
  BY DEF Inv, TypeOK
<1>2. FilesFit'
  BY <1>1, SyncedFit DEF Inv, revising
<1>3. Follows(w, dir', disk') /\ (meddled = 0 => Unspoilt(w, dir'))
  OBVIOUS
<1>4. /\ dir' \in disk' /\ disk' \subseteq Directory /\ faults' \in 0 .. MaxFaults
      /\ staged' \in 0 .. MaxBuilds /\ released' \in BOOLEAN
  BY <1>1 DEF Inv, TypeOK
<1>5. QED
  BY <1>1, <1>2, <1>3, <1>4, HolderInv

\* The fsyncs of stages, links and manifests.
LEMMA SyncsInv ==
    ASSUME Inv, NEW b \in Builders,
           \/ Stage(b) \/ SyncJournal(b) \/ SyncGraph(b)
           \/ SyncManifest(b) \/ SyncRollBack(b)
    PROVE  Inv'
<1>1. PICK from, to : /\ Sync(b, from, to)
                      /\ \/ from = "stageCommit" /\ to = "check"
                         \/ from = "stageRetire" /\ to = "retire"
                         \/ from = "syncJournal" /\ to = "linkGraph"
                         \/ from = "syncGraph" /\ to = "check"
                         \/ from = "syncManifest" /\ to = "verify"
                         \/ from = "syncRollBack" /\ to = build[b].retire
  BY DEF Stage, SyncJournal, SyncGraph, SyncManifest, SyncRollBack
<1>2. /\ build[b] \in Job /\ build[b] # Idle /\ build[b].pc = from
      /\ Follows(build[b], dir, disk)
      /\ meddled = 0 => Unspoilt(build[b], dir)
  BY <1>1, JobIs DEF Sync
<1>3. to \in Phases /\ Goto(b, to)
  BY <1>1, <1>2 DEF Sync, Phases, Job
<1>4. PICK w \in Job : /\ build' = [build EXCEPT ![b] = w]
                       /\ w.pc = to /\ w.output = build[b].output
                       /\ w.found = build[b].found /\ w.base = build[b].base
                       /\ w.file = build[b].file /\ w.then = build[b].then
  BY <1>2, <1>3, Gone DEF Inv
<1>5. build[b].retire \in Retiring
  BY <1>2 DEF Job, Retiring
<1>6. Follows(w, dir, {dir})
  BY <1>1, <1>2, <1>4, <1>5 DEF Follows, Building, Committing, Undoing, Retiring, Ending
<1>7. meddled = 0 => Unspoilt(w, dir)
  BY <1>1, <1>2, <1>4, <1>5 DEF Unspoilt, Follows, Building, Committing, Undoing, Retiring, Ending
<1>8. QED
  BY <1>1, <1>2, <1>4, <1>6, <1>7, SyncInv DEF Sync

\* The journal is linked into a package that has none.
LEMMA RetrieveInv ==
    ASSUME Inv, NEW b \in Builders, Retrieve(b)
    PROVE  Inv'
<1>1. /\ build[b] \in Job /\ build[b] # Idle /\ build[b].pc = "retrieve" /\ lock = b
      /\ dir \in Directory /\ dir \in disk
      /\ build \in [Builders -> {Idle} \cup Job]
      /\ Follows(build[b], dir, disk)
      /\ meddled = 0 => Unspoilt(build[b], dir)
  BY JobIs DEF Retrieve
<1>2. /\ dir.manifest = build[b].found /\ build[b].base = build[b].found
      /\ dir.journal = NoJournal /\ build[b].base.pin = NoPin
      /\ meddled = 0 => dir.graph[build[b].output] = NoFile
  BY <1>1 DEF Follows, Unspoilt, Ending, Retiring
<1>3. staged' \in 1 .. MaxBuilds /\ lock' = b
  <2>1. staged < MaxBuilds /\ staged' = staged + 1 /\ lock' = lock
    BY DEF Retrieve
  <2>2. staged \in 0 .. MaxBuilds /\ MaxBuilds \in Nat
    BY PublicationAssumption DEF Inv, TypeOK
  <2>3. QED
    BY <1>1, <2>1, <2>2
<1>4. PICK digest \in Digests :
         LET file == [ino |-> staged', digest |-> digest]
         IN /\ build' = [build EXCEPT ![b].pc = "syncJournal", ![b].file = file, ![b].then = "ok"]
            /\ dir' = [dir EXCEPT !.journal =
                          [output |-> build[b].output, file |-> file, base |-> build[b].base]]
            /\ disk' = {dir, dir'}
  BY <1>2 DEF Retrieve
<1>5. PICK file : file = [ino |-> staged', digest |-> digest]
  OBVIOUS
<1>6. file \in File
  BY <1>3, <1>5 DEF File
<1>7. PICK w : w = [build[b] EXCEPT !.pc = "syncJournal", !.file = file, !.then = "ok"]
  OBVIOUS
<1>8. /\ w \in Job /\ w.pc = "syncJournal" /\ w.file = file
      /\ w.output = build[b].output /\ w.base = build[b].base /\ w.found = build[b].found
  BY <1>1, <1>6, <1>7 DEF Job, Phases
<1>9. build' = [build EXCEPT ![b] = w]
  BY <1>1, <1>4, <1>5, <1>7
<1>10. PICK journal : journal = [output |-> build[b].output, file |-> file, base |-> build[b].base]
  OBVIOUS
<1>11. /\ journal \in Journal /\ journal # NoJournal
       /\ journal.output = build[b].output /\ journal.file = file
       /\ journal.base = build[b].base
  BY <1>1, <1>6, <1>10, Absent DEF Job, Journal
<1>12. dir' = [dir EXCEPT !.journal = journal]
  BY <1>4, <1>5, <1>10
<1>13. /\ dir' \in Directory /\ dir'.journal = journal
       /\ dir'.manifest = dir.manifest /\ dir'.graph = dir.graph
  BY <1>1, <1>11, <1>12 DEF Directory
<1>14. FilesFit'
  <2>1. Alike(dir, dir') /\ Alike(dir', dir)
    BY <1>13 DEF Alike
  <2>2. BasePlain(dir')
    BY <1>2, <1>11, <1>13 DEF BasePlain
  <2>3. ASSUME meddled = 0
        PROVE  Consistent(dir') /\ (released => Pinned(dir'))
    <3>1. Consistent(dir) /\ (released => Pinned(dir))
      BY <1>1, <2>3 DEF Inv, FilesFit
    <3>2. QED
      BY <1>2, <1>13, <3>1 DEF Consistent, Pinned
  <2>4. disk' = {dir, dir'} /\ UNCHANGED <<kept, released, meddled>>
    BY <1>4 DEF Retrieve, revising
  <2>5. QED
    BY <1>1, <1>13, <2>1, <2>2, <2>3, <2>4, ChangedFit DEF Inv
<1>15. Follows(w, dir', disk')
  BY <1>2, <1>6, <1>8, <1>11, <1>13
     DEF Follows, Building, Committing, Undoing, Retiring, Ending
<1>16. meddled = 0 => Unspoilt(w, dir')
  BY <1>2, <1>8, <1>13 DEF Unspoilt, Committing, Undoing, Retiring, Ending
<1>17. /\ dir' \in disk' /\ disk' \subseteq Directory
       /\ UNCHANGED <<revising, meddled>> /\ faults' \in 0 .. MaxFaults
       /\ staged' \in 0 .. MaxBuilds /\ released' \in BOOLEAN
  <2>1. UNCHANGED <<revising, released, faults, meddled>>
    BY DEF Retrieve
  <2>2. dir' \in disk' /\ disk' \subseteq Directory
    BY <1>1, <1>4, <1>13
  <2>3. /\ staged' \in 0 .. MaxBuilds /\ released' \in BOOLEAN
        /\ faults' \in 0 .. MaxFaults
    BY <1>3, <2>1, PublicationAssumption DEF Inv, TypeOK
  <2>4. QED
    BY <2>1, <2>2, <2>3
<1>18. QED
  BY <1>1, <1>3, <1>8, <1>9, <1>14, <1>15, <1>16, <1>17, HolderInv

\* A synced directory changes into a new one and the job goes on.
LEMMA ChangeInv ==
    ASSUME Inv, NEW b \in Builders, NEW w \in Job, NEW new \in Directory,
           build[b] # Idle, build' = [build EXCEPT ![b] = w],
           disk = {dir}, Change(new), new.manifest.revisions = dir.manifest.revisions,
           UNCHANGED <<lock, staged, revising, released, faults, meddled>>,
           \/ new.journal = dir.journal /\ new.graph = dir.graph
           \/ new.manifest = dir.manifest /\ new.graph = dir.graph
           \/ /\ new.manifest = dir.manifest /\ new.journal = dir.journal
              /\ \E o \in Outputs : \A other \in Outputs \ {o} :
                    new.graph[other] = dir.graph[other],
           Alike(dir, new), Alike(new, dir), BasePlain(new),
           meddled = 0 => Consistent(new) /\ (released => Pinned(new)),
           Follows(w, new, {dir, new}), meddled = 0 => Unspoilt(w, new)
    PROVE  Inv'
<1>1. lock = b /\ dir \in disk /\ disk \subseteq Directory
  BY DEF Inv, TypeOK
<1>2. dir' = new /\ disk' = {dir, new}
  BY DEF Change
<1>3. FilesFit'
  BY <1>1, <1>2, ChangedFit DEF Inv, revising
<1>4. Follows(w, dir', disk') /\ (meddled = 0 => Unspoilt(w, dir'))
  BY <1>2
<1>5. /\ dir' \in disk' /\ disk' \subseteq Directory /\ faults' \in 0 .. MaxFaults
      /\ staged' \in 0 .. MaxBuilds /\ released' \in BOOLEAN
  BY <1>1, <1>2 DEF Inv, TypeOK
<1>6. QED
  BY <1>1, <1>3, <1>4, <1>5, HolderInv

\* A job that gives up retires its journal.
LEMMA GivesUp ==
    ASSUME Inv, NEW b \in Builders, build[b] \in Job, NEW how \in {"ok", "refuse"},
           build' = [build EXCEPT ![b].pc = build[b].retire, ![b].then = how]
    PROVE  \E w \in Job : /\ build' = [build EXCEPT ![b] = w]
                          /\ w.pc \in Retiring /\ w.then = how
                          /\ w.output = build[b].output /\ w.found = build[b].found
                          /\ w.base = build[b].base /\ w.file = build[b].file
<1> DEFINE w == [build[b] EXCEPT !.pc = build[b].retire, !.then = how]
<1>1. build \in [Builders -> {Idle} \cup Job]
  BY DEF Inv, TypeOK
<1>2. /\ w \in Job /\ w.pc \in Retiring /\ w.then = how
      /\ w.output = build[b].output /\ w.found = build[b].found
      /\ w.base = build[b].base /\ w.file = build[b].file
  BY DEF Job, Phases, Retiring
<1>3. build' = [build EXCEPT ![b] = w]
  BY <1>1
<1>4. QED
  BY <1>2, <1>3

\* The graph is linked where there is no file; the journal knows it.
LEMMA LinkGraphInv ==
    ASSUME Inv, NEW b \in Builders, LinkGraph(b)
    PROVE  Inv'
<1> DEFINE o == build[b].output
<1>1. /\ build[b] \in Job /\ build[b] # Idle /\ build[b].pc = "linkGraph" /\ lock = b
      /\ dir \in Directory /\ dir \in disk
      /\ build \in [Builders -> {Idle} \cup Job]
      /\ Follows(build[b], dir, disk)
      /\ meddled = 0 => Unspoilt(build[b], dir)
  BY JobIs DEF LinkGraph
<1>2. /\ disk = {dir} /\ dir.manifest = build[b].found /\ build[b].base = build[b].found
      /\ dir.journal # NoJournal /\ dir.journal.output = o
      /\ build[b].file = dir.journal.file /\ build[b].file \in File
      /\ build[b].base.pin = NoPin
      /\ meddled = 0 => dir.graph[o] = NoFile
  BY <1>1 DEF Follows, Unspoilt, Ending, Retiring, Building
<1>3. CASE /\ dir.graph[o] = NoFile
           /\ Change([dir EXCEPT !.graph[o] = build[b].file])
           /\ Goto(b, "syncGraph") /\ UNCHANGED faults
  <2>1. PICK new : new = [dir EXCEPT !.graph[o] = build[b].file]
    OBVIOUS
  <2>2. /\ new \in Directory /\ new.manifest = dir.manifest /\ new.journal = dir.journal
        /\ new.graph = [dir.graph EXCEPT ![o] = build[b].file]
    BY <1>1, <1>2, <2>1 DEF Directory, Job
  <2>3. /\ o \in Outputs /\ new.graph[o] = build[b].file
        /\ \A other \in Outputs \ {o} : new.graph[other] = dir.graph[other]
    BY <1>1, <2>2 DEF Directory, Job
  <2>4. Change(new) /\ Goto(b, "syncGraph") /\ "syncGraph" \in Phases
    BY <1>3, <2>1 DEF Phases
  <2>5. PICK w \in Job : /\ build' = [build EXCEPT ![b] = w]
                         /\ w.pc = "syncGraph" /\ w.output = o
                         /\ w.found = build[b].found /\ w.base = build[b].base
                         /\ w.file = build[b].file /\ w.then = build[b].then
    BY <1>1, <2>4, Gone DEF Inv
  <2>6. Alike(dir, new) /\ Alike(new, dir)
    BY <1>2, <1>3, <2>2, <2>3, Absent DEF Alike
  <2>7. BasePlain(new)
    BY <1>1, <2>2 DEF Inv, FilesFit, BasePlain
  <2>8. ASSUME meddled = 0
        PROVE  Consistent(new) /\ (released => Pinned(new))
    <3>1. Consistent(dir) /\ (released => Pinned(dir))
      BY <1>1, <2>8 DEF Inv, FilesFit
    <3>2. ~Pinned(new) /\ ~Pinned(dir)
      BY <1>2, <2>2 DEF Pinned
    <3>3. QED
      BY <1>2, <2>2, <2>3, <3>1, <3>2 DEF Consistent
  <2>9. Follows(w, new, {dir, new})
    BY <1>2, <2>2, <2>5 DEF Follows, Building, Committing, Undoing, Retiring, Ending
  <2>10. Unspoilt(w, new)
    BY <2>3, <2>5 DEF Unspoilt, Building, Committing, Undoing, Retiring, Ending
  <2>11. UNCHANGED <<lock, staged, revising, released, faults, meddled>>
    BY <1>3 DEF LinkGraph, revising
  <2>12. QED
    BY <1>1, <1>2, <2>2, <2>3, <2>4, <2>5, <2>6, <2>7, <2>8, <2>9, <2>10, <2>11, ChangeInv
<1>4. CASE /\ build' = [build EXCEPT ![b].pc = build[b].retire, ![b].then = "refuse"]
           /\ NoChange
           /\ UNCHANGED faults \/ (faults < MaxFaults /\ faults' = faults + 1)
  <2>2. PICK w \in Job : /\ build' = [build EXCEPT ![b] = w]
                         /\ w.pc \in Retiring /\ w.then = "refuse"
                         /\ w.output = o /\ w.found = build[b].found
                         /\ w.base = build[b].base /\ w.file = build[b].file
    BY <1>1, <1>4, GivesUp
  <2>3. Follows(w, dir, disk)
    BY <1>2, <2>2 DEF Follows, Building, Committing, Undoing, Retiring, Ending
  <2>4. meddled = 0 => Unspoilt(w, dir)
    BY <1>2, <2>2 DEF Unspoilt, Building, Committing, Undoing, Retiring, Ending
  <2>5. UNCHANGED <<dir, disk, lock, staged, revising, released, meddled>>
    BY <1>4 DEF LinkGraph, NoChange
  <2>6. faults' \in {faults} \cup 0 .. MaxFaults
    BY <1>4, PublicationAssumption DEF Inv, TypeOK
  <2>7. QED
    BY <1>1, <2>2, <2>3, <2>4, <2>5, <2>6, QuietInv
<1>5. QED
  BY <1>3, <1>4 DEF LinkGraph

\* The manifest and the graph are looked at once more before the commit.
LEMMA CheckInv ==
    ASSUME Inv, NEW b \in Builders, Check(b)
    PROVE  Inv'
<1>1. /\ build[b] \in Job /\ build[b] # Idle /\ build[b].pc = "check" /\ lock = b
      /\ Follows(build[b], dir, disk)
      /\ meddled = 0 => Unspoilt(build[b], dir)
  BY JobIs DEF Check
<1>2. /\ disk = {dir} /\ dir.manifest = build[b].found /\ build[b].base = build[b].found
      /\ dir.journal # NoJournal /\ dir.journal.output = build[b].output
      /\ build[b].file = dir.journal.file /\ build[b].file \in File
      /\ build[b].base.pin = NoPin
      /\ meddled = 0 => dir.graph[build[b].output] = build[b].file
  BY <1>1 DEF Follows, Unspoilt, Ending, Retiring, Committing
<1>3. CASE GraphInPlace(b)
  <2>1. Goto(b, "replace") /\ "replace" \in Phases
    BY <1>2, <1>3 DEF Check, Phases
  <2>2. PICK w \in Job : /\ build' = [build EXCEPT ![b] = w]
                         /\ w.pc = "replace" /\ w.output = build[b].output
                         /\ w.found = build[b].found /\ w.base = build[b].base
                         /\ w.file = build[b].file
    BY <1>1, <2>1, Gone DEF Inv
  <2>3. Follows(w, dir, disk)
    BY <1>2, <2>2 DEF Follows, Building, Committing, Undoing, Retiring, Ending
  <2>4. meddled = 0 => Unspoilt(w, dir)
    BY <1>2, <2>2 DEF Unspoilt, Building, Committing, Undoing, Retiring, Ending
  <2>5. QED
    BY <1>1, <2>2, <2>3, <2>4, QuietInv DEF Check
<1>4. CASE ~GraphInPlace(b)
  <2>1. build' = [build EXCEPT ![b].pc = build[b].retire, ![b].then = "refuse"]
    BY <1>4 DEF Check
  <2>2. PICK w \in Job : /\ build' = [build EXCEPT ![b] = w]
                         /\ w.pc \in Retiring /\ w.then = "refuse"
                         /\ w.output = build[b].output /\ w.found = build[b].found
                         /\ w.base = build[b].base /\ w.file = build[b].file
    BY <1>1, <2>1, GivesUp
  <2>3. Follows(w, dir, disk)
    BY <1>2, <2>2 DEF Follows, Building, Committing, Undoing, Retiring, Ending
  <2>4. meddled # 0
    BY <1>2, <1>4 DEF GraphInPlace
  <2>5. QED
    BY <1>1, <2>2, <2>3, <2>4, QuietInv DEF Check
<1>5. QED
  BY <1>3, <1>4

\* The manifest pins the graph that is in place; another one was not pinned.
LEMMA ReplaceInv ==
    ASSUME Inv, NEW b \in Builders, Replace(b)
    PROVE  Inv'
<1> DEFINE o == build[b].output
<1>1. /\ build[b] \in Job /\ build[b] # Idle /\ build[b].pc = "replace" /\ lock = b
      /\ dir \in Directory /\ dir \in disk
      /\ Follows(build[b], dir, disk)
      /\ meddled = 0 => Unspoilt(build[b], dir)
  BY JobIs DEF Replace
<1>2. /\ disk = {dir} /\ dir.manifest = build[b].found /\ build[b].base = build[b].found
      /\ dir.journal # NoJournal /\ dir.journal.output = o
      /\ build[b].file = dir.journal.file /\ build[b].file \in File
      /\ build[b].base.pin = NoPin
      /\ meddled = 0 => dir.graph[o] = build[b].file
  BY <1>1 DEF Follows, Unspoilt, Ending, Retiring, Committing
<1>3. PICK pin : pin = [output |-> o, digest |-> build[b].file.digest]
  OBVIOUS
<1>4. /\ pin \in [output : Outputs, digest : Digests] /\ pin # NoPin
      /\ pin.output = o /\ pin.digest = build[b].file.digest
  BY <1>1, <1>2, <1>3, Absent DEF Job, File
<1>5. PICK manifest : manifest = WithGraph(build[b].base, o, build[b].file)
  OBVIOUS
<1>6. /\ manifest \in Manifest /\ manifest.pin = pin
      /\ manifest.revisions = dir.manifest.revisions
  BY <1>1, <1>2, <1>3, <1>4, <1>5 DEF WithGraph, Manifest, Job, Directory
<1>7. PICK new : new = [dir EXCEPT !.manifest = manifest]
  OBVIOUS
<1>8. /\ new \in Directory /\ new.manifest = manifest
      /\ new.journal = dir.journal /\ new.graph = dir.graph
  BY <1>1, <1>6, <1>7 DEF Directory
<1>9. Change(new) /\ Goto(b, "syncManifest") /\ "syncManifest" \in Phases
  BY <1>5, <1>7 DEF Replace, Published, Phases
<1>10. PICK w \in Job : /\ build' = [build EXCEPT ![b] = w]
                        /\ w.pc = "syncManifest" /\ w.output = o
                        /\ w.found = build[b].found /\ w.base = build[b].base
                        /\ w.file = build[b].file
  BY <1>1, <1>9, Gone DEF Inv
<1>11. Alike(dir, new) /\ Alike(new, dir)
  BY <1>6, <1>8 DEF Alike
<1>12. BasePlain(new)
  BY <1>1, <1>8 DEF Inv, FilesFit, BasePlain
<1>13. ASSUME meddled = 0
       PROVE  Consistent(new) /\ (released => Pinned(new))
  <2>1. Consistent(dir)
    BY <1>1, <1>13 DEF Inv, FilesFit
  <2>2. dir.manifest.pin.output \notin Outputs
    BY <1>2, PublicationAssumption DEF NoPin
  <2>3. ASSUME NEW other \in Outputs, dir.graph[other] # NoFile
        PROVE  dir.journal # NoJournal /\ dir.journal.output = other
                  /\ dir.journal.file = dir.graph[other]
    BY <2>1, <2>2, <2>3 DEF Consistent
  <2>4. Pinned(new)
    BY <1>4, <1>6, <1>8 DEF Pinned
  <2>5. new.graph[new.manifest.pin.output].digest = new.manifest.pin.digest
    BY <1>2, <1>4, <1>6, <1>8, <1>13
  <2>6. QED
    BY <1>8, <2>3, <2>4, <2>5 DEF Consistent
<1>14. Follows(w, new, {dir, new})
  BY <1>2, <1>5, <1>8, <1>10 DEF Follows, Building, Committing, Undoing, Retiring, Ending
<1>15. meddled = 0 => Unspoilt(w, new)
  BY <1>2, <1>8, <1>10 DEF Unspoilt, Building, Committing, Undoing, Retiring, Ending
<1>16. new.manifest.revisions = dir.manifest.revisions
  BY <1>6, <1>8
<1>17. QED
  BY <1>1, <1>2, <1>8, <1>9, <1>10, <1>11, <1>12, <1>13, <1>14, <1>15, <1>16, ChangeInv
     DEF Replace

\* The graph pinned is the one that was linked, unless others replaced it.
LEMMA VerifyInv ==
    ASSUME Inv, NEW b \in Builders, Verify(b)
    PROVE  Inv'
<1> DEFINE o == build[b].output
<1>1. /\ build[b] \in Job /\ build[b] # Idle /\ build[b].pc = "verify" /\ lock = b
      /\ build \in [Builders -> {Idle} \cup Job]
      /\ Follows(build[b], dir, disk)
      /\ meddled = 0 => Unspoilt(build[b], dir)
  BY JobIs DEF Verify
<1>2. /\ disk = {dir} /\ build[b].base = build[b].found
      /\ dir.manifest = WithGraph(build[b].base, o, build[b].file)
      /\ dir.journal # NoJournal /\ dir.journal.output = o
      /\ build[b].file = dir.journal.file /\ build[b].file \in File
      /\ build[b].base.pin = NoPin
      /\ meddled = 0 => dir.graph[o] = build[b].file
  BY <1>1 DEF Follows, Unspoilt, Ending, Retiring, Committing
<1>3. CASE GraphInPlace(b)
  <2>1. build' = [build EXCEPT ![b].pc = build[b].retire, ![b].then = "ok"]
    BY <1>3 DEF Verify
  <2>2. PICK w \in Job : /\ build' = [build EXCEPT ![b] = w]
                         /\ w.pc \in Retiring /\ w.then = "ok"
                         /\ w.output = o /\ w.found = build[b].found
                         /\ w.base = build[b].base /\ w.file = build[b].file
    BY <1>1, <2>1, GivesUp
  <2>3. Follows(w, dir, disk)
    BY <1>2, <2>2 DEF Follows, Building, Committing, Undoing, Retiring, Ending
  <2>4. dir.manifest.pin = [output |-> o, digest |-> build[b].file.digest] /\ o \in Outputs
    BY <1>1, <1>2 DEF WithGraph, Job, Manifest
  <2>5. Pinned(dir) /\ dir.manifest.pin.output = o
    BY <2>4, PublicationAssumption DEF Pinned, NoPin
  <2>6. Unspoilt(w, dir)
    BY <2>2, <2>5 DEF Unspoilt, Building, Committing, Undoing, Retiring, Ending
  <2>7. QED
    BY <1>1, <2>2, <2>3, <2>6, QuietInv DEF Verify
<1>4. CASE ~GraphInPlace(b)
  <2>1. Goto(b, "rollBack") /\ "rollBack" \in Phases
    BY <1>4 DEF Verify, Phases, Goto
  <2>2. PICK w \in Job : /\ build' = [build EXCEPT ![b] = w]
                         /\ w.pc = "rollBack" /\ w.output = o
                         /\ w.found = build[b].found /\ w.base = build[b].base
                         /\ w.file = build[b].file
    BY <1>1, <2>1, Gone DEF Inv
  <2>3. Follows(w, dir, disk)
    BY <1>2, <2>2 DEF Follows, Building, Committing, Undoing, Retiring, Ending
  <2>4. meddled # 0
    BY <1>2, <1>4 DEF GraphInPlace
  <2>5. QED
    BY <1>1, <2>2, <2>3, <2>4, QuietInv DEF Verify
<1>5. QED
  BY <1>3, <1>4

\* The manifest that was found is put back.
LEMMA RollBackInv ==
    ASSUME Inv, NEW b \in Builders, RollBack(b)
    PROVE  Inv'
<1>1. /\ build[b] \in Job /\ build[b] # Idle /\ build[b].pc = "rollBack" /\ lock = b
      /\ build \in [Builders -> {Idle} \cup Job]
      /\ dir \in Directory /\ dir \in disk
      /\ Follows(build[b], dir, disk)
      /\ meddled = 0 => Unspoilt(build[b], dir)
  BY JobIs DEF RollBack
<1>2. /\ disk = {dir} /\ build[b].base = build[b].found
      /\ dir.manifest = WithGraph(build[b].base, build[b].output, build[b].file)
      /\ dir.journal # NoJournal /\ dir.journal.output = build[b].output
      /\ meddled # 0
  BY <1>1 DEF Follows, Unspoilt, Ending, Retiring, Undoing
<1>3. build[b].base \in Manifest /\ dir.manifest.revisions = build[b].base.revisions
  BY <1>1, <1>2 DEF Job, Manifest, WithGraph
<1>4. PICK new : new = [dir EXCEPT !.manifest = build[b].base]
  OBVIOUS
<1>5. /\ new \in Directory /\ new.manifest = build[b].base
      /\ new.journal = dir.journal /\ new.graph = dir.graph
  BY <1>1, <1>3, <1>4 DEF Directory
<1>6. PICK w : w = [build[b] EXCEPT !.pc = "syncRollBack", !.then = "refuse"]
  OBVIOUS
<1>7. /\ w \in Job /\ w.pc = "syncRollBack" /\ w.then = "refuse"
      /\ w.output = build[b].output /\ w.found = build[b].found /\ w.base = build[b].base
  BY <1>1, <1>6 DEF Job, Phases
<1>8. Change(new) /\ build' = [build EXCEPT ![b] = w]
  BY <1>1, <1>4, <1>6 DEF RollBack
<1>9. Alike(dir, new) /\ Alike(new, dir)
  BY <1>3, <1>5 DEF Alike
<1>10. BasePlain(new)
  BY <1>1, <1>5 DEF Inv, FilesFit, BasePlain
<1>11. Follows(w, new, {dir, new})
  BY <1>2, <1>5, <1>7 DEF Follows, Building, Committing, Undoing, Retiring, Ending
<1>12. QED
  BY <1>1, <1>2, <1>3, <1>5, <1>7, <1>8, <1>9, <1>10, <1>11, ChangeInv DEF RollBack

\* The journal goes once nothing needs it any more.
LEMMA RetireInv ==
    ASSUME Inv, NEW b \in Builders, Retire(b)
    PROVE  Inv'
<1> DEFINE o == build[b].output
<1>1. /\ build[b] \in Job /\ build[b] # Idle /\ build[b].pc = "retire" /\ lock = b
      /\ dir \in Directory /\ dir \in disk
      /\ Follows(build[b], dir, disk)
      /\ meddled = 0 => Unspoilt(build[b], dir)
  BY JobIs DEF Retire
<1>2. /\ disk = {dir} /\ build[b].base = build[b].found
      /\ build[b].then # "none"
      /\ build[b].then # "ok" => dir.manifest = build[b].found
      /\ dir.journal # NoJournal /\ dir.journal.output = o
      /\ meddled = 0 =>
            /\ build[b].then = "ok" => Pinned(dir) /\ dir.manifest.pin.output = o
            /\ build[b].then # "ok" => dir.graph[o] = NoFile
  BY <1>1 DEF Follows, Unspoilt, Ending, Retiring
<1>3. PICK new : new = [dir EXCEPT !.journal = NoJournal]
  OBVIOUS
<1>4. /\ new \in Directory /\ new.journal = NoJournal
      /\ new.manifest = dir.manifest /\ new.graph = dir.graph
  BY <1>1, <1>3 DEF Directory
<1>5. Change(new) /\ Goto(b, "syncRetired") /\ "syncRetired" \in Phases
  BY <1>3 DEF Retire, Phases
<1>6. PICK w \in Job : /\ build' = [build EXCEPT ![b] = w]
                       /\ w.pc = "syncRetired" /\ w.output = o
                       /\ w.found = build[b].found /\ w.base = build[b].base
                       /\ w.then = build[b].then
  BY <1>1, <1>5, Gone DEF Inv
<1>7. Alike(dir, new) /\ Alike(new, dir) /\ BasePlain(new)
  BY <1>4 DEF Alike, BasePlain
<1>8. ASSUME meddled = 0
      PROVE  Consistent(new) /\ (released => Pinned(new))
  <2>1. Consistent(dir) /\ (released => Pinned(dir))
    BY <1>1, <1>8 DEF Inv, FilesFit
  <2>2. build[b].then = "ok" \/ dir.graph[o] = NoFile
    BY <1>2, <1>8
  <2>3. \A other \in Outputs :
           dir.graph[other] # NoFile => dir.manifest.pin.output = other
    BY <1>2, <1>8, <2>1, <2>2 DEF Consistent
  <2>4. QED
    BY <1>4, <2>1, <2>3 DEF Consistent, Pinned
<1>9. Follows(w, new, {dir, new})
  BY <1>2, <1>4, <1>6 DEF Follows, Building, Committing, Undoing, Retiring, Ending
<1>10. meddled = 0 => Unspoilt(w, new)
  BY <1>2, <1>4, <1>6 DEF Unspoilt, Building, Committing, Undoing, Retiring, Ending, Pinned
<1>11. QED
  BY <1>1, <1>2, <1>4, <1>5, <1>6, <1>7, <1>8, <1>9, <1>10, ChangeInv DEF Retire

-----------------------------------------------------------------------------
(* One lemma per operation: the end of a build, other writers, faults      *)

\* A build that ends leaves no job.
LEMMA EndInv ==
    ASSUME Inv, NEW b \in Builders, build[b] # Idle, NEW how, Finish(b, how),
           dir' = dir, disk' \in {disk, {dir}},
           UNCHANGED <<staged, revising, meddled>>, faults' \in 0 .. MaxFaults,
           how = "ok" /\ meddled = 0 => disk' = {dir} /\ Pinned(dir)
    PROVE  Inv'
<1>1. /\ build \in [Builders -> {Idle} \cup Job] /\ lock = b
      /\ dir \in disk /\ disk \subseteq Directory
      /\ \A c \in Builders \ {b} : build[c] = Idle
      /\ staged \in 0 .. MaxBuilds /\ meddled \in 0 .. MaxMeddling
      /\ writer \in Manifest /\ released \in BOOLEAN
      /\ written \in 0 .. MaxRevision /\ kept \subseteq 1 .. written
      /\ UNCHANGED <<writer, written, kept>>
  BY DEF Inv, TypeOK, revising
<1>2. /\ build' = [build EXCEPT ![b] = Idle] /\ lock' = Free
      /\ released' = (released \/ how = "ok")
  BY DEF Finish
<1>3. build' \in [Builders -> {Idle} \cup Job] /\ \A c \in Builders : build'[c] = Idle
  BY <1>1, <1>2
<1>4. FilesFit'
  <2>1. CASE disk' = {dir}
    BY <1>1, <1>2, <2>1, SyncedFit DEF Inv
  <2>2. CASE disk' = disk
    BY <1>1, <1>2, <2>2 DEF Inv, FilesFit, OneUnsynced, KeepsWrites
  <2>3. QED
    BY <2>1, <2>2
<1>5. dir' \in disk' /\ disk' \subseteq Directory
  BY <1>1
<1>6. WriteFits'
  BY <1>2 DEF WriteFits, Free, Writer
<1>7. QED
  BY <1>1, <1>2, <1>3, <1>4, <1>5, <1>6, FreeInv DEF Inv

\* The journal is off the disk: the build reports, is refused or begins anew.
LEMMA SyncRetiredInv ==
    ASSUME Inv, NEW b \in Builders, SyncRetired(b)
    PROVE  Inv'
<1>1. /\ build[b] \in Job /\ build[b] # Idle /\ build[b].pc = "syncRetired" /\ lock = b
      /\ Follows(build[b], dir, disk)
      /\ meddled = 0 => Unspoilt(build[b], dir)
  BY JobIs DEF SyncRetired
<1>2. /\ build[b].base = build[b].found /\ build[b].then # "none"
      /\ build[b].then # "ok" => dir.manifest = build[b].found
      /\ dir.journal = NoJournal
      /\ meddled = 0 =>
            /\ build[b].then = "ok" => Pinned(dir)
            /\ build[b].then # "ok" => dir.graph[build[b].output] = NoFile
  BY <1>1 DEF Follows, Unspoilt, Ending
<1>3. CASE build[b].then = "ok"
  <2>1. Finish(b, "ok") /\ dir' = dir /\ disk' = {dir}
        /\ UNCHANGED <<staged, revising, meddled, faults>>
    BY <1>3 DEF SyncRetired
  <2>2. faults' \in 0 .. MaxFaults
    BY <2>1 DEF Inv, TypeOK
  <2>3. QED
    BY <1>1, <1>2, <1>3, <2>1, <2>2, EndInv
<1>4. CASE build[b].then # "ok"
  <2>1. build[b].then \in {"preflight", "refuse"} /\ build[b].then \in Phases
    BY <1>1, <1>2, <1>4 DEF Job, Phases
  <2>2. Goto(b, build[b].then) /\ disk' = {dir}
        /\ UNCHANGED <<dir, lock, staged, revising, released, faults, meddled>>
    BY <1>4 DEF SyncRetired
  <2>3. PICK w \in Job : /\ build' = [build EXCEPT ![b] = w]
                         /\ w.pc = build[b].then
                         /\ w.found = build[b].found /\ w.base = build[b].base
    BY <1>1, <2>1, <2>2, Gone DEF Inv
  <2>4. Follows(w, dir, {dir}) /\ (meddled = 0 => Unspoilt(w, dir))
    BY <1>2, <1>4, <2>1, <2>3
       DEF Follows, Unspoilt, Building, Committing, Undoing, Retiring, Ending
  <2>5. QED
    BY <1>1, <2>2, <2>3, <2>4, SyncInv
<1>5. QED
  BY <1>3, <1>4

\* A refusal, or a kill at any step, leaves everything where it is.
LEMMA StopInv ==
    ASSUME Inv, NEW b \in Builders, Refuse(b) \/ Die(b)
    PROVE  Inv'
<1>1. faults \in 0 .. MaxFaults /\ MaxFaults \in Nat
  BY PublicationAssumption DEF Inv, TypeOK
<1>2. CASE Refuse(b)
  <2>1. build[b] # Idle
    BY <1>2, JobIs DEF Refuse
  <2>2. Finish(b, "refused") /\ UNCHANGED <<dir, disk, staged, revising, faults, meddled>>
    BY <1>2 DEF Refuse
  <2>3. QED
    BY <1>1, <2>1, <2>2, EndInv
<1>3. CASE Die(b)
  <2>1. /\ build[b] # Idle /\ Finish(b, "failed") /\ faults < MaxFaults /\ faults' = faults + 1
        /\ UNCHANGED <<dir, disk, staged, revising, meddled>>
    BY <1>3 DEF Die, CallFails
  <2>2. faults' \in 0 .. MaxFaults
    BY <1>1, <2>1
  <2>3. QED
    BY <2>1, <2>2, EndInv
<1>4. QED
  BY <1>2, <1>3

\* Another program adds a revision to the manifest while nobody builds.
LEMMA RevisedFit ==
    ASSUME FilesFit, dir \in disk, NEW new, disk' = disk \cup {new},
           new.journal = dir.journal, new.graph = dir.graph,
           new.manifest.pin = dir.manifest.pin,
           dir.manifest.revisions \subseteq new.manifest.revisions,
           UNCHANGED <<kept, released, meddled>>
    PROVE  FilesFit'
<1>1. OneUnsynced'
  BY DEF FilesFit, OneUnsynced
<1>2. \A d, e \in disk' : Alike(d, e)
  BY DEF FilesFit, Alike
<1>3. \A d \in disk' : BasePlain(d) /\ KeepsWrites(d)'
  BY DEF FilesFit, BasePlain, KeepsWrites
<1>4. meddled' = 0 => \A d \in disk' : Consistent(d) /\ (released' => Pinned(d))
  BY DEF FilesFit, Consistent, Pinned
<1>5. QED
  BY <1>1, <1>2, <1>3, <1>4 DEF FilesFit, KeepsWrites

\* Who else writes the manifest holds the lock until it is synced.
LEMMA WriterInv ==
    ASSUME Inv, ReadManifest \/ WriteAtomic \/ SyncWrite \/ WriterDies
    PROVE  Inv'
<1>1. /\ dir \in disk /\ disk \subseteq Directory /\ dir \in Directory
      /\ dir.manifest \in Manifest /\ writer \in Manifest
      /\ build \in [Builders -> {Idle} \cup Job]
      /\ released \in BOOLEAN /\ staged \in 0 .. MaxBuilds
      /\ written \in 0 .. MaxRevision /\ kept \subseteq 1 .. written
      /\ faults \in 0 .. MaxFaults /\ meddled \in 0 .. MaxMeddling
  BY DEF Inv, TypeOK, Directory
<1>2. lock \in {Free, Writer} => \A b \in Builders : build[b] = Idle
  BY PublicationAssumption DEF Free, Writer, Inv, TypeOK
<1>3. CASE ReadManifest
  <2>1. writer' \in Manifest
    BY <1>1, <1>3 DEF ReadManifest
  <2>2. FilesFit'
    BY <1>3, SameFit DEF ReadManifest, Inv
  <2>3. QED
    BY <1>3, <2>1, <2>2 DEF ReadManifest, Inv, TypeOK, JobsFit, WriteFits
<1>4. CASE WriteAtomic
  <2>1. /\ lock = Free /\ dir.manifest = writer /\ lock' = Writer
        /\ written < MaxRevision /\ written' = written + 1
        /\ dir' = [dir EXCEPT !.manifest = [writer EXCEPT !.revisions = @ \cup {written'}]]
        /\ disk' = disk \cup {dir'}
        /\ UNCHANGED <<build, staged, writer, kept, released, faults, meddled>>
    BY <1>4 DEF WriteAtomic, Revise, Change
  <2>2. written' \in 1 .. MaxRevision /\ kept' \subseteq 1 .. written'
    BY <1>1, <2>1, PublicationAssumption
  <2>3. PICK manifest : manifest = [writer EXCEPT !.revisions = @ \cup {written'}]
    OBVIOUS
  <2>4. /\ manifest \in Manifest /\ manifest.pin = writer.pin
        /\ manifest.revisions = writer.revisions \cup {written'}
    BY <1>1, <2>2, <2>3 DEF Manifest
  <2>5. /\ dir' \in Directory /\ dir'.manifest = manifest
        /\ dir'.graph = dir.graph /\ dir'.journal = dir.journal
    BY <1>1, <2>1, <2>3, <2>4 DEF Directory
  <2>6. FilesFit'
    BY <1>1, <2>1, <2>4, <2>5, RevisedFit DEF Inv
  <2>7. WriteFits'
    BY <2>2, <2>4, <2>5 DEF WriteFits
  <2>8. dir' \in disk' /\ disk' \subseteq Directory
    BY <1>1, <2>1, <2>5
  <2>9. QED
    BY <1>1, <1>2, <2>1, <2>2, <2>6, <2>7, <2>8, FreeInv DEF Inv
<1>5. CASE SyncWrite
  <2>1. /\ lock = Writer /\ lock' = Free /\ disk' = {dir} /\ kept' = kept \cup {written}
        /\ UNCHANGED <<dir, build, staged, writer, written, released, faults, meddled>>
    BY <1>5 DEF SyncWrite
  <2>2. written \in 1 .. MaxRevision /\ written \in dir.manifest.revisions
    BY <2>1 DEF Inv, WriteFits
  <2>3. kept' \subseteq dir.manifest.revisions
    BY <1>1, <2>1, <2>2 DEF Inv, FilesFit, KeepsWrites
  <2>4. FilesFit'
    BY <1>1, <2>1, <2>3, SyncedFit DEF Inv
  <2>5. WriteFits'
    BY <2>1 DEF WriteFits, Free, Writer
  <2>6. kept' \subseteq 1 .. written'
    BY <1>1, <2>1, <2>2, PublicationAssumption
  <2>7. QED
    BY <1>1, <1>2, <2>1, <2>4, <2>5, <2>6, FreeInv DEF Inv
<1>6. CASE WriterDies
  <2>1. /\ lock = Writer /\ lock' = Free /\ faults < MaxFaults /\ faults' = faults + 1
        /\ UNCHANGED <<dir, disk, build, staged, writer, written, kept, released, meddled>>
    BY <1>6 DEF WriterDies, revising
  <2>2. FilesFit'
    BY <2>1, SameFit DEF Inv
  <2>3. WriteFits'
    BY <2>1 DEF WriteFits, Free, Writer
  <2>4. faults' \in 0 .. MaxFaults
    BY <1>1, <2>1, PublicationAssumption
  <2>5. QED
    BY <1>1, <1>2, <2>1, <2>2, <2>3, <2>4, FreeInv DEF Inv
<1>7. QED
  BY <1>3, <1>4, <1>5, <1>6

\* What a crash leaves is as good as what was there: files and pin are of one
\* moment, revisions that were reported are in every manifest.
LEMMA CrashedFit ==
    ASSUME Inv, NEW d \in Mixed
    PROVE  /\ \A o \in Outputs : dir.graph[o] = Foreign => d.graph[o] = Foreign
           /\ BasePlain(d) /\ KeepsWrites(d)
           /\ meddled = 0 => Consistent(d) /\ (released => Pinned(d))
<1>1. dir \in disk /\ disk \subseteq Directory /\ FilesFit
  BY DEF Inv, TypeOK
<1>2. PICK e \in disk : /\ d.graph = e.graph /\ d.journal = e.journal
                       /\ d.manifest.pin = e.manifest.pin
  BY <1>1, CrashIsPast DEF CrashLeavesAPast, FilesFit
<1>3. PICK m \in disk : d.manifest = m.manifest
  BY MixedIs
<1>4. Alike(dir, e) /\ BasePlain(e) /\ KeepsWrites(m)
  BY <1>1 DEF FilesFit
<1>5. meddled = 0 => Consistent(e) /\ (released => Pinned(e))
  BY <1>1 DEF FilesFit
<1>6. meddled = 0 => Consistent(d) /\ (released => Pinned(d))
  BY <1>2, <1>5 DEF Consistent, Pinned
<1>7. QED
  BY <1>2, <1>3, <1>4, <1>6 DEF Alike, BasePlain, KeepsWrites

\* A crash of the machine leaves nobody at work.
LEMMA MachineCrashInv ==
    ASSUME Inv, MachineCrash
    PROVE  Inv'
<1>1. dir \in disk /\ disk \subseteq Directory
  BY DEF Inv, TypeOK
<1>2. /\ dir' \in Mixed /\ disk' = {dir'} /\ lock' = Free
      /\ build' = [b \in Builders |-> Idle]
      /\ faults < MaxFaults /\ faults' = faults + 1
      /\ UNCHANGED <<staged, writer, written, kept, released, meddled>>
  BY DEF MachineCrash, revising
<1>3. PICK new \in Mixed : dir' = new
  BY <1>2
<1>4. /\ BasePlain(new) /\ KeepsWrites(new)
      /\ meddled = 0 => Consistent(new) /\ (released => Pinned(new))
  BY CrashedFit
<1>5. FilesFit'
  BY <1>2, <1>3, <1>4 DEF FilesFit, OneUnsynced, Alike, KeepsWrites
<1>6. faults' \in 0 .. MaxFaults
  BY <1>2, PublicationAssumption DEF Inv, TypeOK
<1>7. /\ build' \in [Builders -> {Idle} \cup Job]
      /\ \A b \in Builders : build'[b] = Idle
  BY <1>2
<1>8. /\ writer' \in Manifest /\ released' \in BOOLEAN /\ staged' \in 0 .. MaxBuilds
      /\ written' \in 0 .. MaxRevision /\ kept' \subseteq 1 .. written'
      /\ meddled' \in 0 .. MaxMeddling
  BY <1>2 DEF Inv, TypeOK
<1>9. dir' \in disk' /\ disk' \subseteq Directory
  BY <1>1, <1>2, MixedIsDirectory
<1>10. WriteFits'
  BY <1>2 DEF WriteFits, Free, Writer
<1>11. QED
  BY <1>2, <1>5, <1>6, <1>7, <1>8, <1>9, <1>10, FreeInv DEF Inv

\* A file put at an output past the lock is on the disk at once.
LEMMA MeddleInv ==
    ASSUME Inv, NEW o \in Outputs, Meddle(o)
    PROVE  Inv'
<1> DEFINE Spoilt(d) == [d EXCEPT !.graph[o] = Foreign]
<1>1. dir \in disk /\ disk \subseteq Directory
  BY DEF Inv, TypeOK
<1>2. /\ meddled < MaxMeddling /\ meddled' = meddled + 1
      /\ dir' = Spoilt(dir) /\ disk' = {Spoilt(d) : d \in disk}
      /\ UNCHANGED <<lock, build, staged, writer, written, kept, released, faults>>
  BY DEF Meddle, revising
<1>3. ASSUME NEW d \in Directory
      PROVE  /\ Spoilt(d) \in Directory
             /\ Spoilt(d).manifest = d.manifest /\ Spoilt(d).journal = d.journal
             /\ Spoilt(d).graph = [d.graph EXCEPT ![o] = Foreign]
             /\ \A other \in Outputs :
                   Spoilt(d).graph[other] = IF other = o THEN Foreign ELSE d.graph[other]
  BY DEF Directory
<1> HIDE DEF Spoilt
<1>4. ASSUME NEW k \in disk'
      PROVE  \E d \in disk :
                /\ k.manifest = d.manifest /\ k.journal = d.journal
                /\ k.graph = [d.graph EXCEPT ![o] = Foreign]
                /\ \A other \in Outputs :
                      k.graph[other] = IF other = o THEN Foreign ELSE d.graph[other]
  <2>1. PICK d \in disk : k = Spoilt(d)
    BY <1>2
  <2>2. d \in Directory
    BY <1>1
  <2>3. QED
    BY <1>3, <2>1, <2>2
<1>5. dir' \in disk' /\ disk' \subseteq Directory
  BY <1>1, <1>2, <1>3
<1>6. meddled' \in 0 .. MaxMeddling /\ meddled' # 0
  BY <1>2, PublicationAssumption DEF Inv, TypeOK
<1>7. OneUnsynced'
  <2>1. CASE \A d, e \in disk : d.journal = e.journal /\ d.graph = e.graph
    <3>1. \A d, e \in disk' : d.journal = e.journal /\ d.graph = e.graph
      <4>1. SUFFICES ASSUME NEW j \in disk', NEW k \in disk'
                  PROVE  j.journal = k.journal /\ j.graph = k.graph
        OBVIOUS
      <4>2. PICK d \in disk : j.journal = d.journal /\ j.graph = [d.graph EXCEPT ![o] = Foreign]
        BY <1>4
      <4>3. PICK e \in disk : k.journal = e.journal /\ k.graph = [e.graph EXCEPT ![o] = Foreign]
        BY <1>4
      <4>4. QED
        BY <2>1, <4>2, <4>3
    <3>2. QED
      BY <3>1 DEF OneUnsynced
  <2>2. CASE \A d, e \in disk : d.manifest.pin = e.manifest.pin /\ d.graph = e.graph
    <3>1. \A d, e \in disk' : d.manifest.pin = e.manifest.pin /\ d.graph = e.graph
      <4>1. SUFFICES ASSUME NEW j \in disk', NEW k \in disk'
                  PROVE  j.manifest.pin = k.manifest.pin /\ j.graph = k.graph
        OBVIOUS
      <4>2. PICK d \in disk : j.manifest = d.manifest /\ j.graph = [d.graph EXCEPT ![o] = Foreign]
        BY <1>4
      <4>3. PICK e \in disk : k.manifest = e.manifest /\ k.graph = [e.graph EXCEPT ![o] = Foreign]
        BY <1>4
      <4>4. QED
        BY <2>2, <4>2, <4>3
    <3>2. QED
      BY <3>1 DEF OneUnsynced
  <2>3. CASE /\ \A d, e \in disk : d.manifest.pin = e.manifest.pin /\ d.journal = e.journal
             /\ \E p \in Outputs : \A d, e \in disk :
                   \A other \in Outputs \ {p} : d.graph[other] = e.graph[other]
    <3>1. PICK p \in Outputs : \A d, e \in disk :
             \A other \in Outputs \ {p} : d.graph[other] = e.graph[other]
      BY <2>3
    <3>2. \A d, e \in disk' : d.manifest.pin = e.manifest.pin /\ d.journal = e.journal
      <4>1. SUFFICES ASSUME NEW j \in disk', NEW k \in disk'
                  PROVE  j.manifest.pin = k.manifest.pin /\ j.journal = k.journal
        OBVIOUS
      <4>2. PICK d \in disk : j.manifest = d.manifest /\ j.journal = d.journal
        BY <1>4
      <4>3. PICK e \in disk : k.manifest = e.manifest /\ k.journal = e.journal
        BY <1>4
      <4>4. QED
        BY <2>3, <4>2, <4>3
    <3>3. \A d, e \in disk' : \A other \in Outputs \ {p} : d.graph[other] = e.graph[other]
      <4>1. SUFFICES ASSUME NEW j \in disk', NEW k \in disk'
                  PROVE  \A other \in Outputs \ {p} : j.graph[other] = k.graph[other]
        OBVIOUS
      <4>2. PICK d \in disk :
                  \A q \in Outputs : j.graph[q] = IF q = o THEN Foreign ELSE d.graph[q]
        BY <1>4
      <4>3. PICK e \in disk :
                  \A q \in Outputs : k.graph[q] = IF q = o THEN Foreign ELSE e.graph[q]
        BY <1>4
      <4>4. QED
        BY <3>1, <4>2, <4>3
    <3>4. QED
      BY <3>2, <3>3 DEF OneUnsynced
  <2>4. QED
    BY <2>1, <2>2, <2>3 DEF Inv, FilesFit, OneUnsynced
<1>8. \A d, e \in disk' : Alike(d, e)
  <2>1. \A d, e \in disk : Alike(d, e)
    BY DEF Inv, FilesFit
  <2>2. SUFFICES ASSUME NEW j \in disk', NEW k \in disk' PROVE Alike(j, k)
    OBVIOUS
  <2>3. PICK d \in disk :
           /\ j.manifest = d.manifest
           /\ \A q \in Outputs : j.graph[q] = IF q = o THEN Foreign ELSE d.graph[q]
    BY <1>4
  <2>4. PICK e \in disk :
           /\ k.manifest = e.manifest
           /\ \A q \in Outputs : k.graph[q] = IF q = o THEN Foreign ELSE e.graph[q]
    BY <1>4
  <2>5. QED
    BY <2>1, <2>3, <2>4 DEF Alike
<1>9. \A d \in disk' : BasePlain(d) /\ KeepsWrites(d)'
  <2>1. \A d \in disk : BasePlain(d) /\ KeepsWrites(d)
    BY DEF Inv, FilesFit
  <2>2. SUFFICES ASSUME NEW k \in disk' PROVE BasePlain(k) /\ KeepsWrites(k)'
    OBVIOUS
  <2>3. PICK d \in disk : k.journal = d.journal /\ k.manifest = d.manifest
    BY <1>4
  <2>4. QED
    BY <1>2, <2>1, <2>3 DEF BasePlain, KeepsWrites
<1>10. FilesFit'
  BY <1>6, <1>7, <1>8, <1>9 DEF FilesFit, KeepsWrites
<1>11. ASSUME NEW b \in Builders, build[b] # Idle
       PROVE  Follows(build[b], dir', disk')
  <2>1. Follows(build[b], dir, disk)
    BY <1>11 DEF Inv, JobsFit
  <2>2. disk = {dir} => disk' = {dir'}
    BY <1>2
  <2>3. dir'.manifest = dir.manifest /\ dir'.journal = dir.journal
    BY <1>1, <1>2, <1>3
  <2>4. QED
    BY <2>1, <2>2, <2>3 DEF Follows
<1>12. JobsFit' /\ WriteFits'
  <2>1. JobsFit'
    BY <1>2, <1>6, <1>11 DEF JobsFit
  <2>2. dir'.manifest = dir.manifest
    BY <1>1, <1>2, <1>3
  <2>3. QED
    BY <1>2, <2>1, <2>2 DEF Inv, WriteFits
<1>13. TypeOK'
  BY <1>2, <1>5, <1>6 DEF Inv, TypeOK
<1>14. QED
  BY <1>10, <1>12, <1>13 DEF Inv

-----------------------------------------------------------------------------
(* The invariant holds, and what follows from it                           *)

\* An empty package is in order.
LEMMA InitInv == Init => Inv
<1> SUFFICES ASSUME Init PROVE Inv
  OBVIOUS
<1>1. NoPin \in {NoPin} \cup [output : Outputs, digest : Digests] /\ 0 \in 0 .. MaxRevision
      /\ {} \in SUBSET (1 .. MaxRevision)
  BY PublicationAssumption
<1>2. dir.manifest \in Manifest /\ dir.manifest.pin = NoPin
  BY <1>1 DEF Init, Manifest
<1>3. dir \in Directory /\ dir.journal = NoJournal
  BY <1>2 DEF Init, Directory
<1>4. \A o \in Outputs : dir.graph[o] = NoFile
  BY DEF Init
<1>5. disk = {dir} /\ released = FALSE
  BY DEF Init
<1>6. \A b \in Builders : b # Free /\ build[b] = Idle
  BY PublicationAssumption DEF Init, Free
<1>7. TypeOK
  <2>1. build \in [Builders -> {Idle} \cup Job]
    BY DEF Init
  <2>2. lock = Free /\ writer \in Manifest /\ written \in 0 .. MaxRevision /\ kept = {}
    BY <1>1, <1>2 DEF Init
  <2>3. staged \in 0 .. MaxBuilds /\ faults \in 0 .. MaxFaults /\ meddled \in 0 .. MaxMeddling
    BY PublicationAssumption DEF Init
  <2>4. QED
    BY <1>3, <1>5, <1>6, <2>1, <2>2, <2>3 DEF TypeOK
<1>8. FilesFit
  <2>1. kept = {}
    BY DEF Init
  <2>2. QED
    BY <1>2, <1>3, <1>4, <1>5, <2>1
       DEF FilesFit, OneUnsynced, Alike, BasePlain, KeepsWrites, Consistent, Pinned
<1>9. JobsFit /\ WriteFits
  BY <1>6 DEF JobsFit, WriteFits, Init, Free, Writer
<1>10. QED
  BY <1>7, <1>8, <1>9 DEF Inv

\* Every step keeps the invariant.
LEMMA StepInv == Inv /\ [Next]_vars => Inv'
<1> SUFFICES ASSUME Inv, [Next]_vars PROVE Inv'
  OBVIOUS
<1>1. ASSUME NEW b \in Builders, Step(b)
      PROVE  Inv'
  BY <1>1, RecoverInv, SyncsInv, StopInv, PreflightInv, RetrieveInv, LinkGraphInv, CheckInv,
     ReplaceInv, VerifyInv, RollBackInv, RetireInv, SyncRetiredInv DEF Step
<1>2. ASSUME NEW b \in Builders, Die(b)
      PROVE  Inv'
  BY <1>2, StopInv
<1>3. ASSUME NEW b \in Builders, NEW o \in Outputs, Start(b, o)
      PROVE  Inv'
  BY <1>3, StartInv
<1>4. ReadManifest \/ WriteAtomic \/ SyncWrite \/ WriterDies => Inv'
  BY WriterInv
<1>5. MachineCrash => Inv'
  BY MachineCrashInv
<1>6. ASSUME NEW o \in Outputs, Meddle(o)
      PROVE  Inv'
  BY <1>6, MeddleInv
<1>7. CASE UNCHANGED vars
  <2>1. FilesFit'
    BY <1>7, SameFit DEF vars, Inv
  <2>2. TypeOK' /\ JobsFit' /\ WriteFits'
    BY <1>7 DEF vars, Inv, TypeOK, JobsFit, WriteFits
  <2>3. QED
    BY <2>1, <2>2 DEF Inv
<1>8. QED
  BY <1>1, <1>2, <1>3, <1>4, <1>5, <1>6, <1>7 DEF Next

\* The invariant is what the run graph_publication checks, and more.
LEMMA InvIsEnough == Inv => FilesSound
<1> SUFFICES ASSUME Inv PROVE FilesSound
  OBVIOUS
<1>1. CrashLeavesAPast
  BY CrashIsPast DEF Inv, TypeOK, FilesFit
<1>2. NeverStranded /\ ReturnedWritesStay
  BY CrashedFit DEF NeverStranded, ReturnedWritesStay, KeepsWrites, Consistent
<1>3. RefusalRestores
  <2>1. ASSUME NEW b \in Builders, At(b, "refuse")
        PROVE  dir.manifest = build[b].found
    <3>1. Follows(build[b], dir, disk) /\ build[b].pc = "refuse"
      BY <2>1, JobIs
    <3>2. QED
      BY <3>1 DEF Follows, Ending, Retiring
  <2>2. QED
    BY <2>1 DEF RefusalRestores
<1>4. QED
  BY <1>1, <1>2, <1>3 DEF FilesSound, Inv

\* Whatever is killed, crashes or fails, at any step and however often: a
\* crash leaves the files and the pin as they once were and every revision whose
\* write returned, no file is left that a later build fails on for ever, and a
\* refused build has changed nothing (build_road_graph,
\* _publish_graph_and_manifest, _recover_publication, write_atomic).
THEOREM PackageStaysUsable == Spec => []FilesSound
<1>1. Spec => []Inv
  BY InitInv, StepInv, PTL DEF Spec
<1>2. QED
  BY <1>1, InvIsEnough, PTL

-----------------------------------------------------------------------------
(* What steps may never do                                                 *)

\* Only the two commits of a build, other writers, crashes and meddlers change the
\* manifest or a graph.
LEMMA Untouched ==
    ASSUME Inv, [Next]_vars
    PROVE  \/ dir'.manifest = dir.manifest /\ dir'.graph = dir.graph
           \/ \E b \in Builders : LinkGraph(b) \/ Replace(b) \/ RollBack(b)
           \/ WriteAtomic \/ MachineCrash
           \/ \E o \in Outputs : Meddle(o)
<1>1. dir \in Directory
  BY DEF Inv, TypeOK
<1>2. ASSUME NEW b \in Builders, Step(b), ~LinkGraph(b), ~Replace(b), ~RollBack(b)
      PROVE  dir'.manifest = dir.manifest /\ dir'.graph = dir.graph
  <2>1. dir' = dir \/ Retrieve(b) \/ Retire(b)
    BY <1>2 DEF Step, Recover, Stage, Refuse, Preflight, SyncJournal, SyncGraph, Check,
                SyncManifest, Verify, SyncRollBack, SyncRetired, Sync
  <2>2. ASSUME NEW journal, dir' = [dir EXCEPT !.journal = journal]
        PROVE  dir'.manifest = dir.manifest /\ dir'.graph = dir.graph
    BY <1>1, <2>2 DEF Directory
  <2>3. Retrieve(b) => dir' = dir \/ \E journal : dir' = [dir EXCEPT !.journal = journal]
    BY DEF Retrieve, NoChange
  <2>4. Retire(b) => \E journal : dir' = [dir EXCEPT !.journal = journal]
    BY DEF Retire, Change
  <2>5. QED
    BY <2>1, <2>2, <2>3, <2>4
<1>3. ASSUME NEW b \in Builders, Die(b) \/ \E o \in Outputs : Start(b, o)
      PROVE  dir' = dir
  BY <1>3 DEF Die, CallFails, Start
<1>4. ReadManifest \/ SyncWrite \/ WriterDies \/ UNCHANGED vars => dir' = dir
  BY DEF ReadManifest, SyncWrite, WriterDies, vars
<1>5. QED
  BY <1>2, <1>3, <1>4 DEF Next

\* No revision is taken back but by a crash, no foreign file is replaced, and a
\* graph is only taken off the manifest by a crash or after others have put a
\* file in its place.
LEMMA NothingLostStep ==
    ASSUME Inv, [Next]_vars
    PROVE  /\ MachineCrash \/
                 /\ dir.manifest.revisions \subseteq dir'.manifest.revisions
                 /\ Pinned(dir) /\ ~Pinned(dir') => meddled > 0
           /\ \A o \in Outputs : dir.graph[o] = Foreign => dir'.graph[o] = Foreign
<1>1. /\ dir \in Directory /\ dir \in disk /\ meddled \in Nat
      /\ dir.manifest \in Manifest
  BY PublicationAssumption DEF Inv, TypeOK, Directory, Manifest
<1>2. CASE dir'.manifest = dir.manifest /\ dir'.graph = dir.graph
  BY <1>1, <1>2 DEF Pinned
<1>3. ASSUME NEW b \in Builders, LinkGraph(b)
      PROVE  /\ dir'.manifest = dir.manifest
             /\ \A o \in Outputs : dir.graph[o] = Foreign => dir'.graph[o] = Foreign
  <2>1. build[b].output \in Outputs
    BY <1>3, JobIs DEF LinkGraph, Job
  <2>2. CASE /\ dir.graph[build[b].output] = NoFile
             /\ Change([dir EXCEPT !.graph[build[b].output] = build[b].file])
    <3>1. dir' = [dir EXCEPT !.graph[build[b].output] = build[b].file]
      BY <2>2 DEF Change
    <3>2. dir'.manifest = dir.manifest
          /\ dir'.graph = [dir.graph EXCEPT ![build[b].output] = build[b].file]
      BY <1>1, <3>1 DEF Directory
    <3>3. QED
      BY <1>1, <2>1, <2>2, <3>2, Absent DEF Directory
  <2>3. CASE NoChange
    BY <2>3 DEF NoChange
  <2>4. QED
    BY <1>3, <2>2, <2>3 DEF LinkGraph
<1>4. ASSUME NEW b \in Builders, Replace(b)
      PROVE  /\ dir'.manifest.revisions = dir.manifest.revisions /\ Pinned(dir')
             /\ dir'.graph = dir.graph
  <2>1. /\ build[b] \in Job /\ build[b].pc = "replace"
        /\ Follows(build[b], dir, disk)
    BY <1>4, JobIs DEF Replace
  <2>2. dir.manifest = build[b].base
    BY <2>1 DEF Follows, Ending, Retiring
  <2>3. dir' = [dir EXCEPT !.manifest = WithGraph(build[b].base, build[b].output, build[b].file)]
    BY <1>4 DEF Replace, Change, Published
  <2>4. /\ dir'.graph = dir.graph
        /\ dir'.manifest = WithGraph(build[b].base, build[b].output, build[b].file)
    BY <1>1, <2>3 DEF Directory
  <2>5. /\ dir'.manifest.revisions = build[b].base.revisions
        /\ dir'.manifest.pin = [output |-> build[b].output, digest |-> build[b].file.digest]
    BY <1>1, <2>2, <2>4 DEF WithGraph, Manifest
  <2>6. Pinned(dir')
    BY <2>1, <2>5, PublicationAssumption DEF Pinned, NoPin, Job
  <2>7. QED
    BY <2>2, <2>4, <2>5, <2>6
<1>5. ASSUME NEW b \in Builders, RollBack(b)
      PROVE  /\ dir'.manifest.revisions = dir.manifest.revisions /\ meddled > 0
             /\ dir'.graph = dir.graph
  <2>1. /\ build[b] \in Job /\ build[b].pc = "rollBack"
        /\ Follows(build[b], dir, disk)
        /\ meddled = 0 => Unspoilt(build[b], dir)
    BY <1>5, JobIs DEF RollBack
  <2>2. dir.manifest = WithGraph(build[b].base, build[b].output, build[b].file) /\ meddled # 0
    BY <2>1 DEF Follows, Unspoilt, Undoing
  <2>3. dir' = [dir EXCEPT !.manifest = build[b].base]
    BY <1>5 DEF RollBack, Change
  <2>4. dir'.graph = dir.graph /\ dir'.manifest = build[b].base
    BY <1>1, <2>3 DEF Directory
  <2>5. build[b].base.revisions = dir.manifest.revisions
    BY <2>1, <2>2 DEF WithGraph, Manifest, Job
  <2>6. QED
    BY <1>1, <2>2, <2>4, <2>5
<1>6. CASE WriteAtomic
  <2>1. dir' = [dir EXCEPT !.manifest = [dir.manifest EXCEPT !.revisions = @ \cup {written'}]]
    BY <1>6 DEF WriteAtomic, Revise, Change
  <2>2. PICK manifest : manifest = [dir.manifest EXCEPT !.revisions = @ \cup {written'}]
    OBVIOUS
  <2>3. dir'.graph = dir.graph /\ dir'.manifest = manifest
    BY <1>1, <2>1, <2>2 DEF Directory
  <2>4. /\ manifest.revisions = dir.manifest.revisions \cup {written'}
        /\ manifest.pin = dir.manifest.pin
    BY <1>1, <2>2 DEF Manifest
  <2>5. QED
    BY <2>3, <2>4 DEF Pinned
<1>7. MachineCrash => \A o \in Outputs : dir.graph[o] = Foreign => dir'.graph[o] = Foreign
  <2>1. SUFFICES ASSUME NEW new \in Mixed, dir' = new
                 PROVE  \A o \in Outputs : dir.graph[o] = Foreign => dir'.graph[o] = Foreign
    BY DEF MachineCrash
  <2>2. QED
    BY <2>1, CrashedFit
<1>8. ASSUME NEW o \in Outputs, Meddle(o)
      PROVE  /\ dir'.manifest = dir.manifest
             /\ \A p \in Outputs : dir.graph[p] = Foreign => dir'.graph[p] = Foreign
  <2>1. dir' = [dir EXCEPT !.graph[o] = Foreign]
    BY <1>8 DEF Meddle
  <2>2. dir'.manifest = dir.manifest /\ dir'.graph = [dir.graph EXCEPT ![o] = Foreign]
    BY <1>1, <2>1 DEF Directory
  <2>3. QED
    BY <1>1, <2>2 DEF Directory
<1>9. QED
  BY <1>1, <1>2, <1>3, <1>4, <1>5, <1>6, <1>7, <1>8, Untouched DEF Pinned

\* Neither a build nor another writer of the package takes anything of another's
\* away, whatever is killed in between; only a crash takes back what was not
\* synced (write_atomic, os.link, _commit_manifest).
THEOREM OthersKeepTheirs == Spec => NothingLost
<1>1. Spec => []Inv
  BY InitInv, StepInv, PTL DEF Spec
<1>2. Inv /\ [Next]_vars =>
         [MachineCrash \/
             /\ dir.manifest.revisions \subseteq dir'.manifest.revisions
             /\ Pinned(dir) /\ ~Pinned(dir') => meddled > 0]_vars
  BY NothingLostStep
<1>3. Inv /\ [Next]_vars =>
         [\A o \in Outputs : dir.graph[o] = Foreign => dir'.graph[o] = Foreign]_vars
  BY NothingLostStep
<1>4. QED
  BY <1>1, <1>2, <1>3, PTL DEF Spec, NothingLost, WorkKept, ForeignKept

-----------------------------------------------------------------------------
(* The package as its readers see it                                       *)

\* Untampered, a reader finds the graph just if the manifest pins one.
LEMMA ShownIs ==
    ASSUME Inv
    PROVE  Shown = IF meddled > 0 THEN "tampered"
                   ELSE IF Pinned(dir) THEN "extended" ELSE "plain"
<1>1. meddled \in Nat /\ dir \in disk
  BY PublicationAssumption DEF Inv, TypeOK
<1>2. meddled = 0 => Consistent(dir)
  BY <1>1 DEF Inv, FilesFit
<1>3. QED
  BY <1>1, <1>2 DEF Shown, Pinned, Consistent

\* A build reports when it ends, and only then.
LEMMA ReportStep ==
    ASSUME Inv, [Next]_vars
    PROVE  /\ released => released'
           /\ released' # released => dir' = dir /\ meddled' = meddled
           /\ meddled' = meddled \/ meddled' = meddled + 1
<1>1. released \in BOOLEAN
  BY DEF Inv, TypeOK
<1>2. ASSUME NEW b \in Builders, Step(b)
      PROVE  /\ meddled' = meddled
             /\ \/ released' = released
                \/ dir' = dir /\ released' = TRUE
  BY <1>1, <1>2 DEF Step, Recover, Stage, Refuse, Preflight, SyncJournal, SyncGraph, Check,
       SyncManifest, Verify, SyncRollBack, SyncRetired, Sync, Retrieve, LinkGraph, Replace,
       RollBack, Retire, Finish
<1>3. ASSUME NEW b \in Builders, Die(b) \/ \E o \in Outputs : Start(b, o)
      PROVE  UNCHANGED <<released, meddled>>
  BY <1>1, <1>3 DEF Die, CallFails, Start, Finish
<1>4. ASSUME \/ ReadManifest \/ WriteAtomic \/ SyncWrite \/ WriterDies
             \/ MachineCrash \/ UNCHANGED vars
      PROVE  UNCHANGED <<released, meddled>>
  BY <1>4 DEF ReadManifest, WriteAtomic, Revise, SyncWrite, WriterDies, MachineCrash, vars
<1>5. ASSUME NEW o \in Outputs, Meddle(o)
      PROVE  meddled' = meddled + 1 /\ released' = released
  BY <1>5 DEF Meddle
<1>6. QED
  BY <1>1, <1>2, <1>3, <1>4, <1>5 DEF Next

\* Every step is one of the abstract package's, or none of it shows.
LEMMA StepImplements ==
    Inv /\ [Next]_vars => [Release!Next]_<<Shown, released>>
<1> SUFFICES ASSUME Inv, [Next]_vars
             PROVE  [Release!Next]_<<Shown, released>>
  OBVIOUS
<1>1. Inv'
  BY StepInv
<1>2. /\ meddled \in Nat /\ meddled' \in Nat /\ released \in BOOLEAN /\ released' \in BOOLEAN
      /\ dir' \in disk'
  BY <1>1, PublicationAssumption DEF Inv, TypeOK
<1>3. Shown = IF meddled > 0 THEN "tampered" ELSE IF Pinned(dir) THEN "extended" ELSE "plain"
  BY ShownIs
<1>4. Shown' = IF meddled' > 0 THEN "tampered" ELSE IF Pinned(dir') THEN "extended" ELSE "plain"
  <2>1. meddled' = 0 => Consistent(dir')
    BY <1>1, <1>2 DEF Inv, FilesFit
  <2>2. QED
    BY <1>2, <2>1 DEF Shown, Pinned, Consistent
<1>5. meddled' = 0 /\ released' => Pinned(dir')
  BY <1>1, <1>2 DEF Inv, FilesFit
<1>6. QED
  BY <1>2, <1>3, <1>4, <1>5, ReportStep
     DEF Release!Next, Release!Attach, Release!Undo, Release!Report, Release!Tamper,
         Release!Untrusted, Pinned

\* A reader finds the package without the graph or with the whole of it, and
\* once success was reported no crash takes it back (build_road_graph).
THEOREM ReleaseImplemented == Spec => ImplementsRelease
<1>1. Spec => []Inv
  BY InitInv, StepInv, PTL DEF Spec
<1>2. Init => Release!Init
  BY DEF Init, Release!Init, Shown
<1>3. QED
  BY <1>1, <1>2, StepImplements, PTL DEF Spec, ImplementsRelease, Release!Spec
=============================================================================
