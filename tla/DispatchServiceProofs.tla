------------------------- MODULE DispatchServiceProofs -------------------------
(***************************************************************************)
(* Dispatch keeps its promises, and the transactions of live planning      *)
(* implement it: what each of them checked still holds when it writes, no  *)
(* circle of them waits, and a request takes effect once, for every set of *)
(* calls, sources, keys, requests, resources and releases and every bound. *)
(***************************************************************************)
EXTENDS DispatchService, SequenceTheorems, TLAPS

-----------------------------------------------------------------------------
(* The order of the locks.                                                 *)

\* Locks that a request takes one after the other.
Steps(q) ==
    CASE q.kind = "generate" -> 3
      [] q.kind = "decide" -> IF q.action = "reject" THEN 2 ELSE 5
      [] OTHER -> 2

\* Where the i-th of them stands in the order that all transactions follow.
Rank(q, i) ==
    CASE q.kind = "create"   -> IF i = 1 THEN 1 ELSE 5
      [] q.kind = "version"  -> IF i = 1 THEN 1 ELSE 4
      [] q.kind = "generate" -> IF i = 1 THEN 1 ELSE i + 1
      [] q.kind = "decide"   -> IF i = 5 THEN 6 ELSE i
      [] q.kind = "ingest"   -> IF i = 1 THEN 3 ELSE 5

Places == <<"key", "recommendation", "refresh", "scenario", "incident", "resource">>

\* The five kinds of requests.
LEMMA KindsAre ==
    /\ Kinds = {"create", "version", "generate", "decide", "ingest"}
    /\ \A q \in Request : q.kind \in Kinds
BY DEF Kinds, Actions, Request

\* Two statements followed by three are five, in that order.
LEMMA TwoAndThree ==
    ASSUME NEW a, NEW b, NEW c, NEW d, NEW e
    PROVE  LET s == <<a, b>> \o <<c, d, e>> IN
           Len(s) = 5 /\ s[1] = a /\ s[2] = b /\ s[3] = c /\ s[4] = d /\ s[5] = e
<1> DEFINE S == {a, b, c, d, e}
           f == <<a, b>>
           g == <<c, d, e>>
<1>1. f \in Seq(S) /\ g \in Seq(S)
  <2>1. f \in Seq(S)
    OBVIOUS
  <2>2. g \in Seq(S)
    OBVIOUS
  <2>3. QED
    BY <2>1, <2>2
<1>2. /\ Len(f) = 2 /\ Len(g) = 3
      /\ f[1] = a /\ f[2] = b /\ g[1] = c /\ g[2] = d /\ g[3] = e
  OBVIOUS
<1> HIDE DEF S, f, g
<1>3. /\ Len(f \o g) = 5
      /\ \A i \in 1 .. 5 : (f \o g)[i] = IF i <= 2 THEN f[i] ELSE g[i - 2]
  <2>1. /\ Len(f \o g) = Len(f) + Len(g)
        /\ \A i \in 1 .. Len(f) + Len(g) :
              (f \o g)[i] = IF i <= Len(f) THEN f[i] ELSE g[i - Len(f)]
    BY <1>1, ConcatProperties
  <2>2. QED
    BY <1>2, <2>1
<1>4. Len(f \o g) = 5 /\ (f \o g)[1] = a /\ (f \o g)[2] = b
      /\ (f \o g)[3] = c /\ (f \o g)[4] = d /\ (f \o g)[5] = e
  <2>1. /\ (f \o g)[1] = f[1] /\ (f \o g)[2] = f[2]
        /\ (f \o g)[3] = g[3 - 2] /\ (f \o g)[4] = g[4 - 2] /\ (f \o g)[5] = g[5 - 2]
    BY <1>3
  <2>2. QED
    BY <1>2, <1>3, <2>1
<1>5. QED
  BY <1>4 DEF f, g

\* What Locks is, lock by lock.
LEMMA LocksAre ==
    ASSUME NEW q, q.kind \in Kinds
    PROVE  /\ Len(Locks(q)) = Steps(q)
           /\ Steps(q) \in 2 .. 5
           /\ Locks(q)[1] = IF q.kind = "ingest" THEN {<<"refresh">>} ELSE {KeyLock(q)}
           /\ q.kind \in {"create", "ingest"} => Locks(q)[2] = {<<"incident">>}
           /\ q.kind = "version" => Locks(q)[2] = {<<"scenario", q.target[1]>>}
           /\ q.kind = "generate" => /\ Locks(q)[2] = {<<"refresh">>}
                                     /\ Locks(q)[3] = {<<"scenario", q.target[1]>>}
           /\ q.kind = "decide" =>
                 /\ Locks(q)[2] = {<<"recommendation", q.target[1]>>}
                 /\ q.action # "reject" =>
                       /\ Locks(q)[3] = {<<"refresh">>}
                       /\ Locks(q)[4] =
                             {<<"scenario", recommendations[q.target[1]].scenario>>}
                       /\ Locks(q)[5] = {<<"resource", u>> : u \in Assigned(q)}
<1>1. CASE q.kind = "create"
  BY <1>1 DEF Locks, Steps
<1>2. CASE q.kind = "version"
  BY <1>2 DEF Locks, Steps
<1>3. CASE q.kind = "generate"
  BY <1>3 DEF Locks, Steps
<1>4. CASE q.kind = "ingest"
  BY <1>4 DEF Locks, Steps
<1>5. CASE q.kind = "decide"
  <2> DEFINE rec == recommendations[q.target[1]]
             a == {KeyLock(q)}
             b == {<<"recommendation", q.target[1]>>}
             c == {<<"refresh">>}
             d == {<<"scenario", rec.scenario>>}
             e == {<<"resource", u>> : u \in Assigned(q)}
  <2>1. Locks(q) = DecisionLocks(q)
    BY <1>5 DEF Locks
  <2>2. DecisionLocks(q) = IF q.action = "reject" THEN <<a, b>> ELSE <<a, b>> \o <<c, d, e>>
    BY DEF DecisionLocks
  <2>3. CASE q.action = "reject"
    BY <1>5, <2>1, <2>2, <2>3 DEF Steps
  <2>4. CASE q.action # "reject"
    <3> HIDE DEF a, b, c, d, e
    <3>1. /\ Len(Locks(q)) = 5 /\ Locks(q)[1] = a /\ Locks(q)[2] = b
          /\ Locks(q)[3] = c /\ Locks(q)[4] = d /\ Locks(q)[5] = e
      BY <2>1, <2>2, <2>4, TwoAndThree
    <3>2. QED
      BY <1>5, <2>4, <3>1 DEF Steps, a, b, c, d, e
  <2>5. QED
    BY <2>3, <2>4
<1>6. QED
  BY <1>1, <1>2, <1>3, <1>4, <1>5, KindsAre

\* All transactions take their locks in one order: keys, recommendations, the
\* refresh of incidents, scenarios, incidents, resources.
LEMMA LocksInOrder ==
    ASSUME NEW q, q.kind \in Kinds, NEW i \in 1 .. Len(Locks(q))
    PROVE  /\ Rank(q, i) \in 1 .. 6
           /\ \A j \in 1 .. i - 1 : Rank(q, j) < Rank(q, i)
           /\ \A l \in Locks(q)[i] : l[1] = Places[Rank(q, i)]
<1>1. /\ i \in 1 .. Steps(q) /\ Steps(q) \in 2 .. 5
  BY LocksAre
<1>2. Rank(q, i) \in 1 .. 6 /\ \A j \in 1 .. i - 1 : Rank(q, j) < Rank(q, i)
  BY <1>1, KindsAre DEF Steps, Rank
<1>3. /\ Places[1] = "key" /\ Places[2] = "recommendation" /\ Places[3] = "refresh"
      /\ Places[4] = "scenario" /\ Places[5] = "incident" /\ Places[6] = "resource"
  BY DEF Places
<1>4. /\ KeyLock(q)[1] = "key"
      /\ <<"refresh">>[1] = "refresh"
      /\ <<"incident">>[1] = "incident"
  BY DEF KeyLock
<1> HIDE DEF Places
<1>5. /\ Locks(q)[1] = IF q.kind = "ingest" THEN {<<"refresh">>} ELSE {KeyLock(q)}
      /\ q.kind \in {"create", "ingest"} => Locks(q)[2] = {<<"incident">>}
      /\ q.kind = "version" => Locks(q)[2] = {<<"scenario", q.target[1]>>}
      /\ q.kind = "generate" => /\ Locks(q)[2] = {<<"refresh">>}
                                /\ Locks(q)[3] = {<<"scenario", q.target[1]>>}
      /\ q.kind = "decide" => Locks(q)[2] = {<<"recommendation", q.target[1]>>}
      /\ q.kind = "decide" /\ q.action # "reject" =>
            /\ Locks(q)[3] = {<<"refresh">>}
            /\ Locks(q)[4] = {<<"scenario", recommendations[q.target[1]].scenario>>}
            /\ Locks(q)[5] = {<<"resource", u>> : u \in Assigned(q)}
  BY LocksAre
<1>6. CASE i = 1
  <2>1. \A l \in Locks(q)[1] : l[1] = IF q.kind = "ingest" THEN "refresh" ELSE "key"
    BY <1>4, <1>5
  <2>2. QED
    BY <1>3, <1>6, <2>1, KindsAre DEF Rank
<1>7. CASE i = 2
  <2>1. \A l \in Locks(q)[2] :
           /\ q.kind \in {"create", "ingest"} => l[1] = "incident"
           /\ q.kind = "version" => l[1] = "scenario"
           /\ q.kind = "generate" => l[1] = "refresh"
           /\ q.kind = "decide" => l[1] = "recommendation"
    BY <1>5, KindsAre
  <2>2. QED
    BY <1>3, <1>7, <2>1, KindsAre DEF Rank
<1>8. CASE i = 3 /\ q.kind = "generate"
  <2>1. \A l \in Locks(q)[3] : l[1] = "scenario"
    BY <1>8, <1>5
  <2>2. QED
    BY <1>3, <1>8, <2>1 DEF Rank
<1>9. CASE i \in 3 .. 5 /\ q.kind = "decide"
  <2>1. q.action # "reject"
    BY <1>1, <1>9 DEF Steps
  <2>2. /\ \A l \in Locks(q)[3] : l[1] = "refresh"
        /\ \A l \in Locks(q)[4] : l[1] = "scenario"
        /\ \A l \in Locks(q)[5] : l[1] = "resource"
    BY <1>9, <2>1, <1>5
  <2>3. QED
    BY <1>3, <1>9, <2>2 DEF Rank
<1>10. \/ i \in 1 .. 2
       \/ i = 3 /\ q.kind = "generate"
       \/ i \in 3 .. 5 /\ q.kind = "decide"
  BY <1>1, KindsAre DEF Steps
<1>11. QED
  BY <1>2, <1>6, <1>7, <1>8, <1>9, <1>10

\* A task that waits for another one that waits wants a lock that comes before
\* the one the other wants, so nobody waits in a circle.
LEMMA NobodyWaitsInACircle ==
    ASSUME TypeOK, TasksFit
    PROVE  NoCircularWait
<1> DEFINE Waiting == {p \in Parties : tasks[p].stage = "acquiring"}
           At(p) == Rank(tasks[p].request, tasks[p].held + 1)
<1>1. ASSUME NEW p \in Waiting
      PROVE  /\ tasks[p].request.kind \in Kinds
             /\ tasks[p].held \in Nat
             /\ tasks[p].held + 1 \in 1 .. Len(Locks(tasks[p].request))
  <2>1. tasks[p] \in Task
    BY DEF TypeOK
  <2>2. tasks[p].request \in Request /\ tasks[p].held \in 0 .. 5
    BY <2>1 DEF Task
  <2>3. tasks[p].held < Len(Locks(tasks[p].request))
    BY DEF TasksFit
  <2>4. Len(Locks(tasks[p].request)) \in Nat
    BY <2>2, KindsAre, LocksAre
  <2>5. QED
    BY <2>2, <2>3, <2>4, KindsAre
<1>2. ASSUME NEW p \in Waiting PROVE At(p) \in 1 .. 6
  BY <1>1, LocksInOrder
<1>3. ASSUME NEW p \in Waiting, NEW o \in Waiting, WaitsFor(p, o)
      PROVE  At(p) < At(o)
  <2>1. PICK l : l \in Wanted(p) /\ l \in Held(o)
    BY <1>3 DEF WaitsFor
  <2>2. l[1] = Places[At(p)]
    BY <1>1, <2>1, LocksInOrder DEF Wanted
  <2>3. PICK i \in 1 .. tasks[o].held : l \in Locks(tasks[o].request)[i]
    BY <2>1 DEF Held
  <2>4. i \in 1 .. Len(Locks(tasks[o].request)) /\ i \in 1 .. (tasks[o].held + 1) - 1
    BY <1>1, <2>3
  <2>5. l[1] = Places[Rank(tasks[o].request, i)] /\ Rank(tasks[o].request, i) \in 1 .. 6
    BY <1>1, <2>3, <2>4, LocksInOrder
  <2>6. Rank(tasks[o].request, i) < At(o)
    BY <1>1, <2>4, LocksInOrder
  <2>7. At(p) = Rank(tasks[o].request, i)
    <3>1. \A x, y \in 1 .. 6 : Places[x] = Places[y] => x = y
      BY DEF Places
    <3> HIDE DEF At
    <3>2. QED
      BY <1>2, <2>2, <2>5, <3>1
  <2>8. QED
    BY <2>6, <2>7
<1> HIDE DEF At
<1>4. ASSUME NEW group \in SUBSET Waiting, group # {}
      PROVE  \E p \in group : \A o \in group : ~WaitsFor(p, o)
  <2>1. PICK p \in group : \A o \in group : At(o) <= At(p)
    <3>1. \A o \in group : At(o) \in 1 .. 6
      BY <1>2
    <3>2. QED
      BY <1>4, <3>1
  <2>2. ASSUME NEW o \in group, WaitsFor(p, o) PROVE FALSE
    <3>1. At(p) < At(o) /\ At(o) <= At(p) /\ At(p) \in 1 .. 6 /\ At(o) \in 1 .. 6
      BY <1>2, <1>3, <2>1, <2>2
    <3>2. QED
      BY <3>1
  <2>3. QED
    BY <2>2
<1>5. QED
  BY <1>4 DEF NoCircularWait

-----------------------------------------------------------------------------
(* Dispatch, the abstract specification, by itself: an inductive invariant,  *)
(* one lemma per operation, and what has been overtaken.                     *)

Kept == D!TypeOK /\ DispatchSound

\* What appending to a sequence leaves and adds, in one place.
LEMMA Appended ==
    ASSUME NEW S, NEW s \in Seq(S), NEW e \in S
    PROVE  /\ Append(s, e) \in Seq(S)
           /\ Len(s) \in Nat
           /\ Len(Append(s, e)) = Len(s) + 1
           /\ \A i \in 1 .. Len(s) : Append(s, e)[i] = s[i]
           /\ Append(s, e)[Len(s) + 1] = e
           /\ \A i \in 1 .. Len(s) : s[i] \in S
BY AppendProperties, ElementOfSeq, LenProperties

\* Nothing is promised yet when nothing is stored.
LEMMA KeptInit == FirstRelease \in Releases /\ D!Init => Kept
<1> SUFFICES ASSUME FirstRelease \in Releases, D!Init PROVE Kept
  OBVIOUS
<1>1. \A S : <<>> \in Seq(S) /\ Len(<<>>) = 0
  OBVIOUS
<1>2. D!TypeOK
  BY <1>1 DEF D!Init, D!TypeOK
<1>3. 1 .. Len(decisions) = {} /\ 1 .. Len(recommendations) = {}
  BY DEF D!Init
<1>4. QED
  BY <1>2, <1>3 DEF Kept, DispatchSound, D!NoDoubleDispatch, D!DispatchWithinPlan

-----------------------------------------------------------------------------
(* What the types say of the elements.                                     *)

\* What the records of the typed sequences are, field by field.
LEMMA Elements ==
    ASSUME D!TypeOK
    PROVE  /\ Len(scenarios) \in Nat /\ Len(recommendations) \in Nat /\ Len(decisions) \in Nat
           /\ \A s \in 1 .. Len(scenarios) :
                 /\ scenarios[s] \in D!Scenario
                 /\ scenarios[s].pinned \in Nat
                 /\ scenarios[s].overlays \in Seq(SUBSET Resources)
                 /\ scenarios[s].overlays # <<>>
                 /\ Len(scenarios[s].overlays) \in Nat
           /\ \A i \in 1 .. Len(recommendations) :
                 /\ recommendations[i] \in D!Recommendation
                 /\ recommendations[i].snapshot \in Nat
                 /\ recommendations[i].proposed \in SUBSET Resources
           /\ \A d \in 1 .. Len(decisions) :
                 /\ decisions[d] \in D!Decision
                 /\ decisions[d].assigned \in SUBSET Resources
<1>1. /\ Len(scenarios) \in Nat /\ \A s \in 1 .. Len(scenarios) : scenarios[s] \in D!Scenario
      /\ Len(recommendations) \in Nat
      /\ \A i \in 1 .. Len(recommendations) : recommendations[i] \in D!Recommendation
      /\ Len(decisions) \in Nat /\ \A d \in 1 .. Len(decisions) : decisions[d] \in D!Decision
  BY ElementOfSeq, LenProperties DEF D!TypeOK
<1>2. \A o \in D!Scenario :
         /\ o.pinned \in Nat /\ o.overlays \in Seq(SUBSET Resources) /\ o.overlays # <<>>
         /\ Len(o.overlays) \in Nat
  BY DEF D!Scenario
<1>3. \A r \in D!Recommendation : r.snapshot \in Nat /\ r.proposed \in SUBSET Resources
  BY DEF D!Recommendation
<1>4. \A d \in D!Decision : d.assigned \in SUBSET Resources
  BY DEF D!Decision
<1>5. QED
  BY <1>1, <1>2, <1>3, <1>4

\* Whatever only adds scenarios and versions, and takes snapshots, keeps every
\* stored recommendation and decision within its plan.
LEMMA HistoryKept ==
    ASSUME Kept, D!TypeOK',
           snapshot' >= snapshot,
           UNCHANGED <<recommendations, decisions>>,
           Len(scenarios') >= Len(scenarios),
           \A s \in 1 .. Len(scenarios) :
              /\ scenarios'[s].pinned = scenarios[s].pinned
              /\ Len(scenarios'[s].overlays) >= Len(scenarios[s].overlays)
              /\ \A v \in 1 .. Len(scenarios[s].overlays) :
                    scenarios'[s].overlays[v] = scenarios[s].overlays[v]
    PROVE  Kept'
<1>1. D!NoDoubleDispatch'
  BY DEF Kept, DispatchSound, D!NoDoubleDispatch
<1>2. /\ Len(scenarios) \in Nat /\ Len(scenarios)' \in Nat
      /\ snapshot \in Nat /\ snapshot' \in Nat
      /\ \A s \in 1 .. Len(scenarios) : Len(scenarios[s].overlays) \in Nat
      /\ \A s \in 1 .. Len(scenarios') : Len(scenarios'[s].overlays) \in Nat
      /\ \A i \in 1 .. Len(recommendations) : recommendations[i].snapshot \in Nat
  <2>1. D!TypeOK
    BY DEF Kept, DispatchSound
  <2>2. QED
    BY <2>1, Elements DEF D!TypeOK
<1>3. ASSUME NEW i \in 1 .. Len(recommendations)
      PROVE  LET rec == recommendations[i] IN
             /\ rec.scenario \in 1 .. Len(scenarios)
             /\ rec.version \in 1 .. Len(scenarios[rec.scenario].overlays)
             /\ rec.scenario \in 1 .. Len(scenarios')
             /\ rec.version \in 1 .. Len(scenarios'[rec.scenario].overlays)
             /\ rec.snapshot = scenarios'[rec.scenario].pinned
             /\ rec.snapshot <= snapshot'
             /\ rec.proposed \cap scenarios'[rec.scenario].overlays[rec.version] = {}
             /\ rec.proposed # {} => rec.solved
             /\ scenarios'[rec.scenario].overlays[rec.version]
                  = scenarios[rec.scenario].overlays[rec.version]
  <2> DEFINE rec == recommendations[i]
  <2>1. /\ rec.scenario \in 1 .. Len(scenarios)
        /\ rec.version \in 1 .. Len(scenarios[rec.scenario].overlays)
        /\ rec.snapshot = scenarios[rec.scenario].pinned
        /\ rec.snapshot <= snapshot
        /\ rec.proposed \cap scenarios[rec.scenario].overlays[rec.version] = {}
        /\ rec.proposed # {} => rec.solved
    BY DEF Kept, DispatchSound, D!DispatchWithinPlan
  <2>2. /\ rec.scenario \in 1 .. Len(scenarios')
        /\ rec.snapshot <= snapshot'
        /\ rec.version \in 1 .. Len(scenarios'[rec.scenario].overlays)
        /\ rec.snapshot = scenarios'[rec.scenario].pinned
        /\ scenarios'[rec.scenario].overlays[rec.version]
             = scenarios[rec.scenario].overlays[rec.version]
    <3> DEFINE s == rec.scenario
               v == rec.version
               n == rec.snapshot
    <3>1. /\ s \in 1 .. Len(scenarios) /\ v \in 1 .. Len(scenarios[s].overlays)
          /\ n = scenarios[s].pinned /\ n <= snapshot /\ n \in Nat
      BY <1>2, <2>1
    <3> HIDE DEF s, v, n
    <3>2. s \in 1 .. Len(scenarios') /\ n <= snapshot'
      BY <1>2, <3>1
    <3>3. v \in 1 .. Len(scenarios'[s].overlays)
      BY <1>2, <3>1, <3>2
    <3>4. n = scenarios'[s].pinned /\ scenarios'[s].overlays[v] = scenarios[s].overlays[v]
      BY <3>1
    <3>5. QED
      BY <3>2, <3>3, <3>4 DEF s, v, n
  <2>3. QED
    BY <2>1, <2>2
<1>4. ASSUME NEW d \in 1 .. Len(decisions)
      PROVE  LET rec == recommendations[decisions[d].recommendation] IN
             /\ decisions[d].recommendation \in 1 .. Len(recommendations)
             /\ decisions[d].assigned \cap scenarios'[rec.scenario].overlays[rec.version] = {}
             /\ decisions[d].assigned # {} => rec.solved
  BY <1>3 DEF Kept, DispatchSound, D!DispatchWithinPlan
<1>5. D!DispatchWithinPlan'
  BY <1>3, <1>4 DEF D!DispatchWithinPlan
<1>6. QED
  BY <1>1, <1>5 DEF Kept, DispatchSound

-----------------------------------------------------------------------------
(* One lemma per operation.                                                *)

\* A new snapshot changes no plan and no decision.
LEMMA RefreshKept == Kept /\ D!Refresh => Kept'
<1> SUFFICES ASSUME Kept, D!Refresh PROVE Kept'
  OBVIOUS
<1>1. D!TypeOK /\ D!TypeOK'
  BY DEF Kept, DispatchSound, D!Refresh, D!TypeOK
<1>2. /\ snapshot' >= snapshot
      /\ UNCHANGED <<scenarios, recommendations, decisions>>
  BY <1>1 DEF D!Refresh, D!TypeOK
<1>3. QED
  BY <1>1, <1>2, HistoryKept, Elements

\* Neither does another release of the API.
LEMMA RedeployKept == Kept /\ D!Redeploy => Kept'
BY DEF Kept, DispatchSound, D!Redeploy, D!TypeOK, D!NoDoubleDispatch, D!DispatchWithinPlan

\* A new scenario pins a snapshot that exists.
LEMMA CreateKept == Kept /\ D!CreateScenario => Kept'
<1> SUFFICES ASSUME Kept, D!CreateScenario PROVE Kept'
  OBVIOUS
<1> DEFINE new == [pinned |-> snapshot, overlays |-> <<{}>>]
<1>1. new \in D!Scenario
  <2>1. <<{}>> \in Seq(SUBSET Resources) /\ <<{}>> # <<>>
    OBVIOUS
  <2>2. QED
    BY <2>1 DEF Kept, DispatchSound, D!TypeOK, D!Scenario
<1> HIDE DEF new
<1>2. scenarios \in Seq(D!Scenario) /\ scenarios' = Append(scenarios, new)
  BY DEF new, Kept, DispatchSound, D!TypeOK, D!CreateScenario
<1>3. /\ scenarios' \in Seq(D!Scenario)
      /\ Len(scenarios) \in Nat
      /\ Len(scenarios') = Len(scenarios) + 1
      /\ \A s \in 1 .. Len(scenarios) : scenarios'[s] = scenarios[s]
  BY <1>1, <1>2, Appended
<1>4. D!TypeOK /\ D!TypeOK'
  BY <1>3 DEF Kept, DispatchSound, D!CreateScenario, D!TypeOK
<1>5. /\ snapshot' >= snapshot /\ UNCHANGED <<recommendations, decisions>>
      /\ Len(scenarios') >= Len(scenarios)
  BY <1>3, <1>4 DEF D!CreateScenario, D!TypeOK
<1>6. \A s \in 1 .. Len(scenarios) :
         /\ scenarios'[s].pinned = scenarios[s].pinned
         /\ Len(scenarios'[s].overlays) >= Len(scenarios[s].overlays)
         /\ \A v \in 1 .. Len(scenarios[s].overlays) :
               scenarios'[s].overlays[v] = scenarios[s].overlays[v]
  BY <1>3, <1>4, Elements
<1>7. QED
  BY <1>4, <1>5, <1>6, HistoryKept

\* A version is added behind those that plans refer to.
LEMMA AddVersionKept ==
    ASSUME Kept, NEW s \in 1 .. Len(scenarios), NEW overlay \in SUBSET Resources,
           D!AddVersion(s, overlay)
    PROVE  Kept'
<1> DEFINE old == scenarios[s].overlays
           new == Append(old, overlay)
           changed == [scenarios[s] EXCEPT !.overlays = new]
<1>1. /\ D!TypeOK
      /\ scenarios[s] \in D!Scenario /\ old \in Seq(SUBSET Resources) /\ Len(scenarios) \in Nat
  BY Elements DEF Kept, DispatchSound
<1>2. /\ new \in Seq(SUBSET Resources) /\ Len(old) \in Nat /\ Len(new) = Len(old) + 1
      /\ \A v \in 1 .. Len(old) : new[v] = old[v]
  BY <1>1, Appended
<1> HIDE DEF new
<1>3. new # <<>>
  BY <1>2
<1>4. changed \in D!Scenario /\ changed.pinned = scenarios[s].pinned /\ changed.overlays = new
  BY <1>1, <1>2, <1>3 DEF D!Scenario
<1> HIDE DEF changed
<1>5. scenarios' = [scenarios EXCEPT ![s] = changed]
  BY DEF D!AddVersion, changed, new
<1>6. /\ scenarios' \in Seq(D!Scenario)
      /\ Len(scenarios') = Len(scenarios)
      /\ \A r \in 1 .. Len(scenarios) :
            scenarios'[r] = IF r = s THEN changed ELSE scenarios[r]
  BY <1>1, <1>4, <1>5, ExceptSeq DEF D!TypeOK
<1>7. D!TypeOK'
  BY <1>1, <1>6 DEF D!AddVersion, D!TypeOK
<1>8. /\ snapshot' >= snapshot /\ UNCHANGED <<recommendations, decisions>>
      /\ Len(scenarios') >= Len(scenarios)
  BY <1>1, <1>6 DEF D!AddVersion, D!TypeOK
<1>9. ASSUME NEW r \in 1 .. Len(scenarios)
      PROVE  /\ scenarios'[r].pinned = scenarios[r].pinned
             /\ Len(scenarios'[r].overlays) >= Len(scenarios[r].overlays)
             /\ \A v \in 1 .. Len(scenarios[r].overlays) :
                   scenarios'[r].overlays[v] = scenarios[r].overlays[v]
  <2>1. CASE r = s
    BY <1>2, <1>4, <1>6, <2>1
  <2>2. CASE r # s
    BY <1>1, <1>6, <2>2, Elements
  <2>3. QED
    BY <2>1, <2>2
<1>10. QED
  BY <1>7, <1>8, <1>9, HistoryKept

\* A recommendation stored names the version it was computed for.
LEMMA RecommendKept ==
    ASSUME Kept,
           NEW s \in 1 .. Len(scenarios), NEW v \in 1 .. Len(scenarios[s].overlays),
           NEW plan \in D!Proposals(s, v), D!Recommend(s, v, plan)
    PROVE  Kept'
<1> DEFINE new == [ scenario |-> s, version |-> v, snapshot |-> scenarios[s].pinned,
                    release |-> release, solved |-> plan.solved, proposed |-> plan.proposed ]
<1>1. /\ D!TypeOK
      /\ Len(scenarios) \in Nat /\ Len(scenarios[s].overlays) \in Nat
      /\ scenarios[s].pinned \in Nat
  BY Elements DEF Kept, DispatchSound
<1>2. /\ plan.solved \in BOOLEAN /\ plan.proposed \in SUBSET Resources
      /\ plan.proposed \cap scenarios[s].overlays[v] = {}
      /\ plan.proposed # {} => plan.solved
  BY DEF D!Proposals, D!Available
<1>3. new \in D!Recommendation
  BY <1>1, <1>2 DEF D!Recommendation, D!TypeOK
<1>4. /\ new.scenario = s /\ new.version = v /\ new.snapshot = scenarios[s].pinned
      /\ new.proposed = plan.proposed /\ new.solved = plan.solved
  OBVIOUS
<1> HIDE DEF new
<1>5. recommendations' = Append(recommendations, new)
  BY DEF D!Recommend, new
<1>6. /\ recommendations' \in Seq(D!Recommendation)
      /\ Len(recommendations) \in Nat
      /\ Len(recommendations') = Len(recommendations) + 1
      /\ \A i \in 1 .. Len(recommendations) : recommendations'[i] = recommendations[i]
      /\ recommendations'[Len(recommendations) + 1] = new
  BY <1>1, <1>3, <1>5, Appended DEF D!TypeOK
<1>7. D!TypeOK'
  BY <1>1, <1>6 DEF D!Recommend, D!TypeOK
<1>8. D!NoDoubleDispatch'
  BY DEF Kept, DispatchSound, D!Recommend, D!NoDoubleDispatch
<1>9. /\ scenarios[s].pinned <= snapshot
      /\ UNCHANGED <<scenarios, snapshot, decisions>>
  BY <1>1 DEF D!Recommend, D!CurrentVersion, D!TypeOK
<1>10. ASSUME NEW i \in 1 .. Len(recommendations')
       PROVE  LET rec == recommendations'[i] IN
              /\ rec.scenario \in 1 .. Len(scenarios)
              /\ rec.version \in 1 .. Len(scenarios[rec.scenario].overlays)
              /\ rec.snapshot = scenarios[rec.scenario].pinned
              /\ rec.snapshot <= snapshot
              /\ rec.proposed \cap scenarios[rec.scenario].overlays[rec.version] = {}
              /\ rec.proposed # {} => rec.solved
  <2>1. CASE i \in 1 .. Len(recommendations)
    BY <1>6, <2>1 DEF Kept, DispatchSound, D!DispatchWithinPlan
  <2>2. CASE i = Len(recommendations) + 1
    BY <1>2, <1>4, <1>6, <1>9, <2>2
  <2>3. QED
    BY <1>6, <2>1, <2>2
<1>11. ASSUME NEW d \in 1 .. Len(decisions)
       PROVE  LET rec == recommendations'[decisions[d].recommendation] IN
              /\ decisions[d].recommendation \in 1 .. Len(recommendations')
              /\ decisions[d].assigned \cap scenarios[rec.scenario].overlays[rec.version] = {}
              /\ decisions[d].assigned # {} => rec.solved
  <2>1. decisions[d].recommendation \in 1 .. Len(recommendations)
    BY DEF Kept, DispatchSound, D!DispatchWithinPlan
  <2>2. /\ recommendations'[decisions[d].recommendation]
             = recommendations[decisions[d].recommendation]
        /\ decisions[d].recommendation \in 1 .. Len(recommendations')
    BY <1>6, <2>1
  <2>3. QED
    BY <2>1, <2>2 DEF Kept, DispatchSound, D!DispatchWithinPlan
<1>12. D!DispatchWithinPlan'
  BY <1>9, <1>10, <1>11 DEF D!DispatchWithinPlan
<1>13. QED
  BY <1>7, <1>8, <1>12 DEF Kept, DispatchSound

\* A decision sends out only resources that its plan had and nobody else sent.
LEMMA DecideKept ==
    ASSUME Kept,
           NEW i \in 1 .. Len(recommendations), NEW action \in D!Actions,
           NEW assigned \in D!Assignable(recommendations[i], action),
           D!Decide(i, action, assigned)
    PROVE  Kept'
<1> DEFINE new == [recommendation |-> i, action |-> action, assigned |-> assigned]
           rec == recommendations[i]
<1>1. /\ D!TypeOK
      /\ Len(recommendations) \in Nat /\ Len(decisions) \in Nat
      /\ rec.proposed \in SUBSET Resources
  BY Elements DEF Kept, DispatchSound
<1>2. /\ rec.proposed \cap scenarios[rec.scenario].overlays[rec.version] = {}
      /\ rec.proposed # {} => rec.solved
  BY DEF Kept, DispatchSound, D!DispatchWithinPlan
<1>3. /\ assigned \in SUBSET Resources
      /\ assigned \cap scenarios[rec.scenario].overlays[rec.version] = {}
      /\ assigned # {} => rec.solved
  <2>1. CASE action = "reject"
    BY <2>1 DEF D!Assignable
  <2>2. CASE action = "approve"
    BY <1>1, <1>2, <2>2 DEF D!Assignable
  <2>3. CASE action = "edit"
    BY <2>3 DEF D!Assignable, D!Available, D!Decide
  <2>4. QED
    BY <2>1, <2>2, <2>3 DEF D!Actions
<1>4. new \in D!Decision
  BY <1>1, <1>3 DEF D!Decision
<1>5. new.recommendation = i /\ new.assigned = assigned
  OBVIOUS
<1> HIDE DEF new
<1>6. decisions' = Append(decisions, new)
  BY DEF D!Decide, new
<1>7. /\ decisions' \in Seq(D!Decision)
      /\ Len(decisions') = Len(decisions) + 1
      /\ \A d \in 1 .. Len(decisions) : decisions'[d] = decisions[d]
      /\ decisions'[Len(decisions) + 1] = new
  BY <1>1, <1>4, <1>6, Appended DEF D!TypeOK
<1>8. UNCHANGED <<snapshot, release, scenarios, recommendations>>
  BY DEF D!Decide
<1>9. D!TypeOK'
  BY <1>1, <1>7, <1>8 DEF D!TypeOK
<1>10. \A d \in 1 .. Len(decisions) : decisions[d].assigned \cap assigned = {}
  BY DEF D!Decide, D!Dispatched
<1>11. ASSUME NEW d \in 1 .. Len(decisions'), NEW e \in 1 .. Len(decisions'), d # e
       PROVE  decisions'[d].assigned \cap decisions'[e].assigned = {}
  <2>1. CASE d \in 1 .. Len(decisions) /\ e \in 1 .. Len(decisions)
    BY <1>7, <1>11, <2>1 DEF Kept, DispatchSound, D!NoDoubleDispatch
  <2>2. CASE d \in 1 .. Len(decisions) /\ e = Len(decisions) + 1
    BY <1>5, <1>7, <1>10, <2>2
  <2>3. CASE e \in 1 .. Len(decisions) /\ d = Len(decisions) + 1
    BY <1>5, <1>7, <1>10, <2>3
  <2>4. QED
    BY <1>1, <1>7, <1>11, <2>1, <2>2, <2>3
<1>12. D!NoDoubleDispatch'
  BY <1>11 DEF D!NoDoubleDispatch
<1>13. ASSUME NEW d \in 1 .. Len(decisions')
       PROVE  LET r == recommendations[decisions'[d].recommendation] IN
              /\ decisions'[d].recommendation \in 1 .. Len(recommendations)
              /\ decisions'[d].assigned \cap scenarios[r.scenario].overlays[r.version] = {}
              /\ decisions'[d].assigned # {} => r.solved
  <2>1. CASE d \in 1 .. Len(decisions)
    BY <1>7, <2>1 DEF Kept, DispatchSound, D!DispatchWithinPlan
  <2>2. CASE d = Len(decisions) + 1
    BY <1>3, <1>5, <1>7, <2>2
  <2>3. QED
    BY <1>1, <1>7, <2>1, <2>2
<1>14. D!DispatchWithinPlan'
  BY <1>8, <1>13 DEF Kept, DispatchSound, D!DispatchWithinPlan
<1>15. QED
  BY <1>9, <1>12, <1>14 DEF Kept, DispatchSound

-----------------------------------------------------------------------------

\* Every step keeps the promises.
LEMMA KeptStep == Kept /\ [D!Next]_D!vars => Kept'
<1> SUFFICES ASSUME Kept, [D!Next]_D!vars PROVE Kept'
  OBVIOUS
<1>1. CASE D!Refresh
  BY <1>1, RefreshKept
<1>2. CASE D!Redeploy
  BY <1>2, RedeployKept
<1>3. CASE D!CreateScenario
  BY <1>3, CreateKept
<1>4. ASSUME NEW s \in 1 .. Len(scenarios), NEW overlay \in SUBSET Resources,
             D!AddVersion(s, overlay)
      PROVE  Kept'
  BY <1>4, AddVersionKept
<1>5. ASSUME NEW s \in 1 .. Len(scenarios), NEW v \in 1 .. Len(scenarios[s].overlays),
             NEW plan \in D!Proposals(s, v), D!Recommend(s, v, plan)
      PROVE  Kept'
  BY <1>5, RecommendKept
<1>6. ASSUME NEW i \in 1 .. Len(recommendations), NEW action \in D!Actions,
             NEW assigned \in D!Assignable(recommendations[i], action),
             D!Decide(i, action, assigned)
      PROVE  Kept'
  BY <1>6, DecideKept
<1>7. CASE UNCHANGED D!vars
  BY <1>7 DEF D!vars, Kept, DispatchSound, D!TypeOK, D!NoDoubleDispatch, D!DispatchWithinPlan
<1>8. QED
  BY <1>1, <1>2, <1>3, <1>4, <1>5, <1>6, <1>7 DEF D!Next

\* No resource is sent out twice, and none outside the plan of its version
\* (the checks of decision/commands.py against active assignments).
THEOREM PromisesKept == D!Spec => []Kept
<1>1. D!Init => Kept
  BY KeptInit, RequestsAssumption
<1>2. QED
  BY <1>1, KeptStep, PTL DEF D!Spec

-----------------------------------------------------------------------------
(* What has been overtaken stays so.                                       *)

\* Snapshots only get newer, versions only get more, pins and stored
\* recommendations never change.
LEMMA StepGrows ==
    ASSUME Kept, Kept', [D!Next]_D!vars
    PROVE  /\ snapshot' >= snapshot
           /\ Len(scenarios') >= Len(scenarios)
           /\ Len(recommendations') >= Len(recommendations)
           /\ \A s \in 1 .. Len(scenarios) :
                 /\ scenarios'[s].pinned = scenarios[s].pinned
                 /\ Len(scenarios'[s].overlays) >= Len(scenarios[s].overlays)
           /\ \A i \in 1 .. Len(recommendations) : recommendations'[i] = recommendations[i]
<1>1. /\ D!TypeOK /\ D!TypeOK'
      /\ snapshot \in Nat /\ Len(scenarios) \in Nat /\ Len(recommendations) \in Nat
      /\ \A s \in 1 .. Len(scenarios) : Len(scenarios[s].overlays) \in Nat
  BY Elements DEF Kept, DispatchSound, D!TypeOK
<1>2. CASE UNCHANGED D!vars \/ D!Refresh \/ D!Redeploy
  BY <1>1, <1>2 DEF D!vars, D!Refresh, D!Redeploy
<1>3. CASE D!CreateScenario
  <2> DEFINE new == [pinned |-> snapshot, overlays |-> <<{}>>]
  <2>1. Len(scenarios') \in Nat /\ scenarios' = Append(scenarios, new)
    BY <1>1, <1>3, Elements DEF D!CreateScenario, Kept, DispatchSound, D!TypeOK
  <2> HIDE DEF new
  <2>2. /\ Len(scenarios') = Len(scenarios) + 1
        /\ \A s \in 1 .. Len(scenarios) : scenarios'[s] = scenarios[s]
    BY <1>1, <2>1, AppendProperties DEF D!TypeOK
  <2>3. QED
    BY <1>1, <1>3, <2>2 DEF D!CreateScenario
<1>4. ASSUME NEW s \in 1 .. Len(scenarios), NEW overlay \in SUBSET Resources,
             D!AddVersion(s, overlay)
      PROVE  /\ snapshot' >= snapshot
             /\ UNCHANGED recommendations
             /\ Len(scenarios') >= Len(scenarios)
             /\ \A r \in 1 .. Len(scenarios) :
                   /\ scenarios'[r].pinned = scenarios[r].pinned
                   /\ Len(scenarios'[r].overlays) >= Len(scenarios[r].overlays)
  <2> DEFINE old == scenarios[s].overlays
             new == Append(old, overlay)
             changed == [scenarios[s] EXCEPT !.overlays = new]
  <2>1. old \in Seq(SUBSET Resources) /\ scenarios[s] \in D!Scenario
    BY <1>1, Elements
  <2>2. Len(new) = Len(old) + 1 /\ Len(old) \in Nat
    BY <2>1, AppendProperties
  <2> HIDE DEF new
  <2>3. changed.pinned = scenarios[s].pinned /\ changed.overlays = new
    BY <2>1 DEF D!Scenario
  <2> HIDE DEF changed
  <2>4. scenarios' = [scenarios EXCEPT ![s] = changed]
    BY <1>4 DEF D!AddVersion, changed, new
  <2>5. /\ DOMAIN scenarios = 1 .. Len(scenarios)
        /\ scenarios' \in Seq(D!Scenario) /\ DOMAIN scenarios' = 1 .. Len(scenarios')
    BY <1>1, LenProperties DEF D!TypeOK
  <2>6. /\ Len(scenarios') = Len(scenarios)
        /\ \A r \in 1 .. Len(scenarios) :
              scenarios'[r] = IF r = s THEN changed ELSE scenarios[r]
    BY <1>1, <2>4, <2>5 DEF D!TypeOK
  <2>7. snapshot' >= snapshot /\ UNCHANGED recommendations
    BY <1>1, <1>4 DEF D!AddVersion
  <2>8. QED
    BY <1>1, <2>2, <2>3, <2>6, <2>7
<1>5. ASSUME NEW s \in 1 .. Len(scenarios), NEW v \in 1 .. Len(scenarios[s].overlays),
             NEW plan \in D!Proposals(s, v), D!Recommend(s, v, plan)
      PROVE  /\ UNCHANGED <<snapshot, scenarios>>
             /\ Len(recommendations') >= Len(recommendations)
             /\ \A i \in 1 .. Len(recommendations) : recommendations'[i] = recommendations[i]
  <2> DEFINE new == [ scenario |-> s, version |-> v, snapshot |-> scenarios[s].pinned,
                      release |-> release, solved |-> plan.solved, proposed |-> plan.proposed ]
  <2> HIDE DEF new
  <2>1. recommendations' = Append(recommendations, new)
    BY <1>5 DEF D!Recommend, new
  <2>2. QED
    BY <1>1, <1>5, <2>1, AppendProperties DEF D!TypeOK, D!Recommend
<1>6. ASSUME NEW i \in 1 .. Len(recommendations), NEW action \in D!Actions,
             NEW assigned \in D!Assignable(recommendations[i], action),
             D!Decide(i, action, assigned)
      PROVE  UNCHANGED <<snapshot, scenarios, recommendations>>
  BY <1>6 DEF D!Decide
<1>7. CASE \E s \in 1 .. Len(scenarios), overlay \in SUBSET Resources :
              D!AddVersion(s, overlay)
  BY <1>1, <1>4, <1>7
<1>8. CASE \/ \E s \in 1 .. Len(scenarios) : \E v \in 1 .. Len(scenarios[s].overlays) :
                 \E plan \in D!Proposals(s, v) : D!Recommend(s, v, plan)
           \/ \E i \in 1 .. Len(recommendations), action \in D!Actions :
                 \E assigned \in D!Assignable(recommendations[i], action) :
                    D!Decide(i, action, assigned)
  <2>1. UNCHANGED <<snapshot, scenarios>>
    BY <1>5, <1>6, <1>8
  <2>2. /\ Len(recommendations') >= Len(recommendations)
        /\ \A i \in 1 .. Len(recommendations) : recommendations'[i] = recommendations[i]
    BY <1>1, <1>5, <1>6, <1>8
  <2>3. QED
    BY <1>1, <2>1, <2>2
<1>9. QED
  BY <1>2, <1>3, <1>7, <1>8 DEF D!Next

\* An overtaken recommendation is not made current by any step, and no step
\* sends out a resource for it.
LEMMA OvertakenStep ==
    ASSUME Kept, Kept', [D!Next]_D!vars,
           NEW i \in 1 .. Len(recommendations),
           ~D!CurrentVersion(recommendations[i].scenario, recommendations[i].version)
    PROVE  /\ recommendations'[i] = recommendations[i]
           /\ ~D!CurrentVersion(recommendations[i].scenario, recommendations[i].version)'
           /\ \A d \in 1 .. Len(decisions') :
                 decisions'[d].recommendation = i /\ decisions'[d].assigned # {}
                    => d \in 1 .. Len(decisions)
<1> DEFINE s == recommendations[i].scenario
           v == recommendations[i].version
<1>1. /\ D!TypeOK /\ D!TypeOK' /\ snapshot \in Nat /\ snapshot' \in Nat
      /\ \A r \in 1 .. Len(scenarios) :
            Len(scenarios[r].overlays) \in Nat /\ scenarios[r].pinned \in Nat
      /\ \A r \in 1 .. Len(scenarios') : Len(scenarios'[r].overlays) \in Nat
      /\ Len(scenarios) \in Nat /\ Len(scenarios') \in Nat /\ Len(decisions) \in Nat
  BY Elements DEF Kept, DispatchSound, D!TypeOK
<1>2. recommendations'[i] = recommendations[i]
  BY StepGrows
<1>3. /\ s \in 1 .. Len(scenarios)
      /\ v \in 1 .. Len(scenarios[s].overlays)
      /\ scenarios[s].pinned <= snapshot
  BY DEF Kept, DispatchSound, D!DispatchWithinPlan
<1>4. v # Len(scenarios[s].overlays) \/ scenarios[s].pinned # snapshot
  BY DEF D!CurrentVersion
<1>5. v # Len(scenarios'[s].overlays) \/ scenarios'[s].pinned # snapshot'
  <2> HIDE DEF s, v
  <2>1. /\ snapshot' >= snapshot
        /\ s \in 1 .. Len(scenarios')
        /\ scenarios'[s].pinned = scenarios[s].pinned
        /\ Len(scenarios'[s].overlays) >= Len(scenarios[s].overlays)
    BY <1>1, <1>3, StepGrows
  <2>2. QED
    BY <1>1, <1>3, <1>4, <2>1
<1>6. ~D!CurrentVersion(s, v)'
  BY <1>2, <1>5 DEF D!CurrentVersion
<1>7. ASSUME NEW j \in 1 .. Len(recommendations), NEW action \in D!Actions,
             NEW assigned \in D!Assignable(recommendations[j], action),
             D!Decide(j, action, assigned),
             NEW d \in 1 .. Len(decisions'),
             decisions'[d].recommendation = i, decisions'[d].assigned # {}
      PROVE  d \in 1 .. Len(decisions)
  <2> DEFINE new == [recommendation |-> j, action |-> action, assigned |-> assigned]
  <2>1. new.recommendation = j /\ new.assigned = assigned
    OBVIOUS
  <2> HIDE DEF new
  <2>2. decisions' = Append(decisions, new)
    BY <1>7 DEF D!Decide, new
  <2>3. Len(decisions') = Len(decisions) + 1 /\ decisions'[Len(decisions) + 1] = new
    BY <1>1, <2>2, AppendProperties DEF D!TypeOK
  <2>4. CASE d = Len(decisions) + 1
    <3>1. j = i /\ assigned # {}
      BY <1>7, <2>1, <2>3, <2>4
    <3>2. action # "reject"
      BY <3>1 DEF D!Assignable
    <3>3. QED
      BY <1>7, <3>1, <3>2 DEF D!Decide, D!Current
  <2>5. QED
    BY <1>1, <2>3, <2>4
<1>8. ASSUME NEW d \in 1 .. Len(decisions'),
             decisions'[d].recommendation = i, decisions'[d].assigned # {}
      PROVE  d \in 1 .. Len(decisions)
  <2>1. CASE UNCHANGED decisions
    BY <2>1
  <2>2. CASE \E j \in 1 .. Len(recommendations), action \in D!Actions :
                \E assigned \in D!Assignable(recommendations[j], action) :
                   D!Decide(j, action, assigned)
    BY <1>7, <1>8, <2>2
  <2>3. QED
    BY <2>1, <2>2
       DEF D!Next, D!vars, D!Refresh, D!Redeploy, D!CreateScenario, D!AddVersion, D!Recommend
<1>9. QED
  BY <1>2, <1>6, <1>8

\* A recommendation overtaken by a newer snapshot or version never sends out
\* anything again (is_current in decision/commands.py).
THEOREM OvertakenStaysFinal == D!Spec => D!SupersededIsFinal
<1> DEFINE Step(i) == LET rec == recommendations[i] IN
               ~D!CurrentVersion(rec.scenario, rec.version) =>
                  /\ ~D!CurrentVersion(rec.scenario, rec.version)'
                  /\ \A d \in 1 .. Len(decisions') :
                        decisions'[d].recommendation = i /\ decisions'[d].assigned # {}
                           => d \in 1 .. Len(decisions)
<1>1. ASSUME Kept, Kept', [D!Next]_D!vars, NEW i \in 1 .. Len(recommendations)
      PROVE  Step(i)
  BY <1>1, OvertakenStep DEF D!CurrentVersion
<1>2. Kept /\ Kept' /\ [D!Next]_D!vars => [\A i \in 1 .. Len(recommendations) : Step(i)]_D!vars
  BY <1>1
<1>3. QED
  BY <1>2, PromisesKept, PTL DEF D!Spec, D!SupersededIsFinal

-----------------------------------------------------------------------------
(* The invariant, task by task.                                            *)

HeldIn(t) == UNION {Locks(t.request)[i] : i \in 1 .. t.held}

PassedIn(t) == IF t.stage = "looking" THEN t.held - 1 ELSE t.held

Fits(p, t) ==
    /\ t \in Task
    /\ t.stage = "idle" => t = Idle
    /\ t.stage # "idle" => IF p \in Sources THEN t.request = Poll
                           ELSE t.request \in Requests /\ TargetExists(t.request)
    /\ t.stage = "acquiring" => t.held < Steps(t.request)
    /\ t.stage = "looking" => t.held \in 1 .. Steps(t.request)
    /\ t.stage = "ready" => t.held = Steps(t.request)
    /\ t.stage = "answered" => t.held = 0

Holds(t) ==
    /\ \A i \in 1 .. PassedIn(t) :
          /\ Refusal(t.request, i) = "none"
          /\ Load(t.request, i, t.loaded) = t.loaded
    /\ \A claim \in claims :
          PassedIn(t) > 0 /\ t.request.kind # "ingest" => ~SameKey(claim.request, t.request)

\* The inductive invariant.
Inv ==
    /\ Kept
    /\ claims \in SUBSET Claim
    /\ tasks \in [Parties -> Task]
    /\ \A p \in Parties : Fits(p, tasks[p]) /\ Holds(tasks[p])
    /\ \A p, o \in Parties : p # o => HeldIn(tasks[p]) \cap HeldIn(tasks[o]) = {}

\* The inductive invariant is exactly what the run dispatch_service checks.
LEMMA InvIsSound == Inv <=> LockingSound /\ DispatchSound
<1>1. ASSUME tasks \in [Parties -> Task], NEW p \in Parties
      PROVE  tasks[p] \in Task /\ Len(Locks(tasks[p].request)) = Steps(tasks[p].request)
  <2>1. tasks[p] \in Task /\ tasks[p].request \in Request
    BY <1>1 DEF Task
  <2>2. QED
    BY <2>1, KindsAre, LocksAre
<1>2. TasksFit /\ TypeOK => \A p \in Parties : Fits(p, tasks[p])
  BY <1>1 DEF TasksFit, TypeOK, Fits
<1>3. tasks \in [Parties -> Task] /\ (\A p \in Parties : Fits(p, tasks[p])) => TasksFit
  BY <1>1 DEF TasksFit, Fits
<1>4. LocksExclusive <=> \A p, o \in Parties : p # o => HeldIn(tasks[p]) \cap HeldIn(tasks[o]) = {}
  BY DEF LocksExclusive, Held, HeldIn
<1>5. ChecksStillHold <=> \A p \in Parties : Holds(tasks[p])
  BY DEF ChecksStillHold, Holds, Passed, PassedIn
<1>6. Inv => TypeOK /\ TasksFit
  BY <1>3 DEF Inv, TypeOK, Kept
<1>7. QED
  BY <1>2, <1>4, <1>5, <1>6, NobodyWaitsInACircle DEF Inv, LockingSound, TypeOK, Kept

\* What a client can ask for, by kind.
LEMMA RequestsAre ==
    ASSUME NEW q \in Requests
    PROVE  /\ q \in Request /\ q.kind \in Kinds /\ q.kind # "ingest"
           /\ q.kind = "create" => q.target = <<>>
           /\ q.kind = "version" => q.target = <<q.target[1]>> /\ q.action \in {"replace", "inherit"}
           /\ q.kind = "generate" => q.target = <<q.target[1], q.target[2]>>
           /\ q.kind = "decide" => q.target = <<q.target[1]>> /\ q.action \in {"approve", "edit", "reject"}
           /\ q.target \in Seq(Nat)
           /\ q.units \in SUBSET (Resources \cup {UnknownResource})
<1>1. /\ q \in Request /\ q.kind # "ingest" /\ q.action \in Actions[q.kind]
      /\ Len(q.target) = CASE q.kind = "create"   -> 0
                           [] q.kind = "generate" -> 2
                           [] OTHER               -> 1
  BY RequestsAssumption
<1>2. /\ q.kind \in Kinds /\ q.target \in Seq(Nat)
      /\ q.units \in SUBSET (Resources \cup {UnknownResource})
  BY <1>1 DEF Request
<1>3. /\ q.kind = "version" => q.action \in {"replace", "inherit"}
      /\ q.kind = "decide" => q.action \in {"approve", "edit", "reject"}
  BY <1>1 DEF Actions
<1>4. \A t \in Seq(Nat) : /\ Len(t) = 0 => t = <<>>
                          /\ Len(t) = 1 => t = <<t[1]>>
                          /\ Len(t) = 2 => t = <<t[1], t[2]>>
  OBVIOUS
<1>5. QED
  BY <1>1, <1>2, <1>3, <1>4, KindsAre

\* A poll is a request without a key, and an idle party holds nothing.
LEMMA PollIs == Poll \in Request /\ Poll.kind = "ingest" /\ Idle \in Task /\ HeldIn(Idle) = {}
<1>1. AnyKey \in Keys
  BY RequestsAssumption DEF AnyKey
<1>2. "poll" \in UNION {Actions[k] : k \in Kinds} /\ "ingest" \in Kinds
  BY DEF Actions, Kinds
<1>3. Poll \in Request /\ Poll.kind = "ingest"
  BY <1>1, <1>2 DEF Poll, Request
<1>4. Idle \in Task
  BY <1>3 DEF Idle, Task, Stages, Codes
<1>5. QED
  BY <1>3, <1>4 DEF Idle, HeldIn

\* An idle party is in order.
LEMMA IdleFits == \A p \in Parties : Fits(p, Idle) /\ Holds(Idle)
<1>1. Idle \in Task /\ Idle.stage = "idle" /\ Idle.held = 0
  BY PollIs DEF Idle
<1>2. QED
  BY <1>1 DEF Fits, Holds, PassedIn

\* Nothing a transaction looks at depends on the tasks.
LEMMA StoredSame ==
    ASSUME NEW q, NEW i, NEW l, UNCHANGED <<stored, release>>
    PROVE  /\ Locks(q)' = Locks(q)
           /\ Refusal(q, i)' = Refusal(q, i)
           /\ Load(q, i, l)' = Load(q, i, l)
           /\ TargetExists(q)' <=> TargetExists(q)
<1> USE DEF stored
<1>1. Assigned(q)' = Assigned(q)
  BY DEF Assigned
<1>2. Locks(q)' = Locks(q)
  BY <1>1 DEF Locks, DecisionLocks
<1>3. Load(q, i, l)' = Load(q, i, l)
  BY DEF Load
<1>4. TargetExists(q)' <=> TargetExists(q)
  BY DEF TargetExists
<1>5. ScenarioRefusal(q)' = ScenarioRefusal(q) /\ VersionRefusal(q)' = VersionRefusal(q)
      /\ RecommendationRefusal(q, i)' = RecommendationRefusal(q, i)
  BY DEF ScenarioRefusal, VersionRefusal, RecommendationRefusal, D!CurrentVersion
<1>6. DecisionRefusal(q, i)' = DecisionRefusal(q, i)
  BY <1>1 DEF DecisionRefusal, D!Decided, D!Current, D!CurrentVersion, D!Available, D!Dispatched
<1>7. Refusal(q, i)' = Refusal(q, i)
  BY <1>5, <1>6 DEF Refusal
<1>8. QED
  BY <1>2, <1>3, <1>4, <1>7

\* A step of one task that writes nothing keeps the invariant when what the task
\* is then fits, and it took no lock of another.
LEMMA TaskStep ==
    ASSUME Inv, UNCHANGED <<stored, release>>,
           NEW p \in Parties, NEW t, tasks' = [tasks EXCEPT ![p] = t],
           Fits(p, t), Holds(t),
           \A o \in Parties : o # p => HeldIn(t) \cap HeldIn(tasks[o]) = {}
    PROVE  Inv'
<1>1. Kept'
  BY DEF stored, Inv, Kept, DispatchSound, D!TypeOK, D!NoDoubleDispatch, D!DispatchWithinPlan
<1>2. (claims \in SUBSET Claim)' /\ claims' = claims
  BY DEF Inv, stored
<1>3. t \in Task
  BY DEF Fits
<1>4. /\ tasks' \in [Parties -> Task]
      /\ tasks'[p] = t /\ \A o \in Parties : o # p => tasks'[o] = tasks[o]
  BY <1>3 DEF Inv
<1>5. ASSUME NEW o, NEW u PROVE /\ Fits(o, u) => Fits(o, u)'
                                /\ Holds(u) => Holds(u)'
                                /\ HeldIn(u)' = HeldIn(u)
  <2>1. Fits(o, u) => Fits(o, u)'
    BY StoredSame DEF Fits
  <2>2. Holds(u) => Holds(u)'
    BY <1>2, StoredSame DEF Holds
  <2>3. HeldIn(u)' = HeldIn(u)
    BY StoredSame DEF HeldIn
  <2>4. QED
    BY <2>1, <2>2, <2>3
<1>6. ASSUME NEW o \in Parties
      PROVE  Fits(o, tasks[o])' /\ Holds(tasks[o])'
  <2>1. CASE o = p
    BY <1>4, <1>5, <2>1
  <2>2. CASE o # p
    <3>1. Fits(o, tasks[o]) /\ Holds(tasks[o])
      BY DEF Inv
    <3>2. QED
      BY <1>4, <1>5, <2>2, <3>1
  <2>3. QED
    BY <2>1, <2>2
<1>7. ASSUME NEW o \in Parties, NEW u \in Parties, o # u
      PROVE  HeldIn(tasks[o])' \cap HeldIn(tasks[u])' = {}
  <2>1. /\ HeldIn(tasks[o])' = HeldIn(tasks'[o])
        /\ HeldIn(tasks[u])' = HeldIn(tasks'[u])
    BY <1>5
  <2>2. HeldIn(tasks[o]) \cap HeldIn(tasks[u]) = {}
    BY <1>7 DEF Inv
  <2>3. QED
    BY <1>4, <1>7, <2>1, <2>2
<1>8. QED
  BY <1>1, <1>2, <1>4, <1>6, <1>7 DEF Inv

-----------------------------------------------------------------------------
(* Clients, locks and looks.                                               *)

\* A call that ends or is cut off gives up its locks.
LEMMA ResetInv ==
    ASSUME Inv, UNCHANGED <<stored, release>>, NEW p \in Parties,
           tasks' = [tasks EXCEPT ![p] = Idle]
    PROVE  Inv'
BY TaskStep, IdleFits, PollIs

\* A call begins with nothing held and nothing checked.
LEMMA BeginInv ==
    ASSUME Inv, NEW p \in Parties, NEW q, Begin(p, q),
           IF p \in Sources THEN q = Poll ELSE q \in Requests /\ TargetExists(q)
    PROVE  Inv'
<1> DEFINE t == [Idle EXCEPT !.stage = "acquiring", !.request = q]
<1>1. q \in Request /\ q.kind \in Kinds
  BY PollIs, RequestsAre, KindsAre
<1>2. /\ t \in Task /\ t.stage = "acquiring" /\ t.request = q /\ t.held = 0
  BY <1>1, PollIs DEF Idle, Task, Stages
<1>3. tasks' = [tasks EXCEPT ![p] = t] /\ UNCHANGED <<stored, release>>
  BY DEF Begin
<1> HIDE DEF t
<1>4. 0 < Steps(q)
  BY DEF Steps
<1>5. Fits(p, t) /\ Holds(t) /\ HeldIn(t) = {}
  BY <1>2, <1>4 DEF Fits, Holds, PassedIn, HeldIn
<1>6. QED
  BY <1>3, <1>5, TaskStep

\* What a task is, spelt out.
LEMMA TaskIs ==
    ASSUME Inv, NEW p \in Parties
    PROVE  LET t == tasks[p] IN
           /\ t \in Task /\ Fits(p, t) /\ Holds(t)
           /\ t.request \in Request /\ t.request.kind \in Kinds
           /\ t.held \in 0 .. 5 /\ t.stage \in Stages
           /\ Len(Locks(t.request)) = Steps(t.request) /\ Steps(t.request) \in 2 .. 5
           /\ t.loaded \in [version : Nat, snapshot : Nat]
<1>1. tasks[p] \in Task /\ Fits(p, tasks[p]) /\ Holds(tasks[p])
  BY DEF Inv
<1>2. /\ tasks[p].request \in Request /\ tasks[p].held \in 0 .. 5 /\ tasks[p].stage \in Stages
      /\ tasks[p].loaded \in [version : Nat, snapshot : Nat]
  BY <1>1 DEF Task
<1>3. QED
  BY <1>1, <1>2, KindsAre, LocksAre

\* A lock group is taken whole, and only when no one else holds any of it.
LEMMA AcquireInv ==
    ASSUME Inv, NEW p \in Parties, Acquire(p)
    PROVE  Inv'
<1> DEFINE q == tasks[p].request
           n == tasks[p].held
           t == [tasks[p] EXCEPT !.stage = "looking", !.held = n + 1]
<1>1. /\ tasks[p] \in Task /\ Fits(p, tasks[p]) /\ Holds(tasks[p])
      /\ n \in 0 .. 5 /\ Steps(q) \in 2 .. 5 /\ tasks[p].stage = "acquiring"
  BY TaskIs DEF Acquire
<1>2. n < Steps(q)
  BY <1>1 DEF Fits
<1>3. /\ t \in Task /\ t.stage = "looking" /\ t.held = n + 1 /\ t.request = q
      /\ t.loaded = tasks[p].loaded
  <2>1. n + 1 \in 0 .. 5
    BY <1>1, <1>2
  <2>2. "looking" \in Stages
    BY DEF Stages
  <2> HIDE DEF t
  <2>3. t = [tasks[p] EXCEPT !.stage = "looking", !.held = n + 1]
    BY DEF t
  <2>4. QED
    BY <1>1, <2>1, <2>2, <2>3 DEF Task
<1>4. tasks' = [tasks EXCEPT ![p] = t] /\ UNCHANGED <<stored, release>>
  BY DEF Acquire
<1> HIDE DEF t
<1>5. Fits(p, t)
  BY <1>1, <1>2, <1>3 DEF Fits
<1>6. PassedIn(t) = n /\ PassedIn(tasks[p]) = n
  BY <1>1, <1>3 DEF PassedIn
<1>7. Holds(t)
  BY <1>1, <1>3, <1>6 DEF Holds
<1>8. ASSUME NEW o \in Parties, o # p PROVE HeldIn(t) \cap HeldIn(tasks[o]) = {}
  <2>1. HeldIn(t) = HeldIn(tasks[p]) \cup Locks(q)[n + 1]
    <3>1. 1 .. n + 1 = (1 .. n) \cup {n + 1}
      BY <1>1
    <3>2. QED
      BY <1>3, <3>1 DEF HeldIn
  <2>2. HeldIn(tasks[p]) \cap HeldIn(tasks[o]) = {}
    BY <1>8 DEF Inv
  <2>3. Wanted(p) = Locks(q)[n + 1] /\ Held(o) = HeldIn(tasks[o])
    BY <1>1 DEF Wanted, Held, HeldIn
  <2>4. Wanted(p) \cap Held(o) = {}
    BY <1>8 DEF Acquire, WaitsFor
  <2>5. QED
    BY <2>1, <2>2, <2>3, <2>4
<1>9. QED
  BY <1>4, <1>5, <1>7, <1>8, TaskStep

\* An answer lets go of all locks.
LEMMA AnswerFits ==
    ASSUME Inv, NEW p \in Parties, NEW code \in Codes, NEW response \in Seq(Nat),
           tasks[p].stage # "idle", Answer(p, code, response)
    PROVE  \E t : /\ tasks' = [tasks EXCEPT ![p] = t]
                  /\ Fits(p, t) /\ Holds(t) /\ HeldIn(t) = {}
                  /\ t.stage = "answered" /\ t.held = 0 /\ t.request = tasks[p].request
                  /\ t.code = code /\ t.response = response
<1> DEFINE t == [tasks[p] EXCEPT !.stage = "answered", !.held = 0,
                                 !.code = code, !.response = response]
<1>1. tasks[p] \in Task /\ Fits(p, tasks[p]) /\ tasks[p].held \in 0 .. 5
  BY TaskIs
<1>2. /\ t \in Task /\ t.stage = "answered" /\ t.held = 0 /\ t.request = tasks[p].request
      /\ t.code = code /\ t.response = response
  <2> HIDE DEF t
  <2>1. t = [tasks[p] EXCEPT !.stage = "answered", !.held = 0,
                             !.code = code, !.response = response]
    BY DEF t
  <2>2. "answered" \in Stages /\ 0 \in 0 .. 5
    BY DEF Stages
  <2>3. QED
    BY <1>1, <2>1, <2>2 DEF Task
<1>3. tasks' = [tasks EXCEPT ![p] = t]
  BY DEF Answer
<1> HIDE DEF t
<1>4. Fits(p, t)
  BY <1>1, <1>2 DEF Fits
<1>5. Holds(t) /\ HeldIn(t) = {}
  BY <1>2 DEF Holds, PassedIn, HeldIn
<1>6. QED
  BY <1>2, <1>3, <1>4, <1>5

\* An answer releases every lock.
LEMMA AnswerInv ==
    ASSUME Inv, NEW p \in Parties, NEW code \in Codes, NEW response \in Seq(Nat),
           tasks[p].stage # "idle", Answer(p, code, response), UNCHANGED <<stored, release>>
    PROVE  Inv'
<1>1. PICK t : /\ tasks' = [tasks EXCEPT ![p] = t]
               /\ Fits(p, t) /\ Holds(t) /\ HeldIn(t) = {}
  BY AnswerFits
<1>2. QED
  BY <1>1, TaskStep

\* The stored answer of a key already claimed is an answer.
LEMMA ReplayInv ==
    ASSUME Inv, NEW p \in Parties, Replay(p)
    PROVE  Inv'
<1>1. PICK claim \in claims :
         IF SameRequest(claim.request, tasks[p].request)
         THEN Answer(p, "ok", claim.response)
         ELSE Answer(p, "idempotency_conflict", <<>>)
  BY DEF Replay
<1>2. claim.response \in Seq(Nat) /\ <<>> \in Seq(Nat)
  BY DEF Inv, Claim
<1>3. {"ok", "idempotency_conflict"} \subseteq Codes
  BY DEF Codes
<1>4. PICK code \in Codes, response \in Seq(Nat) : Answer(p, code, response)
  BY <1>1, <1>2, <1>3
<1>5. tasks[p].stage # "idle" /\ UNCHANGED <<stored, release>>
  BY DEF Replay
<1>6. QED
  BY <1>4, <1>5, AnswerInv

\* So is a refusal, whichever check it comes from.
LEMMA RefuseInv ==
    ASSUME Inv, NEW p \in Parties, Refuse(p)
    PROVE  Inv'
<1>1. PICK code \in {Refusal(tasks[p].request, tasks[p].held)}
                       \cup DataRefusals(tasks[p].request, tasks[p].held) :
         Answer(p, code, <<>>)
  BY DEF Refuse
<1>2. code \in Codes
  BY DEF Codes, Refusal, DataRefusals, ScenarioRefusal, VersionRefusal,
         RecommendationRefusal, DecisionRefusal
<1>3. tasks[p].stage # "idle" /\ UNCHANGED <<stored, release>> /\ <<>> \in Seq(Nat)
  BY DEF Refuse
<1>4. QED
  BY <1>1, <1>2, <1>3, AnswerInv

\* What is stored, spelt out.
LEMMA StoredIs ==
    ASSUME Inv
    PROVE  /\ snapshot \in Nat /\ release \in Releases
           /\ Len(scenarios) \in Nat /\ Len(recommendations) \in Nat /\ Len(decisions) \in Nat
           /\ \A s \in 1 .. Len(scenarios) :
                 /\ scenarios[s] \in D!Scenario
                 /\ scenarios[s].pinned \in Nat
                 /\ scenarios[s].overlays \in Seq(SUBSET Resources)
                 /\ scenarios[s].overlays # <<>>
                 /\ Len(scenarios[s].overlays) \in Nat
           /\ \A i \in 1 .. Len(recommendations) :
                 /\ recommendations[i].scenario \in 1 .. Len(scenarios)
                 /\ recommendations[i].version
                       \in 1 .. Len(scenarios[recommendations[i].scenario].overlays)
                 /\ recommendations[i].proposed \in SUBSET Resources
           /\ D!TypeOK
<1>1. /\ snapshot \in Nat /\ release \in Releases /\ D!TypeOK
      /\ \A i \in 1 .. Len(recommendations) :
            /\ recommendations[i].scenario \in 1 .. Len(scenarios)
            /\ recommendations[i].version
                  \in 1 .. Len(scenarios[recommendations[i].scenario].overlays)
  BY DEF Inv, Kept, DispatchSound, D!TypeOK, D!DispatchWithinPlan
<1>5. QED
  BY <1>1, Elements

\* What is loaded is loaded alike when it is loaded again.
LEMMA LoadedOnce ==
    ASSUME NEW q, q.kind \in Kinds, NEW l \in [version : Nat, snapshot : Nat], NEW n \in 1 .. 5,
           \A i \in 1 .. n - 1 : Load(q, i, l) = l
    PROVE  \A i \in 1 .. n : Load(q, i, Load(q, n, l)) = Load(q, n, l)
<1>1. CASE n = 2
  <2>1. \A m : Load(q, 1, m) = m
    BY DEF Load
  <2>2. Load(q, 2, Load(q, 2, l)) = Load(q, 2, l)
    BY DEF Load
  <2>3. QED
    BY <1>1, <2>1, <2>2
<1>2. CASE n # 2
  <2>1. Load(q, n, l) = l
    BY <1>2 DEF Load
  <2>2. QED
    BY <2>1
<1>3. QED
  BY <1>1, <1>2

\* A check that passes is true when it is made.
LEMMA PassInv ==
    ASSUME Inv, NEW p \in Parties, Pass(p)
    PROVE  Inv'
<1> DEFINE q == tasks[p].request
           n == tasks[p].held
           next == IF n = Steps(q) THEN "ready" ELSE "acquiring"
           new == Load(q, n, tasks[p].loaded)
           t == [tasks[p] EXCEPT !.stage = next, !.loaded = new]
<1>1. /\ tasks[p] \in Task /\ Fits(p, tasks[p]) /\ Holds(tasks[p])
      /\ q \in Request /\ q.kind \in Kinds
      /\ Steps(q) \in 2 .. 5 /\ Len(Locks(q)) = Steps(q)
      /\ tasks[p].loaded \in [version : Nat, snapshot : Nat] /\ tasks[p].stage = "looking"
  BY TaskIs DEF Pass
<1>2. n \in 1 .. Steps(q) /\ n \in 1 .. 5
  BY <1>1 DEF Fits
<1>3. tasks' = [tasks EXCEPT ![p] = t] /\ UNCHANGED <<stored, release>>
  BY <1>1 DEF Pass
<1>4. new \in [version : Nat, snapshot : Nat]
  <2>1. CASE q.kind = "version"
    <3>1. p \notin Sources
      BY <1>1, <2>1, PollIs DEF Fits
    <3>2. q.target[1] \in 1 .. Len(scenarios)
      BY <1>1, <2>1, <3>1 DEF Fits, TargetExists
    <3>3. Len(scenarios[q.target[1]].overlays) \in Nat
      BY <3>2, StoredIs
    <3> DEFINE k == Len(scenarios[q.target[1]].overlays)
               l == tasks[p].loaded
    <3>4. new = IF n = 2 THEN [l EXCEPT !.version = k] ELSE l
      BY <2>1 DEF Load
    <3>5. k \in Nat /\ l \in [version : Nat, snapshot : Nat]
      BY <1>1, <3>3
    <3> HIDE DEF k, l, new
    <3>6. QED
      BY <3>4, <3>5
  <2>2. CASE q.kind # "version"
    BY <1>1, <2>2, StoredIs DEF Load
  <2>3. QED
    BY <2>1, <2>2
<1>5. next \in Stages /\ next \in {"ready", "acquiring"}
  BY DEF Stages
<1>6. /\ t \in Task /\ t.stage = next /\ t.held = n /\ t.request = q /\ t.loaded = new
  <2> HIDE DEF next, new, t
  <2>1. t = [tasks[p] EXCEPT !.stage = next, !.loaded = new]
    BY DEF t
  <2>2. QED
    BY <1>1, <1>4, <1>5, <2>1 DEF Task
<1> HIDE DEF t
<1>7. Fits(p, t)
  BY <1>1, <1>2, <1>6 DEF Fits
<1>8. PassedIn(t) = n /\ PassedIn(tasks[p]) = n - 1
  BY <1>1, <1>5, <1>6 DEF PassedIn
<1>9. \A i \in 1 .. n : Refusal(q, i) = "none"
  <2>1. Refusal(q, n) = "none"
    BY DEF Pass
  <2>2. \A i \in 1 .. n - 1 : Refusal(q, i) = "none"
    BY <1>1, <1>8 DEF Holds
  <2>3. \A i \in 1 .. n : i \in 1 .. n - 1 \/ i = n
    BY <1>2
  <2>4. QED
    BY <2>1, <2>2, <2>3
<1>10. \A i \in 1 .. n : Load(q, i, new) = new
  <2>1. \A i \in 1 .. n - 1 : Load(q, i, tasks[p].loaded) = tasks[p].loaded
    BY <1>1, <1>8 DEF Holds
  <2>2. QED
    BY <1>1, <1>2, <2>1, LoadedOnce
<1>11. \A claim \in claims : q.kind # "ingest" => ~SameKey(claim.request, q)
  <2>1. CASE n = 1
    BY <2>1 DEF Pass, Claimed
  <2>2. CASE n # 1
    BY <1>1, <1>2, <1>8, <2>2 DEF Holds
  <2>3. QED
    BY <2>1, <2>2
<1>12. Holds(t)
  BY <1>6, <1>8, <1>9, <1>10, <1>11 DEF Holds
<1>13. HeldIn(t) = HeldIn(tasks[p])
  BY <1>6 DEF HeldIn
<1>14. \A o \in Parties : o # p => HeldIn(t) \cap HeldIn(tasks[o]) = {}
  BY <1>13 DEF Inv
<1>15. QED
  BY <1>3, <1>7, <1>12, <1>14, TaskStep

\* A restart of the API ends its calls; those of the worker go on.
LEMMA RedeployInv ==
    ASSUME Inv, Redeploy
    PROVE  Inv'
<1>1. Kept'
  BY DEF Redeploy, stored, Inv, Kept, DispatchSound,
         D!TypeOK, D!NoDoubleDispatch, D!DispatchWithinPlan
<1>2. claims' = claims /\ (claims \in SUBSET Claim)'
  BY DEF Redeploy, stored, Inv
<1>3. \A o \in Parties : tasks'[o] = IF o \in Calls THEN Idle ELSE tasks[o]
  BY DEF Redeploy
<1>4. tasks' \in [Parties -> Task]
  BY PollIs DEF Redeploy, Inv
<1>5. ASSUME NEW q, NEW i, NEW l
      PROVE  /\ Locks(q)' = Locks(q)
             /\ q.kind = "ingest" => Refusal(q, i)' = "none"
             /\ Load(q, i, l)' = Load(q, i, l)
             /\ TargetExists(q)' <=> TargetExists(q)
  BY DEF Redeploy, stored, Locks, DecisionLocks, Assigned, Load, Refusal, TargetExists
<1>6. \A u : HeldIn(u)' = HeldIn(u)
  BY <1>5 DEF HeldIn
<1>7. ASSUME NEW o \in Parties
      PROVE  Fits(o, tasks[o])' /\ Holds(tasks[o])'
  <2>1. CASE o \in Calls
    <3>1. Idle.stage = "idle" /\ Idle.held = 0
      BY DEF Idle
    <3>2. QED
      BY <1>3, <2>1, <3>1, PollIs DEF Fits, Holds, PassedIn
  <2>2. CASE o \notin Calls
    <3>1. o \in Sources /\ tasks'[o] = tasks[o]
      BY <1>3, <2>2 DEF Parties
    <3>2. Fits(o, tasks[o]) /\ Holds(tasks[o]) /\ tasks[o].request.kind = "ingest"
      BY <3>1, PollIs, TaskIs DEF Fits, Idle
    <3>3. Fits(o, tasks[o])'
      BY <3>1, <3>2 DEF Fits
    <3>4. Holds(tasks[o])'
      BY <1>5, <3>1, <3>2 DEF Holds, PassedIn
    <3>5. QED
      BY <3>3, <3>4
  <2>3. QED
    BY <2>1, <2>2
<1>8. ASSUME NEW o \in Parties, NEW u \in Parties, o # u
      PROVE  HeldIn(tasks[o])' \cap HeldIn(tasks[u])' = {}
  <2>1. /\ HeldIn(tasks[o])' = HeldIn(tasks'[o])
        /\ HeldIn(tasks[u])' = HeldIn(tasks'[u])
    BY <1>6
  <2>2. HeldIn(tasks[o]) \cap HeldIn(tasks[u]) = {}
    BY <1>8 DEF Inv
  <2>3. QED
    BY <1>3, <2>1, <2>2, PollIs
<1>9. QED
  BY <1>1, <1>2, <1>4, <1>7, <1>8 DEF Inv

-----------------------------------------------------------------------------
(* What a write leaves to the other tasks.                                 *)

\* The locks of a request do not change while what it aims at stays.
LEMMA LocksKept ==
    ASSUME NEW q,
           q.kind = "decide" => recommendations'[q.target[1]] = recommendations[q.target[1]]
    PROVE  Locks(q)' = Locks(q)
BY DEF Locks, DecisionLocks, Assigned

\* What a decision looks at before it picks its resources.
LEMMA DecisionCheckKept ==
    ASSUME NEW q, UNCHANGED <<snapshot, release>>,
           recommendations'[q.target[1]] = recommendations[q.target[1]],
           scenarios'[recommendations[q.target[1]].scenario]
              = scenarios[recommendations[q.target[1]].scenario]
    PROVE  DecisionRefusal(q, 4)' = DecisionRefusal(q, 4)
<1> DEFINE rec == recommendations[q.target[1]]
<1>1. D!Current(rec)' <=> D!Current(rec)
  BY DEF D!Current, D!CurrentVersion
<1>2. D!Available(rec.scenario, rec.version)' = D!Available(rec.scenario, rec.version)
  BY DEF D!Available
<1>3. rec' = rec
  OBVIOUS
<1>4. QED
  BY <1>1, <1>2, <1>3 DEF DecisionRefusal

\* What has been checked still holds when what it looked at is as it was.
LEMMA HoldsKept ==
    ASSUME Inv, UNCHANGED release, NEW o \in Parties, tasks'[o] = tasks[o],
           NEW q, q = tasks[o].request, NEW n, n = PassedIn(tasks[o]),
           n >= 2 /\ q.kind \in {"create", "ingest"} => snapshot' = snapshot,
           n >= 2 /\ q.kind = "version" =>
              Len(scenarios'[q.target[1]].overlays) = Len(scenarios[q.target[1]].overlays),
           n >= 3 /\ q.kind = "generate" =>
              snapshot' = snapshot /\ scenarios'[q.target[1]] = scenarios[q.target[1]],
           q.kind = "decide" =>
              recommendations'[q.target[1]] = recommendations[q.target[1]],
           n >= 2 /\ q.kind = "decide" => (D!Decided(q.target[1])' <=> D!Decided(q.target[1])),
           n >= 4 /\ q.kind = "decide" =>
              /\ snapshot' = snapshot
              /\ scenarios'[recommendations[q.target[1]].scenario]
                    = scenarios[recommendations[q.target[1]].scenario],
           n >= 5 /\ q.kind = "decide" => Assigned(q) \cap D!Dispatched' = {},
           n > 0 /\ q.kind # "ingest" => \A claim \in claims' : ~SameKey(claim.request, q)
    PROVE  Holds(tasks[o])'
<1> DEFINE l == tasks[o].loaded
<1>1. /\ q.kind \in Kinds /\ n \in Int /\ n <= 5 /\ Holds(tasks[o])
  BY TaskIs DEF PassedIn
<1>2. \A i \in 1 .. n : Refusal(q, i) = "none" /\ Load(q, i, l) = l
  BY <1>1 DEF Holds
<1>3. ASSUME NEW i \in 1 .. n PROVE Load(q, i, l)' = l
  <2>1. CASE i = 2
    <3>1. n >= 2
      BY <1>1, <2>1
    <3>2. Load(q, i, tasks[o].loaded)' = Load(q, i, l)
      BY <3>1, <2>1, <1>1, KindsAre DEF Load
    <3>3. QED
      BY <1>2, <3>2
  <2>2. CASE i # 2
    BY <2>2 DEF Load
  <2>3. QED
    BY <2>1, <2>2
<1>4. ASSUME NEW i \in 1 .. n PROVE Refusal(q, i)' = "none"
  <2>1. Refusal(q, i) = "none" /\ i \in 1 .. 5
    BY <1>1, <1>2
  <2>2. CASE q.kind \in {"create", "version", "ingest"}
    <3>1. q.kind = "create" /\ i = 2 => snapshot' = snapshot
      BY <1>1
    <3>2. QED
      BY <2>1, <2>2, <3>1 DEF Refusal, ScenarioRefusal, VersionRefusal
  <2>3. CASE q.kind = "generate"
    <3>1. i = 3 => snapshot' = snapshot /\ scenarios'[q.target[1]] = scenarios[q.target[1]]
      BY <1>1, <2>3
    <3>2. QED
      BY <2>1, <2>3, <3>1 DEF Refusal, RecommendationRefusal, D!CurrentVersion
  <2>4. CASE q.kind = "decide"
    <3> DEFINE j == q.target[1]
               rec == recommendations[j]
    <3>1. /\ DecisionRefusal(q, i) = "none"
          /\ Refusal(q, i)' = DecisionRefusal(q, i)'
          /\ recommendations'[j] = rec
      BY <2>1, <2>4 DEF Refusal
    <3>2. CASE i = 2
      <4>1. D!Decided(j)' <=> D!Decided(j)
        BY <1>1, <2>4, <3>2
      <4>2. QED
        BY <3>1, <3>2, <4>1 DEF DecisionRefusal
    <3>3. CASE i = 3
      BY <3>1, <3>3 DEF DecisionRefusal
    <3>4. CASE i = 4
      <4>1. snapshot' = snapshot /\ scenarios'[rec.scenario] = scenarios[rec.scenario]
        BY <1>1, <2>4, <3>4
      <4>2. DecisionRefusal(q, 4)' = DecisionRefusal(q, 4)
        BY <3>1, <4>1, DecisionCheckKept
      <4>3. QED
        BY <3>1, <3>4, <4>2
    <3>5. CASE i = 5
      <4>1. Assigned(q) \cap D!Dispatched' = {}
        BY <1>1, <2>4, <3>5
      <4>2. Assigned(q)' = Assigned(q)
        BY <3>1 DEF Assigned
      <4>3. QED
        BY <3>1, <3>5, <4>1, <4>2 DEF DecisionRefusal
    <3>6. CASE i = 1
      BY <3>1, <3>6 DEF DecisionRefusal
    <3>7. QED
      BY <2>1, <3>2, <3>3, <3>4, <3>5, <3>6
  <2>5. QED
    BY <1>1, <2>2, <2>3, <2>4, KindsAre
<1>5. PassedIn(tasks[o])' = n
  BY DEF PassedIn
<1>6. QED
  BY <1>3, <1>4, <1>5 DEF Holds

\* Of what a task has looked at, it holds the locks.
LEMMA HeldWhilePassed ==
    ASSUME Inv, NEW o \in Parties, NEW i \in 1 .. PassedIn(tasks[o])
    PROVE  Locks(tasks[o].request)[i] \subseteq HeldIn(tasks[o])
<1>1. tasks[o].held \in 0 .. 5
  BY TaskIs
<1>2. i \in 1 .. tasks[o].held
  BY <1>1 DEF PassedIn
<1>3. QED
  BY <1>2 DEF HeldIn

\* What a task is about to write, it has looked at under all its locks.
LEMMA ReadyIs ==
    ASSUME Inv, NEW p \in Parties, tasks[p].stage = "ready"
    PROVE  LET q == tasks[p].request IN
           /\ q \in Request /\ q.kind \in Kinds
           /\ q.kind # "ingest" => q \in Requests /\ TargetExists(q)
           /\ Steps(q) \in 2 .. 5
           /\ \A i \in 1 .. Steps(q) : /\ Refusal(q, i) = "none"
                                       /\ Load(q, i, tasks[p].loaded) = tasks[p].loaded
                                       /\ Locks(q)[i] \subseteq HeldIn(tasks[p])
           /\ q.kind # "ingest" => \A claim \in claims : ~SameKey(claim.request, q)
<1> DEFINE q == tasks[p].request
<1>1. /\ Fits(p, tasks[p]) /\ Holds(tasks[p]) /\ q \in Request /\ q.kind \in Kinds
      /\ Steps(q) \in 2 .. 5
  BY TaskIs
<1>2. tasks[p].held = Steps(q) /\ PassedIn(tasks[p]) = Steps(q)
  BY <1>1 DEF Fits, PassedIn
<1>3. q.kind # "ingest" => q \in Requests /\ TargetExists(q)
  BY <1>1, PollIs DEF Fits
<1>4. \A i \in 1 .. Steps(q) : Locks(q)[i] \subseteq HeldIn(tasks[p])
  BY <1>2 DEF HeldIn
<1>5. QED
  BY <1>1, <1>2, <1>3, <1>4 DEF Holds

\* Nobody else has looked for the claim that a command makes.
LEMMA ClaimIsNew ==
    ASSUME Inv, NEW p \in Parties, tasks[p].stage = "ready", tasks[p].request.kind # "ingest",
           NEW o \in Parties, o # p, PassedIn(tasks[o]) > 0, tasks[o].request.kind # "ingest",
           NEW response,
           claims' = claims \cup {[request |-> tasks[p].request, response |-> response]}
    PROVE  \A claim \in claims' : ~SameKey(claim.request, tasks[o].request)
<1> DEFINE q == tasks[p].request
           u == tasks[o].request
<1>1. /\ q.kind \in Kinds /\ u.kind \in Kinds /\ Holds(tasks[o])
      /\ 1 \in 1 .. PassedIn(tasks[o]) /\ 1 \in 1 .. Steps(q)
  <2>1. tasks[o].held \in 0 .. 5
    BY TaskIs
  <2>2. PassedIn(tasks[o]) \in Int
    BY <2>1 DEF PassedIn
  <2>3. QED
    BY <2>2, TaskIs, ReadyIs
<1>2. Locks(u)[1] \subseteq HeldIn(tasks[o]) /\ Locks(q)[1] \subseteq HeldIn(tasks[p])
  BY <1>1, HeldWhilePassed, ReadyIs
<1>3. Locks(u)[1] = {KeyLock(u)} /\ Locks(q)[1] = {KeyLock(q)}
  BY <1>1, LocksAre
<1>4. HeldIn(tasks[o]) \cap HeldIn(tasks[p]) = {}
  BY DEF Inv
<1>5. KeyLock(u) # KeyLock(q)
  BY <1>2, <1>3, <1>4
<1>6. ~SameKey(q, u)
  BY <1>5 DEF SameKey, KeyLock
<1>7. \A claim \in claims : ~SameKey(claim.request, u)
  BY <1>1 DEF Holds
<1>8. QED
  BY <1>6, <1>7

\* Steps of Dispatch only add scenarios, versions, plans and decisions.
LEMMA Growth ==
    ASSUME Inv, [D!Next]_D!vars
    PROVE  /\ Kept'
           /\ 1 .. Len(scenarios) \subseteq 1 .. Len(scenarios')
           /\ \A s \in 1 .. Len(scenarios) :
                 1 .. Len(scenarios[s].overlays) \subseteq 1 .. Len(scenarios'[s].overlays)
           /\ 1 .. Len(recommendations) \subseteq 1 .. Len(recommendations')
           /\ \A i \in 1 .. Len(recommendations) : recommendations'[i] = recommendations[i]
<1>1. Kept'
  BY KeptStep DEF Inv
<1>2. Kept /\ D!TypeOK /\ D!TypeOK'
  BY <1>1 DEF Inv, Kept
<1>3. /\ Len(scenarios') >= Len(scenarios)
      /\ Len(recommendations') >= Len(recommendations)
      /\ \A s \in 1 .. Len(scenarios) :
            Len(scenarios'[s].overlays) >= Len(scenarios[s].overlays)
      /\ \A i \in 1 .. Len(recommendations) : recommendations'[i] = recommendations[i]
  BY <1>1, <1>2, StepGrows
<1>4. /\ Len(scenarios) \in Nat /\ Len(scenarios') \in Nat
      /\ Len(recommendations) \in Nat /\ Len(recommendations') \in Nat
      /\ \A s \in 1 .. Len(scenarios) : Len(scenarios[s].overlays) \in Nat
      /\ \A s \in 1 .. Len(scenarios') : Len(scenarios'[s].overlays) \in Nat
  BY <1>2, Elements
<1>5. \A m, n \in Nat : n >= m => 1 .. m \subseteq 1 .. n
  OBVIOUS
<1>6. 1 .. Len(scenarios) \subseteq 1 .. Len(scenarios')
  BY <1>3, <1>4, <1>5
<1>7. QED
  BY <1>1, <1>3, <1>4, <1>5, <1>6

\* What a request aims at does not go away.
LEMMA TargetKept ==
    ASSUME Inv, [D!Next]_D!vars, NEW q \in Requests, TargetExists(q)
    PROVE  TargetExists(q)'
<1>1. q.kind \in {"create", "version", "generate", "decide"}
  BY RequestsAre, KindsAre
<1>2. /\ q.kind = "version" => q.target[1] \in 1 .. Len(scenarios')
      /\ q.kind = "decide" => q.target[1] \in 1 .. Len(recommendations')
  BY Growth DEF TargetExists
<1>3. q.kind = "generate" => /\ q.target[1] \in 1 .. Len(scenarios')
                             /\ q.target[2] \in 1 .. Len(scenarios'[q.target[1]].overlays)
  BY Growth DEF TargetExists
<1>4. QED
  BY <1>1, <1>2, <1>3 DEF TargetExists

\* A write keeps the invariant when it is a step of Dispatch, ends the
\* transaction, and leaves what the others have checked.
LEMMA WriteStep ==
    ASSUME Inv, [D!Next]_D!vars, UNCHANGED release, claims' \in SUBSET Claim,
           NEW p \in Parties, NEW t, tasks' = [tasks EXCEPT ![p] = t],
           t = Idle \/ (/\ t \in Task /\ t.stage = "answered" /\ t.held = 0
                        /\ p \notin Sources /\ t.request \in Requests
                        /\ TargetExists(t.request)),
           \A o \in Parties : o # p => Holds(tasks[o])'
    PROVE  Inv'
<1>1. Kept'
  BY Growth
<1>4. ASSUME NEW o \in Parties, o # p
      PROVE  /\ tasks'[o] = tasks[o] /\ Fits(o, tasks[o])'
             /\ HeldIn(tasks[o])' = HeldIn(tasks[o])
  <2>1. PICK u : u = tasks[o]
    OBVIOUS
  <2> DEFINE q == u.request
  <2>2. /\ tasks'[o] = u /\ Fits(o, u) /\ q.kind \in Kinds
    BY <1>4, <2>1, TaskIs DEF Inv
  <2>3. Fits(o, u)' /\ (u.held > 0 => Locks(q)' = Locks(q))
    <3>1. CASE u.stage = "idle"
      BY <2>2, <3>1 DEF Fits, Idle
    <3>2. CASE o \in Sources /\ u.stage # "idle"
      <4>1. q = Poll
        BY <2>2, <3>2 DEF Fits
      <4>2. Locks(q)' = Locks(q)
        BY <4>1, PollIs, LocksKept
      <4>3. QED
        BY <2>2, <3>2, <4>1, <4>2 DEF Fits
    <3>3. CASE o \notin Sources /\ u.stage # "idle"
      <4>1. q \in Requests /\ TargetExists(q)
        BY <2>2, <3>3 DEF Fits
      <4>2. TargetExists(q)'
        BY <4>1, TargetKept
      <4>3. q.kind = "decide" => q.target[1] \in 1 .. Len(recommendations)
        BY <4>1 DEF TargetExists
      <4>4. Locks(q)' = Locks(q)
        BY <4>3, Growth, LocksKept
      <4>5. QED
        BY <2>2, <3>3, <4>1, <4>2, <4>4 DEF Fits
    <3>4. QED
      BY <3>1, <3>2, <3>3
  <2>4. HeldIn(u)' = HeldIn(u)
    <3>1. u.held \in 0 .. 5
      BY <2>1, TaskIs
    <3>2. CASE u.held = 0
      BY <3>2 DEF HeldIn
    <3>3. CASE u.held > 0
      BY <2>3, <3>3 DEF HeldIn
    <3>4. QED
      BY <3>1, <3>2, <3>3
  <2>5. QED
    BY <2>1, <2>2, <2>3, <2>4
<1>5. tasks'[p] = t /\ t \in Task /\ t.held = 0
  BY PollIs DEF Inv, Idle
<1>6. tasks' \in [Parties -> Task]
  BY <1>5 DEF Inv
<1>7. Fits(p, tasks[p])' /\ Holds(tasks[p])' /\ HeldIn(tasks[p])' = {}
  <2>1. CASE t = Idle
    <3>1. Idle.stage = "idle" /\ Idle.held = 0
      BY DEF Idle
    <3>2. QED
      BY <1>5, <2>1, <3>1 DEF Fits, Holds, PassedIn, HeldIn
  <2>2. CASE t # Idle
    <3>1. t.stage = "answered" /\ p \notin Sources /\ t.request \in Requests
      BY <2>2
    <3>2. TargetExists(t.request)'
      BY <2>2, TargetKept
    <3>3. QED
      BY <1>5, <3>1, <3>2 DEF Fits, Holds, PassedIn, HeldIn
  <2>3. QED
    BY <2>1, <2>2
<1>8. ASSUME NEW o \in Parties
      PROVE  Fits(o, tasks[o])' /\ Holds(tasks[o])'
  <2>1. CASE o = p
    BY <1>7, <2>1
  <2>2. CASE o # p
    BY <1>4, <2>2
  <2>3. QED
    BY <2>1, <2>2
<1>9. ASSUME NEW o \in Parties, NEW u \in Parties, o # u
      PROVE  HeldIn(tasks[o])' \cap HeldIn(tasks[u])' = {}
  <2>1. HeldIn(tasks[o]) \cap HeldIn(tasks[u]) = {}
    BY <1>9 DEF Inv
  <2>2. CASE o = p \/ u = p
    BY <1>7, <2>2
  <2>3. CASE o # p /\ u # p
    BY <1>4, <2>1, <2>3
  <2>4. QED
    BY <2>2, <2>3
<1>10. QED
  BY <1>1, <1>6, <1>8, <1>9 DEF Inv

-----------------------------------------------------------------------------
(* The writes: each is one step of Dispatch.                               *)

\* What the others aim at exists, and what they have passed they may pass.
LEMMA OthersAim ==
    ASSUME Inv, NEW o \in Parties
    PROVE  LET q == tasks[o].request
               n == PassedIn(tasks[o])
           IN
           /\ n \in Int /\ n <= Steps(q)
           /\ q.kind \in {"version", "generate"} => q.target[1] \in 1 .. Len(scenarios)
           /\ q.kind = "decide" =>
                 /\ q.target[1] \in 1 .. Len(recommendations)
                 /\ recommendations[q.target[1]].scenario \in 1 .. Len(scenarios)
           /\ n >= 3 /\ q.kind = "decide" => q.action # "reject"
           /\ n >= 5 /\ q.kind = "decide" => Assigned(q) \cap D!Dispatched = {}
<1> DEFINE t == tasks[o]
           q == t.request
           n == PassedIn(t)
<1>1. /\ Fits(o, t) /\ Holds(t) /\ t.held \in 0 .. 5 /\ t.stage \in Stages
      /\ q.kind \in Kinds /\ Steps(q) \in 2 .. 5
  BY TaskIs
<1>2. n \in Int /\ n <= Steps(q)
  <2>1. CASE t.stage = "idle"
    BY <1>1, <2>1 DEF Fits, PassedIn, Idle
  <2>2. CASE t.stage # "idle"
    BY <1>1, <2>2 DEF Fits, PassedIn, Stages
  <2>3. QED
    BY <2>1, <2>2
<1>3. q.kind \in {"version", "generate", "decide"} => TargetExists(q)
  BY <1>1, PollIs DEF Fits, Idle
<1>4. q.kind \in {"version", "generate"} => q.target[1] \in 1 .. Len(scenarios)
  BY <1>3 DEF TargetExists
<1>5. q.kind = "decide" =>
         /\ q.target[1] \in 1 .. Len(recommendations)
         /\ recommendations[q.target[1]].scenario \in 1 .. Len(scenarios)
  BY <1>3, StoredIs DEF TargetExists
<1>6. n >= 3 /\ q.kind = "decide" => q.action # "reject"
  BY <1>2 DEF Steps
<1>7. n >= 5 /\ q.kind = "decide" => Assigned(q) \cap D!Dispatched = {}
  <2> SUFFICES ASSUME n >= 5, q.kind = "decide" PROVE Assigned(q) \cap D!Dispatched = {}
    OBVIOUS
  <2>1. 5 \in 1 .. n
    BY <1>2
  <2>2. Refusal(q, 5) = "none"
    BY <1>1, <2>1 DEF Holds
  <2>3. DecisionRefusal(q, 5) = "none"
    BY <2>2 DEF Refusal
  <2>4. QED
    BY <2>3 DEF DecisionRefusal
<1>8. QED
  BY <1>2, <1>4, <1>5, <1>6, <1>7

\* Nobody else has passed under a lock of a task that is about to write.
LEMMA NotPassedByOthers ==
    ASSUME Inv, NEW p \in Parties, tasks[p].stage = "ready", NEW o \in Parties, o # p,
           NEW i \in 1 .. PassedIn(tasks[o]), NEW j \in 1 .. Steps(tasks[p].request)
    PROVE  Locks(tasks[o].request)[i] \cap Locks(tasks[p].request)[j] = {}
<1>1. Locks(tasks[o].request)[i] \subseteq HeldIn(tasks[o])
  BY HeldWhilePassed
<1>2. Locks(tasks[p].request)[j] \subseteq HeldIn(tasks[p])
  BY ReadyIs
<1>3. HeldIn(tasks[o]) \cap HeldIn(tasks[p]) = {}
  BY DEF Inv
<1>4. QED
  BY <1>1, <1>2, <1>3

\* A command that has written its result and its claim keeps the invariant if it
\* leaves what the others have checked, their claims apart.
LEMMA CompleteInv ==
    ASSUME Inv, NEW p \in Parties, tasks[p].stage = "ready", tasks[p].request.kind # "ingest",
           NEW response \in Seq(Nat), Complete(p, response),
           [D!Next]_D!vars, UNCHANGED release,
           \A o \in Parties :
              /\ o # p
              /\ PassedIn(tasks[o]) > 0 /\ tasks[o].request.kind # "ingest" =>
                    \A claim \in claims' : ~SameKey(claim.request, tasks[o].request)
              => Holds(tasks[o])'
    PROVE  Inv'
<1>1. tasks[p].request \in Requests /\ tasks[p].request \in Request
      /\ TargetExists(tasks[p].request)
  BY ReadyIs
<1>2. p \notin Sources
  <2>1. Fits(p, tasks[p])
    BY TaskIs
  <2>2. QED
    BY <2>1, PollIs DEF Fits
<1>3. claims' = claims \cup {[request |-> tasks[p].request, response |-> response]}
  BY DEF Complete
<1>4. claims' \in SUBSET Claim
  BY <1>1, <1>3 DEF Inv, Claim
<1>5. Answer(p, "ok", response) /\ "ok" \in Codes /\ tasks[p].stage # "idle"
  BY DEF Complete, Codes
<1>6. PICK t : /\ tasks' = [tasks EXCEPT ![p] = t]
               /\ Fits(p, t) /\ t.stage = "answered" /\ t.held = 0
               /\ t.request = tasks[p].request
  BY <1>5, AnswerFits
<1>7. t \in Task
  BY <1>6 DEF Fits
<1>8. ASSUME NEW o \in Parties, o # p PROVE Holds(tasks[o])'
  BY <1>3, <1>8, ClaimIsNew
<1>9. QED
  BY <1>1, <1>2, <1>4, <1>6, <1>7, <1>8, WriteStep

\* A new scenario (ScenarioService.create).
LEMMA StoreScenarioStep ==
    ASSUME Inv, NEW p \in Parties, StoreScenario(p)
    PROVE  D!Next /\ Inv'
<1> DEFINE q == tasks[p].request
           new == [pinned |-> snapshot, overlays |-> <<{}>>]
<1>1. tasks[p].stage = "ready" /\ q.kind = "create"
  BY DEF StoreScenario, Ready
<1>2. Refusal(q, 2) = "none" /\ Load(q, 2, tasks[p].loaded) = tasks[p].loaded
  BY <1>1, ReadyIs
<1>3. snapshot # 0
  BY <1>1, <1>2 DEF Refusal, ScenarioRefusal
<1>4. tasks[p].loaded.snapshot = snapshot
  <2>1. tasks[p].loaded \in [version : Nat, snapshot : Nat]
    BY TaskIs
  <2>2. tasks[p].loaded = [tasks[p].loaded EXCEPT !.snapshot = snapshot]
    BY <1>1, <1>2 DEF Load
  <2>3. QED
    BY <2>1, <2>2
<1>5. /\ scenarios' = Append(scenarios, new)
      /\ UNCHANGED <<snapshot, release, recommendations, decisions>>
  BY <1>4 DEF StoreScenario
<1>6. D!CreateScenario
  BY <1>3, <1>5, StoredIs DEF StoreScenario, D!CreateScenario
<1>7. D!Next
  BY <1>6 DEF D!Next
<1> HIDE DEF new
<1>8. \A s \in 1 .. Len(scenarios) : scenarios'[s] = scenarios[s]
  BY <1>5, StoredIs, AppendProperties DEF D!TypeOK
<1>9. ASSUME NEW o \in Parties, o # p,
             PassedIn(tasks[o]) > 0 /\ tasks[o].request.kind # "ingest" =>
                \A claim \in claims' : ~SameKey(claim.request, tasks[o].request)
      PROVE  Holds(tasks[o])'
  <2>1. PICK u : u = tasks[o]
    OBVIOUS
  <2> DEFINE r == u.request
  <2>2. tasks'[o] = tasks[o]
    BY <1>9 DEF StoreScenario, Complete, Answer, Inv
  <2>3. /\ D!Decided(r.target[1])' <=> D!Decided(r.target[1])
        /\ D!Dispatched' = D!Dispatched
    BY <1>5 DEF D!Decided, D!Dispatched
  <2>4. /\ r.kind \in {"version", "generate"} => scenarios'[r.target[1]] = scenarios[r.target[1]]
        /\ r.kind = "decide" =>
              scenarios'[recommendations[r.target[1]].scenario]
                 = scenarios[recommendations[r.target[1]].scenario]
        /\ PassedIn(tasks[o]) >= 5 /\ r.kind = "decide" => Assigned(r) \cap D!Dispatched = {}
    BY <1>8, <2>1, OthersAim
  <2>5. QED
    BY <1>5, <1>9, <2>1, <2>2, <2>3, <2>4, HoldsKept
<1>10. Len(scenarios) + 1 \in Nat /\ 1 \in Nat
  BY StoredIs
<1>11. <<Len(scenarios) + 1, 1>> \in Seq(Nat) /\ Complete(p, <<Len(scenarios) + 1, 1>>)
  BY <1>10 DEF StoreScenario
<1>12. QED
  BY <1>1, <1>5, <1>7, <1>9, <1>11, CompleteInv

\* Who has passed under no lock of a scenario has looked at another one.
LEMMA OtherScenario ==
    ASSUME NEW r, r.kind \in Kinds, NEW n \in Int, NEW s,
           n >= 3 /\ r.kind = "decide" => r.action # "reject",
           \A i \in 1 .. n : <<"scenario", s>> \notin Locks(r)[i]
    PROVE  /\ n >= 2 /\ r.kind = "version" => r.target[1] # s
           /\ n >= 3 /\ r.kind = "generate" => r.target[1] # s
           /\ n >= 4 /\ r.kind = "decide" => recommendations[r.target[1]].scenario # s
<1>1. n >= 2 /\ r.kind = "version" => r.target[1] # s
  <2>1. n >= 2 => <<"scenario", s>> \notin Locks(r)[2]
    OBVIOUS
  <2>2. r.kind = "version" => Locks(r)[2] = {<<"scenario", r.target[1]>>}
    BY LocksAre
  <2>3. QED
    BY <2>1, <2>2
<1>2. n >= 3 /\ r.kind = "generate" => r.target[1] # s
  <2>1. n >= 3 => <<"scenario", s>> \notin Locks(r)[3]
    OBVIOUS
  <2>2. r.kind = "generate" => Locks(r)[3] = {<<"scenario", r.target[1]>>}
    BY LocksAre
  <2>3. QED
    BY <2>1, <2>2
<1>3. n >= 4 /\ r.kind = "decide" => recommendations[r.target[1]].scenario # s
  <2>1. n >= 4 => <<"scenario", s>> \notin Locks(r)[4]
    OBVIOUS
  <2>2. r.kind = "decide" /\ r.action # "reject" =>
           Locks(r)[4] = {<<"scenario", recommendations[r.target[1]].scenario>>}
    BY LocksAre
  <2>3. n >= 4 => n >= 3
    OBVIOUS
  <2>4. QED
    BY <2>1, <2>2, <2>3
<1>4. QED
  BY <1>1, <1>2, <1>3

\* A new version follows the latest one and takes its overlay from the request or
\* from there.
LEMMA NewVersionIs ==
    ASSUME Inv, NEW p \in Parties, StoreVersion(p)
    PROVE  LET s == tasks[p].request.target[1]
               k == Len(scenarios[s].overlays)
           IN
           /\ s \in 1 .. Len(scenarios) /\ scenarios[s].overlays # <<>>
           /\ \E overlay \in SUBSET Resources :
                 /\ scenarios' = [scenarios EXCEPT ![s].overlays = Append(@, overlay)]
                 /\ UNCHANGED <<snapshot, release, recommendations, decisions>>
                 /\ k < MaxVersions
                 /\ Complete(p, <<s, k + 1>>)
<1> DEFINE q == tasks[p].request
           s == q.target[1]
           previous == tasks[p].loaded.version
           overlay == IF q.action = "replace" THEN q.units
                      ELSE scenarios[s].overlays[previous]
<1>1. tasks[p].stage = "ready" /\ q.kind = "version" /\ 2 \in 1 .. Steps(q)
  <2>1. Ready(p, "version")
    BY DEF StoreVersion
  <2>2. QED
    BY <2>1 DEF Ready, Steps
<1>2. /\ Refusal(q, 2) = "none" /\ Load(q, 2, tasks[p].loaded) = tasks[p].loaded
      /\ TargetExists(q)
  BY <1>1, ReadyIs
<1>3. s \in 1 .. Len(scenarios)
  BY <1>1, <1>2 DEF TargetExists
<1>4. /\ scenarios[s].overlays \in Seq(SUBSET Resources) /\ scenarios[s].overlays # <<>>
      /\ Len(scenarios[s].overlays) \in Nat
  BY <1>3, StoredIs
<1>5. previous = Len(scenarios[s].overlays)
  <2> DEFINE k == Len(scenarios[s].overlays)
             l == tasks[p].loaded
  <2>1. l \in [version : Nat, snapshot : Nat]
    BY TaskIs
  <2>2. l = [l EXCEPT !.version = k]
    BY <1>1, <1>2 DEF Load
  <2> HIDE DEF k, l
  <2>3. l.version = k
    BY <2>1, <2>2
  <2>4. QED
    BY <2>3 DEF k, l
<1>6. SubSeq(scenarios[s].overlays, 1, previous) = scenarios[s].overlays
  <2>1. \A S, f : f \in Seq(S) => SubSeq(f, 1, Len(f)) = f
    BY Z3
  <2>2. QED
    BY <1>4, <1>5, <2>1
<1>7. overlay \in SUBSET Resources
  <2>1. CASE q.action = "replace"
    BY <1>1, <1>2, <2>1 DEF Refusal, VersionRefusal
  <2>2. CASE q.action # "replace"
    <3>1. previous \in 1 .. Len(scenarios[s].overlays)
      BY <1>4, <1>5, EmptySeq
    <3>2. QED
      BY <1>4, <2>2, <3>1, ElementOfSeq
  <2>3. QED
    BY <2>1, <2>2
<1>8. /\ scenarios' = [scenarios EXCEPT ![s].overlays = Append(@, overlay)]
      /\ UNCHANGED <<snapshot, release, recommendations, decisions>>
      /\ Len(scenarios[s].overlays) < MaxVersions
      /\ Complete(p, <<s, previous + 1>>)
  BY <1>5, <1>6 DEF StoreVersion
<1>9. QED
  BY <1>3, <1>4, <1>5, <1>7, <1>8

\* A new version (ScenarioService.append_version): the version it follows is
\* still the latest.
LEMMA StoreVersionStep ==
    ASSUME Inv, NEW p \in Parties, StoreVersion(p)
    PROVE  D!Next /\ Inv'
<1> DEFINE q == tasks[p].request
           s == q.target[1]
           previous == Len(scenarios[s].overlays)
<1>1. tasks[p].stage = "ready" /\ q.kind = "version" /\ 2 \in 1 .. Steps(q)
  <2>1. Ready(p, "version")
    BY DEF StoreVersion
  <2>2. QED
    BY <2>1 DEF Ready, Steps
<1>3. s \in 1 .. Len(scenarios)
  BY NewVersionIs
<1>8. PICK overlay \in SUBSET Resources :
         /\ scenarios' = [scenarios EXCEPT ![s].overlays = Append(@, overlay)]
         /\ UNCHANGED <<snapshot, release, recommendations, decisions>>
         /\ previous < MaxVersions
         /\ Complete(p, <<s, previous + 1>>)
  BY NewVersionIs
<1>9. D!AddVersion(s, overlay)
  BY <1>8 DEF D!AddVersion
<1>10. D!Next
  BY <1>3, <1>9 DEF D!Next
<1>11. \A r \in 1 .. Len(scenarios) : r # s => scenarios'[r] = scenarios[r]
  BY <1>8, StoredIs, LenProperties DEF D!TypeOK
<1>12. ASSUME NEW o \in Parties, o # p,
              PassedIn(tasks[o]) > 0 /\ tasks[o].request.kind # "ingest" =>
                 \A claim \in claims' : ~SameKey(claim.request, tasks[o].request)
       PROVE  Holds(tasks[o])'
  <2>1. PICK u : u = tasks[o]
    OBVIOUS
  <2> DEFINE r == u.request
             n == PassedIn(u)
  <2>2. tasks'[o] = tasks[o]
    BY <1>8, <1>12 DEF Complete, Answer, Inv
  <2>3. /\ D!Decided(r.target[1])' <=> D!Decided(r.target[1])
        /\ D!Dispatched' = D!Dispatched
    BY <1>8 DEF D!Decided, D!Dispatched
  <2>4. /\ r.kind \in {"version", "generate"} => r.target[1] \in 1 .. Len(scenarios)
        /\ r.kind = "decide" => recommendations[r.target[1]].scenario \in 1 .. Len(scenarios)
        /\ n >= 5 /\ r.kind = "decide" => Assigned(r) \cap D!Dispatched = {}
        /\ n >= 3 /\ r.kind = "decide" => r.action # "reject"
        /\ n \in Int /\ r.kind \in Kinds
    BY <2>1, OthersAim, TaskIs
  <2>5. \A i \in 1 .. n : <<"scenario", s>> \notin Locks(r)[i]
    <3>1. Locks(q)[2] = {<<"scenario", s>>}
      BY <1>1, LocksAre, TaskIs
    <3>2. \A i \in 1 .. n : Locks(r)[i] \cap Locks(q)[2] = {}
      BY <1>1, <1>12, <2>1, NotPassedByOthers
    <3>3. QED
      BY <3>1, <3>2
  <2>6. /\ n >= 2 /\ r.kind = "version" => r.target[1] # s
        /\ n >= 3 /\ r.kind = "generate" => r.target[1] # s
        /\ n >= 4 /\ r.kind = "decide" => recommendations[r.target[1]].scenario # s
    <3> HIDE DEF r, n, s
    <3>1. QED
      BY <2>4, <2>5, OtherScenario
  <2>9. /\ n >= 2 /\ r.kind = "version" => scenarios'[r.target[1]] = scenarios[r.target[1]]
        /\ n >= 3 /\ r.kind = "generate" => scenarios'[r.target[1]] = scenarios[r.target[1]]
        /\ n >= 4 /\ r.kind = "decide" =>
              scenarios'[recommendations[r.target[1]].scenario]
                 = scenarios[recommendations[r.target[1]].scenario]
    BY <1>11, <2>4, <2>6
  <2>10. QED
    BY <1>8, <1>12, <2>1, <2>2, <2>3, <2>4, <2>9, HoldsKept
<1>13. <<s, previous + 1>> \in Seq(Nat)
  <2>1. Len(scenarios) \in Nat /\ previous \in Nat
    BY <1>3, StoredIs
  <2> HIDE DEF s, previous
  <2>2. s \in Nat
    BY <1>3, <2>1
  <2>3. QED
    BY <2>1, <2>2
<1>14. QED
  BY <1>1, <1>8, <1>10, <1>12, <1>13, CompleteInv

\* A recommendation (RecommendationService.generate): the version it was
\* computed from is still current.
LEMMA RecommendStep ==
    ASSUME Inv, NEW p \in Parties, RecommendIn(p)
    PROVE  D!Next /\ Inv'
<1> DEFINE q == tasks[p].request
           s == q.target[1]
           v == q.target[2]
<1>1. tasks[p].stage = "ready" /\ q.kind = "generate" /\ 3 \in 1 .. Steps(q)
  <2>1. Ready(p, "generate")
    BY DEF RecommendIn
  <2>2. QED
    BY <2>1 DEF Ready, Steps
<1>2. PICK plan \in D!Proposals(s, v) : StoreRecommendation(p, plan)
  BY DEF RecommendIn
<1>3. Refusal(q, 3) = "none" /\ TargetExists(q)
  BY <1>1, ReadyIs
<1>4. s \in 1 .. Len(scenarios) /\ v \in 1 .. Len(scenarios[s].overlays)
  BY <1>1, <1>3 DEF TargetExists
<1>5. D!CurrentVersion(s, v)
  BY <1>1, <1>3 DEF Refusal, RecommendationRefusal
<1>6. D!Recommend(s, v, plan)
  BY <1>2, <1>5 DEF StoreRecommendation, D!Recommend
<1>7. D!Next
  BY <1>4, <1>6 DEF D!Next
<1>8. /\ UNCHANGED <<snapshot, release, scenarios, decisions>>
      /\ Complete(p, <<Len(recommendations) + 1>>)
  BY <1>2 DEF StoreRecommendation
<1>9. \A i \in 1 .. Len(recommendations) : recommendations'[i] = recommendations[i]
  BY <1>7, Growth
<1>10. ASSUME NEW o \in Parties, o # p,
              PassedIn(tasks[o]) > 0 /\ tasks[o].request.kind # "ingest" =>
                 \A claim \in claims' : ~SameKey(claim.request, tasks[o].request)
       PROVE  Holds(tasks[o])'
  <2>1. PICK u : u = tasks[o]
    OBVIOUS
  <2> DEFINE r == u.request
  <2>2. tasks'[o] = tasks[o]
    BY <1>8, <1>10 DEF Complete, Answer, Inv
  <2>3. /\ D!Decided(r.target[1])' <=> D!Decided(r.target[1])
        /\ D!Dispatched' = D!Dispatched
    BY <1>8 DEF D!Decided, D!Dispatched
  <2>4. /\ r.kind = "decide" =>
              recommendations'[r.target[1]] = recommendations[r.target[1]]
        /\ PassedIn(tasks[o]) >= 5 /\ r.kind = "decide" => Assigned(r) \cap D!Dispatched = {}
    BY <1>9, <2>1, OthersAim
  <2>5. QED
    BY <1>8, <1>10, <2>1, <2>2, <2>3, <2>4, HoldsKept
<1>11. <<Len(recommendations) + 1>> \in Seq(Nat)
  BY StoredIs
<1>12. QED
  BY <1>1, <1>7, <1>8, <1>10, <1>11, CompleteInv

\* A decision has seen, under locks it still holds, that nothing was decided, that
\* the inputs are current and that its resources are free (DecisionCommandService).
LEMMA DecisionIs ==
    ASSUME Inv, NEW p \in Parties, Ready(p, "decide")
    PROVE  LET q == tasks[p].request
               i == q.target[1]
           IN
           /\ q.action \in D!Actions /\ i \in 1 .. Len(recommendations)
           /\ ~D!Decided(i)
           /\ q.action # "reject" => D!Current(recommendations[i]) /\ recommendations[i].solved
           /\ Assigned(q) \cap D!Dispatched = {}
           /\ Assigned(q) \in D!Assignable(recommendations[i], q.action)
<1> DEFINE q == tasks[p].request
           i == q.target[1]
           rec == recommendations[i]
<1>1. tasks[p].stage = "ready" /\ q.kind = "decide"
  BY DEF Ready
<1>2. /\ q \in Requests /\ TargetExists(q)
      /\ \A j \in 1 .. Steps(q) : Refusal(q, j) = "none"
  BY <1>1, ReadyIs
<1>3. q.action \in {"approve", "edit", "reject"} /\ i \in 1 .. Len(recommendations)
  BY <1>1, <1>2, RequestsAre DEF TargetExists
<1>4. \A j \in 1 .. Steps(q) : DecisionRefusal(q, j) = "none"
  BY <1>1, <1>2 DEF Refusal
<1>5. Steps(q) = IF q.action = "reject" THEN 2 ELSE 5
  BY <1>1 DEF Steps
<1>6. DecisionRefusal(q, 2) = "none"
  BY <1>4, <1>5
<1>7. ~D!Decided(i)
  BY <1>6 DEF DecisionRefusal
<1>8. CASE q.action = "reject"
  <2>1. Assigned(q) = {}
    BY <1>8 DEF Assigned
  <2>2. QED
    BY <1>3, <1>7, <1>8, <2>1 DEF D!Assignable, D!Actions
<1>9. CASE q.action # "reject"
  <2>1. DecisionRefusal(q, 4) = "none" /\ DecisionRefusal(q, 5) = "none"
    BY <1>4, <1>5, <1>9
  <2>2. /\ D!Current(rec) /\ rec.solved
        /\ ~(q.action = "edit" /\ q.units = {})
        /\ q.units \subseteq D!Available(rec.scenario, rec.version)
    BY <2>1 DEF DecisionRefusal
  <2>3. Assigned(q) \cap D!Dispatched = {}
    BY <2>1 DEF DecisionRefusal
  <2>4. Assigned(q) = IF q.action = "approve" THEN rec.proposed ELSE q.units
    BY <1>3, <1>9 DEF Assigned
  <2>5. CASE q.action = "approve"
    BY <1>3, <1>7, <2>2, <2>3, <2>4, <2>5 DEF D!Assignable, D!Actions
  <2>6. CASE q.action = "edit"
    BY <1>3, <1>7, <2>2, <2>3, <2>4, <2>6 DEF D!Assignable, D!Actions
  <2>7. QED
    BY <1>3, <1>9, <2>5, <2>6
<1>10. QED
  BY <1>8, <1>9

\* What one more decision adds to those there are.
LEMMA OneMoreDecision ==
    ASSUME D!TypeOK, NEW d, decisions' = Append(decisions, d)
    PROVE  /\ \A j : D!Decided(j)' <=> D!Decided(j) \/ d.recommendation = j
           /\ D!Dispatched' = D!Dispatched \cup d.assigned
<1> DEFINE m == Len(decisions)
<1>1. /\ m \in Nat /\ Len(decisions') = m + 1
      /\ \A i \in 1 .. m : decisions'[i] = decisions[i]
      /\ decisions'[m + 1] = d
  BY AppendProperties DEF D!TypeOK
<1> HIDE DEF m
<1>2. 1 .. m + 1 = (1 .. m) \cup {m + 1}
  BY <1>1
<1>3. ASSUME NEW j PROVE D!Decided(j)' <=> D!Decided(j) \/ d.recommendation = j
  <2>1. D!Decided(j)' <=> \E i \in (1 .. m) \cup {m + 1} : decisions'[i].recommendation = j
    BY <1>1, <1>2 DEF D!Decided
  <2>2. QED
    BY <1>1, <2>1 DEF D!Decided, m
<1>4. D!Dispatched' = UNION {decisions'[i].assigned : i \in (1 .. m) \cup {m + 1}}
  BY <1>1, <1>2 DEF D!Dispatched
<1>5. D!Dispatched = UNION {decisions[i].assigned : i \in 1 .. m}
  BY DEF D!Dispatched, m
<1>6. D!Dispatched' = D!Dispatched \cup d.assigned
  BY <1>1, <1>4, <1>5
<1>7. QED
  BY <1>3, <1>6

\* A decision committed by a transaction is a decision of Dispatch.
LEMMA StoreDecisionStep ==
    ASSUME Inv, NEW p \in Parties, StoreDecision(p)
    PROVE  D!Next /\ Inv'
<1> DEFINE q == tasks[p].request
           i == q.target[1]
           new == [recommendation |-> i, action |-> q.action, assigned |-> Assigned(q)]
<1>1. Ready(p, "decide") /\ tasks[p].stage = "ready" /\ q.kind = "decide"
  BY DEF StoreDecision, Ready
<1>2. /\ decisions' = Append(decisions, new)
      /\ UNCHANGED <<snapshot, release, scenarios, recommendations>>
      /\ Complete(p, <<Len(decisions) + 1>>)
  BY DEF StoreDecision
<1>3. D!Decide(i, q.action, Assigned(q))
  BY <1>1, <1>2, DecisionIs DEF D!Decide
<1>4. D!Next
  BY <1>1, <1>3, DecisionIs DEF D!Next
<1>5. /\ \A j : D!Decided(j)' <=> D!Decided(j) \/ i = j
      /\ D!Dispatched' = D!Dispatched \cup Assigned(q)
  <2>1. new.recommendation = i /\ new.assigned = Assigned(q)
    OBVIOUS
  <2> HIDE DEF new
  <2>2. QED
    BY <1>2, <2>1, OneMoreDecision, StoredIs
<1>6. /\ Steps(q) = IF q.action = "reject" THEN 2 ELSE 5
      /\ q.action = "reject" => Assigned(q) = {}
  BY <1>1 DEF Steps, Assigned
<1>7. ASSUME NEW o \in Parties, o # p,
             PassedIn(tasks[o]) > 0 /\ tasks[o].request.kind # "ingest" =>
                \A claim \in claims' : ~SameKey(claim.request, tasks[o].request)
      PROVE  Holds(tasks[o])'
  <2>1. PICK u : u = tasks[o]
    OBVIOUS
  <2> DEFINE r == u.request
             n == PassedIn(u)
  <2>2. tasks'[o] = tasks[o]
    BY <1>2, <1>7 DEF Complete, Answer, Inv
  <2>3. /\ n >= 5 /\ r.kind = "decide" => Assigned(r) \cap D!Dispatched = {}
        /\ n >= 3 /\ r.kind = "decide" => r.action # "reject"
        /\ n \in Int /\ r.kind \in Kinds
    BY <2>1, OthersAim, TaskIs
  <2>4. \A k \in 1 .. n, j \in 1 .. Steps(q) : Locks(r)[k] \cap Locks(q)[j] = {}
    BY <1>1, <1>7, <2>1, NotPassedByOthers
  <2>5. n >= 2 /\ r.kind = "decide" => r.target[1] # i
    <3>1. Locks(q)[2] = {<<"recommendation", i>>}
      BY <1>1, LocksAre, TaskIs
    <3>2. r.kind = "decide" => Locks(r)[2] = {<<"recommendation", r.target[1]>>}
      BY <2>3, LocksAre
    <3>3. n >= 2 => 2 \in 1 .. n /\ 2 \in 1 .. Steps(q)
      BY <1>6, <2>3
    <3>4. QED
      BY <2>4, <3>1, <3>2, <3>3
  <2>6. n >= 5 /\ r.kind = "decide" => Assigned(r) \cap Assigned(q) = {}
    <3> SUFFICES ASSUME n >= 5, r.kind = "decide", q.action # "reject",
                        NEW a, a \in Assigned(r), a \in Assigned(q)
                 PROVE  FALSE
      BY <1>6
    <3>1. Locks(q)[5] = {<<"resource", x>> : x \in Assigned(q)}
      BY <1>1, LocksAre, TaskIs
    <3>2. n >= 3
      BY <2>3
    <3>3. Locks(r)[5] = {<<"resource", x>> : x \in Assigned(r)}
      BY <2>3, <3>2, LocksAre
    <3>4. 5 \in 1 .. n /\ 5 \in 1 .. Steps(q)
      BY <1>6, <2>3
    <3>5. Locks(r)[5] \cap Locks(q)[5] = {}
      BY <2>4, <3>4
    <3>6. <<"resource", a>> \in Locks(r)[5]
      BY <3>3
    <3>7. <<"resource", a>> \in Locks(q)[5]
      BY <3>1
    <3>8. QED
      BY <3>5, <3>6, <3>7
  <2>7. /\ n >= 2 /\ r.kind = "decide" =>
              (D!Decided(r.target[1])' <=> D!Decided(r.target[1]))
        /\ n >= 5 /\ r.kind = "decide" => Assigned(r) \cap D!Dispatched' = {}
    BY <1>5, <2>3, <2>5, <2>6
  <2>8. QED
    BY <1>2, <1>7, <2>1, <2>2, <2>7, HoldsKept
<1>8. <<Len(decisions) + 1>> \in Seq(Nat)
  BY StoredIs
<1>9. QED
  BY <1>1, <1>2, <1>4, <1>7, <1>8, CompleteInv

\* Refreshed incidents are stored (ingestion under the refresh lock): whoever
\* relies on the snapshot holds the refresh lock or the incident.
LEMMA StoreSnapshotStep ==
    ASSUME Inv, NEW p \in Parties, StoreSnapshot(p)
    PROVE  D!Next /\ Inv'
<1> DEFINE q == tasks[p].request
<1>1. tasks[p].stage = "ready" /\ q.kind = "ingest"
  BY DEF StoreSnapshot, Ready
<1>2. Steps(q) = 2 /\ 1 \in 1 .. 2 /\ 2 \in 1 .. 2
  BY <1>1 DEF Steps
<1>3. Load(q, 2, tasks[p].loaded) = tasks[p].loaded
  BY <1>1, <1>2, ReadyIs
<1>4. tasks[p].loaded.snapshot = snapshot
  <2>1. tasks[p].loaded \in [version : Nat, snapshot : Nat]
    BY TaskIs
  <2>2. tasks[p].loaded = [tasks[p].loaded EXCEPT !.snapshot = snapshot]
    BY <1>1, <1>3 DEF Load
  <2>3. QED
    BY <2>1, <2>2
<1>5. /\ UNCHANGED <<release, scenarios, recommendations, decisions, claims>>
      /\ tasks' = [tasks EXCEPT ![p] = Idle]
      /\ snapshot < MaxSnapshot /\ snapshot' = snapshot + 1
  BY <1>4 DEF StoreSnapshot
<1>6. D!Next
  BY <1>5 DEF D!Refresh, D!Next
<1>7. Locks(q)[1] = {<<"refresh">>} /\ Locks(q)[2] = {<<"incident">>}
  BY <1>1, LocksAre, TaskIs
<1>8. ASSUME NEW o \in Parties, o # p
      PROVE  Holds(tasks[o])'
  <2>1. PICK u : u = tasks[o]
    OBVIOUS
  <2> DEFINE r == u.request
             n == PassedIn(u)
  <2>2. tasks'[o] = tasks[o] /\ Holds(u)
    BY <1>5, <1>8, <2>1 DEF Inv
  <2>3. /\ n >= 5 /\ r.kind = "decide" => Assigned(r) \cap D!Dispatched = {}
        /\ n >= 3 /\ r.kind = "decide" => r.action # "reject"
        /\ n \in Int /\ r.kind \in Kinds
    BY <2>1, OthersAim, TaskIs
  <2>4. \A k \in 1 .. n : <<"refresh">> \notin Locks(r)[k] /\ <<"incident">> \notin Locks(r)[k]
    <3>1. \A k \in 1 .. n, j \in 1 .. Steps(q) : Locks(r)[k] \cap Locks(q)[j] = {}
      BY <1>1, <1>8, <2>1, NotPassedByOthers
    <3>2. QED
      BY <1>2, <1>7, <3>1
  <2>5. ~(n >= 2 /\ r.kind \in {"create", "ingest"})
    <3>1. r.kind \in {"create", "ingest"} => Locks(r)[2] = {<<"incident">>}
      BY <2>3, LocksAre
    <3>2. n >= 2 => <<"incident">> \notin Locks(r)[2]
      BY <2>3, <2>4
    <3>3. QED
      BY <3>1, <3>2
  <2>6. ~(n >= 3 /\ r.kind = "generate")
    <3>1. r.kind = "generate" => Locks(r)[2] = {<<"refresh">>}
      BY <2>3, LocksAre
    <3>2. n >= 3 => <<"refresh">> \notin Locks(r)[2]
      BY <2>3, <2>4
    <3>3. QED
      BY <3>1, <3>2
  <2>7. ~(n >= 4 /\ r.kind = "decide")
    <3>1. r.kind = "decide" /\ r.action # "reject" => Locks(r)[3] = {<<"refresh">>}
      BY <2>3, LocksAre
    <3>2. n >= 4 => n >= 3 /\ <<"refresh">> \notin Locks(r)[3]
      BY <2>3, <2>4
    <3>3. QED
      BY <2>3, <3>1, <3>2
  <2>8. /\ D!Decided(r.target[1])' <=> D!Decided(r.target[1])
        /\ D!Dispatched' = D!Dispatched
    BY <1>5 DEF D!Decided, D!Dispatched
  <2>9. n > 0 /\ r.kind # "ingest" => \A claim \in claims' : ~SameKey(claim.request, r)
    BY <1>5, <2>2 DEF Holds
  <2>10. QED
    BY <1>5, <2>1, <2>2, <2>3, <2>5, <2>6, <2>7, <2>8, <2>9, HoldsKept
<1>9. claims' \in SUBSET Claim
  BY <1>5 DEF Inv
<1>10. QED
  BY <1>5, <1>6, <1>8, <1>9, WriteStep

-----------------------------------------------------------------------------
(* The theorems.                                                           *)

\* Every step keeps the invariant and is a step of Dispatch or none.
LEMMA StepInv ==
    ASSUME Inv, [Next]_vars
    PROVE  Inv' /\ [D!Next]_D!vars
<1>1. CASE Redeploy
  <2>1. D!Redeploy
    BY <1>1 DEF Redeploy, stored, D!Redeploy
  <2>2. QED
    BY <1>1, <2>1, RedeployInv DEF D!Next
<1>2. UNCHANGED <<stored, release>> => UNCHANGED D!vars
  BY DEF stored, D!vars
<1>3. ASSUME NEW r \in Calls, NEW q \in Requests, Send(r, q)
      PROVE  Inv' /\ UNCHANGED <<stored, release>>
  <2>1. r \in Parties /\ r \notin Sources
    BY RequestsAssumption DEF Parties
  <2>2. QED
    BY <1>3, <2>1, BeginInv DEF Send, Begin
<1>4. ASSUME NEW w \in Sources, Ingest(w)
      PROVE  Inv' /\ UNCHANGED <<stored, release>>
  <2>1. w \in Parties
    BY DEF Parties
  <2>2. QED
    BY <1>4, <2>1, BeginInv DEF Ingest, Begin
<1>5. ASSUME NEW p \in Parties, Finish(p) \/ Drop(p) \/ ReuseSnapshot(p)
      PROVE  Inv' /\ UNCHANGED <<stored, release>>
  BY <1>5, ResetInv DEF Finish, Drop, ReuseSnapshot
<1>6. ASSUME NEW p \in Parties, Acquire(p) \/ Replay(p) \/ Refuse(p) \/ Pass(p)
      PROVE  Inv' /\ UNCHANGED <<stored, release>>
  <2>1. Inv'
    BY <1>6, AcquireInv, ReplayInv, RefuseInv, PassInv
  <2>2. UNCHANGED <<stored, release>>
    BY <1>6 DEF Acquire, Replay, Refuse, Pass
  <2>3. QED
    BY <2>1, <2>2
<1>7. ASSUME NEW p \in Parties,
             \/ StoreScenario(p) \/ StoreVersion(p) \/ RecommendIn(p)
             \/ StoreDecision(p) \/ StoreSnapshot(p)
      PROVE  Inv' /\ D!Next
  BY <1>7, StoreScenarioStep, StoreVersionStep, RecommendStep,
     StoreDecisionStep, StoreSnapshotStep
<1>8. CASE UNCHANGED vars
  <2>1. UNCHANGED <<stored, release>> /\ UNCHANGED tasks
    BY <1>8 DEF vars, stored
  <2>2. Inv'
    <3>1. Kept'
      BY <2>1 DEF stored, Inv, Kept, DispatchSound, D!TypeOK, D!NoDoubleDispatch, D!DispatchWithinPlan
    <3>2. claims' = claims /\ tasks' = tasks
      BY <2>1 DEF stored
    <3>3. \A o, u : /\ Fits(o, u) => Fits(o, u)'
                    /\ Holds(u) => Holds(u)'
                    /\ HeldIn(u)' = HeldIn(u)
      BY <2>1, <3>2, StoredSame DEF Fits, Holds, HeldIn
    <3>4. QED
      BY <3>1, <3>2, <3>3 DEF Inv
  <2>3. QED
    BY <1>2, <2>1, <2>2
<1>9. CASE \E p \in Parties : Finish(p) \/ Drop(p) \/ Acquire(p) \/ Proceed(p)
  <2>1. PICK p \in Parties : Finish(p) \/ Drop(p) \/ Acquire(p) \/ Proceed(p)
    BY <1>9
  <2>2. CASE \/ Finish(p) \/ Drop(p) \/ ReuseSnapshot(p)
             \/ Acquire(p) \/ Replay(p) \/ Refuse(p) \/ Pass(p)
    BY <1>2, <1>5, <1>6, <2>2
  <2>3. CASE \/ StoreScenario(p) \/ StoreVersion(p) \/ RecommendIn(p)
             \/ StoreDecision(p) \/ StoreSnapshot(p)
    BY <1>7, <2>3
  <2>4. QED
    BY <2>1, <2>2, <2>3 DEF Proceed
<1>10. QED
  BY <1>1, <1>2, <1>3, <1>4, <1>8, <1>9 DEF Next

\* The invariant holds when the service starts on an empty database.
LEMMA InitInv == Init => Inv
<1> SUFFICES ASSUME Init PROVE Inv
  OBVIOUS
<1>1. \A p \in Parties : tasks[p] = Idle
  BY DEF Init
<1>2. tasks \in [Parties -> Task] /\ claims \in SUBSET Claim
  BY PollIs DEF Init
<1>3. \A p, o \in Parties : HeldIn(tasks[p]) \cap HeldIn(tasks[o]) = {}
  BY <1>1, PollIs
<1>4. \A p \in Parties : Fits(p, tasks[p]) /\ Holds(tasks[p])
  BY <1>1, IdleFits
<1>5. QED
  BY <1>2, <1>3, <1>4, RequestsAssumption, KeptInit DEF Init, Inv

\* The invariant holds throughout.
LEMMA InvHolds == Spec => []Inv
BY InitInv, StepInv, PTL DEF Spec

\* The locks do what they are for: no lock is held twice, what a transaction has
\* checked stays so until it writes, and no circle of transactions waits
\* (the statement order of scenarios/service.py, decision/service.py,
\* decision/commands.py and the ingestion worker).
THEOREM LocksDoTheirWork == Spec => []LockingSound
<1>1. Inv => LockingSound
  BY InvIsSound
<1>2. QED
  BY <1>1, InvHolds, PTL

\* No resource is sent out twice, and none outside the plan it was approved in.
THEOREM NothingIsSentTwice == Spec => []DispatchSound
<1>1. Inv => DispatchSound
  BY InvIsSound
<1>2. QED
  BY <1>1, InvHolds, PTL

\* Concurrent transactions add up to the whole operations of Dispatch, each of
\* them applied to the inputs that are current when it commits.
THEOREM TransactionsAreAtomic == Spec => ImplementsDispatch
<1>1. Init => D!Init
  BY DEF Init
<1>2. Inv /\ [Next]_vars => [D!Next]_D!vars
  BY StepInv
<1>3. QED
  BY <1>1, <1>2, InvHolds, PTL DEF Spec, ImplementsDispatch, D!Spec

\* A recommendation overtaken by a newer snapshot or version never sends out
\* anything again, through whatever calls, retries and restarts.
THEOREM OvertakenNeverSentOut == Spec => SupersededIsFinal
<1> DEFINE Step(i) == LET rec == recommendations[i] IN
               ~D!CurrentVersion(rec.scenario, rec.version) =>
                  /\ ~D!CurrentVersion(rec.scenario, rec.version)'
                  /\ \A d \in 1 .. Len(decisions') :
                        decisions'[d].recommendation = i /\ decisions'[d].assigned # {}
                           => d \in 1 .. Len(decisions)
<1>1. ASSUME Inv, [Next]_vars, NEW i \in 1 .. Len(recommendations)
      PROVE  Step(i)
  <2>1. Kept /\ Kept' /\ [D!Next]_D!vars
    BY <1>1, StepInv DEF Inv
  <2>2. QED
    BY <2>1, OvertakenStep DEF D!CurrentVersion
<1>2. Inv /\ [Next]_vars => [\A i \in 1 .. Len(recommendations) : Step(i)]_D!vars
  BY <1>1
<1>3. QED
  BY <1>2, InvHolds, PTL DEF Spec, SupersededIsFinal, D!SupersededIsFinal

-----------------------------------------------------------------------------
(* Once per key.                                                           *)

Creations == {<<"create", <<>>, <<s, 1>>>> : s \in 1 .. Len(scenarios)}

Versions ==
    UNION {{<<"version", <<s>>, <<s, v>>>> : v \in 2 .. Len(scenarios[s].overlays)} :
              s \in 1 .. Len(scenarios)}

Generations ==
    {<<"generate", <<recommendations[i].scenario, recommendations[i].version>>, <<i>>>> :
        i \in 1 .. Len(recommendations)}

Decisions == {<<"decide", <<decisions[d].recommendation>>, <<d>>>> : d \in 1 .. Len(decisions)}

\* Every result has its kind.
LEMMA ResultsAre ==
    /\ Results = Creations \cup Versions \cup Generations \cup Decisions
    /\ \A x \in Creations : x[1] = "create"
    /\ \A x \in Versions : x[1] = "version"
    /\ \A x \in Generations : x[1] = "generate"
    /\ \A x \in Decisions : x[1] = "decide"
<1>1. Results = Creations \cup Versions \cup Generations \cup Decisions
  BY DEF Results, Creations, Versions, Generations, Decisions
<1>2. \A x \in Creations : x[1] = "create"
  BY DEF Creations
<1>3. \A x \in Versions : x[1] = "version"
  BY DEF Versions
<1>4. \A x \in Generations : x[1] = "generate"
  BY DEF Generations
<1>5. \A x \in Decisions : x[1] = "decide"
  BY DEF Decisions
<1>6. QED
  BY <1>1, <1>2, <1>3, <1>4, <1>5

OneToOne ==
    /\ {Result(claim) : claim \in claims} = Results
    /\ \A c, d \in claims :
          Result(c) = Result(d) \/ SameKey(c.request, d.request) => c = d

Answered ==
    \A r \in Calls : tasks[r].code = "ok" =>
        [request |-> tasks[r].request, response |-> tasks[r].response] \in claims

\* What a task is told is the result of its own request.
LEMMA AnsweredKept ==
    ASSUME Inv, Answered, claims \subseteq claims',
           NEW p \in Parties, NEW t, tasks' = [tasks EXCEPT ![p] = t],
           t.code = "ok" => [request |-> t.request, response |-> t.response] \in claims'
    PROVE  Answered'
<1>1. \A r \in Calls : tasks'[r] = IF r = p THEN t ELSE tasks[r]
  BY DEF Inv, Parties
<1>2. QED
  BY <1>1 DEF Answered

\* A new result and a new key keep keys and results one to one.
LEMMA OneMore ==
    ASSUME OneToOne, NEW q, NEW response,
           claims' = claims \cup {[request |-> q, response |-> response]},
           Results' = Results \cup {<<q.kind, q.target, response>>},
           <<q.kind, q.target, response>> \notin Results,
           \A claim \in claims : ~SameKey(claim.request, q)
    PROVE  OneToOne'
<1> DEFINE c == [request |-> q, response |-> response]
           x == <<q.kind, q.target, response>>
<1>1. c.request = q /\ Result(c) = x
  BY DEF Result
<1>2. claims' = claims \cup {c} /\ Results' = Results \cup {x} /\ x \notin Results
  OBVIOUS
<1> HIDE DEF c, x
<1>3. {Result(claim) : claim \in claims'} = {Result(claim) : claim \in claims} \cup {x}
  BY <1>1, <1>2
<1>4. \A d \in claims : Result(d) \in Results
  BY DEF OneToOne
<1>5. ASSUME NEW a \in claims', NEW b \in claims',
             Result(a) = Result(b) \/ SameKey(a.request, b.request)
      PROVE  a = b
  <2>1. CASE a \in claims /\ b \in claims
    BY <1>5, <2>1 DEF OneToOne
  <2>2. CASE a = c /\ b \in claims
    <3>1. ~SameKey(b.request, a.request)
      BY <1>1, <2>2
    <3>2. Result(b) # Result(a)
      BY <1>1, <1>2, <1>4, <2>2
    <3>3. QED
      BY <1>5, <3>1, <3>2 DEF SameKey
  <2>3. CASE b = c /\ a \in claims
    <3>1. ~SameKey(a.request, b.request)
      BY <1>1, <2>3
    <3>2. Result(b) # Result(a)
      BY <1>1, <1>2, <1>4, <2>3
    <3>3. QED
      BY <1>5, <3>1, <3>2
  <2>4. QED
    BY <1>2, <2>1, <2>2, <2>3
<1>6. {Result(claim) : claim \in claims'} = Results'
  BY <1>2, <1>3 DEF OneToOne
<1>7. QED
  BY <1>5, <1>6 DEF OneToOne

\* A command that completes has told its task what it claims.
LEMMA CompleteAnswers ==
    ASSUME Inv, Answered, NEW p \in Parties, tasks[p].stage = "ready",
           NEW response \in Seq(Nat), Complete(p, response)
    PROVE  /\ Answered'
           /\ claims' = claims \cup {[request |-> tasks[p].request, response |-> response]}
<1>1. claims' = claims \cup {[request |-> tasks[p].request, response |-> response]}
  BY DEF Complete
<1>2. Answer(p, "ok", response) /\ "ok" \in Codes /\ tasks[p].stage # "idle"
  BY DEF Complete, Codes
<1>3. PICK t : /\ tasks' = [tasks EXCEPT ![p] = t]
               /\ t.request = tasks[p].request /\ t.response = response
  BY <1>2, AnswerFits
<1>4. QED
  BY <1>1, <1>3, AnsweredKept

\* A scenario is created for one claim, which names no other row.
LEMMA CreatedOnce ==
    ASSUME Inv, OneToOne, Answered, NEW p \in Parties, StoreScenario(p)
    PROVE  OneToOne' /\ Answered'
<1> DEFINE q == tasks[p].request
           m == Len(scenarios)
           new == [pinned |-> tasks[p].loaded.snapshot, overlays |-> <<{}>>]
           x == <<"create", <<>>, <<m + 1, 1>>>>
<1>1. /\ tasks[p].stage = "ready" /\ q.kind = "create"
      /\ scenarios' = Append(scenarios, new) /\ UNCHANGED <<recommendations, decisions>>
      /\ Complete(p, <<m + 1, 1>>)
  BY DEF StoreScenario, Ready
<1>2. Len(new.overlays) = 1
  OBVIOUS
<1>3. m \in Nat
  BY StoredIs
<1> HIDE DEF new
<1>4. /\ Len(scenarios') = m + 1
      /\ \A s \in 1 .. m : scenarios'[s] = scenarios[s]
      /\ scenarios'[m + 1] = new
  BY <1>1, AppendProperties, StoredIs DEF D!TypeOK
<1>5. Creations = {<<"create", <<>>, <<s, 1>>>> : s \in 1 .. m}
  BY DEF Creations
<1>6. Versions = UNION {{<<"version", <<s>>, <<s, v>>>> : v \in 2 .. Len(scenarios[s].overlays)} :
                           s \in 1 .. m}
  BY DEF Versions
<1> HIDE DEF m
<1>7. 1 .. m + 1 = (1 .. m) \cup {m + 1} /\ m + 1 \notin 1 .. m
  BY <1>3
<1>8. Creations' = Creations \cup {x}
  <2>1. Creations' = {<<"create", <<>>, <<s, 1>>>> : s \in (1 .. m) \cup {m + 1}}
    BY <1>4, <1>7 DEF Creations
  <2>2. QED
    BY <1>5, <2>1
<1>9. x \notin Creations
  BY <1>5, <1>7
<1>10. Versions' = Versions
  <2>1. Versions' = UNION {{<<"version", <<s>>, <<s, v>>>> :
                               v \in 2 .. Len(scenarios'[s].overlays)} : s \in 1 .. m + 1}
    BY <1>4 DEF Versions
  <2>2. {<<"version", <<m + 1>>, <<m + 1, v>>>> : v \in 2 .. Len(scenarios'[m + 1].overlays)} = {}
    BY <1>2, <1>4
  <2>3. QED
    BY <1>4, <1>6, <1>7, <2>1, <2>2
<1>11. Generations' = Generations /\ Decisions' = Decisions
  BY <1>1 DEF Generations, Decisions
<1>12. Results' = Results \cup {x}
  <2>1. Results' = (Creations \cup Versions \cup Generations \cup Decisions)'
    BY DEF Results, Creations, Versions, Generations, Decisions
  <2>2. QED
    BY <1>8, <1>10, <1>11, <2>1, ResultsAre
<1>13. x \notin Results
  <2>1. x[1] = "create"
    OBVIOUS
  <2> HIDE DEF x
  <2>2. QED
    BY <1>9, <2>1, ResultsAre
<1>14. q.target = <<>> /\ \A claim \in claims : ~SameKey(claim.request, q)
  BY <1>1, ReadyIs, RequestsAre
<1>15. <<m + 1, 1>> \in Seq(Nat)
  BY <1>3
<1>16. /\ Answered'
       /\ claims' = claims \cup {[request |-> q, response |-> <<m + 1, 1>>]}
  BY <1>1, <1>15, CompleteAnswers
<1>17. x = <<q.kind, q.target, <<m + 1, 1>>>>
  BY <1>1, <1>14
<1>18. QED
  BY <1>12, <1>13, <1>14, <1>16, <1>17, OneMore

\* A version is added for one claim.
LEMMA VersionedOnce ==
    ASSUME Inv, OneToOne, Answered, NEW p \in Parties, StoreVersion(p)
    PROVE  OneToOne' /\ Answered'
<1> DEFINE q == tasks[p].request
           t == q.target[1]
           k == Len(scenarios[t].overlays)
           x == <<"version", <<t>>, <<t, k + 1>>>>
<1>1. tasks[p].stage = "ready" /\ q.kind = "version"
  BY DEF StoreVersion, Ready
<1>2. PICK overlay : /\ scenarios' = [scenarios EXCEPT ![t].overlays = Append(@, overlay)]
                     /\ overlay \in SUBSET Resources
                     /\ UNCHANGED <<recommendations, decisions>>
                     /\ Complete(p, <<t, k + 1>>)
  BY NewVersionIs
<1>3. /\ t \in 1 .. Len(scenarios) /\ k \in Nat /\ k # 0
      /\ scenarios[t].overlays \in Seq(SUBSET Resources)
  BY <1>1, NewVersionIs, StoredIs, EmptySeq
<1>4. t \in Nat /\ k + 1 \in Nat
  <2>1. k \in Nat /\ Len(scenarios) \in Nat
    BY <1>3, StoredIs
  <2> HIDE DEF k
  <2>2. QED
    BY <1>3, <2>1
<1>5. Len(scenarios') = Len(scenarios)
  BY <1>2, StoredIs, LenProperties DEF D!TypeOK
<1>6. \A s \in 1 .. Len(scenarios) :
         Len(scenarios'[s].overlays) = IF s = t THEN k + 1 ELSE Len(scenarios[s].overlays)
  <2> DEFINE new == Append(scenarios[t].overlays, overlay)
             changed == [scenarios[t] EXCEPT !.overlays = new]
  <2>1. Len(new) = k + 1
    <3> DEFINE old == scenarios[t].overlays
    <3>1. old \in Seq(SUBSET Resources) /\ overlay \in SUBSET Resources
      BY <1>2, <1>3
    <3> HIDE DEF old
    <3>2. Len(Append(old, overlay)) = Len(old) + 1
      BY <3>1, AppendProperties
    <3>3. QED
      BY <3>2 DEF old
  <2>2. scenarios[t] \in D!Scenario
    BY <1>3, StoredIs
  <2> HIDE DEF new
  <2>3. changed.overlays = new
    BY <2>2 DEF D!Scenario
  <2> HIDE DEF changed
  <2>4. scenarios' = [scenarios EXCEPT ![t] = changed]
    BY <1>2 DEF changed, new
  <2>5. \A s \in 1 .. Len(scenarios) : scenarios'[s] = IF s = t THEN changed ELSE scenarios[s]
    BY <2>4, StoredIs, LenProperties DEF D!TypeOK
  <2>6. QED
    BY <2>1, <2>3, <2>5
<1>7. Creations' = Creations /\ Generations' = Generations /\ Decisions' = Decisions
  BY <1>2, <1>5 DEF Creations, Generations, Decisions
<1>8. \A y : y \in Versions <=>
         \E s \in 1 .. Len(scenarios) : \E v \in 2 .. Len(scenarios[s].overlays) :
            y = <<"version", <<s>>, <<s, v>>>>
  BY DEF Versions
<1>9. \A y : y \in Versions' <=>
         \E s \in 1 .. Len(scenarios') : \E v \in 2 .. Len(scenarios'[s].overlays) :
            y = <<"version", <<s>>, <<s, v>>>>
  BY DEF Versions
<1>10. 2 .. k + 1 = (2 .. k) \cup {k + 1} /\ k + 1 \notin 2 .. k
  <2>1. k \in Nat /\ k # 0
    BY <1>3
  <2> HIDE DEF k
  <2>2. QED
    BY <2>1
<1>11. \A y : y \in Versions' <=> y \in Versions \/ y = x
  <2>1. ASSUME NEW y, NEW s \in 1 .. Len(scenarios)
        PROVE  (\E v \in 2 .. Len(scenarios'[s].overlays) : y = <<"version", <<s>>, <<s, v>>>>)
               <=> \/ \E v \in 2 .. Len(scenarios[s].overlays) : y = <<"version", <<s>>, <<s, v>>>>
                   \/ s = t /\ y = x
    <3>1. CASE s = t
      <4>1. 2 .. Len(scenarios'[s].overlays) = (2 .. Len(scenarios[s].overlays)) \cup {k + 1}
        BY <1>6, <1>10, <3>1
      <4>2. QED
        BY <3>1, <4>1
    <3>2. CASE s # t
      <4>1. 2 .. Len(scenarios'[s].overlays) = 2 .. Len(scenarios[s].overlays)
        BY <1>6, <3>2
      <4>2. QED
        BY <3>2, <4>1
    <3>3. QED
      BY <3>1, <3>2
  <2> HIDE DEF x, t
  <2> SUFFICES ASSUME NEW y PROVE y \in Versions' <=> y \in Versions \/ y = x
    OBVIOUS
  <2> DEFINE New(s) == \E v \in 2 .. Len(scenarios'[s].overlays) : y = <<"version", <<s>>, <<s, v>>>>
             Old(s) == \E v \in 2 .. Len(scenarios[s].overlays) : y = <<"version", <<s>>, <<s, v>>>>
  <2>2. y \in Versions' <=> \E s \in 1 .. Len(scenarios) : New(s)
    BY <1>5, <1>9
  <2>3. y \in Versions <=> \E s \in 1 .. Len(scenarios) : Old(s)
    BY <1>8
  <2>4. \A s \in 1 .. Len(scenarios) : New(s) <=> Old(s) \/ (s = t /\ y = x)
    BY <2>1
  <2> HIDE DEF New, Old
  <2>5. t \in 1 .. Len(scenarios)
    BY <1>3
  <2>6. QED
    BY <2>2, <2>3, <2>4, <2>5
<1>12. x \notin Versions
  <2>1. \A v : x = <<"version", <<t>>, <<t, v>>>> => v = k + 1
    OBVIOUS
  <2>2. \A s, v : x = <<"version", <<s>>, <<s, v>>>> => s = t
    OBVIOUS
  <2>3. \A s \in 1 .. Len(scenarios) : \A v \in 2 .. Len(scenarios[s].overlays) :
           x # <<"version", <<s>>, <<s, v>>>>
    <3> SUFFICES ASSUME NEW s \in 1 .. Len(scenarios), NEW v \in 2 .. Len(scenarios[s].overlays),
                        x = <<"version", <<s>>, <<s, v>>>>
                 PROVE  FALSE
      OBVIOUS
    <3>1. s = t
      BY <2>2
    <3>2. v = k + 1 /\ v \in 2 .. k
      BY <2>1, <3>1
    <3>3. QED
      BY <1>10, <3>2
  <2>4. QED
    BY <1>8, <2>3
<1>13. x[1] = "version"
  OBVIOUS
<1>14. q.target = <<t>> /\ \A claim \in claims : ~SameKey(claim.request, q)
  BY <1>1, ReadyIs, RequestsAre
<1>15. x = <<q.kind, q.target, <<t, k + 1>>>>
  BY <1>1, <1>14
<1>16. <<t, k + 1>> \in Seq(Nat)
  <2> HIDE DEF t, k
  <2>1. QED
    BY <1>4
<1>17. /\ Answered'
       /\ claims' = claims \cup {[request |-> q, response |-> <<t, k + 1>>]}
  BY <1>1, <1>2, <1>16, CompleteAnswers
<1> HIDE DEF x
<1>18. Versions' = Versions \cup {x}
  BY <1>11
<1>19. Results' = Results \cup {x} /\ x \notin Results
  <2>1. Results' = (Creations \cup Versions \cup Generations \cup Decisions)'
    BY DEF Results, Creations, Versions, Generations, Decisions
  <2>2. Results' = Results \cup {x}
    BY <1>7, <1>18, <2>1, ResultsAre
  <2>3. x \notin Results
    BY <1>12, <1>13, ResultsAre
  <2>4. QED
    BY <2>2, <2>3
<1>20. QED
  BY <1>14, <1>15, <1>17, <1>19, OneMore

\* A recommendation is stored for one claim.
LEMMA GeneratedOnce ==
    ASSUME Inv, OneToOne, Answered, NEW p \in Parties, RecommendIn(p)
    PROVE  OneToOne' /\ Answered'
<1> DEFINE q == tasks[p].request
           s == q.target[1]
           v == q.target[2]
           m == Len(recommendations)
           x == <<"generate", <<s, v>>, <<m + 1>>>>
<1>1. tasks[p].stage = "ready" /\ q.kind = "generate"
  BY DEF RecommendIn, Ready
<1>2. PICK plan : StoreRecommendation(p, plan)
  BY DEF RecommendIn
<1> DEFINE new == [ scenario |-> s, version |-> v, snapshot |-> scenarios[s].pinned,
                    release |-> release, solved |-> plan.solved, proposed |-> plan.proposed ]
<1>3. /\ recommendations' = Append(recommendations, new)
      /\ UNCHANGED <<scenarios, decisions>> /\ Complete(p, <<m + 1>>)
  BY <1>2 DEF StoreRecommendation
<1>4. new.scenario = s /\ new.version = v
  OBVIOUS
<1> HIDE DEF new
<1>5. m \in Nat
  BY StoredIs
<1>6. /\ Len(recommendations') = m + 1
      /\ \A i \in 1 .. m : recommendations'[i] = recommendations[i]
      /\ recommendations'[m + 1] = new
  BY <1>3, AppendProperties, StoredIs DEF D!TypeOK
<1>7. Generations = {<<"generate", <<recommendations[i].scenario, recommendations[i].version>>,
                       <<i>>>> : i \in 1 .. m}
  BY DEF Generations
<1> HIDE DEF m
<1>8. 1 .. m + 1 = (1 .. m) \cup {m + 1} /\ m + 1 \notin 1 .. m
  BY <1>5
<1>9. Generations' = Generations \cup {x}
  <2>1. Generations' = {<<"generate", <<recommendations'[i].scenario,
                                        recommendations'[i].version>>, <<i>>>> :
                           i \in (1 .. m) \cup {m + 1}}
    BY <1>6, <1>8 DEF Generations
  <2>2. QED
    BY <1>4, <1>6, <1>7, <2>1
<1>10. x \notin Generations
  BY <1>7, <1>8
<1>11. Creations' = Creations /\ Versions' = Versions /\ Decisions' = Decisions
  BY <1>3 DEF Creations, Versions, Decisions
<1>12. x[1] = "generate"
  OBVIOUS
<1>13. q.target = <<s, v>> /\ \A claim \in claims : ~SameKey(claim.request, q)
  BY <1>1, ReadyIs, RequestsAre
<1>14. x = <<q.kind, q.target, <<m + 1>>>>
  BY <1>1, <1>13
<1>15. <<m + 1>> \in Seq(Nat)
  BY <1>5
<1>16. /\ Answered'
       /\ claims' = claims \cup {[request |-> q, response |-> <<m + 1>>]}
  BY <1>1, <1>3, <1>15, CompleteAnswers
<1> HIDE DEF x
<1>17. Results' = Results \cup {x} /\ x \notin Results
  <2>1. Results' = (Creations \cup Versions \cup Generations \cup Decisions)'
    BY DEF Results, Creations, Versions, Generations, Decisions
  <2>2. Results' = Results \cup {x}
    BY <1>9, <1>11, <2>1, ResultsAre
  <2>3. x \notin Results
    BY <1>10, <1>12, ResultsAre
  <2>4. QED
    BY <2>2, <2>3
<1>18. QED
  BY <1>13, <1>14, <1>16, <1>17, OneMore

\* A decision is stored for one claim.
LEMMA DecidedOnce ==
    ASSUME Inv, OneToOne, Answered, NEW p \in Parties, StoreDecision(p)
    PROVE  OneToOne' /\ Answered'
<1> DEFINE q == tasks[p].request
           i == q.target[1]
           m == Len(decisions)
           x == <<"decide", <<i>>, <<m + 1>>>>
           new == [recommendation |-> i, action |-> q.action, assigned |-> Assigned(q)]
<1>1. /\ tasks[p].stage = "ready" /\ q.kind = "decide"
      /\ decisions' = Append(decisions, new)
      /\ UNCHANGED <<scenarios, recommendations>> /\ Complete(p, <<m + 1>>)
  BY DEF StoreDecision, Ready
<1>2. new.recommendation = i
  OBVIOUS
<1> HIDE DEF new
<1>3. m \in Nat
  BY StoredIs
<1>4. /\ Len(decisions') = m + 1
      /\ \A d \in 1 .. m : decisions'[d] = decisions[d]
      /\ decisions'[m + 1] = new
  BY <1>1, AppendProperties, StoredIs DEF D!TypeOK
<1>5. Decisions = {<<"decide", <<decisions[d].recommendation>>, <<d>>>> : d \in 1 .. m}
  BY DEF Decisions
<1> HIDE DEF m
<1>6. 1 .. m + 1 = (1 .. m) \cup {m + 1} /\ m + 1 \notin 1 .. m
  BY <1>3
<1>7. Decisions' = Decisions \cup {x}
  <2>1. Decisions' = {<<"decide", <<decisions'[d].recommendation>>, <<d>>>> :
                         d \in (1 .. m) \cup {m + 1}}
    BY <1>4, <1>6 DEF Decisions
  <2>2. QED
    BY <1>2, <1>4, <1>5, <2>1
<1>8. x \notin Decisions
  BY <1>5, <1>6
<1>9. Creations' = Creations /\ Versions' = Versions /\ Generations' = Generations
  BY <1>1 DEF Creations, Versions, Generations
<1>10. x[1] = "decide"
  OBVIOUS
<1>11. q.target = <<i>> /\ \A claim \in claims : ~SameKey(claim.request, q)
  BY <1>1, ReadyIs, RequestsAre
<1>12. x = <<q.kind, q.target, <<m + 1>>>>
  BY <1>1, <1>11
<1>13. <<m + 1>> \in Seq(Nat)
  BY <1>3
<1>14. /\ Answered'
       /\ claims' = claims \cup {[request |-> q, response |-> <<m + 1>>]}
  BY <1>1, <1>13, CompleteAnswers
<1> HIDE DEF x
<1>15. Results' = Results \cup {x} /\ x \notin Results
  <2>1. Results' = (Creations \cup Versions \cup Generations \cup Decisions)'
    BY DEF Results, Creations, Versions, Generations, Decisions
  <2>2. Results' = Results \cup {x}
    BY <1>7, <1>9, <2>1, ResultsAre
  <2>3. x \notin Results
    BY <1>8, <1>10, ResultsAre
  <2>4. QED
    BY <2>2, <2>3
<1>16. QED
  BY <1>11, <1>12, <1>14, <1>15, OneMore

\* A task that is told a stored response is told that of its own request.
LEMMA ReplayAnswers ==
    ASSUME Inv, Answered, NEW p \in Parties, Replay(p)
    PROVE  Answered'
<1> DEFINE q == tasks[p].request
<1>1. PICK claim \in claims :
         /\ SameKey(claim.request, q)
         /\ IF SameRequest(claim.request, q)
            THEN Answer(p, "ok", claim.response)
            ELSE Answer(p, "idempotency_conflict", <<>>)
  BY DEF Replay
<1>2. /\ claim \in Claim /\ claim.request \in Request /\ claim.response \in Seq(Nat)
      /\ q \in Request /\ <<>> \in Seq(Nat)
      /\ "ok" \in Codes /\ "idempotency_conflict" \in Codes
      /\ claims' = claims /\ tasks[p].stage # "idle"
  BY TaskIs DEF Inv, Claim, Replay, stored, Codes
<1>3. CASE SameRequest(claim.request, q)
  <2>1. claim.request = q
    <3>1. /\ claim.request.kind = q.kind /\ claim.request.target = q.target
          /\ claim.request.key = q.key /\ claim.request.action = q.action
          /\ claim.request.units = q.units
      BY <1>1, <1>3 DEF SameKey, SameRequest
    <3>2. \A a, b \in Request :
             /\ a.kind = b.kind /\ a.target = b.target /\ a.key = b.key
             /\ a.action = b.action /\ a.units = b.units
             => a = b
      BY DEF Request
    <3>3. QED
      BY <1>2, <3>1, <3>2
  <2>2. claim = [request |-> q, response |-> claim.response]
    BY <1>2, <2>1 DEF Claim
  <2>3. PICK t : /\ tasks' = [tasks EXCEPT ![p] = t]
                 /\ t.request = q /\ t.response = claim.response
    BY <1>1, <1>2, <1>3, AnswerFits
  <2>4. QED
    BY <1>2, <2>2, <2>3, AnsweredKept
<1>4. CASE ~SameRequest(claim.request, q)
  <2>1. PICK response \in Seq(Nat) : Answer(p, "idempotency_conflict", response)
    BY <1>1, <1>2, <1>4
  <2>2. PICK t : tasks' = [tasks EXCEPT ![p] = t] /\ t.code = "idempotency_conflict"
    BY <1>2, <2>1, AnswerFits
  <2>3. QED
    BY <1>2, <2>2, AnsweredKept
<1>5. QED
  BY <1>3, <1>4

\* Steps that claim nothing report no success that was not claimed.
LEMMA OtherAnswers ==
    ASSUME Inv, Answered, NEW p \in Parties, UNCHANGED claims,
           \/ \E q : Begin(p, q)
           \/ Finish(p) \/ Drop(p) \/ ReuseSnapshot(p) \/ StoreSnapshot(p)
           \/ Acquire(p) \/ Refuse(p) \/ Pass(p)
    PROVE  Answered'
<1>1. tasks[p] \in Task
  BY TaskIs
<1>2. CASE Finish(p) \/ Drop(p) \/ ReuseSnapshot(p) \/ StoreSnapshot(p)
  <2>1. tasks' = [tasks EXCEPT ![p] = Idle] /\ Idle.code = "none"
    BY <1>2 DEF Finish, Drop, ReuseSnapshot, StoreSnapshot, Idle
  <2>2. QED
    BY <2>1, AnsweredKept
<1>3. CASE \E q : Begin(p, q)
  <2>1. PICK q : Begin(p, q)
    BY <1>3
  <2> DEFINE t == [Idle EXCEPT !.stage = "acquiring", !.request = q]
  <2>2. tasks' = [tasks EXCEPT ![p] = t] /\ t.code = "none"
    BY <2>1 DEF Begin, Idle
  <2> HIDE DEF t
  <2>3. QED
    BY <2>2, AnsweredKept
<1>4. CASE Acquire(p)
  <2> DEFINE t == [tasks[p] EXCEPT !.stage = "looking", !.held = tasks[p].held + 1]
  <2>1. tasks' = [tasks EXCEPT ![p] = t]
    BY <1>4 DEF Acquire
  <2>2. t.code = tasks[p].code /\ t.request = tasks[p].request /\ t.response = tasks[p].response
    BY <1>1 DEF Task
  <2> HIDE DEF t
  <2>3. \A r \in Calls : tasks'[r].code = tasks[r].code /\ tasks'[r].request = tasks[r].request
                         /\ tasks'[r].response = tasks[r].response
    BY <2>1, <2>2 DEF Inv, Parties
  <2>4. QED
    BY <2>3 DEF Answered
<1>5. CASE Pass(p)
  <2>1. PICK stage, loaded :
           tasks' = [tasks EXCEPT ![p].stage = stage, ![p].loaded = loaded]
    BY <1>5 DEF Pass
  <2> DEFINE t == [tasks[p] EXCEPT !.stage = stage, !.loaded = loaded]
  <2>2. tasks' = [tasks EXCEPT ![p] = t]
    BY <2>1
  <2>3. t.code = tasks[p].code /\ t.request = tasks[p].request /\ t.response = tasks[p].response
    BY <1>1 DEF Task
  <2> HIDE DEF t
  <2>4. \A r \in Calls : tasks'[r].code = tasks[r].code /\ tasks'[r].request = tasks[r].request
                         /\ tasks'[r].response = tasks[r].response
    BY <2>2, <2>3 DEF Inv, Parties
  <2>5. QED
    BY <2>4 DEF Answered
<1>6. CASE Refuse(p)
  <2>1. PICK code \in {Refusal(tasks[p].request, tasks[p].held)}
                         \cup DataRefusals(tasks[p].request, tasks[p].held) :
           Answer(p, code, <<>>)
    BY <1>6 DEF Refuse
  <2>2. code \in Codes /\ code # "ok"
    BY DEF Codes, Refusal, DataRefusals, ScenarioRefusal, VersionRefusal,
           RecommendationRefusal, DecisionRefusal
  <2>3. tasks[p].stage # "idle" /\ <<>> \in Seq(Nat)
    BY <1>6 DEF Refuse
  <2>4. PICK response \in Seq(Nat) : Answer(p, code, response)
    BY <2>1, <2>3
  <2>5. PICK t : tasks' = [tasks EXCEPT ![p] = t] /\ t.code = code
    BY <2>2, <2>3, <2>4, AnswerFits
  <2>6. QED
    BY <2>2, <2>5, AnsweredKept
<1>7. QED
  BY <1>2, <1>3, <1>4, <1>5, <1>6

\* Every step keeps claims and their rows one to one, and answers true.
LEMMA ExactStep ==
    ASSUME Inv, OneToOne, Answered, [Next]_vars
    PROVE  OneToOne' /\ Answered'
<1>1. UNCHANGED <<scenarios, recommendations, decisions, claims>> => OneToOne'
  BY DEF OneToOne, Results
<1>2. CASE Redeploy
  <2>1. /\ UNCHANGED <<scenarios, recommendations, decisions, claims>>
        /\ \A r \in Calls : tasks'[r] = Idle
    BY <1>2 DEF Redeploy, stored, Parties
  <2>2. Idle.code = "none"
    BY DEF Idle
  <2>3. QED
    BY <1>1, <2>1, <2>2 DEF Answered
<1>3. CASE UNCHANGED vars
  BY <1>1, <1>3 DEF vars, stored, Answered
<1>4. ASSUME NEW p \in Parties,
             \/ \E q : Begin(p, q)
             \/ Finish(p) \/ Drop(p) \/ ReuseSnapshot(p) \/ StoreSnapshot(p)
             \/ Acquire(p) \/ Refuse(p) \/ Pass(p)
      PROVE  OneToOne' /\ Answered'
  <2>1. UNCHANGED <<scenarios, recommendations, decisions, claims>>
    BY <1>4 DEF Begin, Finish, Drop, ReuseSnapshot, StoreSnapshot, Acquire, Refuse, Pass, stored
  <2>2. QED
    BY <1>1, <1>4, <2>1, OtherAnswers
<1>5. ASSUME NEW p \in Parties, Replay(p)
      PROVE  OneToOne' /\ Answered'
  <2>1. UNCHANGED <<scenarios, recommendations, decisions, claims>>
    BY <1>5 DEF Replay, stored
  <2>2. QED
    BY <1>1, <1>5, <2>1, ReplayAnswers
<1>6. ASSUME NEW p \in Parties,
             StoreScenario(p) \/ StoreVersion(p) \/ RecommendIn(p) \/ StoreDecision(p)
      PROVE  OneToOne' /\ Answered'
  BY <1>6, CreatedOnce, VersionedOnce, GeneratedOnce, DecidedOnce
<1>7. CASE \E r \in Calls, q \in Requests : Send(r, q)
  BY <1>4, <1>7 DEF Send, Parties
<1>8. CASE \E w \in Sources : Ingest(w)
  BY <1>4, <1>8 DEF Ingest, Parties
<1>9. CASE \E p \in Parties : Finish(p) \/ Drop(p) \/ Acquire(p) \/ Proceed(p)
  <2>1. PICK p \in Parties : Finish(p) \/ Drop(p) \/ Acquire(p) \/ Proceed(p)
    BY <1>9
  <2>2. QED
    BY <1>4, <1>5, <1>6, <2>1 DEF Proceed
<1>10. QED
  BY <1>2, <1>3, <1>7, <1>8, <1>9 DEF Next

\* However often, however concurrently and across whatever restarts a request is
\* sent under its key, it takes effect once, and whoever is told of a success is
\* told the result of that very request (the idempotency claim that the planning
\* services commit together with their result).
THEOREM KeysTakeEffectOnce == Spec => []ExactlyOnce
<1>1. Init => OneToOne /\ Answered
  <2> SUFFICES ASSUME Init PROVE OneToOne /\ Answered
    OBVIOUS
  <2>1. claims = {} /\ scenarios = <<>> /\ recommendations = <<>> /\ decisions = <<>>
    BY DEF Init, D!Init
  <2>2. Results = {}
    BY <2>1 DEF Results
  <2>3. \A r \in Calls : tasks[r].code = "none"
    BY DEF Init, Parties, Idle
  <2>4. QED
    BY <2>1, <2>2, <2>3 DEF OneToOne, Answered
<1>2. OneToOne /\ Answered => ExactlyOnce
  BY DEF OneToOne, Answered, ExactlyOnce
<1>3. QED
  BY <1>1, <1>2, ExactStep, InvHolds, PTL DEF Spec
================================================================================
