--------------------------- MODULE MCDispatchService ---------------------------
(***************************************************************************)
(* Small instances of DispatchService: what the clients may send.          *)
(***************************************************************************)
EXTENDS DispatchService, TLC

CONSTANTS
    engine, k1, k2, c1, c2, firms, nws, r1, r2,
    Scripts    \* what is asked for, polled and deployed, in each behaviour

Ask(kind, target, action, units, key) ==
    [kind |-> kind, target |-> target, action |-> action, units |-> units, key |-> key]

Create(key) == Ask("create", <<>>, "pin", {}, key)
Generate(s, v, key) == Ask("generate", <<s, v>>, "solve", {}, key)
Decide(i, action, units, key) == Ask("decide", <<i>>, action, units, key)

\* A scenario is created and edited while snapshots arrive: one key for two
\* overlays, a recommendation on an overtaken version.
PlanningRequests ==
    { Create(k1),
      Ask("version", <<1>>, "replace", {engine}, k1),
      Ask("version", <<1>>, "replace", {}, k1),
      Ask("version", <<1>>, "inherit", {}, k2),
      Generate(1, 1, k1) }

\* A recommendation is edited, while a new version, a new snapshot or another
\* release overtakes it.
StalenessRequests ==
    { Create(k1), Generate(1, 1, k1),
      Ask("version", <<1>>, "replace", {engine}, k1), Decide(1, "edit", {engine}, k2) }

\* A recommendation on an edited scenario is edited, with a unit its version
\* may have taken away; another version names an unknown resource.
OverlaidRequests ==
    { Create(k1), Ask("version", <<1>>, "replace", {engine}, k1), Generate(1, 2, k1),
      Ask("version", <<1>>, "replace", {UnknownResource}, k2),
      Decide(1, "approve", {}, k1), Decide(1, "edit", {engine}, k2) }

\* Two recommendations for one resource, decided at once in every way under
\* shared keys.
ConflictRequests ==
    { Create(k1), Generate(1, 1, k1), Generate(1, 1, k2),
      Decide(1, "approve", {}, k1), Decide(1, "reject", {}, k2),
      Decide(2, "edit", {engine}, k2) }

\* One call of each kind, contending for every lock there is.
ContendingRequests ==
    { Create(k1), Ask("version", <<1>>, "inherit", {}, k1),
      Generate(1, 1, k1), Decide(1, "approve", {}, k1) }

-----------------------------------------------------------------------------
(* A behaviour follows one script.                                         *)

VARIABLE script

\* Two loops are what could store one snapshot twice.
Loops ==
    [requests |-> {Create(k1), Generate(1, 1, k1)}, loops |-> {firms, nws},
     snapshots |-> 2, deployed |-> {r1}]
Planning ==
    [requests |-> PlanningRequests, loops |-> {firms}, snapshots |-> 2, deployed |-> {r1}]
Staleness ==
    [requests |-> StalenessRequests, loops |-> {firms}, snapshots |-> 2, deployed |-> {r1, r2}]
Overlaid ==
    [requests |-> OverlaidRequests, loops |-> {firms}, snapshots |-> 1, deployed |-> {r1}]
Conflict ==
    [requests |-> ConflictRequests, loops |-> {firms}, snapshots |-> 1, deployed |-> {r1}]
Contending ==
    [requests |-> ContendingRequests, loops |-> {firms}, snapshots |-> 1, deployed |-> {r1}]

AllRequests ==
    UNION {s.requests : s \in {Loops, Planning, Staleness, Overlaid, Conflict, Contending}}

RacingScripts == {Loops, Planning, Staleness, Overlaid, Conflict}
ContendingScripts == {Contending}

Scripted ==
    /\ UNCHANGED script
    /\ release' \in script.deployed /\ snapshot' <= script.snapshots
    /\ \A c \in Calls : tasks'[c].stage # "idle" => tasks'[c].request \in script.requests
    /\ \A w \in Sources : tasks'[w].stage # "idle" => w \in script.loops

FollowInit == Init /\ script \in Scripts

\* The disjuncts of Next, each as far as the script goes.
FollowNext ==
    \/ Redeploy /\ Scripted
    \/ \E r \in Calls, q \in Requests : Send(r, q) /\ Scripted
    \/ \E w \in Sources : Ingest(w) /\ Scripted
    \/ \E p \in Parties :
          \/ Finish(p) /\ Scripted
          \/ Drop(p) /\ Scripted
          \/ Acquire(p) /\ Scripted
          \/ Replay(p) /\ Scripted
          \/ Refuse(p) /\ Scripted
          \/ Pass(p) /\ Scripted
          \/ StoreScenario(p) /\ Scripted
          \/ StoreVersion(p) /\ Scripted
          \/ RecommendIn(p) /\ Scripted
          \/ StoreDecision(p) /\ Scripted
          \/ StoreSnapshot(p) /\ Scripted
          \/ ReuseSnapshot(p) /\ Scripted

Follow == FollowInit /\ [][FollowNext]_<<vars, script>> /\ Fairness

Symmetry == Permutations({c1, c2})
================================================================================
