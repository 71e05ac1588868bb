------------------------------- MODULE Dispatch -------------------------------
(***************************************************************************)
(* What live planning promises for one incident: scenarios pin the current *)
(* snapshot, recommendations are computed from current inputs, and a       *)
(* resource is sent out only by a decision on a recommendation that is     *)
(* still current at the moment the decision takes effect.  Every operation *)
(* is one step here; DispatchService implements them with transactions and *)
(* row locks.                                                              *)
(*                                                                         *)
(* Abstracted data: a snapshot, a deployed release (graph, risk and        *)
(* allocation versions) and a scenario version are numbers, and the digest *)
(* that identifies a recommendation's inputs is the triple of them; a      *)
(* scenario version keeps the resources it makes unavailable, all others   *)
(* being available in the snapshot; an assignment is its resource.         *)
(*                                                                         *)
(* An operator marked "Faulty" is a deliberately broken variant of the     *)
(* definition that follows it, kept to show that the properties notice.    *)
(***************************************************************************)
EXTENDS Integers, Sequences

CONSTANTS
    Resources,        \* the resource units of the snapshot
    Releases,         \* versions of the planning code an operator can deploy
    FirstRelease,     \* the one deployed at the start
    MaxSnapshot,      \* bound: snapshots taken
    MaxScenarios,     \* bound: scenarios created
    MaxVersions,      \* bound: versions of a scenario
    MaxRecommendations \* bound: recommendations stored

VARIABLES
    snapshot,         \* version of the incident's latest snapshot, 0 for none
    release,          \* the release the API runs
    scenarios,        \* scenarios, each with the versions it went through
    recommendations,  \* stored recommendations
    decisions         \* terminal decisions, with the assignments they activate

vars == <<snapshot, release, scenarios, recommendations, decisions>>

\* overlays[v] holds the resources that version v makes unavailable; a scenario
\* has its first version from its creation.
Scenario == [pinned : Nat, overlays : Seq(SUBSET Resources) \ {<<>>}]

Recommendation ==
    [ scenario : Nat, version : Nat, snapshot : Nat, release : Releases,
      solved : BOOLEAN, proposed : SUBSET Resources ]

Actions == {"approve", "edit", "reject"}

Decision == [recommendation : Nat, action : Actions, assigned : SUBSET Resources]

TypeOK ==
    /\ snapshot \in Nat
    /\ release \in Releases
    /\ scenarios \in Seq(Scenario)
    /\ recommendations \in Seq(Recommendation)
    /\ decisions \in Seq(Decision)

Init ==
    /\ snapshot = 0
    /\ release = FirstRelease
    /\ scenarios = <<>>
    /\ recommendations = <<>>
    /\ decisions = <<>>

-----------------------------------------------------------------------------
(* What the handlers look at.                                              *)

\* The version is its scenario's latest and its snapshot the incident's latest.
CurrentVersion(s, v) ==
    /\ v = Len(scenarios[s].overlays)
    /\ scenarios[s].pinned = snapshot

\* Faulty: only the deployed release counts, not the inputs.
CurrentRelease(rec) == rec.release = release

\* The inputs a recommendation was computed from are the current ones.
Current(rec) ==
    /\ CurrentVersion(rec.scenario, rec.version)
    /\ rec.snapshot = snapshot
    /\ rec.release = release

Decided(i) == \E d \in 1 .. Len(decisions) : decisions[d].recommendation = i

\* Faulty: the assignments of an edited recommendation are not looked at.
DispatchedUnedited ==
    UNION {decisions[d].assigned :
              d \in {e \in 1 .. Len(decisions) : decisions[e].action # "edit"}}

\* Resources with an active assignment: nothing ever ends one.
Dispatched == UNION {decisions[d].assigned : d \in 1 .. Len(decisions)}

Available(s, v) == Resources \ scenarios[s].overlays[v]

\* What the solver may answer: no feasible plan in time, or some of the
\* available resources.
Proposals(s, v) ==
    [solved : {FALSE}, proposed : {{}}] \cup
    [solved : {TRUE}, proposed : SUBSET Available(s, v)]

\* The assignments a decision may activate.  An edit may pick any candidate
\* pairs that pass the checks of the handler.
Assignable(rec, action) ==
    CASE action = "reject"  -> {{}}
      [] action = "approve" -> {rec.proposed}
      [] action = "edit"    -> (SUBSET Available(rec.scenario, rec.version)) \ {{}}

-----------------------------------------------------------------------------

\* Ingestion commits a snapshot that differs from the last one.
Refresh ==
    /\ snapshot < MaxSnapshot
    /\ snapshot' = snapshot + 1
    /\ UNCHANGED <<release, scenarios, recommendations, decisions>>

\* The API restarts with another release of the planning code.
Redeploy ==
    /\ release' \in Releases
    /\ UNCHANGED <<snapshot, scenarios, recommendations, decisions>>

CreateScenario ==
    /\ snapshot > 0
    /\ Len(scenarios) < MaxScenarios
    /\ scenarios' = Append(scenarios, [pinned |-> snapshot, overlays |-> <<{}>>])
    /\ UNCHANGED <<snapshot, release, recommendations, decisions>>

\* A new version keeps the pinned snapshot; its overlay replaces the last one or
\* repeats it.
AddVersion(s, overlay) ==
    /\ Len(scenarios[s].overlays) < MaxVersions
    /\ scenarios' = [scenarios EXCEPT ![s].overlays = Append(@, overlay)]
    /\ UNCHANGED <<snapshot, release, recommendations, decisions>>

Recommend(s, v, plan) ==
    /\ Len(recommendations) < MaxRecommendations
    /\ CurrentVersion(s, v)
    /\ recommendations' = Append(recommendations,
          [ scenario |-> s, version |-> v, snapshot |-> scenarios[s].pinned,
            release |-> release, solved |-> plan.solved, proposed |-> plan.proposed ])
    /\ UNCHANGED <<snapshot, release, scenarios, decisions>>

Decide(i, action, assigned) ==
    /\ ~Decided(i)
    /\ action # "reject" => Current(recommendations[i]) /\ recommendations[i].solved
    /\ assigned \cap Dispatched = {}
    /\ decisions' = Append(decisions,
          [recommendation |-> i, action |-> action, assigned |-> assigned])
    /\ UNCHANGED <<snapshot, release, scenarios, recommendations>>

Next ==
    \/ Refresh
    \/ Redeploy
    \/ CreateScenario
    \/ \E s \in 1 .. Len(scenarios) :
          \/ \E overlay \in SUBSET Resources : AddVersion(s, overlay)
          \/ \E v \in 1 .. Len(scenarios[s].overlays) :
                \E plan \in Proposals(s, v) : Recommend(s, v, plan)
    \/ \E i \in 1 .. Len(recommendations), action \in Actions :
          \E assigned \in Assignable(recommendations[i], action) :
             Decide(i, action, assigned)

Spec == Init /\ [][Next]_vars

-----------------------------------------------------------------------------
(* Safety.                                                                 *)

\* No two decisions send out the same resource, whichever scenarios their
\* recommendations come from.
NoDoubleDispatch ==
    \A d, e \in 1 .. Len(decisions) :
        d # e => decisions[d].assigned \cap decisions[e].assigned = {}

\* A resource is proposed and sent out only if the scenario version planned with
\* it; a recommendation always names a version and the snapshot that version pins.
DispatchWithinPlan ==
    /\ \A i \in 1 .. Len(recommendations) :
          LET rec == recommendations[i] IN
          /\ rec.scenario \in 1 .. Len(scenarios)
          /\ rec.version \in 1 .. Len(scenarios[rec.scenario].overlays)
          /\ rec.snapshot = scenarios[rec.scenario].pinned
          /\ rec.snapshot <= snapshot
          /\ rec.proposed \cap scenarios[rec.scenario].overlays[rec.version] = {}
          /\ rec.proposed # {} => rec.solved
    /\ \A d \in 1 .. Len(decisions) :
          LET rec == recommendations[decisions[d].recommendation] IN
          /\ decisions[d].recommendation \in 1 .. Len(recommendations)
          /\ decisions[d].assigned \cap scenarios[rec.scenario].overlays[rec.version] = {}
          /\ decisions[d].assigned # {} => rec.solved

(* Action properties.                                                      *)

\* A recommendation that a newer snapshot or a newer version of its scenario
\* has overtaken never sends out anything again, whatever is deployed,
\* retried or edited later.
SupersededIsFinal ==
    [][\A i \in 1 .. Len(recommendations) :
          LET rec == recommendations[i] IN
          ~CurrentVersion(rec.scenario, rec.version) =>
             /\ ~CurrentVersion(rec.scenario, rec.version)'
             /\ \A d \in 1 .. Len(decisions') :
                   decisions'[d].recommendation = i /\ decisions'[d].assigned # {}
                      => d \in 1 .. Len(decisions)]_vars
===============================================================================
