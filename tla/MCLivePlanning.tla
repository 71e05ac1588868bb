--------------------------- MODULE MCLivePlanning ---------------------------
(* An instance of LivePlanning: a depot, a town and a school on a ring with *)
(* parallel roads and a tie, once with several scenarios and decisions, once *)
(* with everything a version may ask.                                        *)
EXTENDS LivePlanning

Road(a, b, minutes) == [from |-> a, to |-> b, minutes |-> minutes]

\* Minutes in halves.  From 1 to 3 the way over 2 and the direct one tie.
RingRoads ==
    <<Road(1, 2, 5), Road(2, 3, 4), Road(1, 3, 9), Road(3, 2, 4), Road(1, 3, 12)>>

RingNodes == [n \in 1 .. 3 |-> 10 * n]

Unit(skills, capacity, available, at) ==
    [skills |-> skills, capacity |-> capacity, available |-> available, at |-> at]

Asset(id, kind, x, skill, need) ==
    [id |-> id, kind |-> kind, x |-> x, population |-> 20, skill |-> skill, need |-> need]

\* A third, larger engine is there, which the snapshots call unavailable.
Engines ==
    "e1" :> Unit({"engine"}, 1, TRUE, 10) @@ "e2" :> Unit({"engine", "bus"}, 1, TRUE, 19)
        @@ "e3" :> Unit({"engine"}, 2, FALSE, 30)

\* Risk comes from the wind alone: without it nothing is worth a trip.
Taken(confidence) ==
    [ units |-> Engines, place |-> 25, reference |-> 2,
      weather |-> {[id |-> 1, x |-> 24, at |-> 1, speed |-> 5, from |-> 90]},
      assets |-> {Asset("town", "community", 20, "bus", 1),
                  Asset("school", "school", 30, "engine", 2)},
      detections |-> {[at |-> 1, confidence |-> confidence]} ]

\* The second snapshot only has a surer detection.
TwoSnapshots == <<Taken(10), Taken(90)>>

Given(closed, winds, units) == [closed |-> closed, winds |-> winds, units |-> units]

Calm == [speed |-> 0, from |-> 0]

SomeOverlays ==
    { Given({1, 3}, Keep, Keep), Given({9}, Keep, Keep), Given({}, Keep, <<>>),
      Given(Keep, Keep, "e2" :> FALSE), Given(Keep, Keep, "e9" :> FALSE),
      Given(Keep, Keep, "e3" :> TRUE), Given(Keep, Keep, "e3" :> FALSE),
      Given(Keep, <<Calm>>, Keep), Given(Keep, <<Calm, Calm>>, Keep) }

-----------------------------------------------------------------------------
(* What a behaviour does of it.                                             *)

VARIABLE script

Racing == [ snapshots |-> 2, scenarios |-> 2, versions |-> 2, decisions |-> 2,
            limits |-> {5}, statuses |-> {"OPTIMAL", "UNKNOWN"},
            closures |-> {{}}, units |-> {"e2"}, winds |-> {<<>>} ]

WhatIf == [ snapshots |-> 1, scenarios |-> 1, versions |-> 3, decisions |-> 0,
            limits |-> {3, 9}, statuses |-> Statuses,
            closures |-> {{}, {1, 3}}, units |-> {"e3"},
            winds |-> {<<>>, <<Calm>>, <<Calm, Calm>>} ]

WithinScript ==
    /\ snapshot <= script.snapshots
    /\ Len(scenarios) <= script.scenarios
    /\ Len(decisions) <= script.decisions
    /\ \A s \in DOMAIN scenarios :
          /\ Len(scenarios[s].versions) <= script.versions
          /\ \A v \in Range(scenarios[s].versions) :
                /\ v.closed \in script.closures
                /\ v.winds \in script.winds
                /\ DOMAIN v.units \subseteq script.units
    /\ \A r \in Range(recommendations) :
          r.limit \in script.limits /\ r.answer.status \in script.statuses

Scripted == UNCHANGED script /\ WithinScript'

PlanInit == LiveInit /\ script \in {Racing, WhatIf}

\* The disjuncts of Next, each as far as the script goes.
PlanNext ==
    \/ Refresh /\ Scripted
    \/ CreateScenario /\ Scripted
    \/ \E s \in DOMAIN scenarios :
          \/ \E overlay \in Overlays : AddVersion(s, overlay) /\ Scripted
          \/ \E limit \in Limits : Recommend(s, limit) /\ Scripted
    \/ \E i \in DOMAIN recommendations :
          \/ Decide(i, "approve") /\ Scripted
          \/ Decide(i, "edit") /\ Scripted
          \/ Decide(i, "reject") /\ Scripted

Plan == PlanInit /\ [][PlanNext]_<<liveVars, script>>
=============================================================================
