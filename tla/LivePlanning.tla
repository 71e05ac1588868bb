----------------------------- MODULE LivePlanning -----------------------------
(***************************************************************************)
(* Live planning with its data: what a scenario version overlays on its    *)
(* pinned snapshot, the risk and the routes under it, the allocation       *)
(* solved from them and its reasons, and the decision that sends units.    *)
(* Each operation is one step that sees committed data, as DispatchService *)
(* shows; seen through the units alone, it implements Dispatch.            *)
(*                                                                         *)
(* The allocation is the task solver's with a travel weight of one, one    *)
(* deadline for all, the same penalty for each, and no locks.              *)
(*                                                                         *)
(* Abstracted data: the checks that pinned observations are still as they  *)
(* were (rows are never changed), and scores and penalties in whole        *)
(* points.  One release runs; Dispatch exchanges them.                     *)
(*                                                                         *)
(* An operator marked "Faulty" is a deliberately broken variant of the     *)
(* definition that follows it, kept to show that the properties notice.    *)
(***************************************************************************)
EXTENDS RoadRouting, RiskScore, TaskExplanations

CONSTANTS
    Snapshots,   \* the incident's snapshots, in order
    Overlays,    \* bound: what requests for a version ask
    Keep,        \* a part of an overlay that is not given
    Limits,      \* bound: response limits asked for, in minutes
    Statuses,    \* bound: how the solver comes back
    MaxScenarios, MaxVersions, MaxRecommendations, MaxDecisions

\* What the readers of a snapshot accept; anything else fails the request.
IsSnapshot(p) ==
    /\ {p.place, p.reference} \subseteq Int
    /\ \A part \in {DOMAIN p.units, p.weather, p.assets, p.detections} : IsFiniteSet(part)
    /\ \A r \in DOMAIN p.units :
          /\ {"skills", "capacity", "available", "at"} \subseteq DOMAIN p.units[r]
          /\ p.units[r].capacity \in Nat \ {0}
          /\ p.units[r].available \in BOOLEAN
          /\ p.units[r].at \in Int
    /\ p.weather \subseteq [id : Nat, x : Int, at : Int, speed : Nat, from : 0 .. 359]
    /\ \A a \in p.assets :
          /\ a.x \in Int
          /\ a.need \in Nat \ {0}
          /\ a.kind = "community" => a.population \in Nat
    /\ p.detections \subseteq [at : Int, confidence : 0 .. 100]

\* What a request for a version may ask.
IsOverlay(o) ==
    /\ o.winds = Keep \/ o.winds \in Seq([speed : Nat, from : 0 .. 359])
    /\ o.units = Keep \/ \A r \in DOMAIN o.units : o.units[r] \in BOOLEAN

ASSUME LiveAssumption ==
    /\ Snapshots \in Seq(Range(Snapshots)) \ {<<>>}
    /\ \A pinned \in Range(Snapshots) : IsSnapshot(pinned)
    /\ \A overlay \in Overlays : IsOverlay(overlay)
    /\ Limits \subseteq Nat
    /\ Nodes # {}
    /\ {MaxScenarios, MaxVersions, MaxRecommendations, MaxDecisions} \subseteq Nat

VARIABLES
    snapshot,         \* how many snapshots there are
    scenarios,        \* scenarios: the snapshot they pin, their versions
    recommendations,  \* stored recommendations
    decisions,        \* decisions with the assignments they activate
    cache             \* the process's routes: key -> answer

liveVars == <<snapshot, scenarios, recommendations, decisions, cache>>

NoOverlay == [closed |-> {}, winds |-> <<>>, units |-> <<>>]

Pinned(s) == Snapshots[scenarios[s].pinned]

-----------------------------------------------------------------------------
(* Versions.                                                               *)

\* A part that is given replaces the last one whole.
Effective(last, overlay) ==
    [part \in DOMAIN last |-> IF overlay[part] = Keep THEN last[part] ELSE overlay[part]]

Known(s, version) ==
    /\ version.closed \subseteq Edges
    /\ DOMAIN version.units \subseteq DOMAIN Pinned(s).units

-----------------------------------------------------------------------------
(* The allocation problem of a version.                                    *)

\* Faulty: a unit the overlay names is there, whatever it says of it.
UnitsNamed(s, version) ==
    [r \in DOMAIN Pinned(s).units |->
        [Pinned(s).units[r] EXCEPT !.available = @ \/ r \in DOMAIN version.units]]

Units(s, version) ==
    [r \in DOMAIN Pinned(s).units |->
        [Pinned(s).units[r] EXCEPT
            !.available = IF r \in DOMAIN version.units THEN version.units[r] ELSE @]]

\* One weather input at most.  An override blows in place of the pinned wind and
\* needs one to replace; the risk needs a detection that is not of the future.
Plannable(s, version) ==
    /\ Cardinality(Pinned(s).weather) <= 1
    /\ Len(version.winds) <= Cardinality(Pinned(s).weather)
    /\ \E d \in Pinned(s).detections : d.at <= Pinned(s).reference

Weather(s, version) ==
    IF version.winds = <<>> THEN Pinned(s).weather
    ELSE {[w EXCEPT !.speed = version.winds[1].speed, !.from = version.winds[1].from] :
             w \in Pinned(s).weather}

Risk(s, version) ==
    LET p == Pinned(s)
        weather == SelectWeather(Weather(s, version), p.place, p.reference)
    IN  Score(RiskFactors(p.detections, weather, p.assets, p.place, p.reference))

\* Every search and every definition of a route, computed once.
Trips == Nodes \X Nodes \X SUBSET Edges

Searched == [k \in Trips |-> ShortestRoute(k[1], k[2], k[3])]

BestRoutes == [k \in Trips |-> Route(k[1], k[2], k[3])]

\* Faulty: the closures are left out of the key.
KeyWithoutClosures(a, b, closed) == <<a, b>>

\* The version of the graph (one per cache), both ends, digest of the closures.
Key(a, b, closed) == <<a, b, closed>>

RouteFor(a, b, closed) ==
    IF Key(a, b, closed) \in DOMAIN cache THEN cache[Key(a, b, closed)]
    ELSE Searched[<<a, b, closed>>]

Demands(s, version, limit) ==
    [t \in {a.id : a \in Pinned(s).assets} |->
        LET a == CHOOSE x \in Pinned(s).assets : x.id = t IN
        [ skill |-> a.skill, need |-> a.need, at |-> a.x, deadline |-> limit,
          penalty |-> 10 * Risk(s, version) ]]

Problem(s, version, limit) ==
    LET units == Units(s, version)
        demands == Demands(s, version, limit)
    IN  Prepared([ resources |-> units, tasks |-> demands, locks |-> {}, weight |-> 1,
                   routes |-> [p \in (DOMAIN units) \X (DOMAIN demands) |->
                       RouteFor(Nearest(units[p[1]].at), Nearest(demands[p[2]].at),
                                version.closed)] ])

\* The routes that _candidate_routes asks for stay in the cache.
Warmed(s, version) ==
    LET starts == {Nearest(u.at) : u \in Range(Pinned(s).units)}
        ends == {Nearest(a.x) : a \in Pinned(s).assets}
        keys == {Key(a, b, version.closed) : a \in starts, b \in ends}
    IN  [k \in DOMAIN cache \cup keys |->
            IF k \in DOMAIN cache THEN cache[k] ELSE Searched[<<k[1], k[2], version.closed>>]]

\* Each unit goes to one destination that gets what it needs.  Without locks
\* sending nobody is a plan, so the solver never proves there is none.
Allocations(q) == {answer \in Answers(q) : answer.status \in Statuses}

-----------------------------------------------------------------------------
(* Why a destination stays uncovered: what keeps each unit from it, and    *)
(* what keeps those that could go.                                         *)

EnoughIdle(q, answer, t) == CapacityOf(q, IdleFor(q, answer, t)) >= q.tasks[t].need

Limiting(q, answer, t) ==
    LET eligible == ServersOf(q.eligible, t)
        able == CapacityOf(q, eligible) >= q.tasks[t].need
    IN  ({Ineligibility(q, <<r, t>>) : r \in DOMAIN q.resources} \ {"none"})
        \cup {k \in {"capacity"} : ~able}
        \cup {k \in {"solver-status"} : ~Solved(answer)}
        \cup {k \in {"objective-tradeoff"} :
                 Solved(answer) /\ able /\ EnoughIdle(q, answer, t)}
        \cup {k \in {"resource-contention"} :
                 Solved(answer) /\ able /\ ~EnoughIdle(q, answer, t)}

\* The assignments a contention names.
Competing(q, answer, t) == {p \in answer.pairs : p[1] \in ServersOf(q.eligible, t)}

-----------------------------------------------------------------------------
(* Decisions, on the inputs stored with the recommendation.                *)

Version(rec) == scenarios[rec.scenario].versions[rec.version]

ProblemOf(rec) == Problem(rec.scenario, Version(rec), rec.limit)

\* Faulty: a newer snapshot does not count.
CurrentVersion(rec) == rec.version = Len(scenarios[rec.scenario].versions)

Current(rec) ==
    /\ rec.version = Len(scenarios[rec.scenario].versions)
    /\ scenarios[rec.scenario].pinned = snapshot

EditAccepted(q, pairs) ==
    /\ \A p, o \in pairs : p[1] = o[1] => p = o
    /\ \A p \in pairs :
          /\ q.resources[p[1]].available
          /\ q.tasks[p[2]].skill \in q.resources[p[1]].skills
          /\ q.routes[p].reachable
          /\ q.routes[p].minutes <= 2 * q.tasks[p[2]].deadline
          /\ CapacityOf(q, ServersOf(pairs, p[2])) >= q.tasks[p[2]].need

Assignable(rec, action) ==
    CASE action = "reject"  -> {{}}
      [] action = "approve" -> {rec.answer.pairs}
      [] action = "edit"    ->
            LET q == ProblemOf(rec) IN
            {pairs \in (SUBSET Pairs(q)) \ {{}} : EditAccepted(q, pairs)}

Sent(pairs) == {p[1] : p \in pairs}

Out == UNION {Sent(decisions[d].pairs) : d \in DOMAIN decisions}

-----------------------------------------------------------------------------
(* Operations.                                                             *)

LiveInit ==
    /\ snapshot = 0
    /\ scenarios = <<>>
    /\ recommendations = <<>>
    /\ decisions = <<>>
    /\ cache = <<>>

Refresh ==
    /\ snapshot < Len(Snapshots)
    /\ snapshot' = snapshot + 1
    /\ UNCHANGED <<scenarios, recommendations, decisions, cache>>

CreateScenario ==
    /\ snapshot > 0
    /\ Len(scenarios) < MaxScenarios
    /\ scenarios' = Append(scenarios, [pinned |-> snapshot, versions |-> <<NoOverlay>>])
    /\ UNCHANGED <<snapshot, recommendations, decisions, cache>>

AddVersion(s, overlay) ==
    LET version == Effective(Last(scenarios[s].versions), overlay) IN
    /\ Len(scenarios[s].versions) < MaxVersions
    /\ Known(s, version)
    /\ scenarios' = [scenarios EXCEPT ![s].versions = Append(@, version)]
    /\ UNCHANGED <<snapshot, recommendations, decisions, cache>>

Recommend(s, limit) ==
    LET version == Last(scenarios[s].versions) IN
    /\ Len(recommendations) < MaxRecommendations
    /\ scenarios[s].pinned = snapshot
    /\ Plannable(s, version)
    /\ \E answer \in Allocations(Problem(s, version, limit)) :
          recommendations' = Append(recommendations,
             [ scenario |-> s, version |-> Len(scenarios[s].versions),
               limit |-> limit, answer |-> answer ])
    /\ cache' = Warmed(s, version)
    /\ UNCHANGED <<snapshot, scenarios, decisions>>

Decide(i, action) ==
    LET rec == recommendations[i] IN
    /\ Len(decisions) < MaxDecisions
    /\ \A d \in DOMAIN decisions : decisions[d].recommendation # i
    /\ action # "reject" => Current(rec) /\ Solved(rec.answer)
    /\ \E pairs \in Assignable(rec, action) :
          /\ Sent(pairs) \cap Out = {}
          /\ decisions' = Append(decisions,
                [recommendation |-> i, action |-> action, pairs |-> pairs])
    /\ UNCHANGED <<snapshot, scenarios, recommendations, cache>>

LiveNext ==
    \/ Refresh
    \/ CreateScenario
    \/ \E s \in DOMAIN scenarios :
          \/ \E overlay \in Overlays : AddVersion(s, overlay)
          \/ \E limit \in Limits : Recommend(s, limit)
    \/ \E i \in DOMAIN recommendations, action \in {"approve", "edit", "reject"} :
          Decide(i, action)

LiveSpec == LiveInit /\ [][LiveNext]_liveVars

-----------------------------------------------------------------------------
(* Safety.                                                                 *)

\* Every route the graph's cache would answer is the least open path under its
\* own closures, whoever asked first and under which closures.
CachedRoutesHold ==
    \A a, b \in Nodes, closed \in SUBSET Edges :
        Key(a, b, closed) \in DOMAIN cache =>
            cache[Key(a, b, closed)] = BestRoutes[<<a, b, closed>>]

\* The reasons given for an uncovered destination are true: a lack of capacity
\* means that no plan could cover it; a tradeoff in an optimal plan, that every
\* cover by idle units costs at least its penalty; a contention, that units are
\* named without whose tasks it could be covered, and cannot be with them.
LimitsExplained ==
    \A i \in DOMAIN recommendations :
        LET rec == recommendations[i]
            q == ProblemOf(rec)
            plans == Plans(q)
        IN \A t \in Uncovered(q, rec.answer) :
              LET why == Limiting(q, rec.answer, t)
                  named == Competing(q, rec.answer, t)
              IN /\ why # {}
                 /\ "capacity" \in why <=> \A pairs \in plans : t \notin Covered(pairs)
                 /\ "objective-tradeoff" \in why /\ rec.answer.status = "OPTIMAL" =>
                       \A pairs \in plans :
                          rec.answer.pairs \subseteq pairs /\ t \in Covered(pairs) =>
                             CostOf(q, pairs) - CostOf(q, rec.answer.pairs) >= q.tasks[t].penalty
                 /\ "resource-contention" \in why =>
                       /\ named # {}
                       /\ \E pairs \in plans :
                             t \in Covered(pairs) /\ Sent(pairs) \cap
                                Sent(rec.answer.pairs \ named) = {}
                       /\ \A pairs \in plans : rec.answer.pairs \subseteq pairs =>
                             t \notin Covered(pairs)

\* The other version closes no road less, offers no unit more, blows the same.
Harder(other, one) ==
    /\ one.closed \subseteq other.closed
    /\ one.winds = other.winds
    /\ DOMAIN one.units \subseteq DOMAIN other.units
    /\ \A r \in DOMAIN other.units :
          other.units[r] => r \in DOMAIN one.units /\ one.units[r]

\* Of two best plans of one scenario, the one for the harder version or the
\* shorter limit never looks better.
RestrictionCosts ==
    \A i, j \in DOMAIN recommendations :
        LET one == recommendations[i]
            other == recommendations[j]
        IN /\ {one.answer.status, other.answer.status} = {"OPTIMAL"}
           /\ one.scenario = other.scenario
           /\ other.limit <= one.limit
           /\ Harder(Version(other), Version(one))
           => Objective(ProblemOf(other), other.answer.pairs)
                >= Objective(ProblemOf(one), one.answer.pairs)

\* What the decision accepts as an edit is what the solver could have answered:
\* the checks are written twice, once on units and once on stored inputs.
EditsArePlans ==
    \A i \in DOMAIN recommendations :
        LET q == ProblemOf(recommendations[i]) IN
        Solved(recommendations[i].answer) =>
            {pairs \in SUBSET Pairs(q) : EditAccepted(q, pairs)} = Plans(q)

\* Seen through the units it sends, live planning implements Dispatch.
Withdrawn(version) == {r \in DOMAIN version.units : ~version.units[r]}

AsDispatch == INSTANCE Dispatch WITH
    Resources <- UNION {DOMAIN pinned.units : pinned \in Range(Snapshots)},
    Releases <- {"deployed"}, FirstRelease <- "deployed", release <- "deployed",
    MaxSnapshot <- Len(Snapshots),
    scenarios <- [s \in DOMAIN scenarios |->
        [ pinned |-> scenarios[s].pinned,
          overlays |-> [v \in DOMAIN scenarios[s].versions |->
                           Withdrawn(scenarios[s].versions[v])] ]],
    recommendations <- [i \in DOMAIN recommendations |->
        LET rec == recommendations[i] IN
        [ scenario |-> rec.scenario, version |-> rec.version,
          snapshot |-> scenarios[rec.scenario].pinned, release |-> "deployed",
          solved |-> Solved(rec.answer), proposed |-> Sent(rec.answer.pairs) ]],
    decisions <- [d \in DOMAIN decisions |->
        [ recommendation |-> decisions[d].recommendation, action |-> decisions[d].action,
          assigned |-> Sent(decisions[d].pairs) ]]

ImplementsDispatch == AsDispatch!Spec

\* Plans mean what they say: stated limits are true, harder versions never look
\* better, and edits stay within the solver's rules.
PlansSound == LimitsExplained /\ RestrictionCosts /\ EditsArePlans
=============================================================================
