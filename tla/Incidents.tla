----------------------------- MODULE Incidents -----------------------------
(***************************************************************************)
(* What a run derives from the stored readings, one refresh after another: *)
(* incidents with their members, and for each active incident a chain of   *)
(* immutable snapshots.  Module Ingestion shows that refreshes are         *)
(* serialized and see every committed reading, so one is one step here;    *)
(* seeding a replay package takes the same lock and is one step too.       *)
(***************************************************************************)
EXTENDS IncidentMatching, RiskScore

CONSTANTS
    Histories,   \* bound: sets of observations of which one may ever arrive
    Assets,      \* exposed assets of the replay package
    Packages,    \* replay packages: a set of readings, an end and a name
    IncidentIds, \* bound: ids of incidents
    Arrivals,    \* bound: new readings in one run
    MaxTime,     \* bound: reference times
    MaxVersion,  \* bound: snapshots of one incident
    MayReplay    \* replays run beside the live sources

\* Rows of the observations table.  On a line the wind comes from the four
\* quarters: along it, against it or across.
FireRows == [kind : {"fire"}, id : Nat \ {0}, x : Int, at : Int, confidence : 0..100]
WeatherRows == [kind : {"weather"}, id : Nat \ {0}, x : Int, at : Int, speed : Nat,
                from : {0, 90, 180, 270}]

ASSUME IncidentsAssumption ==
    /\ IncidentIds \subseteq Nat /\ IsFiniteSet(IncidentIds)
    /\ {Arrivals, MaxTime} \subseteq Nat /\ MaxVersion \in Nat \ {0}
    /\ MayReplay \in BOOLEAN
    /\ FullWind <= 50  \* across, the least wind still makes a whole percent
    /\ \A history \in Histories :
          /\ IsFiniteSet(history) /\ history \subseteq FireRows \cup WeatherRows
          /\ \A r, q \in history : r.id = q.id => r = q
    /\ IsFiniteSet(Assets)
    /\ \A a \in Assets : a.x \in Int /\ (a.kind = "community" => a.population \in Nat)
    /\ \A a, b \in Assets : a.id = b.id => a = b
    /\ \A p \in Packages : (\E history \in Histories : p.readings \subseteq history) /\ p.end \in 0..MaxTime

VARIABLES
    stored,     \* readings stored
    assets,     \* exposed_assets
    incident,   \* wildfire_incidents by id
    members,    \* incident_detections: the detection ids of each incident
    snapshots,  \* incident_snapshots of each incident, by version
    last,       \* the reference of the last refresh
    floor,      \* the earliest reference of the next live run
    claims      \* packages that hold a seed claim

incidentVars == <<stored, assets, incident, members, snapshots, last, floor, claims>>

AllReadings == UNION Histories
None == [status |-> "none", x |-> 0, first |-> 0, last |-> 0, score |-> 0]
Unrefreshed == -1

Fires(readings) == {r \in readings : r.kind = "fire"}
Weather(readings) == {r \in readings : r.kind = "weather"}
Known == {i \in IncidentIds : incident[i].status # "none"}
Active == {i \in IncidentIds : incident[i].status = "active"}

IncidentsInit ==
    /\ stored = {}
    /\ assets = {}
    /\ incident = [i \in IncidentIds |-> None]
    /\ members = [i \in IncidentIds |-> {}]
    /\ snapshots = [i \in IncidentIds |-> <<>>]
    /\ last = Unrefreshed
    /\ floor = Unrefreshed
    /\ claims = {}

-----------------------------------------------------------------------------
(* refresh_incidents *)

CurrentFires(readings, at) ==
    {d \in Fires(readings) : d.at \in (at - TemporalWindow)..at}

Existing == {[id |-> i, x |-> incident[i].x, members |-> members[i]] : i \in Known}

\* A matched incident moves to its cluster and only widens its times.
Continued(row, C) ==
    [row EXCEPT !.status = "active", !.x = Centroid(C),
                !.first = Min({@, Earliest(C)}), !.last = Max({@, Latest(C)})]

Created(C) ==
    [None EXCEPT !.status = "active", !.x = Centroid(C),
                 !.first = Earliest(C), !.last = Latest(C)]

Inactive(row) == IF row.status = "none" THEN row ELSE [row EXCEPT !.status = "inactive"]

\* home[C]: the incident of cluster C, matched or with a fresh id; a random
\* UUID may come anywhere in the order of ids.
Homes(clusters) ==
    LET matching == Match(clusters, Existing)
        matched == {p.cluster : p \in matching}
    IN {home \in [clusters -> IncidentIds] :
           /\ \A p \in matching : home[p.cluster] = p.incident.id
           /\ \A C \in clusters \ matched : home[C] \notin Known
           /\ \A C, D \in clusters \ matched : C # D => home[C] # home[D]}

RefreshedRows(clusters, home) ==
    [i \in IncidentIds |->
        LET own == {C \in clusters : home[C] = i}
        IN IF own = {} THEN Inactive(incident[i])
           ELSE LET C == CHOOSE D \in own : TRUE
                IN IF i \in Known THEN Continued(incident[i], C) ELSE Created(C)]

\* Faulty: the memberships of the last refresh are not deleted.
RefreshedMembersKept(clusters, home) ==
    [i \in IncidentIds |->
        members[i] \cup UNION {Ids(C) : C \in {D \in clusters : home[D] = i}}]

RefreshedMembers(clusters, home) ==
    [i \in IncidentIds |-> UNION {Ids(C) : C \in {D \in clusters : home[D] = i}}]

-----------------------------------------------------------------------------
(* refresh_exposure_and_risk *)

\* What a snapshot of an active incident records, but for its name.
MembersAmong(readings, ids) == {d \in Fires(readings) : d.id \in ids}

Described(row, ids, readings, known, at) ==
    LET weather == SelectWeather(Weather(readings), row.x, at)
        exposed == Exposed(known, row.x)
        factors == RiskFactors(MembersAmong(readings, ids), weather, exposed, row.x, at)
    IN [captured |-> at, detections |-> ids, x |-> row.x, first |-> row.first,
        last |-> row.last, weather |-> weather.id, exposed |-> {a.id : a \in exposed},
        factors |-> factors, score |-> Score(factors), name |-> ""]

\* Faulty: only the detections are compared.
ExtendedByDetections(chain, state) ==
    LET named == IF chain = <<>> THEN state ELSE [state EXCEPT !.name = Last(chain).name]
    IN IF chain # <<>> /\ Last(chain).detections = named.detections THEN chain
       ELSE Append(chain, named)

\* Faulty: every refresh adds a snapshot.
ExtendedAlways(chain, state) ==
    Append(chain, IF chain = <<>> THEN state ELSE [state EXCEPT !.name = Last(chain).name])

\* The latest snapshot is reused when nothing but its version would differ.
Extended(chain, state) ==
    LET named == IF chain = <<>> THEN state ELSE [state EXCEPT !.name = Last(chain).name]
    IN IF chain # <<>> /\ Last(chain) = named THEN chain ELSE Append(chain, named)

\* What one refresh over readings and assets at a reference time can give.
Outcomes(readings, known, at) ==
    LET clusters == Clusters(CurrentFires(readings, at))
        outcome(home) ==
            LET rows == RefreshedRows(clusters, home)
                ids == RefreshedMembers(clusters, home)
                active == {i \in IncidentIds : rows[i].status = "active"}
            IN [rows |-> rows, members |-> ids,
                states |-> [i \in active |-> Described(rows[i], ids[i], readings, known, at)]]
    IN {outcome(home) : home \in Homes(clusters)}

\* The rows get their scores and the chains of the active incidents grow.
Adopt(outcome, states) ==
    /\ incident' = [i \in IncidentIds |->
                       IF i \in DOMAIN states
                       THEN [outcome.rows[i] EXCEPT !.score = states[i].score]
                       ELSE outcome.rows[i]]
    /\ members' = outcome.members
    /\ snapshots' = [i \in IncidentIds |->
                        IF i \in DOMAIN states THEN Extended(snapshots[i], states[i])
                        ELSE snapshots[i]]

RefreshFrom(readings, at) ==
    \E outcome \in Outcomes(readings, assets, at) : Adopt(outcome, outcome.states)

\* Sets of new observations that belong to the history so far.
Arriving == UNION {SUBSET (h \ stored) : h \in {g \in Histories : stored \subseteq g}}

Bounded == \A i \in IncidentIds : Len(snapshots[i]) < MaxVersion

-----------------------------------------------------------------------------
(* Runs and seeding *)

\* A live run stores what arrived; its reference is no earlier than any
\* a status row knows (property LiveRefreshForward of module Ingestion).
LiveRun ==
    /\ Bounded
    /\ \E new \in Arriving, at \in 0..MaxTime :
          /\ Cardinality(new) <= Arrivals
          /\ at >= floor
          /\ stored' = stored \cup new
          /\ RefreshFrom(stored \cup new, at)
          /\ last' = at /\ floor' = at
    /\ UNCHANGED <<assets, claims>>

\* A replay stores its package and refreshes at the package's end.
ReplayRun ==
    /\ MayReplay
    /\ Bounded
    /\ \E p \in Packages :
          /\ p.readings \ stored \in Arriving
          /\ stored' = stored \cup p.readings
          /\ RefreshFrom(stored \cup p.readings, p.end)
          /\ last' = p.end /\ floor' = Max({floor, p.end})
    /\ UNCHANGED <<assets, claims>>

\* The riskiest incident of a package gets its name, of several the one
\* whose detections come first.
Named(states, name) ==
    LET riskiest == {i \in DOMAIN states :
                        \A j \in DOMAIN states : states[j].score <= states[i].score}
        first == CHOOSE i \in riskiest :
                    \A j \in riskiest : Min(states[i].detections) <= Min(states[j].detections)
    IN [states EXCEPT ![first].name = name]

\* Nothing operational may be there when a package is seeded.
ProtectedTablesEmpty == stored = {} /\ assets = {} /\ Known = {} /\ last = Unrefreshed

\* A package claimed before is left as it is, a database in use or a
\* package without a cluster is refused: neither changes anything.
Seed(p) ==
    /\ p.name \notin claims
    /\ ProtectedTablesEmpty
    /\ \E outcome \in Outcomes(p.readings, Assets, p.end) :
          /\ DOMAIN outcome.states # {}
          /\ Adopt(outcome, Named(outcome.states, p.name))
    /\ stored' = p.readings
    /\ assets' = Assets
    /\ last' = p.end /\ floor' = p.end
    /\ claims' = claims \cup {p.name}

IncidentsNext ==
    \/ LiveRun
    \/ ReplayRun
    \/ \E p \in Packages : Seed(p)

IncidentsSpec == IncidentsInit /\ [][IncidentsNext]_incidentVars

-----------------------------------------------------------------------------
(* What the API reads *)

\* The latest snapshot: listed while the incident is active.
Listed == [i \in Active |-> Last(snapshots[i])]

\* The versions of an incident in the order its frames are replayed.
Timeline(i) ==
    LET earlier(k) == {j \in DOMAIN snapshots[i] :
                          \/ snapshots[i][j].captured < snapshots[i][k].captured
                          \/ snapshots[i][j].captured = snapshots[i][k].captured /\ j < k}
    IN [place \in DOMAIN snapshots[i] |->
           CHOOSE k \in DOMAIN snapshots[i] : Cardinality(earlier(k)) = place - 1]

-----------------------------------------------------------------------------
(* Properties *)

\* Every variable has its type; a score is a percentage.
IncidentsTypeOK ==
    /\ stored \subseteq AllReadings
    /\ assets \in {{}, Assets}
    /\ \A i \in IncidentIds :
          /\ incident[i].status \in {"none", "active", "inactive"}
          /\ incident[i].score \in 0..100
          /\ members[i] \subseteq Ids(AllReadings)
          /\ Len(snapshots[i]) \in 0..MaxVersion
    /\ last \in -1..MaxTime /\ floor \in -1..MaxTime

\* A detection that is clustered belongs to one active incident, noise and
\* expired detections to none, and an incident is active as long as it has
\* members (refresh_incidents over cluster_detections).
EachDetectionOnce ==
    /\ \A i, j \in IncidentIds : i # j => members[i] \cap members[j] = {}
    /\ \A i \in IncidentIds : i \in Active <=> members[i] # {}
    /\ UNION {members[i] : i \in IncidentIds} =
          IF last = Unrefreshed THEN {} ELSE Ids(Clustered(CurrentFires(stored, last)))

\* A refresh continues incidents stably: one cluster each, and no cluster
\* and incident are closer to each other than what either was given; so a
\* fire that neither splits nor merges keeps its incident
\* (_match_existing_incidents).
ContinuesStably ==
    [][LET clusters == Clusters(CurrentFires(stored', last'))
           before == {[id |-> i, x |-> incident[i].x, members |-> members[i]] : i \in Known}
           kept == {p \in [cluster : clusters, incident : before] :
                       members'[p.incident.id] = Ids(p.cluster)}
       IN Stable(kept, clusters, before)]_incidentVars

\* An incident never disappears, and the time it was first and last
\* observed only widens (refresh_incidents).
TimesWiden ==
    [][\A i \in Known : /\ incident'[i].status # "none"
                        /\ incident'[i].first <= incident[i].first
                        /\ incident'[i].last >= incident[i].last]_incidentVars

\* What the API lists of an active incident is what the last refresh would
\* say of the stored readings: no snapshot is reused that differs from it
\* in members, place, weather, exposure or score
\* (_reuse_or_create_snapshot, list_incidents).
SnapshotCurrent ==
    \A i \in Active :
        [Listed[i] EXCEPT !.name = ""] =
            Described(incident[i], members[i], stored, assets, last)

\* A refresh at the same reference over the same readings changes nothing:
\* no incident changes hands and no snapshot is added.
RepeatIsIdle ==
    [][stored' = stored /\ assets' = assets /\ last' = last =>
          UNCHANGED <<incident, members, snapshots>>]_incidentVars

\* Without replays an incident's frames are shown in the order of their
\* versions, so the next frame never tells an older state (get_timeline).
TimelineInOrder ==
    \A i \in IncidentIds : \A k \in DOMAIN snapshots[i] : Timeline(i)[k] = k

\* A database is seeded into one name at most, and the incident that bears
\* it keeps it in every later snapshot (seed_replay_package,
\* _reuse_or_create_snapshot).
NameKept ==
    /\ \A i \in IncidentIds : \A k \in 2..Len(snapshots[i]) :
          snapshots[i][k].name = snapshots[i][k - 1].name
    /\ Cardinality({i \in IncidentIds : \E k \in DOMAIN snapshots[i] :
                                          snapshots[i][k].name # ""}) <= 1

\* The newest stored weather in reach of a fire is the weather its snapshot
\* is scored with, and none after the reference (_select_weather).
NewestWeather ==
    \A i \in Active : \A w \in Weather(stored) :
        w.at <= last /\ Gap(w.x, incident[i].x) <= SearchRadius =>
            \E v \in Weather(stored) : /\ v.id = Listed[i].weather
                                       /\ w.at <= v.at /\ v.at <= last

\* Wind counts against an incident exactly when it does not blow away from
\* every exposed asset (_direction_alignment over the bearings of
\* ExposureRepository.find_for_incident).
BlowsTo(w, from, to) ==
    \/ from = to
    \/ w.from = 270 /\ to > from
    \/ w.from = 90 /\ to < from
    \/ w.from \in {0, 180}

WindMeansDownwind ==
    \A i \in Active :
        LET shown == Listed[i]
        IN shown.factors.wind_alignment > 0 <=>
              \E w \in Weather(stored), a \in assets :
                  /\ w.id = shown.weather /\ w.speed > 0
                  /\ a.id \in shown.exposed
                  /\ BlowsTo(w, incident[i].x, a.x)

\* A refresh neither hands incidents over nor shortens them.
IncidentsContinue == ContinuesStably /\ TimesWiden
=============================================================================
