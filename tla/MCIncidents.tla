---------------------------- MODULE MCIncidents ----------------------------
(* An instance of Incidents: fires on a line, a station, an asset each side. *)
EXTENDS Incidents

Fire(id, x, at) == [kind |-> "fire", id |-> id, x |-> x, at |-> at, confidence |-> 75]
Station(id, x, at, from) ==
    [kind |-> "weather", id |-> id, x |-> Scale * x, at |-> at, speed |-> 5, from |-> from]
Asset(id, x, kind) == [id |-> id, x |-> Scale * x, kind |-> kind, population |-> 500]

\* Two groups, joined by an earlier fire: they merge when it arrives late and
\* split when it expires, the smaller one nearer to where the whole was.
LineReadings == {Fire(1, 0, 1), Fire(2, 1, 1), Fire(3, 5, 1), Fire(4, 6, 1), Fire(5, 3, 0), Fire(6, 7, 0)}

\* Pairs of fires, and weather that changes.
WindReadings == {Fire(7, 0, 0), Fire(8, 1, 0), Fire(9, 4, 1), Fire(10, 5, 1),
                 Station(11, 1, 0, 90), Station(12, 3, 1, 270)}
LineOrWind == {LineReadings, WindReadings}
BothSides == {Asset("hospital", 4, "hospital"), Asset("town", -1, "community")}
Pack(readings, end, name) == [readings |-> readings, end |-> end, name |-> name]
TwoPackages ==
    {Pack({Fire(7, 0, 0), Fire(8, 1, 0), Station(11, 1, 0, 90)}, 0, "Park Fire"),
     Pack({Fire(9, 4, 1), Fire(10, 5, 1), Fire(7, 0, 0), Fire(8, 1, 0)}, 1, "Camp Fire")}

-----------------------------------------------------------------------------
(* What a behaviour does of it. *)

VARIABLE script

\* Live runs alone, with fires that move.
Line == [readings |-> LineReadings, assets |-> {{}}, versions |-> 2, time |-> 3, live |-> TRUE]

\* Seeding and replays beside live runs, with weather and assets.
Wind == [readings |-> WindReadings, assets |-> {{}, BothSides}, versions |-> 3, time |-> 2, live |-> FALSE]

WithinScript ==
    /\ stored \subseteq script.readings
    /\ assets \in script.assets
    /\ last <= script.time
    /\ \A i \in IncidentIds : Len(snapshots[i]) <= script.versions

MoreVersions == \A i \in IncidentIds : Len(snapshots[i]) < script.versions

Scripted == UNCHANGED script /\ WithinScript'

PlayInit == IncidentsInit /\ script \in {Line, Wind}

\* The disjuncts of Next, each as far as the script goes.
PlayNext ==
    \/ MoreVersions /\ LiveRun /\ Scripted
    \/ MoreVersions /\ ~script.live /\ ReplayRun /\ Scripted
    \/ MoreVersions /\ \E p \in Packages : Seed(p) /\ Scripted

Play == PlayInit /\ [][PlayNext]_<<incidentVars, script>>

\* Without replays, the frames of an incident are shown in the order of its
\* versions (get_timeline).
LiveTimelineInOrder == script.live => TimelineInOrder

\* What readers are shown of an incident is true: its latest snapshot, its
\* weather and wind, its name and its timeline.
ShownTrue ==
    /\ IncidentsTypeOK
    /\ SnapshotCurrent
    /\ NewestWeather
    /\ WindMeansDownwind
    /\ NameKept
    /\ LiveTimelineInOrder
=============================================================================
