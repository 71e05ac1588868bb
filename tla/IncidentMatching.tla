-------------------------- MODULE IncidentMatching --------------------------
(***************************************************************************)
(* Which detections make a cluster (DBSCAN over space and time) and which  *)
(* existing incident a cluster continues.  Pure operators.                 *)
(*                                                                         *)
(* Detections lie on a line: the projection to metres is external and      *)
(* keeps distances.  Centroids are multiplied by Scale, which every        *)
(* cluster size of the instances divides.                                  *)
(***************************************************************************)
EXTENDS Integers, Sequences, FiniteSets, SequencesExt

CONSTANTS
    Radius,         \* ClusteringConfig.spatial_radius_meters
    TemporalWindow, \* ClusteringConfig.temporal_window_seconds
    MinimumPoints   \* ClusteringConfig.minimum_points

ASSUME ClusteringAssumption == {Radius, TemporalWindow, MinimumPoints} \subseteq Nat \ {0}

Scale == 60

-----------------------------------------------------------------------------
(* Clustering *)

\* At most 1 apart once distances are divided by the radius and times by
\* the window.
Near(d, e) ==
    LET dx == (d.x - e.x) * TemporalWindow
        dt == (d.at - e.at) * Radius
    IN dx * dx + dt * dt <= Radius * Radius * TemporalWindow * TemporalWindow

\* The order detections are scanned in.
Before(d, e) == d.at < e.at \/ (d.at = e.at /\ d.id < e.id)
FirstOf(D) == CHOOSE d \in D : \A e \in D \ {d} : Before(d, e)

Cores(D) == {d \in D : Cardinality({e \in D : Near(d, e)}) >= MinimumPoints}

\* A cluster expands from a core to the cores near it, and to those near them.
Reach(core, cores) ==
    LET within[steps \in Nat] ==
            IF steps = 0 THEN {core}
            ELSE LET found == within[steps - 1]
                 IN {d \in cores : \E e \in found : Near(d, e)}
    IN within[Cardinality(cores)]

\* A cluster is grown from the first core that has no label yet, so a
\* detection at the border of two goes to the one found first.
LeaderOf(d, D) ==
    FirstOf(UNION {Reach(c, Cores(D)) : c \in {core \in Cores(D) : Near(core, d)}})

Clustered(D) == {d \in D : \E core \in Cores(D) : Near(core, d)}

\* The clusters of D; detections outside Clustered(D) are noise.
Clusters(D) ==
    LET leader == [d \in Clustered(D) |-> LeaderOf(d, D)]
    IN {{d \in Clustered(D) : leader[d] = c} : c \in {leader[d] : d \in Clustered(D)}}

Centroid(C) == (Scale * MapThenSumSet(LAMBDA d : d.x, C)) \div Cardinality(C)

Ids(C) == {d.id : d \in C}
Earliest(C) == Min({d.at : d \in C})
Latest(C) == Max({d.at : d \in C})

-----------------------------------------------------------------------------
(* Matching: an incident is a record with an id, a place x and members *)

Distance(C, incident) == Max({Centroid(C) - incident.x, incident.x - Centroid(C)})
Overlap(C, incident) == Cardinality(Ids(C) \cap incident.members)

Candidates(clusters, incidents) ==
    {p \in [cluster : clusters, incident : incidents] :
        \/ Overlap(p.cluster, p.incident) > 0
        \/ Distance(p.cluster, p.incident) <= Scale * Radius}

\* Faulty: distance comes before overlap.
KeyByDistance(p) ==
    <<IF Overlap(p.cluster, p.incident) > 0 THEN 0 ELSE 1,
      Distance(p.cluster, p.incident), -Overlap(p.cluster, p.incident),
      p.incident.id, Min(Ids(p.cluster))>>

\* The sort key; the clusters of one call are disjoint, so comparing their
\* sorted members is comparing the least.
Key(p) ==
    <<IF Overlap(p.cluster, p.incident) > 0 THEN 0 ELSE 1,
      -Overlap(p.cluster, p.incident), Distance(p.cluster, p.incident),
      p.incident.id, Min(Ids(p.cluster))>>

Preceding(p, q) ==
    \E i \in DOMAIN Key(p) : /\ Key(p)[i] < Key(q)[i]
                             /\ \A j \in 1..(i - 1) : Key(p)[j] = Key(q)[j]

\* The candidates sorted: the k-th is the one that k - 1 precede.
InOrder(candidates) ==
    LET before == [p \in candidates |-> Cardinality({q \in candidates : Preceding(q, p)})]
    IN [k \in 1..Cardinality(candidates) |-> CHOOSE p \in candidates : before[p] = k - 1]

\* Greedily, in that order, each cluster and each incident at most once.
Match(clusters, incidents) ==
    FoldLeft(LAMBDA taken, p :
                IF \E q \in taken : q.cluster = p.cluster \/ q.incident = p.incident
                THEN taken ELSE taken \cup {p},
             {}, InOrder(Candidates(clusters, incidents)))

-----------------------------------------------------------------------------
(* What a matching should be, without an order of evaluation *)

\* More of its members, or as many (none included) and nearer.
Closer(p, q) ==
    LET more == Overlap(p.cluster, p.incident) - Overlap(q.cluster, q.incident)
    IN more > 0 \/ (more = 0 /\ Distance(p.cluster, p.incident) < Distance(q.cluster, q.incident))

\* One to one, and no candidate pair is closer than what both of its sides
\* got, or left out while a side of it is free.
Stable(matching, clusters, incidents) ==
    /\ \A p, q \in matching :
          p # q => p.cluster # q.cluster /\ p.incident # q.incident
    /\ \A p \in Candidates(clusters, incidents) \ matching :
          \E q \in matching : /\ q.cluster = p.cluster \/ q.incident = p.incident
                              /\ ~Closer(p, q)
=============================================================================
