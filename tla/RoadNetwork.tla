----------------------------- MODULE RoadNetwork -----------------------------
(***************************************************************************)
(* What a route is: the least open path of the pinned road graph, by       *)
(* minutes, then by edges, then by the order of its edge ids.  RoadRouting *)
(* computes it edge by edge; ExercisePlanning plans with it.               *)
(*                                                                         *)
(* Abstracted data: an edge id is a number, in the order of the ids; a     *)
(* position is a number on a line, and nodes are numbers in the order of   *)
(* their identities; minutes are whole ticks, so sums never round.         *)
(***************************************************************************)
EXTENDS Integers, Sequences, FiniteSets, SequencesExt

CONSTANTS
    Roads,     \* edge id -> [from, to, minutes], parallel edges and loops allowed
    NodeAt     \* node -> its position

ASSUME RoadAssumption ==
    /\ DOMAIN Roads \subseteq Nat /\ IsFiniteSet(DOMAIN Roads)
    /\ DOMAIN NodeAt \subseteq Nat /\ IsFiniteSet(DOMAIN NodeAt)
    /\ Range(NodeAt) \subseteq Int
    /\ \A e \in DOMAIN Roads :
          /\ Roads[e].minutes \in Nat
          /\ {Roads[e].from, Roads[e].to} \subseteq DOMAIN NodeAt

Edges == DOMAIN Roads

Nodes == DOMAIN NodeAt

-----------------------------------------------------------------------------

EdgesBefore(p, q) ==
    \E i \in 1 .. Len(p) : p[i] < q[i] /\ \A j \in 1 .. i - 1 : p[j] = q[j]

\* The order of heap entries: minutes, hops, path.
Before(k, l) ==
    \/ k.minutes < l.minutes
    \/ k.minutes = l.minutes /\ Len(k.path) < Len(l.path)
    \/ /\ k.minutes = l.minutes /\ Len(k.path) = Len(l.path)
       /\ EdgesBefore(k.path, l.path)

Least(labels) == CHOOSE k \in labels : \A l \in labels : l = k \/ Before(k, l)

-----------------------------------------------------------------------------

Unreachable == [reachable |-> FALSE, minutes |-> 0, path |-> <<>>]

Minutes(path) == FoldLeft(LAMBDA sum, e : sum + Roads[e].minutes, 0, path)

Leads(path, a, b) ==
    IF path = <<>> THEN a = b
    ELSE /\ Roads[Head(path)].from = a
         /\ Roads[Last(path)].to = b
         /\ \A i \in 1 .. Len(path) - 1 : Roads[path[i]].to = Roads[path[i + 1]].from

\* A least path repeats no node, so the longer ones need no look.
OpenPaths(a, b, closed) ==
    {path \in BoundedSeq(Edges \ closed, Cardinality(Nodes) - 1) : Leads(path, a, b)}

Route(a, b, closed) ==
    LET labels == {[minutes |-> Minutes(p), path |-> p] : p \in OpenPaths(a, b, closed)}
    IN  IF labels = {} THEN Unreachable
        ELSE [reachable |-> TRUE, minutes |-> Least(labels).minutes,
              path |-> Least(labels).path]

-----------------------------------------------------------------------------

Distance(node, x) == IF NodeAt[node] < x THEN x - NodeAt[node] ELSE NodeAt[node] - x

\* The nearest node, the first by identity of those as near.
Nearest(x) ==
    CHOOSE n \in Nodes : \A m \in Nodes \ {n} :
        \/ Distance(n, x) < Distance(m, x)
        \/ Distance(n, x) = Distance(m, x) /\ n < m
=============================================================================
