----------------------------- MODULE RoadRouting -----------------------------
(***************************************************************************)
(* The search behind compute_route: labels leave a heap in order, the      *)
(* first to reach the destination is the answer.  LivePlanning asks it     *)
(* through the graph's cache and checks it against RoadNetwork's Route.    *)
(***************************************************************************)
EXTENDS RoadNetwork

Extended(label, closed) ==
    {[node |-> Roads[e].to, minutes |-> label.minutes + Roads[e].minutes,
      path |-> Append(label.path, e)] :
        e \in {o \in Edges \ closed : Roads[o].from = label.node}}

Improves(label, best) ==
    label.node \in DOMAIN best => Before(label, best[label.node])

\* Of parallel edges the code may push several that improve in turn; all but
\* the least are stale when popped.
Relaxed(search, label, closed) ==
    LET better == {l \in Extended(label, closed) : Improves(l, search.best)} IN
    [search EXCEPT
        !.queue = (@ \ {label}) \cup better,
        !.best = [n \in DOMAIN @ \cup {l.node : l \in better} |->
                     IF \E l \in better : l.node = n
                     THEN Least({l \in better : l.node = n}) ELSE @[n]]]

\* One turn of the loop; an answered or empty search stays as it is.
Popped(search, target, closed) ==
    LET label == Least(search.queue)   \* what heappop takes
    IN  CASE search.queue = {} -> search
          [] search.queue # {} /\ search.best[label.node] # label ->   \* stale
                [search EXCEPT !.queue = @ \ {label}]
          [] search.queue # {} /\ search.best[label.node] = label /\ label.node = target ->
                [search EXCEPT !.queue = {}, !.answer =
                    [reachable |-> TRUE, minutes |-> label.minutes, path |-> label.path]]
          [] OTHER -> Relaxed(search, label, closed)

\* Turns enough for any search: a node is relaxed once for each better label.
Turns == 1 .. 1 + Cardinality(Edges) * Cardinality(Nodes)

ShortestRoute(from, to, closed) ==
    LET origin == [node |-> from, minutes |-> 0, path |-> <<>>]
        start == [ queue |-> {origin}, best |-> [n \in {from} |-> origin],
                   answer |-> Unreachable ]
    IN  FoldSet(LAMBDA turn, search : Popped(search, to, closed), start, Turns).answer
=============================================================================
