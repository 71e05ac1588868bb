--------------------------- MODULE TaskExplanations ---------------------------
(***************************************************************************)
(* What the planner says about an answer: the binding constraints of       *)
(* task_optimizer, the reason task_explanations gives for each uncovered   *)
(* task, and the changes it reports against the previous plan.             *)
(***************************************************************************)
EXTENDS TaskAllocation

-----------------------------------------------------------------------------
(* Binding constraints of one uncovered task, by kind.                     *)

ServersElsewhere(q, answer, t) ==
    {r \in ServersOf(q.eligible, t) : \E p \in answer.pairs : p[1] = r /\ p[2] # t}

\* The first test a pair fails, "none" for an eligible one.
Ineligibility(q, p) ==
    CASE ~q.resources[p[1]].available -> "availability"
      [] q.resources[p[1]].available
         /\ q.tasks[p[2]].skill \notin q.resources[p[1]].skills -> "compatibility"
      [] q.resources[p[1]].available /\ q.tasks[p[2]].skill \in q.resources[p[1]].skills
         /\ ~q.routes[p].reachable -> "route"
      [] p \in q.eligible -> "none"
      [] OTHER -> "deadline"

Bindings(q, answer, t) ==
    IF ~Solved(answer) THEN {"solver-status"}
    ELSE ({Ineligibility(q, <<r, t>>) : r \in DOMAIN q.resources} \ {"none"})
         \cup {k \in {"capacity"} :
                  CapacityOf(q, ServersOf(q.eligible, t)) < q.tasks[t].need}
         \cup {k \in {"contention"} : ServersElsewhere(q, answer, t) # {}}

-----------------------------------------------------------------------------
(* The cheapest way to cover a task with resources nobody uses.            *)

\* Faulty: capacity beyond the need is not cut to it, so an oversized
\* resource covers nothing.
SuppliedExactly(need, sum) == sum

SuppliedUpTo(need, sum) == Min({need, sum})

\* costs: supplied capacity -> least cost seen, -1 for none.
Improved(q, t, r, costs) ==
    LET reach(s) == {costs[b] + TravelCost(q, <<r, t>>) :
                        b \in {c \in DOMAIN costs :
                                  costs[c] >= 0 /\ SuppliedUpTo(q.tasks[t].need,
                                                 c + q.resources[r].capacity) = s}}
        options(s) == reach(s) \cup ({costs[s]} \ {-1})
    IN  [s \in DOMAIN costs |-> IF options(s) = {} THEN -1 ELSE Min(options(s))]

MinimumCoverCost(q, t, resources) ==
    FoldSet(LAMBDA r, costs : Improved(q, t, r, costs),
            [s \in 0 .. q.tasks[t].need |-> IF s = 0 THEN 0 ELSE -1],
            resources)[q.tasks[t].need]

Comparison(q, t, resources) ==
    LET cost == MinimumCoverCost(q, t, resources) IN
    CASE cost > q.tasks[t].penalty -> "travel-cost-higher"
      [] cost = q.tasks[t].penalty -> "equal"
      [] OTHER -> "travel-cost-lower"

-----------------------------------------------------------------------------
(* The reason given for an uncovered task, tests in the order of the code. *)

Compatible(q, t) == {r \in DOMAIN q.resources : q.tasks[t].skill \in q.resources[r].skills}

AvailableFor(q, t) == {r \in Compatible(q, t) : q.resources[r].available}

ReachableFor(q, t) == {r \in AvailableFor(q, t) : q.routes[<<r, t>>].reachable}

IdleFor(q, answer, t) == ServersOf(q.eligible, t) \ AssignedIn(answer)

TooFewIdle(q, answer, t) == CapacityOf(q, IdleFor(q, answer, t)) < q.tasks[t].need

Reason(q, answer, t) ==
    LET eligible == ServersOf(q.eligible, t)
        tests == << <<"solver-status", ~Solved(answer)>>,
                    <<"compatibility", Compatible(q, t) = {}>>,
                    <<"availability", AvailableFor(q, t) = {}>>,
                    <<"route", ReachableFor(q, t) = {}>>,
                    <<"deadline", eligible = {}>>,
                    <<"capacity", CapacityOf(q, eligible) < q.tasks[t].need>>,
                    <<"contention", TooFewIdle(q, answer, t)>>,
                    <<"feasible-incumbent", answer.status = "FEASIBLE">>,
                    <<"objective-tradeoff", TRUE>> >>
    IN  tests[Min({i \in DOMAIN tests : tests[i][2]})][1]

\* The resources a contention names.
Blamed(q, answer, t) ==
    LET assigned == ServersOf(q.eligible, t) \cap AssignedIn(answer) IN
    IF assigned # {} THEN assigned ELSE ServersOf(q.eligible, t)

-----------------------------------------------------------------------------
(* Changes against the previous plan.  A plan is seen as its objective, its *)
(* closed edges, its tasks' penalties and its assignments.                  *)

TaskOf(pairs, r) == {p[2] : p \in {x \in pairs : x[1] = r}}

Compared(before, after) == {p[1] : p \in before.pairs \cup after.pairs}

Changes(before, after) ==
    LET common == DOMAIN before.penalty \cap DOMAIN after.penalty IN
    [ objective |-> {after.objective} \ {before.objective},
      added     |-> DOMAIN after.penalty \ DOMAIN before.penalty,
      removed   |-> DOMAIN before.penalty \ DOMAIN after.penalty,
      repriced  |-> {[task |-> t, now |-> after.penalty[t]] :
                       t \in {u \in common : before.penalty[u] # after.penalty[u]}},
      closed    |-> after.closed \ before.closed,
      reopened  |-> before.closed \ after.closed,
      moved     |-> {[resource |-> r, now |-> TaskOf(after.pairs, r)] :
                       r \in {s \in Compared(before, after) :
                                 TaskOf(before.pairs, s) # TaskOf(after.pairs, s)}} ]

NoChanges ==
    [ objective |-> {}, added |-> {}, removed |-> {}, repriced |-> {},
      closed |-> {}, reopened |-> {}, moved |-> {} ]
=============================================================================
