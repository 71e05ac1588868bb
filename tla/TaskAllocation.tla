---------------------------- MODULE TaskAllocation ----------------------------
(***************************************************************************)
(* The shared task-plan solver and its explanations, as pure operators on  *)
(* a request: which locks it accepts, which plans it may answer, what it   *)
(* reports as binding, and the reason given for each uncovered task.       *)
(* CP-SAT itself is external: within its time it returns a best plan, any  *)
(* plan, or none.                                                          *)
(*                                                                         *)
(* A request q holds resources (id -> skills, capacity, available), tasks  *)
(* (id -> skill, need, deadline, penalty), routes (resource and task ->    *)
(* route), locks (pairs), the travel weight, and the eligible pairs, which *)
(* the solver works out first.  Travel is in half minutes, so that         *)
(* rounding up to whole minutes shows.                                     *)
(*                                                                         *)
(* An operator marked "Faulty" is a deliberately broken variant of the     *)
(* definition that follows it, kept to show that the properties notice.    *)
(***************************************************************************)
EXTENDS Integers, FiniteSets, FiniteSetsExt, TLC

CONSTANT IntMax    \* the largest coefficient sum CP-SAT is given, 2^63 - 1 in the code

ASSUME IntMaxAssumption == IntMax \in Nat

CeilMinutes(halves) == (halves + 1) \div 2

Pairs(q) == (DOMAIN q.resources) \X (DOMAIN q.tasks)

Eligible(q) ==
    {p \in Pairs(q) :
        /\ q.resources[p[1]].available
        /\ q.tasks[p[2]].skill \in q.resources[p[1]].skills
        /\ q.routes[p].reachable
        /\ q.routes[p].minutes <= 2 * q.tasks[p[2]].deadline}

Prepared(q) ==
    [ resources |-> q.resources, tasks |-> q.tasks, locks |-> q.locks, weight |-> q.weight,
      routes |-> q.routes, eligible |-> Eligible(q) ]

TravelCost(q, p) == q.weight * CeilMinutes(q.routes[p].minutes)

CapacityOf(q, resources) == MapThenSumSet(LAMBDA r : q.resources[r].capacity, resources)

CostOf(q, pairs) == MapThenSumSet(LAMBDA p : TravelCost(q, p), pairs)

PenaltyOf(q, tasks) == MapThenSumSet(LAMBDA t : q.tasks[t].penalty, tasks)

ServersOf(pairs, t) == {p[1] : p \in {x \in pairs : x[2] = t}}

InRange(q) ==
    /\ \A p \in q.eligible : TravelCost(q, p) <= IntMax
    /\ \A t \in DOMAIN q.tasks : CapacityOf(q, ServersOf(q.eligible, t)) <= IntMax
    /\ CostOf(q, q.eligible) + PenaltyOf(q, DOMAIN q.tasks) <= IntMax

-----------------------------------------------------------------------------
(* Locked assignments.                                                     *)

Lacking(need, supply) == Max({0, need - supply})

LockedTasks(q) == {p[2] : p \in q.locks}

FreeResources(q) == DOMAIN q.resources \ {p[1] : p \in q.locks}

Deficits(q) ==
    [t \in LockedTasks(q) |->
        Lacking(q.tasks[t].need, CapacityOf(q, ServersOf(q.locks, t)))]

\* A free resource helps one locked task that still lacks capacity, or none.
Helped(q, r, states) ==
    states \cup UNION {
        {[d EXCEPT ![t] = Lacking(@, q.resources[r].capacity)] :
            t \in {u \in DOMAIN d : d[u] > 0 /\ <<r, u>> \in q.eligible}} : d \in states}

ReachableDeficits(q) ==
    FoldSet(LAMBDA r, states : Helped(q, r, states), {Deficits(q)}, FreeResources(q))

LocksEligible(q) ==
    /\ q.locks \subseteq q.eligible
    /\ \A p, o \in q.locks : p[1] = o[1] => p = o

\* Faulty: each locked task is looked at alone.
LocksSeparatelyCovered(q) ==
    \A t \in LockedTasks(q) :
        Deficits(q)[t] <= CapacityOf(q, FreeResources(q) \cap ServersOf(q.eligible, t))

LocksCovered(q) ==
    /\ \A t \in LockedTasks(q) :
          Deficits(q)[t] <= CapacityOf(q, FreeResources(q) \cap ServersOf(q.eligible, t))
    /\ [t \in LockedTasks(q) |-> 0] \in ReachableDeficits(q)

\* Anything else raises ValueError.
Accepted(q) == LocksEligible(q) /\ LocksCovered(q) /\ InRange(q)

-----------------------------------------------------------------------------
(* Plans.                                                                  *)

\* At most one task per resource; whoever is sent, is sent to a task covered.
IsPlan(q, pairs) ==
    /\ q.locks \subseteq pairs
    /\ \A p, o \in pairs : p[1] = o[1] => p = o
    /\ \A p \in pairs : CapacityOf(q, ServersOf(pairs, p[2])) >= q.tasks[p[2]].need

Plans(q) == {pairs \in SUBSET q.eligible : IsPlan(q, pairs)}

Covered(pairs) == {p[2] : p \in pairs}

Objective(q, pairs) ==
    CostOf(q, pairs) + PenaltyOf(q, DOMAIN q.tasks \ Covered(pairs))

\* Plans no other plan beats.
BestPlans(q) ==
    LET plans == Plans(q)
        least == Min({Objective(q, pairs) : pairs \in plans})
    IN  {pairs \in plans : Objective(q, pairs) = least}

\* What CP-SAT may say within its two seconds.
Solutions(q) ==
    IF Plans(q) = {} THEN {[status |-> "INFEASIBLE", pairs |-> {}]}
    ELSE [status : {"OPTIMAL"}, pairs : BestPlans(q)]
         \cup [status : {"FEASIBLE"}, pairs : Plans(q)]

Answers(q) == Solutions(q) \cup {[status |-> "UNKNOWN", pairs |-> {}]}

Solved(answer) == answer.status \in {"FEASIBLE", "OPTIMAL"}

Uncovered(q, answer) == DOMAIN q.tasks \ Covered(answer.pairs)

AssignedIn(answer) == {p[1] : p \in answer.pairs}
=============================================================================
