--------------------------- MODULE ExercisePlanning ---------------------------
(***************************************************************************)
(* The planning of an exercise with its data: checkpoints materialised     *)
(* from the definition, routes over the pinned graph, plans solved and     *)
(* explained, an operator's override, and sandbox plans after completion.  *)
(* The session moves by ExerciseRules; seen through Abstract, the plan     *)
(* runs are those of ExerciseWorkflow.                                     *)
(*                                                                         *)
(* Abstracted data: wind, incidents and source versions, which no plan     *)
(* reads, and the hash of the planning input, which is the input here.     *)
(*                                                                         *)
(* An operator marked "Faulty" is a deliberately broken variant of the     *)
(* definition that follows it, kept to show that the properties notice.    *)
(***************************************************************************)
EXTENDS ExerciseRules, RoadNetwork, TaskExplanations

CONSTANTS
    Definitions,   \* exercise definitions a package may carry
    Weights,       \* objective -> travel, base, critical, population, divisor
    Multipliers,   \* sandbox priority preset -> factor
    Controls,      \* bound: the sandbox controls asked for
    GuidedStatuses, SandboxStatuses, \* bound: how the solver comes back
    SnapLimit,     \* the farthest a position may lie from its node
    NoPreview,     \* no sandbox plan was asked for
    MaxVersion     \* bound: no command is issued on a version this high

\* What the models of exercise.json let through, and the checks after them.
IsDefinition(d) ==
    /\ IsFiniteSet(DOMAIN d.resources)
    /\ \A r \in DOMAIN d.resources :
          /\ DOMAIN d.resources[r] = {"skills", "capacity", "available", "at", "bus"}
          /\ d.resources[r].capacity \in Nat \ {0}
          /\ d.resources[r].available \in BOOLEAN
          /\ d.resources[r].at \in Int
    /\ \A c \in 0 .. FinalCheckpoint :
          /\ IsFiniteSet(DOMAIN d.checkpoints[c].tasks)
          /\ \A t \in DOMAIN d.checkpoints[c].tasks :
                LET task == d.checkpoints[c].tasks[t] IN
                /\ {task.need, task.deadline} \subseteq Nat \ {0}
                /\ {task.base, task.population} \subseteq Nat
                /\ task.at \in Int
    /\ d.sandbox \subseteq 0 .. FinalCheckpoint

ASSUME PlanningAssumption ==
    /\ \A d \in Definitions : IsDefinition(d)
    /\ DOMAIN Weights = Objectives
    /\ \A o \in Objectives :
          /\ {Weights[o].travel, Weights[o].base, Weights[o].critical, Weights[o].population}
                 \subseteq Nat
          /\ Weights[o].divisor \in Nat \ {0}
    /\ "standard" \in DOMAIN Multipliers
    /\ Range(Multipliers) \subseteq Nat \ {0}
    /\ \A k \in Controls : k.objective \in Objectives

VARIABLES
    definition,   \* the one loaded at start-up
    session,
    runs,         \* stored plan runs
    preview       \* a sandbox response

vars == <<definition, session, runs, preview>>

ShelterTask == "shelter-capacity-transport"

CorridorTask == "clear-primary-corridor"

-----------------------------------------------------------------------------
(* Materialised checkpoints and requests.                                  *)

Penalty(task, weights) ==
    weights.base * task.base
    + (IF task.critical THEN weights.critical ELSE 0)
    + weights.population * (task.population \div weights.divisor)

\* Crews that cleared the corridor reopen what the second checkpoint closed.
ClosedAt(d, c, cleared) ==
    IF c = FinalCheckpoint /\ cleared
    THEN d.checkpoints[c].closed \ d.checkpoints[1].closed
    ELSE d.checkpoints[c].closed

Demand(task, weights) ==
    [ skill |-> task.skill, need |-> task.need, deadline |-> task.deadline, at |-> task.at,
      penalty |-> Penalty(task, weights) ]

Materialized(d, c, objective, cleared) ==
    [ objective |-> objective,
      closed    |-> ClosedAt(d, c, cleared),
      resources |-> d.resources,
      tasks     |-> [t \in DOMAIN d.checkpoints[c].tasks |->
                       Demand(d.checkpoints[c].tasks[t], Weights[objective])] ]

\* What compute_route answers, computed once.
Routes == [x \in Nodes \X Nodes \X SUBSET Edges |-> Route(x[1], x[2], x[3])]

CandidateRoutes(m) ==
    [p \in (DOMAIN m.resources) \X (DOMAIN m.tasks) |->
        Routes[<<Nearest(m.resources[p[1]].at), Nearest(m.tasks[p[2]].at), m.closed>>]]

RequestOf(m, locks) == Prepared(
    [ resources |-> m.resources, tasks |-> m.tasks, routes |-> CandidateRoutes(m),
      locks |-> locks, weight |-> Weights[m.objective].travel ])

-----------------------------------------------------------------------------
(* Validation before the API serves the exercise.                          *)

Snappable(x) ==
    /\ \E n, m \in Nodes : NodeAt[n] <= x /\ x <= NodeAt[m]
    /\ Distance(Nearest(x), x) <= SnapLimit

Buses(d) == {r \in DOMAIN d.resources : d.resources[r].bus}

ShelterLock(r) == {<<r, ShelterTask>>}

\* Some plan with the lock exists; two seconds find one for so few tasks.
HasShelterOverride(d, objective, cleared) ==
    \E r \in Buses(d) :
        Accepted(RequestOf(Materialized(d, FinalCheckpoint, objective, cleared),
                           ShelterLock(r)))

\* Faulty: only the outcome in which the corridor was cleared is tried.
ClearedOnly(d) == {TRUE}

ClearedTried(d) == BOOLEAN

ValidRuntime(d) ==
    /\ \A r \in DOMAIN d.resources : Snappable(d.resources[r].at)
    /\ \A c \in 0 .. FinalCheckpoint :
          /\ \A t \in DOMAIN d.checkpoints[c].tasks : Snappable(d.checkpoints[c].tasks[t].at)
          /\ d.checkpoints[c].closed \subseteq Edges
    /\ d.closures \subseteq Edges
    /\ ShelterTask \in DOMAIN d.checkpoints[FinalCheckpoint].tasks
    /\ \A objective \in Objectives, cleared \in ClearedTried(d) :
          HasShelterOverride(d, objective, cleared)

-----------------------------------------------------------------------------
(* Plan runs.                                                              *)

\* Faulty: the checkpoint is materialised without the session's consequences.
InputOfForgetful(s, locks) ==
    [ checkpoint |-> s.checkpoint, objective |-> s.objective, corridor |-> FALSE,
      closed |-> ClosedAt(definition, s.checkpoint, FALSE), locks |-> locks ]

InputOf(s, locks) ==
    [ checkpoint |-> s.checkpoint, objective |-> s.objective, corridor |-> s.corridor,
      closed |-> ClosedAt(definition, s.checkpoint, s.corridor), locks |-> locks ]

Request(input) ==
    RequestOf(Materialized(definition, input.checkpoint, input.objective, input.corridor),
              input.locks)

Seen(input, answer) ==
    [ objective |-> input.objective, closed |-> input.closed, pairs |-> answer.pairs,
      penalty |-> [t \in DOMAIN Request(input).tasks |-> Request(input).tasks[t].penalty] ]

\* The explanation compares with the last run stored, whatever its status.
Explained(input, answer) ==
    IF runs = <<>> THEN NoChanges
    ELSE Changes(Seen(Last(runs).input, Last(runs).answer), Seen(input, answer))

Run(input, answer, override) ==
    [ input |-> input, answer |-> answer, override |-> override,
      changes |-> Explained(input, answer) ]

Abstract(run) ==
    [ checkpoint |-> run.input.checkpoint, objective |-> run.input.objective,
      corridor |-> run.input.corridor, solved |-> Solved(run.answer),
      clears |-> run.input.checkpoint = 1 /\ CorridorTask \in Covered(run.answer.pairs),
      override |-> run.override ]

AbstractRuns == [i \in DOMAIN runs |-> Abstract(runs[i])]

AnswersTo(q, statuses) == {answer \in Answers(q) : answer.status \in statuses}

Open == session.status = "active" /\ session.version \in 1 .. MaxVersion - 1

-----------------------------------------------------------------------------
(* Operations.                                                             *)

Init ==
    /\ definition \in {d \in Definitions : ValidRuntime(d)}
    /\ session = NoSession
    /\ runs = <<>>
    /\ preview = NoPreview

Create ==
    /\ session = NoSession
    /\ session' = NewSession
    /\ UNCHANGED <<definition, runs, preview>>

\* The commands of the session service, which plan nothing.
Move(cmd, payload) ==
    /\ Open
    /\ Refusal(cmd, session, AbstractRuns, payload, Unsolved) = "none"
    /\ session' = SessionAfter(cmd, session, AbstractRuns, payload)
    /\ UNCHANGED <<definition, runs, preview>>

\* Coefficients out of range leave the handler as an error, nothing stored.
GeneratePlan ==
    LET input == InputOf(session, {}) IN
    /\ Open
    /\ GenerateRefusal(session, AbstractRuns) = "none"
    /\ Accepted(Request(input))
    /\ \E answer \in AnswersTo(Request(input), GuidedStatuses) :
          runs' = Append(runs, Run(input, answer, FALSE))
    /\ session' = SessionAfter("generate-plan", session, AbstractRuns, "well-formed")
    /\ UNCHANGED <<definition, preview>>

InputHolds(current) == current.input = InputOf(session, {})

\* Faulty: the answer is stored without looking for the lock in it.
HonouredAnyhow(answer, r) == TRUE

Honoured(answer, r) == <<r, ShelterTask>> \in answer.pairs

ApplyOverride(r) ==
    LET i == LatestAt(AbstractRuns, FinalCheckpoint)
        input == InputOf(session, ShelterLock(r))
    IN  /\ Open
        /\ session.checkpoint = FinalCheckpoint
        /\ session.objective # NoObjective
        /\ i # 0
        /\ ~runs[i].override /\ Solved(runs[i].answer)
        /\ InputHolds(runs[i])
        /\ Accepted(Request(input))
        /\ \E answer \in AnswersTo(Request(input), GuidedStatuses) :
              /\ Honoured(answer, r)
              /\ runs' = Append(runs, Run(input, answer, TRUE))
        /\ session' = SessionAfter("apply-override", session, AbstractRuns, "well-formed")
        /\ UNCHANGED <<definition, preview>>

\* The controls name all closures, so what the session cleared plays no part.
Sandbox(k) ==
    LET m == Materialized(definition, k.checkpoint, k.objective, FALSE)
        factor(t) == Multipliers[IF t \in DOMAIN k.presets THEN k.presets[t] ELSE "standard"]
        unit(r) == [m.resources[r] EXCEPT !.available = @ /\ r \notin k.unavailable]
        task(t) == [m.tasks[t] EXCEPT !.penalty = @ * factor(t)]
    IN  [ m EXCEPT !.closed = k.closed,
                   !.resources = [r \in DOMAIN @ |-> unit(r)],
                   !.tasks = [t \in DOMAIN @ |-> task(t)] ]

SandboxRequest(k) == RequestOf(Sandbox(k), k.locks)

ControlsAllowed(k) ==
    LET tasks == DOMAIN definition.checkpoints[k.checkpoint].tasks IN
    /\ k.checkpoint \in definition.sandbox
    /\ k.closed \subseteq definition.closures
    /\ k.unavailable \subseteq DOMAIN definition.resources
    /\ DOMAIN k.presets \subseteq tasks
    /\ \A t \in DOMAIN k.presets : k.presets[t] \in DOMAIN Multipliers
    /\ \A t \in tasks : SandboxRequest(k).tasks[t].penalty <= IntMax

\* Nothing is stored: the response is all there is, and one is looked at.
SandboxPlan(k) ==
    /\ preview = NoPreview
    /\ session.status = "completed"
    /\ IF ControlsAllowed(k) /\ Accepted(SandboxRequest(k))
       THEN \E answer \in AnswersTo(SandboxRequest(k), SandboxStatuses) :
               preview' = [controls |-> k, answer |-> answer]
       ELSE preview' = [controls |-> k, answer |-> [status |-> "refused", pairs |-> {}]]
    /\ UNCHANGED <<definition, session, runs>>

Next ==
    \/ Create
    \/ \E cmd \in {"select-objective", "advance", "approve-plan"} :
          \E payload \in PayloadsOf(cmd) : Move(cmd, payload)
    \/ GeneratePlan
    \/ \E r \in Buses(definition) : ApplyOverride(r)
    \/ \E k \in Controls : SandboxPlan(k)

Spec == Init /\ [][Next]_vars

-----------------------------------------------------------------------------
(* What was answered last: a stored run, and a sandbox response.           *)

Previewed == preview # NoPreview /\ ControlsAllowed(preview.controls)

Answered ==
    IF preview # NoPreview
    THEN {[q |-> SandboxRequest(preview.controls), answer |-> preview.answer] :
             p \in {x \in {preview} : Previewed /\ x.answer.status # "refused"}}
    ELSE {[q |-> Request(runs[i].input), answer |-> runs[i].answer] :
             i \in {Len(runs)} \cap DOMAIN runs}

-----------------------------------------------------------------------------
(* Safety.                                                                 *)

\* Locks are refused exactly when no plan honours them all: the deficits the
\* validation counts down stand for whole plans, and what it lets through
\* never comes back infeasible.
LocksHeard ==
    Previewed /\ InRange(SandboxRequest(preview.controls)) =>
        (preview.answer.status = "refused" <=> Plans(SandboxRequest(preview.controls)) = {})

\* No reported value exceeds what the solver's integers hold, even for an answer
\* that covers nothing, or sends everyone who may go.
ValuesFit ==
    \A a \in Answered :
        /\ Objective(a.q, a.answer.pairs) <= IntMax
        /\ Objective(a.q, {}) <= IntMax
        /\ CostOf(a.q, a.q.eligible) <= IntMax

\* A task is said to lack a capable, available, reachable, timely or sufficient
\* resource exactly when no plan at all could cover it.
ReasonsSound ==
    \A a \in Answered : \A t \in Uncovered(a.q, a.answer) : Solved(a.answer) =>
        (Reason(a.q, a.answer, t)
             \in {"compatibility", "availability", "route", "deadline", "capacity"}
         <=> \A pairs \in Plans([a.q EXCEPT !.locks = {}]) : t \notin Covered(pairs))

\* The explanation and the solver's binding constraints tell one story: a
\* contention names resources that do serve another task, a lack is also
\* binding, and nothing binds only where resources lie idle.
EvidenceAgrees ==
    \A a \in Answered : \A t \in Uncovered(a.q, a.answer) : Solved(a.answer) =>
        LET reason == Reason(a.q, a.answer, t)
            bindings == Bindings(a.q, a.answer, t)
            blamed == Blamed(a.q, a.answer, t)
        IN  /\ reason = "contention" =>
                  blamed # {} /\ blamed \subseteq ServersElsewhere(a.q, a.answer, t)
            /\ reason \in {"availability", "route", "deadline", "capacity", "contention"} =>
                  reason \in bindings
            /\ bindings = {} => reason \in {"feasible-incumbent", "objective-tradeoff"}

\* A best plan leaves idle resources only where sending them costs at least the
\* penalty, and the explanation finds that cost: it never has to say that they
\* would improve the objective.
TradeoffReal ==
    \A a \in Answered : \A t \in Uncovered(a.q, a.answer) :
        Reason(a.q, a.answer, t) = "objective-tradeoff" =>
        LET idle == IdleFor(a.q, a.answer, t)
            covers == {some \in SUBSET idle : CapacityOf(a.q, some) >= a.q.tasks[t].need}
        IN  /\ Comparison(a.q, t, idle) # "travel-cost-lower"
            /\ MinimumCoverCost(a.q, t, idle) =
                  Min({CostOf(a.q, some \X {t}) : some \in covers})

\* An override pins its assignment on the input the plan before it was solved
\* for, so against a best plan it can only cost.
OverrideCosts ==
    \A i \in DOMAIN runs : runs[i].override =>
        /\ runs[i].input.locks \subseteq runs[i].answer.pairs
        /\ runs[i - 1].answer.status = "OPTIMAL" =>
              Objective(Request(runs[i].input), runs[i].answer.pairs)
                  >= Objective(Request(runs[i - 1].input), runs[i - 1].answer.pairs)

\* An exercise that passed validation never strands its operator at the last
\* checkpoint: whatever was decided before, some bus can still be locked.
OverrideNeverStuck ==
    session.checkpoint = FinalCheckpoint /\ session.objective # NoObjective =>
        \E r \in Buses(definition) :
            Accepted(Request(InputOf(session, ShelterLock(r))))

\* The changes stored with a run turn the run before it into this one: nothing
\* an operator sees differ goes unreported, across checkpoints, objectives,
\* failed searches and overrides.
ChangesReproduce ==
    \A i \in DOMAIN runs \ {1} :
        LET before == Seen(runs[i - 1].input, runs[i - 1].answer)
            after == Seen(runs[i].input, runs[i].answer)
            c == runs[i].changes
            moved == {m.resource : m \in c.moved}
        IN  /\ after.objective \in
                  (IF c.objective = {} THEN {before.objective} ELSE c.objective)
            /\ DOMAIN after.penalty = (DOMAIN before.penalty \ c.removed) \cup c.added
            /\ \A t \in DOMAIN after.penalty \cap DOMAIN before.penalty :
                  after.penalty[t] = before.penalty[t]
                  \/ [task |-> t, now |-> after.penalty[t]] \in c.repriced
            /\ after.closed = (before.closed \ c.reopened) \cup c.closed
            /\ after.pairs = {p \in before.pairs : p[1] \notin moved}
                    \cup UNION {{m.resource} \X m.now : m \in c.moved}

-----------------------------------------------------------------------------
(* Refinement.                                                             *)

Workflow == INSTANCE ExerciseWorkflow WITH plans <- AbstractRuns

\* Seen without its data, planning is the workflow the sessions promise: the
\* stored input stands still exactly when objective and road state do, an
\* override stored is a solution, and the sandbox leaves no trace.
ImplementsWorkflow == Workflow!Spec

\* So what ExerciseWorkflow promises holds with the computed plans too: what is
\* approved is the validated override (approve-plan); each checkpoint was left on
\* a solved plan, and no later plan rewrites which one cleared the corridor
\* (advance); the two notions of a latest plan agree where both are used
\* (latest_plan_run); a plan that may be overridden fails on its input only where
\* the operator changed the objective (apply-override); and commands are accepted
\* where they are offered (allowed_actions).
WorkflowSound ==
    /\ Workflow!TypeOK
    /\ Workflow!ApprovedPlanIsFinal
    /\ Workflow!CheckpointsEarned
    /\ Workflow!LatestPlanIsCurrent
    /\ Workflow!PlanningInputHolds
    /\ Workflow!OffersMatchRules

\* And from a validated override only its approval leads on.
OverrideFreezesInputs == Workflow!OverrideFreezesInputs

\* Validation lets through what the solver can answer: locks that some plan
\* honours, and no sum its integers cannot hold (validate_request).
ValidationSound == LocksHeard /\ ValuesFit

\* What an operator is told of a plan is true of it: why a task is uncovered,
\* what binds, what a tradeoff costs and what changed since the last run.
ExplanationsTrue == ReasonsSound /\ EvidenceAgrees /\ TradeoffReal /\ ChangesReproduce

\* There is always an override to choose at the last checkpoint, and it keeps
\* its lock at a cost against the plan it overrides.
OverrideSound == OverrideNeverStuck /\ OverrideCosts
=============================================================================
