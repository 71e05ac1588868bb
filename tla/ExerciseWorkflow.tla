--------------------------- MODULE ExerciseWorkflow ---------------------------
(***************************************************************************)
(* What the exercise service promises its operator: the session moves only *)
(* by whole commands, each accepted by the rules on the state it found and *)
(* applied at once.  ExerciseSessions implements this specification with   *)
(* concurrent transactions.                                                *)
(***************************************************************************)
EXTENDS ExerciseRules

CONSTANT MaxVersion   \* bound: no command is issued on a version this high

VARIABLES session, plans

vars == <<session, plans>>

TypeOK ==
    /\ session \in Session
    /\ plans \in Seq(Plan)

Init ==
    /\ session = NoSession
    /\ plans = <<>>

Create ==
    /\ session = NoSession
    /\ session' = NewSession
    /\ UNCHANGED plans

Command(cmd, payload, outcome) ==
    /\ session.version \in 1 .. MaxVersion - 1
    /\ session.status = "active"
    /\ Refusal(cmd, session, plans, payload, outcome) = "none"
    /\ session' = SessionAfter(cmd, session, plans, payload)
    /\ plans' = PlansAfter(cmd, session, plans, outcome)

Next ==
    \/ Create
    \/ \E cmd \in Commands :
          \E payload \in PayloadsOf(cmd), outcome \in OutcomesOf(cmd, session) :
             Command(cmd, payload, outcome)

Spec == Init /\ [][Next]_vars

-----------------------------------------------------------------------------
(* Safety.                                                                 *)

\* A completed session was approved on the plan the debrief shows as final:
\* the last plan run is the validated override, solved at the last
\* checkpoint for the objective and the road state the session still has.
ApprovedPlanIsFinal ==
    session.status = "completed" =>
        /\ session.checkpoint = FinalCheckpoint
        /\ plans # <<>>
        /\ session.lastPlan = Len(plans)
        /\ LET final == plans[Len(plans)] IN
              /\ final.override
              /\ final.solved
              /\ final.checkpoint = FinalCheckpoint
              /\ final.objective = session.objective
              /\ final.corridor = session.corridor

\* Every checkpoint the session has left was left on a solved plan, and the
\* corridor is recorded as cleared exactly when the plan accepted at the second
\* checkpoint sends a crew to clear it: no later plan rewrites that history.
CheckpointsEarned ==
    /\ \A c \in 0 .. session.checkpoint - 1 :
          LatestAt(plans, c) # 0 /\ plans[LatestAt(plans, c)].solved
    /\ session.corridor <=>
          /\ session.checkpoint = FinalCheckpoint
          /\ plans[LatestAt(plans, 1)].clears

\* The handlers look at the latest plan of the current checkpoint, the
\* projection at the latest plan of all: whenever the former exists they are
\* the same run.
LatestPlanIsCurrent ==
    LatestAt(plans, session.checkpoint) \in {0, Len(plans)}

\* The planning input of a plan that could still be overridden has not moved
\* under it: "checkpoint planning input changed" can only mean that the
\* objective was changed by the operator.
PlanningInputHolds ==
    \A payload \in PayloadsOf("apply-override"), outcome \in Outcome :
        Refusal("apply-override", session, plans, payload, outcome) = "version_conflict"
            => plans[LatestAt(plans, FinalCheckpoint)].objective # session.objective

\* An action the projection offers is one the service accepts on that state
\* (for some payload and solver outcome), and a command that commits the
\* operator to a plan is accepted only where it is offered.
OffersMatchRules ==
    LET accepted(cmd) ==
            \E payload \in PayloadsOf(cmd), outcome \in OutcomesOf(cmd, session) :
                Refusal(cmd, session, plans, payload, outcome) = "none"
    IN  session.version > 0 /\ session.status = "active" =>
            /\ \A cmd \in AllowedActions(session, plans) : accepted(cmd)
            /\ \A cmd \in {"advance", "apply-override", "approve-plan"} :
                  accepted(cmd) => cmd \in AllowedActions(session, plans)

-----------------------------------------------------------------------------
(* Action properties.                                                      *)

\* From the moment an override is validated, the only way on is approving it:
\* no step replans, changes the objective or the road state under it.
OverrideFreezesInputs ==
    [][LatestOverridden(plans) =>
          /\ plans' = plans
          /\ session'.objective = session.objective
          /\ session'.corridor = session.corridor
          /\ session'.checkpoint = session.checkpoint]_vars
=============================================================================
