---------------------------- MODULE ExerciseRules ----------------------------
(***************************************************************************)
(* The rules of one decision-exercise session, as pure operators: which    *)
(* commands the service accepts on a session row and its plan runs, what   *)
(* an accepted command writes, and what a projection of the session shows. *)
(* Nothing here knows of transactions; ExerciseWorkflow applies the rules  *)
(* atomically and ExerciseSessions applies them inside the code's          *)
(* transactions.                                                           *)
(*                                                                         *)
(* Abstracted data: a plan run keeps only what later commands look at; the *)
(* display name and the callsign are left out because nothing reads them   *)
(* back into a decision.  Definition digests are constant while one        *)
(* definition is deployed, so the checks against them never refuse.        *)
(*                                                                         *)
(* An operator marked "Faulty" is a deliberately broken variant of the     *)
(* definition that follows it, kept to show that the properties notice.    *)
(***************************************************************************)
EXTENDS Integers, Sequences

CONSTANTS
    Objectives,   \* the objective presets of the exercise definition
    NoObjective   \* the NULL objective of a new session

\* The definition must weigh all approved presets.
ASSUME ObjectiveAssumption == NoObjective \notin Objectives /\ Objectives # {}

-----------------------------------------------------------------------------
(* Commands and their payloads, named as allowedActions names them.        *)

PlanCommands == {"generate-plan", "apply-override"}

Commands == PlanCommands \cup {"select-objective", "advance", "approve-plan"}

\* "unsupported" stands for any payload the handler calls command_invalid: an
\* objective outside the definition, an override that is not an
\* evacuation bus to shelter transport, a blank note.
PayloadsOf(cmd) ==
    CASE cmd = "select-objective" -> Objectives \cup {"unsupported"}
      [] cmd \in {"apply-override", "approve-plan"} -> {"well-formed", "unsupported"}
      [] OTHER -> {"well-formed"}

Payloads == Objectives \cup {"well-formed", "unsupported"}

-----------------------------------------------------------------------------
(* Rows.                                                                   *)

FinalCheckpoint == 2

\* A session row.  The column check also admits the status "expired", which
\* no command ever stores.  Version 0 stands for the absent row.
Session ==
    [ version    : Nat,
      checkpoint : 0 .. FinalCheckpoint,
      objective  : Objectives \cup {NoObjective},
      status     : {"active", "completed", "expired"},
      corridor   : BOOLEAN,     \* consequences.corridorCleared
      lastPlan   : Nat ]        \* consequences.lastPlanId, 0 when absent

NoSession ==
    [ version |-> 0, checkpoint |-> 0, objective |-> NoObjective,
      status |-> "active", corridor |-> FALSE, lastPlan |-> 0 ]

NewSession == [NoSession EXCEPT !.version = 1]

\* A plan run: the input it was solved for, whether the solver's status was
\* FEASIBLE or OPTIMAL, whether it sends a crew to clear-primary-corridor,
\* and whether it carries operatorOverride.
Plan ==
    [ checkpoint : 0 .. FinalCheckpoint,
      objective  : Objectives,
      corridor   : BOOLEAN,
      solved     : BOOLEAN,
      clears     : BOOLEAN,
      override   : BOOLEAN ]

\* The solver may answer anything a two-second search can: no solution, or a
\* solution; only checkpoint 1 has the corridor task.  A command that does not
\* plan ignores the outcome.
Outcome == [solved : BOOLEAN, clears : BOOLEAN]

Unsolved == [solved |-> FALSE, clears |-> FALSE]

OutcomesOf(cmd, s) ==
    IF cmd \in PlanCommands
    THEN {o \in Outcome : o.clears => o.solved /\ s.checkpoint = 1}
    ELSE {Unsolved}

-----------------------------------------------------------------------------
(* Queries on the plan runs, in insertion order; 0 means no such run.      *)

LastIndex(indices) ==
    IF indices = {} THEN 0
    ELSE CHOOSE i \in indices : \A j \in indices : j <= i

LatestAt(plans, c) == LastIndex({i \in 1 .. Len(plans) : plans[i].checkpoint = c})

LatestSolved(plans) == LastIndex({i \in 1 .. Len(plans) : plans[i].solved})

LatestOverridden(plans) == plans # <<>> /\ plans[Len(plans)].override

Actionable(plan, s) == plan.solved /\ plan.objective = s.objective

-----------------------------------------------------------------------------
(* What each handler refuses on a locked, current, active session, in the  *)
(* order it looks; "none" when it goes on to write.                        *)

SelectRefusal(s, plans, payload) ==
    IF payload \notin Objectives THEN "command_invalid"
    ELSE IF LatestOverridden(plans) THEN "transition_invalid"
    ELSE "none"

AdvanceRefusal(s, plans) ==
    LET i == LatestAt(plans, s.checkpoint) IN
    IF s.checkpoint < FinalCheckpoint /\ i # 0 /\ Actionable(plans[i], s)
    THEN "none"
    ELSE "transition_invalid"

\* Faulty: a validated override may be planned over.
GenerateRefusalUnfrozen(s, plans) ==
    IF s.objective = NoObjective THEN "transition_invalid" ELSE "none"

GenerateRefusal(s, plans) ==
    LET i == LatestAt(plans, FinalCheckpoint) IN
    IF \/ s.objective = NoObjective
       \/ s.checkpoint = FinalCheckpoint /\ i # 0 /\ plans[i].override
    THEN "transition_invalid"
    ELSE "none"

OverrideRefusal(s, plans, payload, outcome) ==
    LET i == LatestAt(plans, FinalCheckpoint) IN
    IF s.checkpoint # FinalCheckpoint THEN "transition_invalid"
    ELSE IF payload = "unsupported" THEN "command_invalid"
    ELSE IF s.objective = NoObjective \/ i = 0 THEN "transition_invalid"
    ELSE IF plans[i].override \/ ~plans[i].solved THEN "transition_invalid"
    ELSE IF plans[i].objective # s.objective \/ plans[i].corridor # s.corridor
         THEN "version_conflict"          \* "checkpoint planning input changed"
    ELSE IF ~outcome.solved THEN "command_invalid"
    ELSE "none"

ApproveRefusal(s, plans, payload) ==
    LET i == LatestAt(plans, FinalCheckpoint) IN
    IF s.checkpoint # FinalCheckpoint THEN "transition_invalid"
    ELSE IF payload = "unsupported" THEN "command_invalid"
    ELSE IF i # 0 /\ plans[i].objective = s.objective /\ plans[i].override
         THEN "none"
    ELSE "transition_invalid"

Refusal(cmd, s, plans, payload, outcome) ==
    CASE cmd = "select-objective" -> SelectRefusal(s, plans, payload)
      [] cmd = "advance"          -> AdvanceRefusal(s, plans)
      [] cmd = "generate-plan"    -> GenerateRefusal(s, plans)
      [] cmd = "apply-override"   -> OverrideRefusal(s, plans, payload, outcome)
      [] cmd = "approve-plan"     -> ApproveRefusal(s, plans, payload)

-----------------------------------------------------------------------------
(* What an accepted command writes.                                        *)

Advanced(s, plans) ==
    [s EXCEPT !.version = @ + 1,
              !.checkpoint = @ + 1,
              !.corridor = IF s.checkpoint = 1
                           THEN plans[LatestAt(plans, 1)].clears
                           ELSE @]

SessionAfter(cmd, s, plans, payload) ==
    CASE cmd = "select-objective" ->
             [s EXCEPT !.version = @ + 1, !.objective = payload]
      [] cmd = "advance" -> Advanced(s, plans)
      [] cmd = "generate-plan" -> [s EXCEPT !.version = @ + 1]
      [] cmd = "apply-override" ->
             [s EXCEPT !.version = @ + 1, !.lastPlan = Len(plans) + 1]
      [] cmd = "approve-plan" ->
             [s EXCEPT !.version = @ + 1, !.status = "completed"]

PlanFor(cmd, s, outcome) ==
    [ checkpoint |-> s.checkpoint, objective |-> s.objective,
      corridor |-> s.corridor, solved |-> outcome.solved,
      clears |-> outcome.clears, override |-> (cmd = "apply-override") ]

PlansAfter(cmd, s, plans, outcome) ==
    IF cmd \in PlanCommands THEN Append(plans, PlanFor(cmd, s, outcome)) ELSE plans

-----------------------------------------------------------------------------
(* The projection every response and every GET carries.                    *)

\* Faulty: offers to act on a plan run without a solution.
AllowedActionsOnAnyPlan(s, plans) ==
    LET current == /\ plans # <<>>
                   /\ plans[Len(plans)].checkpoint = s.checkpoint
                   /\ plans[Len(plans)].objective = s.objective
    IN  CASE s.status = "expired"   -> {"start-new-exercise"}
          [] s.status = "completed" -> {"view-debrief"}
          [] s.status = "active" /\ s.objective = NoObjective -> {"select-objective"}
          [] OTHER ->
                IF ~current THEN {"select-objective", "generate-plan"}
                ELSE IF s.checkpoint < FinalCheckpoint
                     THEN {"select-objective", "advance"}
                ELSE IF LatestOverridden(plans) THEN {"approve-plan"}
                ELSE {"select-objective", "apply-override"}

AllowedActions(s, plans) ==
    LET current == /\ plans # <<>>
                   /\ plans[Len(plans)].checkpoint = s.checkpoint
                   /\ Actionable(plans[Len(plans)], s)
    IN  CASE s.status = "expired"   -> {"start-new-exercise"}
          [] s.status = "completed" -> {"view-debrief"}
          [] s.status = "active" /\ s.objective = NoObjective -> {"select-objective"}
          [] OTHER ->
                IF ~current THEN {"select-objective", "generate-plan"}
                ELSE IF s.checkpoint < FinalCheckpoint
                     THEN {"select-objective", "advance"}
                ELSE IF LatestOverridden(plans) THEN {"approve-plan"}
                ELSE {"select-objective", "apply-override"}

Projected(s, late) ==
    IF s.status = "active" /\ late THEN [s EXCEPT !.status = "expired"] ELSE s

Projection(s, plans, late) ==
    [ session |-> Projected(s, late),
      actions |-> AllowedActions(Projected(s, late), plans),
      plan    |-> LatestSolved(plans) ]

\* The allowedActions values a stored response may show for a stored state.
ActionOptions(s) ==
    CASE s.status = "expired"   -> {{"start-new-exercise"}}
      [] s.status = "completed" -> {{"view-debrief"}}
      [] s.status = "active" /\ s.objective = NoObjective -> {{"select-objective"}}
      [] s.status = "active" /\ s.objective # NoObjective /\ s.checkpoint < FinalCheckpoint ->
            {{"select-objective", "advance"}, {"select-objective", "generate-plan"}}
      [] OTHER ->
            {{"select-objective", "generate-plan"}, {"approve-plan"},
             {"select-objective", "apply-override"}}
=============================================================================
