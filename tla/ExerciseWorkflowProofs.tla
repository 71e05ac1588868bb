------------------------ MODULE ExerciseWorkflowProofs ------------------------
(***************************************************************************)
(* The exercise workflow keeps its promises, for every set of objectives,  *)
(* every outcome of the solver and every number of commands.               *)
(***************************************************************************)
EXTENDS ExerciseWorkflow, TLAPS, WellFoundedInduction

-----------------------------------------------------------------------------
(* What the operators of ExerciseRules return.                             *)

\* A nonempty set of positions has a last one, and LastIndex picks it.
LEMMA LastIndexIsLast ==
    ASSUME NEW n \in Nat, NEW S, S \subseteq 1 .. n
    PROVE  /\ S = {} => LastIndex(S) = 0
           /\ S # {} => LastIndex(S) \in S /\ \A j \in S : j <= LastIndex(S)
<1> DEFINE R == OpToRel(<, Nat)
           D == {n - i : i \in S}
<1>1. CASE S = {}
  BY <1>1 DEF LastIndex
<1>2. CASE S # {}
  <2>1. D \subseteq Nat /\ D # {}
    BY <1>2
  <2>2. IsWellFoundedOn(R, Nat)
    BY NatLessThanWellFounded
  <2>3. PICK d \in D : \A e \in D : ~(<<e, d>> \in R)
    <3> HIDE DEF D, R
    <3> QED BY <2>1, <2>2, WFMin
  <2>4. \A e \in D : ~(e < d)
    BY <2>1, <2>3 DEF OpToRel
  <2>5. PICK i \in S : d = n - i
    OBVIOUS
  <2>6. ASSUME NEW j \in S PROVE j <= i
    <3>1. n - j \in D
      OBVIOUS
    <3>2. ~(n - j < n - i)
      BY <3>1, <2>4, <2>5
    <3>3. j \in Nat /\ i \in Nat
      OBVIOUS
    <3>4. QED
      BY <3>2, <3>3
  <2>7. QED
    BY <1>2, <2>5, <2>6 DEF LastIndex
<1>3. QED
  BY <1>1, <1>2

\* The latest plan run of a checkpoint, when there is one, is a run of that
\* checkpoint and no later run is.
LEMMA LatestAtIsLatest ==
    ASSUME NEW runs \in Seq(Plan), NEW c
    PROVE  LET i == LatestAt(runs, c) IN
           /\ i \in 0 .. Len(runs)
           /\ i # 0 => runs[i].checkpoint = c
           /\ \A j \in 1 .. Len(runs) : runs[j].checkpoint = c => i # 0 /\ j <= i
<1> DEFINE S == {i \in 1 .. Len(runs) : runs[i].checkpoint = c}
<1>1. Len(runs) \in Nat /\ S \subseteq 1 .. Len(runs)
  OBVIOUS
<1>2. /\ S = {} => LastIndex(S) = 0
      /\ S # {} => LastIndex(S) \in S /\ \A j \in S : j <= LastIndex(S)
  <2> HIDE DEF S
  <2> QED BY <1>1, LastIndexIsLast
<1>3. LatestAt(runs, c) = LastIndex(S)
  BY DEF LatestAt
<1>4. QED
  BY <1>1, <1>2, <1>3

\* The latest solved plan is an index or zero.
LEMMA LatestSolvedType ==
    ASSUME NEW runs \in Seq(Plan)
    PROVE  LatestSolved(runs) \in Nat
<1> DEFINE S == {i \in 1 .. Len(runs) : runs[i].solved}
<1>1. Len(runs) \in Nat /\ S \subseteq 1 .. Len(runs)
  OBVIOUS
<1>2. /\ S = {} => LastIndex(S) = 0
      /\ S # {} => LastIndex(S) \in S
  <2> HIDE DEF S
  <2> QED BY <1>1, LastIndexIsLast
<1>3. LastIndex(S) \in Nat
  BY <1>1, <1>2
<1>4. QED
  BY <1>3 DEF LatestSolved

\* An accepted command leaves a well-formed session row, one version on.
LEMMA SessionAfterType ==
    ASSUME NEW s \in Session, NEW runs \in Seq(Plan), NEW cmd \in Commands,
           NEW payload, NEW outcome,
           Refusal(cmd, s, runs, payload, outcome) = "none"
    PROVE  /\ SessionAfter(cmd, s, runs, payload) \in Session
           /\ SessionAfter(cmd, s, runs, payload).version = s.version + 1
<1> DEFINE v == s.version + 1
           after == SessionAfter(cmd, s, runs, payload)
<1>1. v \in Nat
  BY DEF Session
<1> HIDE DEF v
<1> SUFFICES after \in Session /\ after.version = v
  BY DEF v
<1>2. CASE cmd = "select-objective"
  <2>1. Refusal(cmd, s, runs, payload, outcome) = SelectRefusal(s, runs, payload)
    BY <1>2 DEF Refusal
  <2>2. payload \in Objectives
    BY <2>1 DEF SelectRefusal
  <2>3. after = [s EXCEPT !.version = v, !.objective = payload]
    BY <1>2 DEF SessionAfter, v
  <2>4. QED
    BY <1>1, <2>2, <2>3 DEF Session
<1>3. CASE cmd = "advance"
  <2>1. Refusal(cmd, s, runs, payload, outcome) = AdvanceRefusal(s, runs)
    BY <1>3 DEF Refusal
  <2>2. LatestAt(runs, s.checkpoint) # 0 /\ s.checkpoint < 2
    BY <2>1 DEF AdvanceRefusal, FinalCheckpoint
  <2>3. s.checkpoint = 1 => LatestAt(runs, 1) \in 1 .. Len(runs)
    BY <2>2, LatestAtIsLatest
  <2>4. s.checkpoint = 1 => runs[LatestAt(runs, 1)] \in Plan
    BY <2>3
  <2> DEFINE corridor == IF s.checkpoint = 1 THEN runs[LatestAt(runs, 1)].clears
                                             ELSE s.corridor
             checkpoint == s.checkpoint + 1
  <2>5. corridor \in BOOLEAN
    <3>1. CASE s.checkpoint = 1
      BY <3>1, <2>4 DEF Plan
    <3>2. CASE s.checkpoint # 1
      BY <3>2 DEF Session
    <3>3. QED
      BY <3>1, <3>2
  <2>6. checkpoint \in 0 .. FinalCheckpoint
    BY <2>2 DEF Session, FinalCheckpoint
  <2>7. after = [s EXCEPT !.version = v, !.checkpoint = checkpoint, !.corridor = corridor]
    BY <1>3 DEF SessionAfter, Advanced, v
  <2> HIDE DEF corridor, checkpoint
  <2>8. QED
    BY <1>1, <2>5, <2>6, <2>7 DEF Session
<1>4. CASE cmd = "generate-plan"
  <2>1. after = [s EXCEPT !.version = v]
    BY <1>4 DEF SessionAfter, v
  <2>2. QED
    BY <1>1, <2>1 DEF Session
<1>5. CASE cmd = "apply-override"
  <2> DEFINE n == Len(runs) + 1
  <2>1. n \in Nat
    OBVIOUS
  <2>2. after = [s EXCEPT !.version = v, !.lastPlan = n]
    BY <1>5 DEF SessionAfter, v
  <2> HIDE DEF n
  <2>3. QED
    BY <1>1, <2>1, <2>2 DEF Session
<1>6. CASE cmd = "approve-plan"
  <2>1. after = [s EXCEPT !.version = v, !.status = "completed"]
    BY <1>6 DEF SessionAfter, v
  <2>2. QED
    BY <1>1, <2>1 DEF Session
<1>7. QED
  BY <1>2, <1>3, <1>4, <1>5, <1>6 DEF Commands, PlanCommands

\* An accepted planning command stores a plan for a selected objective.
LEMMA PlansAfterType ==
    ASSUME NEW s \in Session, NEW runs \in Seq(Plan), NEW cmd \in Commands,
           NEW payload, NEW outcome \in Outcome,
           Refusal(cmd, s, runs, payload, outcome) = "none"
    PROVE  PlansAfter(cmd, s, runs, outcome) \in Seq(Plan)
<1>1. CASE cmd \in PlanCommands
  <2>1. s.objective # NoObjective
    BY <1>1 DEF PlanCommands, Refusal, GenerateRefusal, OverrideRefusal
  <2>2. PlanFor(cmd, s, outcome) \in Plan
    BY <2>1 DEF PlanFor, Plan, Session, Outcome
  <2>3. QED
    BY <1>1, <2>2 DEF PlansAfter
<1>2. CASE cmd \notin PlanCommands
  BY <1>2 DEF PlansAfter
<1>3. QED
  BY <1>1, <1>2

-----------------------------------------------------------------------------
(* The workflow.                                                           *)

\* What the workflow promises of a state.
WorkflowSound ==
    /\ TypeOK
    /\ ApprovedPlanIsFinal
    /\ CheckpointsEarned
    /\ LatestPlanIsCurrent
    /\ PlanningInputHolds
    /\ OffersMatchRules

\* Plans are stored in the order of the checkpoints.
InOrder ==
    \A i \in 1 .. Len(plans) :
        /\ plans[i].checkpoint <= session.checkpoint
        /\ \A j \in 1 .. i : plans[j].checkpoint <= plans[i].checkpoint

\* The plans of a checkpoint were all solved for the road state it still has.
CorridorHolds ==
    \A i \in 1 .. Len(plans) :
        plans[i].checkpoint = session.checkpoint => plans[i].corridor = session.corridor

\* An override is the last plan, a solution at the last checkpoint, and for the
\* objective and the road state the session still has.
OverrideIsLast ==
    \A i \in 1 .. Len(plans) : plans[i].override =>
        /\ i = Len(plans) /\ session.lastPlan = i
        /\ plans[i].checkpoint = FinalCheckpoint /\ session.checkpoint = FinalCheckpoint
        /\ plans[i].solved
        /\ plans[i].objective = session.objective
        /\ plans[i].corridor = session.corridor

\* The inductive invariant.
WInv ==
    /\ TypeOK
    /\ session.version = 0 => session = NoSession /\ plans = <<>>
    /\ session.status \in {"active", "completed"}
    /\ session.status = "completed" => LatestOverridden(plans)
    /\ InOrder
    /\ CorridorHolds
    /\ OverrideIsLast
    /\ CheckpointsEarned

\* What the types say of a session and of each plan.
LEMMA RowsAre ==
    ASSUME TypeOK
    PROVE  /\ session.checkpoint \in 0 .. 2 /\ session.version \in Nat
           /\ session.objective \in Objectives \cup {NoObjective}
           /\ session.corridor \in BOOLEAN
           /\ Len(plans) \in Nat /\ (plans # <<>> => Len(plans) \in 1 .. Len(plans))
           /\ \A i \in 1 .. Len(plans) :
                 /\ plans[i] \in Plan /\ plans[i].checkpoint \in 0 .. 2
                 /\ plans[i].objective \in Objectives /\ plans[i].objective # NoObjective
<1>1. session \in Session /\ plans \in Seq(Plan)
  BY DEF TypeOK
<1>2. Len(plans) \in Nat /\ (plans # <<>> => Len(plans) \in 1 .. Len(plans))
  BY <1>1
<1>3. \A i \in 1 .. Len(plans) : plans[i] \in Plan
  BY <1>1
<1>4. \A p \in Plan : /\ p.checkpoint \in 0 .. 2 /\ p.objective \in Objectives
                      /\ p.objective # NoObjective
  BY ObjectiveAssumption DEF Plan, FinalCheckpoint
<1>5. QED
  BY <1>1, <1>2, <1>3, <1>4 DEF Session, FinalCheckpoint

\* The latest plan of the current checkpoint is the last plan.
LEMMA LatestIsLast ==
    ASSUME TypeOK, InOrder
    PROVE  /\ LatestAt(plans, session.checkpoint) \in {0, Len(plans)}
           /\ plans # <<>> /\ plans[Len(plans)].checkpoint = session.checkpoint
                 => LatestAt(plans, session.checkpoint) = Len(plans)
<1> DEFINE n == Len(plans)
           i == LatestAt(plans, session.checkpoint)
<1>1. /\ i \in 0 .. n /\ (i # 0 => plans[i].checkpoint = session.checkpoint)
      /\ \A j \in 1 .. n : plans[j].checkpoint = session.checkpoint => i # 0 /\ j <= i
  BY LatestAtIsLatest DEF TypeOK
<1>2. n \in Nat /\ (plans # <<>> => n \in 1 .. n) /\ session.checkpoint \in 0 .. 2
      /\ \A j \in 1 .. n : plans[j].checkpoint \in 0 .. 2
  BY RowsAre
<1>3. i # 0 => plans[n].checkpoint = session.checkpoint
  BY <1>1, <1>2 DEF InOrder
<1> HIDE DEF n, i
<1>4. i # 0 => n \in 1 .. n
  BY <1>1, <1>2
<1>5. i # 0 => i = n
  BY <1>1, <1>2, <1>3, <1>4
<1>6. plans # <<>> /\ plans[n].checkpoint = session.checkpoint => i = n
  BY <1>1, <1>2
<1>7. QED
  BY <1>5, <1>6 DEF n, i

-----------------------------------------------------------------------------
(* The promises follow from the invariant.                                 *)

\* A completed session shows the plan that was approved, solved and overridden.
LEMMA ApprovedFinal == WInv => ApprovedPlanIsFinal
<1> SUFFICES ASSUME WInv, session.status = "completed"
             PROVE  /\ session.checkpoint = FinalCheckpoint
                    /\ plans # <<>>
                    /\ session.lastPlan = Len(plans)
                    /\ LET final == plans[Len(plans)] IN
                          /\ final.override
                          /\ final.solved
                          /\ final.checkpoint = FinalCheckpoint
                          /\ final.objective = session.objective
                          /\ final.corridor = session.corridor
  BY DEF ApprovedPlanIsFinal
<1>1. plans # <<>> /\ plans[Len(plans)].override
  BY DEF WInv, LatestOverridden
<1>2. Len(plans) \in 1 .. Len(plans)
  BY <1>1, RowsAre DEF WInv
<1>3. QED
  BY <1>1, <1>2 DEF WInv, OverrideIsLast

\* A planning input that no longer fits is one of another objective.
LEMMA InputHolds == WInv => PlanningInputHolds
<1> SUFFICES ASSUME WInv, NEW payload \in PayloadsOf("apply-override"), NEW outcome \in Outcome,
                    Refusal("apply-override", session, plans, payload, outcome) = "version_conflict"
             PROVE  plans[LatestAt(plans, FinalCheckpoint)].objective # session.objective
  BY DEF PlanningInputHolds
<1> DEFINE i == LatestAt(plans, FinalCheckpoint)
<1>1. OverrideRefusal(session, plans, payload, outcome) = "version_conflict"
  BY DEF Refusal
<1>2. /\ session.checkpoint = FinalCheckpoint /\ i # 0
      /\ plans[i].objective # session.objective \/ plans[i].corridor # session.corridor
  BY <1>1 DEF OverrideRefusal
<1>3. i \in 0 .. Len(plans) /\ plans[i].checkpoint = FinalCheckpoint
  BY <1>2, LatestAtIsLatest DEF WInv, TypeOK
<1>4. i \in 1 .. Len(plans)
  BY <1>2, <1>3, RowsAre DEF WInv
<1>5. plans[i].corridor = session.corridor
  BY <1>2, <1>3, <1>4 DEF WInv, CorridorHolds
<1>6. QED
  BY <1>2, <1>5

\* What the handlers accept and what the projection offers, side by side.
LEMMA OffersMatch == WInv => OffersMatchRules
<1> DEFINE accepted(cmd) ==
              \E payload \in PayloadsOf(cmd), outcome \in OutcomesOf(cmd, session) :
                 Refusal(cmd, session, plans, payload, outcome) = "none"
           n == Len(plans)
           c == session.checkpoint
           i == LatestAt(plans, c)
           current == plans # <<>> /\ plans[n].checkpoint = c /\ Actionable(plans[n], session)
<1> SUFFICES ASSUME WInv, session.version > 0, session.status = "active"
             PROVE  /\ \A cmd \in AllowedActions(session, plans) : accepted(cmd)
                    /\ \A cmd \in {"advance", "apply-override", "approve-plan"} :
                          accepted(cmd) => cmd \in AllowedActions(session, plans)
  BY DEF OffersMatchRules
<1>1. /\ c \in 0 .. 2 /\ n \in Nat /\ (plans # <<>> => n \in 1 .. n)
      /\ session.objective \in Objectives \cup {NoObjective}
      /\ \A j \in 1 .. n : plans[j].objective # NoObjective
  BY RowsAre DEF WInv
<1>2. i \in {0, n} /\ (current => i = n)
  BY LatestIsLast DEF WInv
<1>3. i # 0 => plans # <<>> /\ plans[n].checkpoint = c
  <2>1. i \in 0 .. n /\ (i # 0 => plans[i].checkpoint = c)
    BY LatestAtIsLatest DEF WInv, TypeOK
  <2>2. plans = <<>> => n = 0
    OBVIOUS
  <2>3. QED
    BY <1>2, <2>1, <2>2
<1>4. c = FinalCheckpoint => LatestAt(plans, FinalCheckpoint) = i
  OBVIOUS
<1>5. LatestOverridden(plans) =>
         /\ plans # <<>> /\ n \in 1 .. n /\ plans[n].override /\ current
         /\ c = FinalCheckpoint /\ plans[n].objective = session.objective
  BY <1>1 DEF LatestOverridden, WInv, OverrideIsLast, Actionable
<1>6. current => /\ n \in 1 .. n /\ n # 0 /\ i # 0 /\ session.objective # NoObjective
                 /\ plans[n].solved /\ plans[n].objective = session.objective
  BY <1>1, <1>2 DEF Actionable
<1>7. AllowedActions(session, plans) =
         IF session.objective = NoObjective THEN {"select-objective"}
         ELSE IF ~current THEN {"select-objective", "generate-plan"}
         ELSE IF c < FinalCheckpoint THEN {"select-objective", "advance"}
         ELSE IF LatestOverridden(plans) THEN {"approve-plan"}
         ELSE {"select-objective", "apply-override"}
  BY DEF AllowedActions
<1>8. Unsolved \in OutcomesOf("select-objective", session)
      /\ Unsolved \in OutcomesOf("advance", session)
      /\ Unsolved \in OutcomesOf("approve-plan", session)
      /\ Unsolved \in OutcomesOf("generate-plan", session)
      /\ [solved |-> TRUE, clears |-> FALSE] \in OutcomesOf("apply-override", session)
  BY DEF OutcomesOf, PlanCommands, Unsolved, Outcome
<1>9. accepted("select-objective") <=> ~LatestOverridden(plans)
  <2>1. PICK o : o \in Objectives
    BY ObjectiveAssumption
  <2>2. o \in PayloadsOf("select-objective")
    BY <2>1 DEF PayloadsOf
  <2>3. \A outcome : Refusal("select-objective", session, plans, o, outcome) = "none"
                        <=> ~LatestOverridden(plans)
    BY <2>1 DEF Refusal, SelectRefusal
  <2>4. \A payload, outcome :
           Refusal("select-objective", session, plans, payload, outcome) = "none"
              => ~LatestOverridden(plans)
    BY DEF Refusal, SelectRefusal
  <2>5. QED
    BY <1>8, <2>2, <2>3, <2>4
<1>10. accepted("advance") <=> c < FinalCheckpoint /\ i # 0 /\ Actionable(plans[i], session)
  <2>1. \A payload, outcome : Refusal("advance", session, plans, payload, outcome) = "none"
           <=> c < FinalCheckpoint /\ i # 0 /\ Actionable(plans[i], session)
    BY DEF Refusal, AdvanceRefusal
  <2>2. "well-formed" \in PayloadsOf("advance")
    BY DEF PayloadsOf
  <2>3. QED
    BY <1>8, <2>1, <2>2
<1>11. session.objective # NoObjective /\ ~(c = FinalCheckpoint /\ i # 0 /\ plans[i].override)
          => accepted("generate-plan")
  <2>1. "well-formed" \in PayloadsOf("generate-plan")
    BY DEF PayloadsOf
  <2>2. session.objective # NoObjective /\ ~(c = FinalCheckpoint /\ i # 0 /\ plans[i].override)
          => \A payload, outcome :
                Refusal("generate-plan", session, plans, payload, outcome) = "none"
    BY DEF Refusal, GenerateRefusal
  <2>3. QED
    BY <1>8, <2>1, <2>2
<1>12. accepted("approve-plan") <=>
          /\ c = FinalCheckpoint /\ i # 0
          /\ plans[i].objective = session.objective /\ plans[i].override
  <2>1. "well-formed" \in PayloadsOf("approve-plan")
    BY DEF PayloadsOf
  <2>2. \A outcome : Refusal("approve-plan", session, plans, "well-formed", outcome) = "none" <=>
          /\ c = FinalCheckpoint /\ i # 0
          /\ plans[i].objective = session.objective /\ plans[i].override
    BY DEF Refusal, ApproveRefusal
  <2>3. \A payload, outcome : Refusal("approve-plan", session, plans, payload, outcome) = "none" =>
          /\ c = FinalCheckpoint /\ i # 0
          /\ plans[i].objective = session.objective /\ plans[i].override
    BY DEF Refusal, ApproveRefusal
  <2>4. QED
    BY <1>8, <2>1, <2>2, <2>3
<1>13. i # 0 => plans[n].corridor = session.corridor
  BY <1>1, <1>2, <1>3 DEF WInv, CorridorHolds
<1>14. accepted("apply-override") <=>
          /\ c = FinalCheckpoint /\ session.objective # NoObjective /\ i # 0
          /\ ~plans[i].override /\ plans[i].solved
          /\ plans[i].objective = session.objective
  <2>1. "well-formed" \in PayloadsOf("apply-override")
    BY DEF PayloadsOf
  <2>2. \A payload, outcome :
          Refusal("apply-override", session, plans, payload, outcome) = "none" =>
          /\ c = FinalCheckpoint /\ session.objective # NoObjective /\ i # 0
          /\ ~plans[i].override /\ plans[i].solved
          /\ plans[i].objective = session.objective
    BY DEF Refusal, OverrideRefusal
  <2>3. /\ c = FinalCheckpoint /\ session.objective # NoObjective /\ i # 0
        /\ ~plans[i].override /\ plans[i].solved
        /\ plans[i].objective = session.objective
        => Refusal("apply-override", session, plans, "well-formed",
                   [solved |-> TRUE, clears |-> FALSE]) = "none"
    BY <1>2, <1>13 DEF Refusal, OverrideRefusal
  <2>4. QED
    BY <1>8, <2>1, <2>2, <2>3
<1> HIDE DEF accepted, current, i, n
<1>15. i # 0 => i = n
  BY <1>2
<1>16. c \in 0 .. 2 /\ FinalCheckpoint = 2
  BY <1>1 DEF FinalCheckpoint
<1>17. \A cmd \in AllowedActions(session, plans) : accepted(cmd)
  <2>1. CASE session.objective = NoObjective
    BY <1>5, <1>6, <1>7, <1>9, <2>1
  <2>2. CASE session.objective # NoObjective /\ ~current
    BY <1>5, <1>7, <1>9, <1>11, <2>2, <1>15 DEF LatestOverridden, i, n
  <2>3. CASE session.objective # NoObjective /\ current
    BY <1>2, <1>5, <1>6, <1>7, <1>9, <1>10, <1>12, <1>14, <1>16, <2>3 DEF LatestOverridden, n, current
  <2>4. QED
    BY <2>1, <2>2, <2>3
<1>18. ASSUME NEW cmd \in {"advance", "apply-override", "approve-plan"}, accepted(cmd)
       PROVE  cmd \in AllowedActions(session, plans)
  <2>1. i # 0 => plans[i] = plans[n] /\ (LatestOverridden(plans) <=> plans[i].override)
    BY <1>3, <1>15 DEF LatestOverridden, n
  <2>2. i # 0 /\ Actionable(plans[n], session) => current
    BY <1>3 DEF current, n
  <2>3. CASE cmd = "advance"
    <3>1. c < FinalCheckpoint /\ i # 0 /\ Actionable(plans[n], session)
      BY <1>10, <1>18, <2>1, <2>3
    <3>2. QED
      BY <1>6, <1>7, <2>2, <2>3, <3>1
  <2>4. CASE cmd = "apply-override"
    <3>1. /\ c = FinalCheckpoint /\ session.objective # NoObjective /\ i # 0
          /\ ~plans[i].override /\ plans[i].solved /\ plans[i].objective = session.objective
      BY <1>14, <1>18, <2>4
    <3>2. current /\ ~LatestOverridden(plans)
      BY <2>1, <2>2, <3>1 DEF Actionable
    <3>3. QED
      BY <1>7, <1>16, <2>4, <3>1, <3>2
  <2>5. CASE cmd = "approve-plan"
    <3>1. c = FinalCheckpoint /\ i # 0 /\ plans[i].override
      BY <1>12, <1>18, <2>5
    <3>2. LatestOverridden(plans) /\ current
      BY <1>5, <2>1, <3>1
    <3>3. QED
      BY <1>6, <1>7, <1>16, <2>5, <3>1, <3>2
  <2>6. QED
    BY <2>3, <2>4, <2>5
<1>19. QED
  BY <1>17, <1>18
-----------------------------------------------------------------------------
(* What a command leaves of the row and of the plans before it.            *)

\* The fields of the row after a command, one by one.
LEMMA FieldsAfter ==
    ASSUME NEW s \in Session, NEW ps, NEW cmd \in Commands, NEW payload
    PROVE  LET t == SessionAfter(cmd, s, ps, payload) IN
           /\ t.version = s.version + 1
           /\ t.checkpoint = IF cmd = "advance" THEN s.checkpoint + 1 ELSE s.checkpoint
           /\ t.objective = IF cmd = "select-objective" THEN payload ELSE s.objective
           /\ t.status = IF cmd = "approve-plan" THEN "completed" ELSE s.status
           /\ t.lastPlan = IF cmd = "apply-override" THEN Len(ps) + 1 ELSE s.lastPlan
           /\ t.corridor = IF cmd = "advance" /\ s.checkpoint = 1
                           THEN ps[LatestAt(ps, 1)].clears ELSE s.corridor
<1> DEFINE v == s.version + 1
           d == s.checkpoint + 1
           k == Len(ps) + 1
           r == IF s.checkpoint = 1 THEN ps[LatestAt(ps, 1)].clears ELSE s.corridor
           t == SessionAfter(cmd, s, ps, payload)
<1>1. cmd = "select-objective" => t = [s EXCEPT !.version = v, !.objective = payload]
  BY DEF SessionAfter
<1>2. cmd = "advance" => t = [s EXCEPT !.version = v, !.checkpoint = d, !.corridor = r]
  BY DEF SessionAfter, Advanced
<1>3. cmd = "generate-plan" => t = [s EXCEPT !.version = v]
  BY DEF SessionAfter
<1>4. cmd = "apply-override" => t = [s EXCEPT !.version = v, !.lastPlan = k]
  BY DEF SessionAfter
<1>5. cmd = "approve-plan" => t = [s EXCEPT !.version = v, !.status = "completed"]
  BY DEF SessionAfter
<1>6. cmd \in {"select-objective", "advance", "generate-plan", "apply-override", "approve-plan"}
  BY DEF Commands, PlanCommands
<1> HIDE DEF v, d, k, r, t
<1>7. /\ t.version = v
      /\ t.checkpoint = IF cmd = "advance" THEN d ELSE s.checkpoint
      /\ t.objective = IF cmd = "select-objective" THEN payload ELSE s.objective
      /\ t.status = IF cmd = "approve-plan" THEN "completed" ELSE s.status
      /\ t.lastPlan = IF cmd = "apply-override" THEN k ELSE s.lastPlan
      /\ t.corridor = IF cmd = "advance" THEN r ELSE s.corridor
  BY <1>1, <1>2, <1>3, <1>4, <1>5, <1>6 DEF Session
<1>8. QED
  BY <1>7 DEF v, d, k, r, t

\* A plan appended for another checkpoint leaves the latest plan of this one.
LEMMA LatestSurvives ==
    ASSUME NEW ps \in Seq(Plan), NEW p \in Plan, NEW c, p.checkpoint # c
    PROVE  /\ LatestAt(Append(ps, p), c) = LatestAt(ps, c)
           /\ LatestAt(ps, c) # 0 => Append(ps, p)[LatestAt(ps, c)] = ps[LatestAt(ps, c)]
<1> DEFINE qs == Append(ps, p)
           n == Len(ps)
<1>1. n \in Nat /\ Len(qs) = n + 1 /\ qs[n + 1] = p
      /\ \A i \in 1 .. n : qs[i] = ps[i]
  OBVIOUS
<1>2. {i \in 1 .. Len(qs) : qs[i].checkpoint = c} = {i \in 1 .. Len(ps) : ps[i].checkpoint = c}
  <2> HIDE DEF qs
  <2>1. \A i \in 1 .. Len(qs) : qs[i].checkpoint = c => i \in 1 .. n
    BY <1>1
  <2>2. \A i \in 1 .. n : i \in 1 .. Len(qs)
    BY <1>1
  <2>3. QED
    BY <1>1, <2>1, <2>2
<1>3. LatestAt(qs, c) = LatestAt(ps, c)
  BY <1>2 DEF LatestAt
<1>4. LatestAt(ps, c) \in 0 .. n
  BY LatestAtIsLatest
<1>5. LatestAt(ps, c) # 0 => LatestAt(ps, c) \in 1 .. n
  BY <1>1, <1>4
<1>6. QED
  BY <1>1, <1>3, <1>5

\* Before an override every plan is free of one; after it only the approval is
\* accepted.
LEMMA AfterOverride ==
    ASSUME WInv, session.status = "active", NEW cmd \in Commands, NEW payload, NEW outcome,
           Refusal(cmd, session, plans, payload, outcome) = "none"
    PROVE  /\ LatestOverridden(plans) <=> cmd = "approve-plan"
           /\ cmd # "approve-plan" => \A i \in 1 .. Len(plans) : ~plans[i].override
<1> DEFINE n == Len(plans)
           i == LatestAt(plans, FinalCheckpoint)
<1>1. n \in Nat /\ (plans # <<>> => n \in 1 .. n)
  BY RowsAre DEF WInv
<1>2. /\ session.checkpoint = FinalCheckpoint => i \in {0, n}
      /\ plans # <<>> /\ plans[n].checkpoint = FinalCheckpoint
            /\ session.checkpoint = FinalCheckpoint => i = n
  BY LatestIsLast DEF WInv
<1>3. LatestOverridden(plans) =>
         /\ n \in 1 .. n /\ plans[n].override /\ plans # <<>>
         /\ session.checkpoint = FinalCheckpoint /\ plans[n].checkpoint = FinalCheckpoint
         /\ i = n /\ n # 0
  BY <1>1, <1>2 DEF LatestOverridden, WInv, OverrideIsLast
<1>4. \A j \in 1 .. n : plans[j].override => LatestOverridden(plans)
  BY <1>1 DEF WInv, OverrideIsLast, LatestOverridden
<1>5. CASE cmd = "select-objective"
  <2>1. SelectRefusal(session, plans, payload) = "none"
    BY <1>5 DEF Refusal
  <2>2. ~LatestOverridden(plans)
    BY <2>1 DEF SelectRefusal
  <2>3. QED
    BY <1>4, <1>5, <2>2
<1>6. CASE cmd = "advance"
  <2>1. AdvanceRefusal(session, plans) = "none"
    BY <1>6 DEF Refusal
  <2>2. session.checkpoint # FinalCheckpoint
    BY <2>1 DEF AdvanceRefusal, FinalCheckpoint
  <2>3. QED
    BY <1>3, <1>4, <1>6, <2>2
<1>7. CASE cmd = "generate-plan"
  <2>1. GenerateRefusal(session, plans) = "none"
    BY <1>7 DEF Refusal
  <2>2. ~(session.checkpoint = FinalCheckpoint /\ i # 0 /\ plans[i].override)
    BY <2>1 DEF GenerateRefusal
  <2>3. QED
    BY <1>3, <1>4, <1>7, <2>2
<1>8. CASE cmd = "apply-override"
  <2>1. OverrideRefusal(session, plans, payload, outcome) = "none"
    BY <1>8 DEF Refusal
  <2>2. i # 0 /\ ~plans[i].override
    BY <2>1 DEF OverrideRefusal
  <2>3. QED
    BY <1>3, <1>4, <1>8, <2>2
<1>9. CASE cmd = "approve-plan"
  <2>1. ApproveRefusal(session, plans, payload) = "none"
    BY <1>9 DEF Refusal
  <2>2. session.checkpoint = FinalCheckpoint /\ i # 0 /\ plans[i].override
    BY <2>1 DEF ApproveRefusal
  <2>3. i = n /\ plans # <<>>
    BY <1>2, <2>2
  <2>4. QED
    BY <1>9, <2>2, <2>3 DEF LatestOverridden
<1>10. QED
  BY <1>5, <1>6, <1>7, <1>8, <1>9 DEF Commands, PlanCommands

-----------------------------------------------------------------------------
(* The invariant is kept.                                                  *)

\* A session starts with an empty history.
LEMMA WInitInv == Init => WInv
<1> SUFFICES ASSUME Init PROVE WInv
  OBVIOUS
<1>1. session = NoSession /\ plans = <<>> /\ Len(plans) = 0
  BY DEF Init
<1>2. TypeOK
  BY <1>1 DEF TypeOK, NoSession, Session, FinalCheckpoint
<1>3. InOrder /\ CorridorHolds /\ OverrideIsLast
  BY <1>1 DEF InOrder, CorridorHolds, OverrideIsLast
<1>4. CheckpointsEarned
  BY <1>1 DEF CheckpointsEarned, NoSession, FinalCheckpoint
<1>5. QED
  BY <1>1, <1>2, <1>3, <1>4 DEF WInv, NoSession

\* Creating the session does the same.
LEMMA CreateInv == WInv /\ Create => WInv'
<1> SUFFICES ASSUME WInv, Create PROVE WInv'
  OBVIOUS
<1>1. session' = NewSession /\ plans' = <<>> /\ Len(plans') = 0
  BY DEF Create, WInv, NoSession
<1>2. session' = [version |-> 1, checkpoint |-> 0, objective |-> NoObjective,
                  status |-> "active", corridor |-> FALSE, lastPlan |-> 0]
  BY <1>1 DEF NewSession, NoSession
<1>3. TypeOK'
  BY <1>1, <1>2 DEF TypeOK, Session, FinalCheckpoint
<1>4. InOrder' /\ CorridorHolds' /\ OverrideIsLast'
  BY <1>1 DEF InOrder, CorridorHolds, OverrideIsLast
<1>5. CheckpointsEarned'
  BY <1>2 DEF CheckpointsEarned, FinalCheckpoint
<1>6. QED
  BY <1>2, <1>3, <1>4, <1>5 DEF WInv

\* An accepted command that plans.
LEMMA PlanningKeeps ==
    ASSUME WInv, NEW cmd \in PlanCommands, NEW payload, NEW outcome \in OutcomesOf(cmd, session),
           Command(cmd, payload, outcome)
    PROVE  InOrder' /\ CorridorHolds' /\ OverrideIsLast' /\ CheckpointsEarned'
<1> DEFINE n == Len(plans)
           c == session.checkpoint
           p == PlanFor(cmd, session, outcome)
<1>1. /\ cmd \in Commands /\ outcome \in Outcome /\ session \in Session
      /\ session.status = "active" /\ plans \in Seq(Plan)
      /\ Refusal(cmd, session, plans, payload, outcome) = "none"
      /\ plans' = Append(plans, p)
      /\ cmd # "advance" /\ cmd # "select-objective" /\ cmd # "approve-plan"
  BY DEF Command, PlansAfter, OutcomesOf, Commands, PlanCommands, WInv, TypeOK
<1>2. /\ session'.checkpoint = c /\ session'.objective = session.objective
      /\ session'.corridor = session.corridor
      /\ session'.lastPlan = IF cmd = "apply-override" THEN n + 1 ELSE session.lastPlan
  BY <1>1, FieldsAfter DEF Command
<1>3. p \in Plan
  <2>1. session.objective # NoObjective
    BY <1>1 DEF PlanCommands, Refusal, GenerateRefusal, OverrideRefusal
  <2>2. QED
    BY <1>1, <2>1 DEF PlanFor, Plan, Session, Outcome
<1>4. /\ p.checkpoint = c /\ p.corridor = session.corridor /\ p.objective = session.objective
      /\ p.override = (cmd = "apply-override") /\ p.solved = outcome.solved
  BY DEF PlanFor
<1>5. p.override => p.solved /\ c = FinalCheckpoint
  <2>1. cmd = "apply-override" => OverrideRefusal(session, plans, payload, outcome) = "none"
    BY <1>1 DEF Refusal
  <2>2. cmd = "apply-override" => outcome.solved /\ c = FinalCheckpoint
    BY <2>1 DEF OverrideRefusal
  <2>3. QED
    BY <1>4, <2>2
<1>6. \A i \in 1 .. n : ~plans[i].override
  BY <1>1, AfterOverride
<1>7. /\ n \in Nat /\ Len(plans') = n + 1 /\ plans'[n + 1] = p
      /\ \A i \in 1 .. n : plans'[i] = plans[i] /\ plans[i].checkpoint \in 0 .. 2
  <2> HIDE DEF p
  <2> QED BY <1>1, <1>3, RowsAre DEF WInv
<1>8. c \in 0 .. 2
  BY RowsAre DEF WInv
<1> HIDE DEF p, n
<1>9. \A i \in 1 .. Len(plans') : i \in 1 .. n \/ i = n + 1
  BY <1>7
<1>10. InOrder'
  <2>1. \A i \in 1 .. n : /\ plans[i].checkpoint <= c
                          /\ \A j \in 1 .. i : plans[j].checkpoint <= plans[i].checkpoint
    BY DEF WInv, InOrder, n
  <2> SUFFICES ASSUME NEW i \in 1 .. Len(plans')
               PROVE  /\ plans'[i].checkpoint <= c
                      /\ \A j \in 1 .. i : plans'[j].checkpoint <= plans'[i].checkpoint
    BY <1>2 DEF InOrder
  <2>2. CASE i \in 1 .. n
    <3>1. \A j \in 1 .. i : j \in 1 .. n
      BY <1>7, <2>2
    <3>2. QED
      BY <1>7, <2>1, <2>2, <3>1
  <2>3. CASE i = n + 1
    <3>1. \A j \in 1 .. i : j \in 1 .. n \/ j = n + 1
      BY <1>7, <2>3
    <3>2. plans'[i].checkpoint = c
      BY <1>4, <1>7, <2>3
    <3>3. \A j \in 1 .. i : plans'[j].checkpoint <= c
      BY <1>4, <1>7, <1>8, <2>1, <3>1
    <3>4. QED
      BY <1>8, <3>2, <3>3
  <2>4. QED
    BY <1>9, <2>2, <2>3
<1>11. CorridorHolds'
  <2>1. \A i \in 1 .. n : plans[i].checkpoint = c => plans[i].corridor = session.corridor
    BY DEF WInv, CorridorHolds, n
  <2>2. QED
    BY <1>2, <1>4, <1>7, <1>9, <2>1 DEF CorridorHolds
<1>12. OverrideIsLast'
  BY <1>2, <1>4, <1>5, <1>6, <1>7, <1>9 DEF OverrideIsLast
<1>13. \A d \in 0 .. 2 : d # c =>
          /\ LatestAt(plans', d) = LatestAt(plans, d)
          /\ LatestAt(plans, d) # 0 => plans'[LatestAt(plans, d)] = plans[LatestAt(plans, d)]
  BY <1>1, <1>3, <1>4, LatestSurvives
<1>14. CheckpointsEarned'
  <2>1. \A d \in 0 .. c - 1 : LatestAt(plans, d) # 0 /\ plans[LatestAt(plans, d)].solved
    BY DEF WInv, CheckpointsEarned
  <2>2. \A d \in 0 .. c - 1 : d \in 0 .. 2 /\ d # c
    BY <1>8
  <2>3. \A d \in 0 .. c - 1 : LatestAt(plans', d) # 0 /\ plans'[LatestAt(plans', d)].solved
    BY <1>13, <2>1, <2>2
  <2>4. session.corridor <=> c = FinalCheckpoint /\ plans[LatestAt(plans, 1)].clears
    BY DEF WInv, CheckpointsEarned
  <2>5. c = FinalCheckpoint => 1 \in 0 .. c - 1
    BY DEF FinalCheckpoint
  <2>6. c = FinalCheckpoint => plans'[LatestAt(plans', 1)] = plans[LatestAt(plans, 1)]
    BY <1>13, <2>1, <2>2, <2>5
  <2>7. QED
    BY <1>2, <2>3, <2>4, <2>6 DEF CheckpointsEarned
<1>15. QED
  BY <1>10, <1>11, <1>12, <1>14

\* An accepted command that leaves the plans as they are.
LEMMA OthersKeep ==
    ASSUME WInv, NEW cmd \in Commands \ PlanCommands, NEW payload, NEW outcome,
           Command(cmd, payload, outcome)
    PROVE  InOrder' /\ CorridorHolds' /\ OverrideIsLast' /\ CheckpointsEarned'
<1> DEFINE n == Len(plans)
           c == session.checkpoint
<1>1. /\ cmd \in {"select-objective", "advance", "approve-plan"} /\ session \in Session
      /\ session.status = "active"
      /\ Refusal(cmd, session, plans, payload, outcome) = "none"
      /\ plans' = plans /\ plans \in Seq(Plan)
  BY DEF Command, PlansAfter, Commands, PlanCommands, WInv, TypeOK
<1>2. LET t == session' IN
      /\ t.checkpoint = IF cmd = "advance" THEN c + 1 ELSE c
      /\ t.objective = IF cmd = "select-objective" THEN payload ELSE session.objective
      /\ t.lastPlan = session.lastPlan
      /\ t.corridor = IF cmd = "advance" /\ c = 1
                      THEN plans[LatestAt(plans, 1)].clears ELSE session.corridor
  BY <1>1, FieldsAfter DEF Command
<1>3. c \in 0 .. 2 /\ n \in Nat /\ \A i \in 1 .. n : plans[i].checkpoint \in 0 .. 2
  BY RowsAre DEF WInv
<1>4. CASE cmd # "advance"
  <2>1. InOrder' /\ CorridorHolds' /\ CheckpointsEarned'
    BY <1>1, <1>2, <1>4 DEF WInv, InOrder, CorridorHolds, CheckpointsEarned
  <2>2. cmd = "select-objective" => \A i \in 1 .. n : ~plans[i].override
    BY <1>1, AfterOverride
  <2>3. OverrideIsLast'
    BY <1>1, <1>2, <1>4, <2>2 DEF WInv, OverrideIsLast
  <2>4. QED
    BY <2>1, <2>3
<1>5. CASE cmd = "advance"
  <2>1. AdvanceRefusal(session, plans) = "none"
    BY <1>1, <1>5 DEF Refusal
  <2>2. c < 2 /\ LatestAt(plans, c) # 0 /\ plans[LatestAt(plans, c)].solved
    BY <2>1 DEF AdvanceRefusal, Actionable, FinalCheckpoint
  <2>3. \A i \in 1 .. n : /\ plans[i].checkpoint <= c
                          /\ \A j \in 1 .. i : plans[j].checkpoint <= plans[i].checkpoint
    BY DEF WInv, InOrder
  <2>4. session'.checkpoint = c + 1
    BY <1>2, <1>5
  <2>5. InOrder'
    BY <1>1, <1>3, <2>3, <2>4 DEF InOrder
  <2>6. CorridorHolds'
    BY <1>1, <1>3, <2>3, <2>4 DEF CorridorHolds
  <2>7. \A i \in 1 .. n : ~plans[i].override
    BY <1>1, <1>5, AfterOverride
  <2>8. OverrideIsLast'
    BY <1>1, <2>7 DEF OverrideIsLast
  <2>9. /\ \A d \in 0 .. c - 1 : LatestAt(plans, d) # 0 /\ plans[LatestAt(plans, d)].solved
        /\ session.corridor <=> c = 2 /\ plans[LatestAt(plans, 1)].clears
    BY DEF WInv, CheckpointsEarned, FinalCheckpoint
  <2>10. \A d \in 0 .. (c + 1) - 1 : d \in 0 .. c - 1 \/ d = c
    BY <1>3
  <2>11. session'.corridor <=> c + 1 = 2 /\ plans[LatestAt(plans, 1)].clears
    <3>1. CASE c = 1
      BY <1>2, <1>5, <3>1
    <3>2. CASE c = 0
      BY <1>2, <1>5, <2>9, <3>2
    <3>3. QED
      BY <1>3, <2>2, <3>1, <3>2
  <2>12. CheckpointsEarned'
    BY <1>1, <2>2, <2>4, <2>9, <2>10, <2>11 DEF CheckpointsEarned, FinalCheckpoint
  <2>13. QED
    BY <2>5, <2>6, <2>8, <2>12
<1>6. QED
  BY <1>4, <1>5

\* Every accepted command keeps the invariant.
LEMMA CommandInv ==
    ASSUME WInv, NEW cmd \in Commands, NEW payload, NEW outcome \in OutcomesOf(cmd, session),
           Command(cmd, payload, outcome)
    PROVE  WInv'
<1>0. outcome \in Outcome
  <2>1. Unsolved \in Outcome
    BY DEF Unsolved, Outcome
  <2>2. QED
    BY <2>1 DEF OutcomesOf
<1>1. /\ session \in Session /\ plans \in Seq(Plan) /\ outcome \in Outcome
      /\ session.status = "active"
      /\ Refusal(cmd, session, plans, payload, outcome) = "none"
      /\ session' = SessionAfter(cmd, session, plans, payload)
      /\ plans' = PlansAfter(cmd, session, plans, outcome)
  BY <1>0 DEF Command, WInv, TypeOK
<1>2. TypeOK'
  BY <1>1, SessionAfterType, PlansAfterType DEF TypeOK
<1>3. session'.version = session.version + 1 /\ session.version \in Nat
  BY <1>1, FieldsAfter DEF Session
<1>4. session'.status = IF cmd = "approve-plan" THEN "completed" ELSE "active"
  BY <1>1, FieldsAfter
<1>5. session'.status = "completed" => LatestOverridden(plans')
  <2>1. cmd = "approve-plan" => LatestOverridden(plans) /\ plans' = plans
    BY <1>1, AfterOverride DEF PlansAfter, PlanCommands
  <2>2. QED
    BY <1>4, <2>1
<1>6. InOrder' /\ CorridorHolds' /\ OverrideIsLast' /\ CheckpointsEarned'
  BY PlanningKeeps, OthersKeep
<1>7. session'.version # 0
  BY <1>3
<1>8. session'.status \in {"active", "completed"}
  BY <1>4
<1>9. QED
  BY <1>2, <1>5, <1>6, <1>7, <1>8 DEF WInv

\* Every step keeps the invariant.
LEMMA WStepInv == WInv /\ [Next]_vars => WInv'
<1> SUFFICES ASSUME WInv, [Next]_vars PROVE WInv'
  OBVIOUS
<1>1. CASE Create
  BY <1>1, CreateInv
<1>2. ASSUME NEW cmd \in Commands, NEW payload \in PayloadsOf(cmd),
             NEW outcome \in OutcomesOf(cmd, session), Command(cmd, payload, outcome)
      PROVE  WInv'
  BY <1>2, CommandInv
<1>3. CASE UNCHANGED vars
  <2>1. session' = session /\ plans' = plans
    BY <1>3 DEF vars
  <2>2. QED
    BY <2>1 DEF WInv, TypeOK, InOrder, CorridorHolds, OverrideIsLast, CheckpointsEarned
<1>4. QED
  BY <1>1, <1>2, <1>3 DEF Next

\* The invariant says all the workflow promises.
LEMMA InvIsEnough == WInv => WorkflowSound
<1>1. WInv => LatestPlanIsCurrent
  BY LatestIsLast DEF WInv, LatestPlanIsCurrent
<1>2. QED
  BY <1>1, ApprovedFinal, InputHolds, OffersMatch DEF WInv, WorkflowSound

\* The session service's promises to its operator hold throughout: a completed
\* session was approved on the validated override, checkpoints were earned,
\* the input of a plan does not move under it, and the offers are honest
\* (exercises.py: the command handlers and the projection).
THEOREM OperatorCanTrustSession == Spec => []WorkflowSound
  BY WInitInv, WStepInv, InvIsEnough, PTL DEF Spec

\* From a validated override on, only the approval is accepted, and it replans
\* nothing.
LEMMA FrozenStep ==
    ASSUME WInv, [Next]_vars, LatestOverridden(plans)
    PROVE  /\ plans' = plans
           /\ session'.objective = session.objective
           /\ session'.corridor = session.corridor
           /\ session'.checkpoint = session.checkpoint
<1>1. CASE Create
  BY <1>1 DEF Create, WInv, NoSession, LatestOverridden
<1>2. ASSUME NEW cmd \in Commands, NEW payload \in PayloadsOf(cmd),
             NEW outcome \in OutcomesOf(cmd, session), Command(cmd, payload, outcome)
      PROVE  /\ plans' = plans
             /\ session'.objective = session.objective
             /\ session'.corridor = session.corridor
             /\ session'.checkpoint = session.checkpoint
  <2>1. cmd = "approve-plan"
    BY <1>2, AfterOverride DEF Command
  <2>2. session \in Session
    BY DEF WInv, TypeOK
  <2>3. plans' = plans
    BY <1>2, <2>1 DEF Command, PlansAfter, PlanCommands
  <2>4. session' = [session EXCEPT !.version = @ + 1, !.status = "completed"]
    BY <1>2, <2>1 DEF Command, SessionAfter
  <2>5. QED
    BY <2>2, <2>3, <2>4 DEF Session
<1>3. CASE UNCHANGED vars
  BY <1>3 DEF vars
<1>4. QED
  BY <1>1, <1>2, <1>3 DEF Next

\* No step replans, changes the objective or the road state under a validated
\* override (exercises.py: the checks of each handler for operatorOverride).
THEOREM OverrideIsFrozen == Spec => OverrideFreezesInputs
<1>1. WInv /\ [Next]_vars =>
         [LatestOverridden(plans) =>
             /\ plans' = plans
             /\ session'.objective = session.objective
             /\ session'.corridor = session.corridor
             /\ session'.checkpoint = session.checkpoint]_vars
  BY FrozenStep
<1>2. QED
  BY WInitInv, WStepInv, <1>1, PTL DEF Spec, OverrideFreezesInputs
===============================================================================
