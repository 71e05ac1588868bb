---------------------------- MODULE PlanningProofs ----------------------------
(***************************************************************************)
(* Planning with its data, for every definition, road network and solver   *)
(* answer: in the exercise it implements the workflow, and so keeps its    *)
(* promises; live, it implements Dispatch, and its plans mean what they    *)
(* say.                                                                    *)
(***************************************************************************)
EXTENDS ExercisePlanning, LivePlanning, SequenceTheorems, FiniteSetTheorems,
        WellFoundedInduction, TLAPS

W == INSTANCE ExerciseWorkflowProofs WITH plans <- AbstractRuns

-----------------------------------------------------------------------------
(* The proofs about the workflow are about the specification implemented   *)
(* here, and its rules are the rules the actions apply.                    *)

\* The rules, in both copies.
LEMMA SameRules ==
    /\ \A cmd, s, ps, payload, outcome :
          W!Refusal(cmd, s, ps, payload, outcome) = Refusal(cmd, s, ps, payload, outcome)
    /\ \A cmd, s, ps, payload :
          W!SessionAfter(cmd, s, ps, payload) = SessionAfter(cmd, s, ps, payload)
    /\ \A cmd, s, ps, outcome :
          W!PlansAfter(cmd, s, ps, outcome) = PlansAfter(cmd, s, ps, outcome)
<1>1. \A cmd, s, ps, payload, outcome :
         W!Refusal(cmd, s, ps, payload, outcome) = Refusal(cmd, s, ps, payload, outcome)
  BY DEF W!Refusal, Refusal, W!SelectRefusal, SelectRefusal, W!AdvanceRefusal, AdvanceRefusal,
         W!GenerateRefusal, GenerateRefusal, W!OverrideRefusal, OverrideRefusal,
         W!ApproveRefusal, ApproveRefusal, W!LatestAt, LatestAt, W!LastIndex, LastIndex,
         W!LatestOverridden, LatestOverridden, W!Actionable, Actionable,
         W!FinalCheckpoint, FinalCheckpoint
<1>2. \A cmd, s, ps, payload :
         W!SessionAfter(cmd, s, ps, payload) = SessionAfter(cmd, s, ps, payload)
  BY DEF W!SessionAfter, SessionAfter, W!Advanced, Advanced, W!LatestAt, LatestAt,
         W!LastIndex, LastIndex
<1>3. \A cmd, s, ps, outcome :
         W!PlansAfter(cmd, s, ps, outcome) = PlansAfter(cmd, s, ps, outcome)
  BY DEF W!PlansAfter, PlansAfter, W!PlanFor, PlanFor, W!PlanCommands, PlanCommands
<1>4. QED
  BY <1>1, <1>2, <1>3

\* The inputs of a command and the rows, in both copies.
LEMMA SameData ==
    /\ W!Commands = Commands /\ W!Session = Session /\ W!Plan = Plan
    /\ W!NoSession = NoSession /\ W!NewSession = NewSession
    /\ \A cmd : W!PayloadsOf(cmd) = PayloadsOf(cmd)
    /\ \A cmd, s : W!OutcomesOf(cmd, s) = OutcomesOf(cmd, s)
<1>1. W!Commands = Commands
  BY DEF W!Commands, Commands, W!PlanCommands, PlanCommands
<1>2. W!Session = Session /\ W!Plan = Plan
  BY DEF W!Session, Session, W!Plan, Plan, W!FinalCheckpoint, FinalCheckpoint
<1>3. W!NoSession = NoSession
  BY DEF W!NoSession, NoSession
<1>4. W!NewSession = NewSession
  BY <1>3 DEF W!NewSession, NewSession
<1>5. \A cmd : W!PayloadsOf(cmd) = PayloadsOf(cmd)
  BY DEF W!PayloadsOf, PayloadsOf
<1>6. \A cmd, s : W!OutcomesOf(cmd, s) = OutcomesOf(cmd, s)
  BY DEF W!OutcomesOf, OutcomesOf, W!Outcome, Outcome, W!Unsolved, Unsolved,
         W!PlanCommands, PlanCommands
<1>7. QED
  BY <1>1, <1>2, <1>3, <1>4, <1>5, <1>6

\* Both copies of the abstract specification take the same steps.
LEMMA SameWorkflow ==
    /\ W!Init => Workflow!Init
    /\ [W!Next]_(W!vars) => [Workflow!Next]_(Workflow!vars)
<1>1. Workflow!NoSession = W!NoSession
  BY DEF Workflow!NoSession, W!NoSession
<1>2. W!Init => Workflow!Init
  BY <1>1 DEF Workflow!Init, W!Init
<1>3. W!Next => Workflow!Next
  BY DEF Workflow!Next, W!Next, Workflow!Create, W!Create, Workflow!NoSession, W!NoSession,
         Workflow!NewSession, W!NewSession, Workflow!Commands, W!Commands,
         Workflow!PlanCommands, W!PlanCommands, Workflow!PayloadsOf, W!PayloadsOf,
         Workflow!OutcomesOf, W!OutcomesOf, Workflow!Outcome, W!Outcome,
         Workflow!Unsolved, W!Unsolved, Workflow!Command, W!Command,
         Workflow!Refusal, W!Refusal, Workflow!SelectRefusal, W!SelectRefusal,
         Workflow!AdvanceRefusal, W!AdvanceRefusal, Workflow!GenerateRefusal, W!GenerateRefusal,
         Workflow!OverrideRefusal, W!OverrideRefusal, Workflow!ApproveRefusal, W!ApproveRefusal,
         Workflow!LatestAt, W!LatestAt, Workflow!LastIndex, W!LastIndex,
         Workflow!LatestOverridden, W!LatestOverridden, Workflow!Actionable, W!Actionable,
         Workflow!FinalCheckpoint, W!FinalCheckpoint,
         Workflow!SessionAfter, W!SessionAfter, Workflow!Advanced, W!Advanced,
         Workflow!PlansAfter, W!PlansAfter, Workflow!PlanFor, W!PlanFor
<1>4. QED
  BY <1>2, <1>3 DEF Workflow!vars, W!vars

\* The promises, in both copies.
LEMMA SamePromises == W!WorkflowSound => WorkflowSound
<1>1. W!TypeOK => Workflow!TypeOK
  BY DEF W!TypeOK, Workflow!TypeOK, W!Session, Workflow!Session, W!Plan, Workflow!Plan,
         W!FinalCheckpoint, Workflow!FinalCheckpoint
<1>2. W!ApprovedPlanIsFinal => Workflow!ApprovedPlanIsFinal
  BY DEF W!ApprovedPlanIsFinal, Workflow!ApprovedPlanIsFinal,
         W!FinalCheckpoint, Workflow!FinalCheckpoint
<1>3. W!CheckpointsEarned => Workflow!CheckpointsEarned
  BY DEF W!CheckpointsEarned, Workflow!CheckpointsEarned, W!LatestAt, Workflow!LatestAt,
         W!LastIndex, Workflow!LastIndex, W!FinalCheckpoint, Workflow!FinalCheckpoint
<1>4. W!LatestPlanIsCurrent => Workflow!LatestPlanIsCurrent
  BY DEF W!LatestPlanIsCurrent, Workflow!LatestPlanIsCurrent, W!LatestAt, Workflow!LatestAt,
         W!LastIndex, Workflow!LastIndex
<1>5. W!PlanningInputHolds => Workflow!PlanningInputHolds
  BY DEF W!PlanningInputHolds, Workflow!PlanningInputHolds, Workflow!PayloadsOf, W!PayloadsOf,
         Workflow!Outcome, W!Outcome,
         Workflow!Refusal, W!Refusal, Workflow!SelectRefusal, W!SelectRefusal,
         Workflow!AdvanceRefusal, W!AdvanceRefusal, Workflow!GenerateRefusal, W!GenerateRefusal,
         Workflow!OverrideRefusal, W!OverrideRefusal, Workflow!ApproveRefusal, W!ApproveRefusal,
         Workflow!LatestAt, W!LatestAt, Workflow!LastIndex, W!LastIndex,
         Workflow!LatestOverridden, W!LatestOverridden, Workflow!Actionable, W!Actionable,
         Workflow!FinalCheckpoint, W!FinalCheckpoint
<1>6. W!OffersMatchRules => Workflow!OffersMatchRules
  BY DEF W!OffersMatchRules, Workflow!OffersMatchRules, Workflow!PayloadsOf, W!PayloadsOf,
         Workflow!OutcomesOf, W!OutcomesOf, Workflow!Outcome, W!Outcome,
         Workflow!Unsolved, W!Unsolved, Workflow!PlanCommands, W!PlanCommands,
         Workflow!AllowedActions, W!AllowedActions,
         Workflow!Refusal, W!Refusal, Workflow!SelectRefusal, W!SelectRefusal,
         Workflow!AdvanceRefusal, W!AdvanceRefusal, Workflow!GenerateRefusal, W!GenerateRefusal,
         Workflow!OverrideRefusal, W!OverrideRefusal, Workflow!ApproveRefusal, W!ApproveRefusal,
         Workflow!LatestAt, W!LatestAt, Workflow!LastIndex, W!LastIndex,
         Workflow!LatestOverridden, W!LatestOverridden, Workflow!Actionable, W!Actionable,
         Workflow!FinalCheckpoint, W!FinalCheckpoint
<1>7. QED
  BY <1>1, <1>2, <1>3, <1>4, <1>5, <1>6 DEF W!WorkflowSound, WorkflowSound

-----------------------------------------------------------------------------
(* The stored runs, seen without their data.                               *)

\* The inductive invariant: the runs are a sequence, and the workflow's own
\* invariant holds of what Abstract leaves of them.
PInv ==
    /\ \E S : runs \in Seq(S)
    /\ definition \in Definitions /\ ValidRuntime(definition)
    /\ W!WInv

\* Run by run, in the same places.
LEMMA AbstractRunsAre ==
    ASSUME NEW S, runs \in Seq(S)
    PROVE  /\ DOMAIN runs = 1 .. Len(runs) /\ Len(runs) \in Nat
           /\ Len(AbstractRuns) = Len(runs)
           /\ \A i \in 1 .. Len(runs) : AbstractRuns[i] = Abstract(runs[i])
  BY DEF AbstractRuns

\* A run stored is a plan appended.
LEMMA AbstractAppend ==
    ASSUME NEW S, runs \in Seq(S), NEW x, runs' = Append(runs, x)
    PROVE  AbstractRuns' = Append(AbstractRuns, Abstract(x))
<1> DEFINE n == Len(runs)
           a == Abstract(x)
           b == AbstractRuns
           c == AbstractRuns'
<1>1. n \in Nat /\ DOMAIN runs = 1 .. n
  OBVIOUS
<1>2. DOMAIN runs' = 1 .. n + 1 /\ runs'[n + 1] = x /\ \A i \in 1 .. n : runs'[i] = runs[i]
  OBVIOUS
<1>3. b = [i \in 1 .. n |-> Abstract(runs[i])]
  BY <1>1 DEF AbstractRuns
<1>4. c = [i \in 1 .. n + 1 |-> Abstract(runs'[i])]
  BY <1>2 DEF AbstractRuns
<1>5. \A i \in 1 .. n + 1 : Abstract(runs'[i]) = IF i = n + 1 THEN a ELSE b[i]
  <2>1. \A i \in 1 .. n + 1 : i = n + 1 \/ i \in 1 .. n
    BY <1>1
  <2>2. QED
    BY <1>2, <1>3, <2>1
<1> DEFINE T == {b[i] : i \in 1 .. n} \cup {a}
<1>6. b \in Seq(T) /\ Len(b) = n /\ a \in T
  BY <1>1, <1>3
<1> HIDE DEF a, b, c, n, T
<1>7. /\ Append(b, a) \in Seq(T) /\ Len(Append(b, a)) = n + 1
      /\ Append(b, a)[n + 1] = a /\ \A i \in 1 .. n : Append(b, a)[i] = b[i]
  BY <1>1, <1>6
<1>8. c = Append(b, a)
  <2>1. \A i \in 1 .. n + 1 : i = n + 1 \/ (i \in 1 .. n /\ i # n + 1)
    BY <1>1
  <2>2. \A i \in 1 .. n + 1 : Append(b, a)[i] = Abstract(runs'[i])
    BY <1>5, <1>7, <2>1
  <2> DEFINE d == Append(b, a)
  <2>3. \A i \in 1 .. n + 1 : d[i] \in T
    <3>1. \A i \in 1 .. n : b[i] \in T
      BY <1>6
    <3>2. QED
      BY <1>6, <1>7, <2>1, <3>1
  <2>4. c \in Seq(T) /\ Len(c) = n + 1 /\ \A i \in 1 .. n + 1 : c[i] = d[i]
    <3> DEFINE m == n + 1
               e == [i \in 1 .. m |-> Abstract(runs'[i])]
    <3>1. m \in Nat
      BY <1>1
    <3>2. c = e
      BY <1>4
    <3> HIDE DEF d
    <3>3. \A i \in 1 .. m : e[i] = d[i]
      BY <2>2 DEF d
    <3>4. \A i \in 1 .. m : e[i] \in T
      BY <2>3, <3>3
    <3>5. DOMAIN e = 1 .. m /\ e = [i \in 1 .. m |-> e[i]]
      OBVIOUS
    <3> HIDE DEF m, e
    <3>6. e \in Seq(T) /\ Len(e) = m
      BY <3>1, <3>4, <3>5
    <3>7. QED
      BY <3>2, <3>3, <3>6 DEF m
  <2>5. d \in Seq(T) /\ Len(d) = n + 1
    BY <1>7
  <2> HIDE DEF d
  <2>6. c = d
    BY <2>4, <2>5, SeqEqual
  <2>7. QED
    BY <2>6 DEF d
<1>9. QED
  BY <1>8 DEF a, b, c

\* Whoever is sent is sent by a solved plan.
LEMMA OnlySolutionsSend ==
    ASSUME NEW q, NEW answer \in Answers(q), answer.pairs # {}
    PROVE  Solved(answer)
  BY DEF Answers, Solutions, Solved

\* The last checkpoint and objective of an input are the session's.
LEMMA InputIs ==
    ASSUME NEW s, NEW locks
    PROVE  /\ InputOf(s, locks).checkpoint = s.checkpoint
           /\ InputOf(s, locks).objective = s.objective
           /\ InputOf(s, locks).corridor = s.corridor
           /\ InputOf(s, locks).locks = locks
  BY DEF InputOf

\* What Abstract keeps of a run just answered is the plan the workflow stores.
LEMMA RunIsPlan ==
    ASSUME NEW answer, NEW locks, NEW cmd
    PROVE  Abstract(Run(InputOf(session, locks), answer, cmd = "apply-override"))
             = PlanFor(cmd, session,
                       [solved |-> Solved(answer),
                        clears |-> session.checkpoint = 1 /\ CorridorTask \in Covered(answer.pairs)])
  BY InputIs DEF Abstract, Run, PlanFor

\* What CP-SAT answers is an outcome the workflow allows.
LEMMA AnswerIsOutcome ==
    ASSUME NEW q, NEW answer \in Answers(q), NEW cmd \in PlanCommands
    PROVE  [solved |-> Solved(answer),
            clears |-> session.checkpoint = 1 /\ CorridorTask \in Covered(answer.pairs)]
              \in OutcomesOf(cmd, session)
<1> DEFINE solved == Solved(answer)
           clears == session.checkpoint = 1 /\ CorridorTask \in Covered(answer.pairs)
<1>1. solved \in BOOLEAN /\ clears \in BOOLEAN
  BY DEF Solved
<1>2. clears => answer.pairs # {}
  BY DEF Covered
<1>3. clears => solved /\ session.checkpoint = 1
  BY <1>2, OnlySolutionsSend
<1> HIDE DEF solved, clears
<1>4. [solved |-> solved, clears |-> clears] \in OutcomesOf(cmd, session)
  BY <1>1, <1>3 DEF OutcomesOf, Outcome
<1>5. QED
  BY <1>4 DEF solved, clears

-----------------------------------------------------------------------------
(* Every step is a step of the workflow, or invisible to it.               *)

\* A command that plans: the run stored is the plan, its answer the outcome.
LEMMA PlanIsCommand ==
    ASSUME PInv, Open, NEW cmd \in PlanCommands, NEW locks, NEW q, NEW answer \in Answers(q),
           Refusal(cmd, session, AbstractRuns, "well-formed",
                   [solved |-> Solved(answer),
                    clears |-> session.checkpoint = 1 /\ CorridorTask \in Covered(answer.pairs)])
              = "none",
           runs' = Append(runs, Run(InputOf(session, locks), answer, cmd = "apply-override")),
           session' = SessionAfter(cmd, session, AbstractRuns, "well-formed")
    PROVE  W!Next
<1> DEFINE outcome == [solved |-> Solved(answer),
                       clears |-> session.checkpoint = 1 /\ CorridorTask \in Covered(answer.pairs)]
           x == Run(InputOf(session, locks), answer, cmd = "apply-override")
<1>1. outcome \in OutcomesOf(cmd, session)
  BY AnswerIsOutcome
<1>2. Abstract(x) = PlanFor(cmd, session, outcome)
  BY RunIsPlan
<1>3. PICK S : runs \in Seq(S)
  BY DEF PInv
<1>4. /\ runs' = Append(runs, x)
      /\ Refusal(cmd, session, AbstractRuns, "well-formed", outcome) = "none"
  OBVIOUS
<1> HIDE DEF x, outcome
<1>5. AbstractRuns' = Append(AbstractRuns, PlanFor(cmd, session, outcome))
  BY <1>2, <1>3, <1>4, AbstractAppend
<1>6. AbstractRuns' = PlansAfter(cmd, session, AbstractRuns, outcome)
  BY <1>5 DEF PlansAfter
<1>7. W!Command(cmd, "well-formed", outcome)
  BY <1>4, <1>6, SameRules DEF W!Command, Open
<1>8. /\ cmd \in W!Commands /\ "well-formed" \in W!PayloadsOf(cmd)
      /\ outcome \in W!OutcomesOf(cmd, session)
  BY <1>1, SameData DEF Commands, PlanCommands, PayloadsOf
<1>9. QED
  BY <1>7, <1>8 DEF W!Next

\* Planning under the session's own input.
LEMMA GenerateIsCommand == PInv /\ GeneratePlan => W!Next
<1> SUFFICES ASSUME PInv, GeneratePlan PROVE W!Next
  OBVIOUS
<1>1. PICK answer \in AnswersTo(Request(InputOf(session, {})), GuidedStatuses) :
           runs' = Append(runs, Run(InputOf(session, {}), answer, FALSE))
  BY DEF GeneratePlan
<1>2. answer \in Answers(Request(InputOf(session, {})))
  BY DEF AnswersTo
<1>3. /\ Open /\ GenerateRefusal(session, AbstractRuns) = "none"
      /\ session' = SessionAfter("generate-plan", session, AbstractRuns, "well-formed")
  BY DEF GeneratePlan
<1>4. \A outcome : Refusal("generate-plan", session, AbstractRuns, "well-formed", outcome) = "none"
  BY <1>3 DEF Refusal
<1>5. runs' = Append(runs, Run(InputOf(session, {}), answer, "generate-plan" = "apply-override"))
  BY <1>1
<1>6. "generate-plan" \in PlanCommands
  BY DEF PlanCommands
<1>7. QED
  BY <1>2, <1>3, <1>4, <1>5, <1>6, PlanIsCommand

\* Planning with the operator's lock: that the input of the plan before is the
\* session's says its objective and road state are, and an answer that
\* honours the lock is a solution.
LEMMA OverrideIsCommand ==
    ASSUME PInv, NEW r, ApplyOverride(r)
    PROVE  W!Next
<1> DEFINE i == LatestAt(AbstractRuns, FinalCheckpoint)
           input == InputOf(session, ShelterLock(r))
<1>1. PICK answer \in AnswersTo(Request(input), GuidedStatuses) :
           /\ Honoured(answer, r)
           /\ runs' = Append(runs, Run(input, answer, TRUE))
  BY DEF ApplyOverride
<1>2. answer \in Answers(Request(input)) /\ <<r, ShelterTask>> \in answer.pairs
  BY <1>1 DEF AnswersTo, Honoured
<1>3. Solved(answer)
  BY <1>2, OnlySolutionsSend
<1>4. /\ Open /\ session.checkpoint = FinalCheckpoint /\ session.objective # NoObjective
      /\ i # 0 /\ ~runs[i].override /\ Solved(runs[i].answer) /\ InputHolds(runs[i])
      /\ session' = SessionAfter("apply-override", session, AbstractRuns, "well-formed")
  BY DEF ApplyOverride
<1>5. /\ ~AbstractRuns[i].override /\ AbstractRuns[i].solved
      /\ AbstractRuns[i].objective = session.objective
      /\ AbstractRuns[i].corridor = session.corridor
  <2>1. PICK S : runs \in Seq(S)
    BY DEF PInv
  <2>2. AbstractRuns \in Seq(Plan)
    BY SameData DEF PInv, W!WInv, W!TypeOK
  <2>3. i \in 0 .. Len(AbstractRuns)
    <3>1. \A ps, c : W!LatestAt(ps, c) = LatestAt(ps, c)
      BY DEF W!LatestAt, LatestAt, W!LastIndex, LastIndex
    <3>2. QED
      BY <2>2, <3>1, SameData, W!LatestAtIsLatest, ObjectiveAssumption
  <2> DEFINE n == Len(runs)
  <2>4. n \in Nat /\ Len(AbstractRuns) = n /\ \A j \in 1 .. n : AbstractRuns[j] = Abstract(runs[j])
    BY <2>1, AbstractRunsAre
  <2> HIDE DEF n, i
  <2>5. i \in 1 .. n
    BY <1>4, <2>3, <2>4
  <2>6. AbstractRuns[i] = Abstract(runs[i])
    BY <2>4, <2>5
  <2>7. runs[i].input = InputOf(session, {})
    BY <1>4 DEF InputHolds
  <2>8. QED
    BY <1>4, <2>6, <2>7, InputIs DEF Abstract
<1>6. \A outcome : outcome.solved =>
         Refusal("apply-override", session, AbstractRuns, "well-formed", outcome) = "none"
  BY <1>4, <1>5 DEF Refusal, OverrideRefusal
<1> DEFINE outcome == [solved |-> Solved(answer),
                       clears |-> session.checkpoint = 1 /\ CorridorTask \in Covered(answer.pairs)]
<1>7. outcome.solved
  BY <1>3
<1>8. Refusal("apply-override", session, AbstractRuns, "well-formed", outcome) = "none"
  BY <1>6, <1>7
<1>9. runs' = Append(runs, Run(InputOf(session, ShelterLock(r)), answer,
                               "apply-override" = "apply-override"))
  BY <1>1
<1>10. "apply-override" \in PlanCommands
  BY DEF PlanCommands
<1>11. QED
  BY <1>2, <1>4, <1>8, <1>9, <1>10, PlanIsCommand

\* A command that plans nothing.
LEMMA MoveIsCommand ==
    ASSUME NEW cmd \in {"select-objective", "advance", "approve-plan"},
           NEW payload \in PayloadsOf(cmd), Move(cmd, payload)
    PROVE  W!Next
<1>1. cmd \in Commands /\ cmd \notin PlanCommands
  BY DEF Commands, PlanCommands
<1>2. AbstractRuns' = AbstractRuns
  BY DEF Move, AbstractRuns
<1>3. PlansAfter(cmd, session, AbstractRuns, Unsolved) = AbstractRuns
  BY <1>1 DEF PlansAfter
<1>4. W!Command(cmd, payload, Unsolved)
  BY <1>2, <1>3, SameRules DEF W!Command, Move, Open
<1>5. Unsolved \in OutcomesOf(cmd, session)
  BY <1>1 DEF OutcomesOf
<1>6. QED
  BY <1>1, <1>4, <1>5, SameData DEF W!Next

\* Every step of planning, seen without its data, is a step of the workflow.
LEMMA StepSimulation == PInv /\ [Next]_vars => [W!Next]_(W!vars)
<1> SUFFICES ASSUME PInv, [Next]_vars PROVE W!Next \/ UNCHANGED <<session, AbstractRuns>>
  BY DEF W!vars
<1>1. CASE Create
  <2>1. AbstractRuns' = AbstractRuns
    BY <1>1 DEF Create, AbstractRuns
  <2>2. W!Create
    BY <1>1, <2>1, SameData DEF Create, W!Create
  <2>3. QED
    BY <2>2 DEF W!Next
<1>2. CASE \E cmd \in {"select-objective", "advance", "approve-plan"} :
              \E payload \in PayloadsOf(cmd) : Move(cmd, payload)
  BY <1>2, MoveIsCommand
<1>3. CASE GeneratePlan
  BY <1>3, GenerateIsCommand
<1>4. CASE \E r \in Buses(definition) : ApplyOverride(r)
  BY <1>4, OverrideIsCommand
<1>5. CASE \E k \in Controls : SandboxPlan(k)
  BY <1>5 DEF SandboxPlan, AbstractRuns
<1>6. CASE UNCHANGED vars
  BY <1>6 DEF vars, AbstractRuns
<1>7. QED
  BY <1>1, <1>2, <1>3, <1>4, <1>5, <1>6 DEF Next

\* An exercise starts without runs.
LEMMA InitPInv == Init => W!Init /\ PInv
<1> SUFFICES ASSUME Init PROVE W!Init /\ PInv
  OBVIOUS
<1>1. runs = <<>> /\ runs \in Seq({})
  BY DEF Init
<1>2. AbstractRuns = <<>>
  BY <1>1 DEF AbstractRuns
<1>3. W!Init
  BY <1>2, SameData DEF Init, W!Init
<1>4. W!WInv
  BY <1>3, W!WInitInv, ObjectiveAssumption
<1>5. QED
  BY <1>1, <1>3, <1>4 DEF PInv, Init

\* Every step keeps the invariant.
LEMMA StepPInv == PInv /\ [Next]_vars => PInv'
<1> SUFFICES ASSUME PInv, [Next]_vars PROVE PInv'
  OBVIOUS
<1>1. W!WInv'
  BY StepSimulation, W!WStepInv, ObjectiveAssumption DEF PInv
<1>2. definition' = definition
  BY DEF Next, Create, Move, GeneratePlan, ApplyOverride, SandboxPlan, vars
<1>3. \E S : runs' \in Seq(S)
  <2>1. PICK S : runs \in Seq(S)
    BY DEF PInv
  <2>2. runs' = runs \/ \E x : runs' = Append(runs, x)
    BY DEF Next, Create, Move, GeneratePlan, ApplyOverride, SandboxPlan, vars
  <2>3. ASSUME NEW x, runs' = Append(runs, x) PROVE runs' \in Seq(S \cup {x})
    <3>1. runs \in Seq(S \cup {x}) /\ x \in S \cup {x}
      BY <2>1
    <3>2. QED
      BY <2>3, <3>1
  <2>4. QED
    BY <2>1, <2>2, <2>3
<1>4. ValidRuntime(definition)'
  BY <1>2 DEF PInv, ValidRuntime, Snappable, HasShelterOverride, ClearedTried, Buses
<1>5. QED
  BY <1>1, <1>2, <1>3, <1>4 DEF PInv

-----------------------------------------------------------------------------
(* The theorems.                                                           *)

\* Planning with its data is the workflow the sessions promise: the stored
\* input stands still exactly when objective and road state do, an override
\* stored is a solution, and the sandbox leaves no trace
\* (exercise_planning.py: generate, override and the sandbox plan).
THEOREM PlanningIsWorkflow == Spec => ImplementsWorkflow
<1>1. Init => W!Init /\ PInv
  BY InitPInv
<1>2. PInv /\ [Next]_vars => PInv' /\ [W!Next]_(W!vars)
  BY StepPInv, StepSimulation
<1>3. QED
  BY <1>1, <1>2, SameWorkflow, PTL DEF Spec, ImplementsWorkflow, Workflow!Spec

\* What the workflow promises its operator holds with the computed plans too.
THEOREM PlanningKeepsPromises == Spec => []WorkflowSound
<1>1. PInv => WorkflowSound
  BY W!InvIsEnough, ObjectiveAssumption, SamePromises DEF PInv
<1>2. QED
  BY <1>1, InitPInv, StepPInv, PTL DEF Spec

\* From a validated override on nothing is planned again, and neither the
\* objective nor the road state is changed under it.
THEOREM OverrideIsFrozen == Spec => OverrideFreezesInputs
<1>1. PInv /\ [Next]_vars =>
         [Workflow!LatestOverridden(AbstractRuns) =>
             /\ AbstractRuns' = AbstractRuns
             /\ session'.objective = session.objective
             /\ session'.corridor = session.corridor
             /\ session'.checkpoint = session.checkpoint]_(Workflow!vars)
  <2> SUFFICES ASSUME PInv, [Next]_vars, Workflow!LatestOverridden(AbstractRuns)
               PROVE  /\ AbstractRuns' = AbstractRuns
                      /\ session'.objective = session.objective
                      /\ session'.corridor = session.corridor
                      /\ session'.checkpoint = session.checkpoint
    OBVIOUS
  <2>1. W!WInv /\ [W!Next]_(W!vars)
    BY StepSimulation DEF PInv
  <2>2. W!LatestOverridden(AbstractRuns)
    BY DEF W!LatestOverridden, Workflow!LatestOverridden
  <2>3. QED
    BY <2>1, <2>2, W!FrozenStep, ObjectiveAssumption
<1>2. QED
  BY <1>1, InitPInv, StepPInv, PTL DEF Spec, OverrideFreezesInputs, Workflow!OverrideFreezesInputs

\* An exercise that passed the start-up validation never strands its operator:
\* whatever was decided before, at the last checkpoint some bus can be locked
\* (exercise_planning.py: validate_runtime and apply_override).
LEMMA NeverStuck == PInv => OverrideNeverStuck
<1> SUFFICES ASSUME PInv, session.checkpoint = FinalCheckpoint,
                    session.objective # NoObjective
             PROVE  \E r \in Buses(definition) :
                       Accepted(Request(InputOf(session, ShelterLock(r))))
  BY DEF OverrideNeverStuck
<1>1. session.objective \in Objectives /\ session.corridor \in BOOLEAN
  BY SameData DEF PInv, W!WInv, W!TypeOK, Session
<1>2. HasShelterOverride(definition, session.objective, session.corridor)
  BY <1>1 DEF PInv, ValidRuntime, ClearedTried
<1>3. \A r : Request(InputOf(session, ShelterLock(r)))
               = RequestOf(Materialized(definition, FinalCheckpoint, session.objective,
                                        session.corridor), ShelterLock(r))
  BY InputIs DEF Request
<1>4. QED
  BY <1>2, <1>3 DEF HasShelterOverride

-----------------------------------------------------------------------------
(* Folds over finite sets.  An induction is a least set that fails.        *)

\* A nonempty set of naturals has a least.
LEMMA LeastOf ==
    ASSUME NEW N, N \subseteq Nat, N # {}
    PROVE  \E n \in N : \A m \in N : n <= m
<1> DEFINE R == OpToRel(<, Nat)
<1>1. IsWellFoundedOn(R, Nat)
  BY NatLessThanWellFounded
<1>2. PICK n \in N : \A m \in N : ~(<<m, n>> \in R)
  <2> HIDE DEF R
  <2>1. QED
    BY <1>1, WFMin
<1>3. \A m \in N : ~(m < n)
  BY <1>2 DEF OpToRel
<1>4. QED
  BY <1>3

\* What holds of a finite set when it holds of all its smaller subsets holds of it.
\* Bad is the set of those it does not hold of.
LEMMA SmallestOf ==
    ASSUME NEW Bad, Bad # {}, \A s \in Bad : IsFiniteSet(s)
    PROVE  \E s \in Bad : \A x \in s : s \ {x} \notin Bad
<1> DEFINE N == {Cardinality(s) : s \in Bad}
<1>1. N \subseteq Nat /\ N # {}
  BY FS_CardinalityType
<1> HIDE DEF N
<1>2. PICK n \in N : \A m \in N : n <= m
  BY <1>1, LeastOf
<1>3. PICK s \in Bad : n = Cardinality(s)
  BY <1>2 DEF N
<1>4. ASSUME NEW x \in s, s \ {x} \in Bad PROVE FALSE
  <2>1. IsFiniteSet(s) /\ Cardinality(s) \in Nat
    BY FS_CardinalityType
  <2>2. Cardinality(s \ {x}) = Cardinality(s) - 1
    BY <2>1, FS_RemoveElement
  <2>3. Cardinality(s \ {x}) \in N
    BY <1>4 DEF N
  <2> DEFINE c == Cardinality(s)
             d == Cardinality(s \ {x})
  <2>4. c \in Nat /\ d = c - 1 /\ c <= d
    BY <1>2, <1>3, <2>1, <2>2, <2>3
  <2> HIDE DEF c, d
  <2>5. QED
    BY <2>4
<1>5. QED
  BY <1>4

\* pick names an element of each nonempty subset of S.
Picks(pick, S) == \A s \in SUBSET S : s # {} => pick[s] \in s

\* f folds step over each subset of S, as MapThenFoldSet does.
IsFold(step, base, pick, f, S) ==
    f = [s \in SUBSET S |-> IF s = {} THEN base
                            ELSE step[<<pick[s], f[s \ {pick[s]}]>>]]

FoldOf(step, base, pick, S) == (CHOOSE f : IsFold(step, base, pick, f, S))[S]

\* Two folds agree where both are defined.
LEMMA FoldsAgree ==
    ASSUME NEW step, NEW base, NEW pick, NEW A, NEW B, NEW f, NEW g,
           IsFold(step, base, pick, f, A), IsFold(step, base, pick, g, B),
           NEW t, t \subseteq A, t \subseteq B, IsFiniteSet(t), Picks(pick, t)
    PROVE  f[t] = g[t]
<1> DEFINE Bad == {s \in SUBSET t : f[s] # g[s]}
<1> SUFFICES ASSUME Bad # {} PROVE FALSE
  OBVIOUS
<1>1. \A s \in Bad : IsFiniteSet(s)
  BY FS_Subset
<1>2. PICK s \in Bad : \A x \in s : s \ {x} \notin Bad
  <2> HIDE DEF Bad
  <2>1. QED
    BY <1>1, SmallestOf
<1>3. /\ f[s] = IF s = {} THEN base ELSE step[<<pick[s], f[s \ {pick[s]}]>>]
      /\ g[s] = IF s = {} THEN base ELSE step[<<pick[s], g[s \ {pick[s]}]>>]
  BY DEF IsFold
<1>4. s # {}
  BY <1>3
<1>5. pick[s] \in s
  BY <1>4 DEF Picks
<1>6. f[s \ {pick[s]}] = g[s \ {pick[s]}]
  BY <1>2, <1>5
<1>7. QED
  BY <1>3, <1>6

\* A fold of a set folds its subsets.
LEMMA FoldBelow ==
    ASSUME NEW step, NEW base, NEW pick, NEW A, NEW f, IsFold(step, base, pick, f, A),
           NEW B, B \subseteq A
    PROVE  IsFold(step, base, pick, [s \in SUBSET B |-> f[s]], B)
<1> DEFINE g == [s \in SUBSET B |-> f[s]]
<1>1. ASSUME NEW s \in SUBSET B
      PROVE g[s] = IF s = {} THEN base ELSE step[<<pick[s], g[s \ {pick[s]}]>>]
  <2>1. f[s] = IF s = {} THEN base ELSE step[<<pick[s], f[s \ {pick[s]}]>>]
    BY DEF IsFold
  <2>2. QED
    BY <2>1
<1>2. QED
  BY <1>1 DEF IsFold

\* Every finite set has one.
LEMMA FoldExists ==
    ASSUME NEW step, NEW base, NEW pick, NEW S, IsFiniteSet(S), Picks(pick, S)
    PROVE  IsFold(step, base, pick, CHOOSE f : IsFold(step, base, pick, f, S), S)
<1> DEFINE Bad == {s \in SUBSET S : ~\E f : IsFold(step, base, pick, f, s)}
           fold(s) == CHOOSE f : IsFold(step, base, pick, f, s)
<1>1. Bad = {}
  <2> SUFFICES ASSUME Bad # {} PROVE FALSE
    OBVIOUS
  <2>1. \A s \in Bad : IsFiniteSet(s)
    BY FS_Subset
  <2>2. PICK t \in Bad : \A x \in t : t \ {x} \notin Bad
    <3> HIDE DEF Bad
    <3>1. QED
      BY <2>1, SmallestOf
  <2>3. \A x \in t : \E f : IsFold(step, base, pick, f, t \ {x})
    BY <2>2
  <2> DEFINE smaller == {s \in SUBSET t : s # t}
             value(s) == IF s = {} THEN base
                         ELSE step[<<pick[s], fold(s \ {pick[s]})[s \ {pick[s]}]>>]
             h == [s \in SUBSET t |-> value(s)]
  <2>4. \A s \in smaller : IsFold(step, base, pick, fold(s), s)
    <3> SUFFICES ASSUME NEW s \in smaller PROVE \E f : IsFold(step, base, pick, f, s)
      OBVIOUS
    <3>1. PICK x \in t : s \subseteq t \ {x}
      OBVIOUS
    <3>2. PICK f : IsFold(step, base, pick, f, t \ {x})
      BY <2>3
    <3>3. IsFold(step, base, pick, [r \in SUBSET s |-> f[r]], s)
      BY <3>1, <3>2, FoldBelow
    <3>4. QED
      BY <3>3
  <2> HIDE DEF fold
  <2>5. \A s \in SUBSET t : s # {} => pick[s] \in s
    BY DEF Picks
  <2>6. \A s \in smaller : h[s] = fold(s)[s]
    <3> SUFFICES ASSUME NEW s \in smaller PROVE value(s) = fold(s)[s]
      OBVIOUS
    <3>1. fold(s)[s] = IF s = {} THEN base
                       ELSE step[<<pick[s], fold(s)[s \ {pick[s]}]>>]
      BY <2>4 DEF IsFold
    <3>2. CASE s = {}
      BY <3>1, <3>2
    <3>3. CASE s # {}
      <4>1. PICK r : r = s \ {pick[s]}
        OBVIOUS
      <4>2. r \in smaller /\ IsFiniteSet(r) /\ r \subseteq s
        BY <2>1, <4>1, FS_Subset
      <4>3. PICK f, g : f = fold(s) /\ g = fold(r)
        OBVIOUS
      <4>4. IsFold(step, base, pick, f, s) /\ IsFold(step, base, pick, g, r) /\ Picks(pick, r)
        BY <2>4, <2>5, <4>2, <4>3 DEF Picks
      <4>5. f[r] = g[r]
        BY <4>2, <4>4, FoldsAgree
      <4>6. QED
        BY <3>1, <3>3, <4>1, <4>3, <4>5
    <3>4. QED
      BY <3>2, <3>3
  <2>7. ASSUME NEW s \in SUBSET t, s # {}
        PROVE  s \ {pick[s]} \in smaller
    BY <2>5, <2>7
  <2>8. ASSUME NEW s \in SUBSET t
        PROVE  h[s] = IF s = {} THEN base ELSE step[<<pick[s], h[s \ {pick[s]}]>>]
    BY <2>6, <2>7
  <2>9. IsFold(step, base, pick, h, t)
    BY <2>8 DEF IsFold
  <2>10. QED
    BY <2>9
<1>2. \E f : IsFold(step, base, pick, f, S)
  BY <1>1
<1>3. QED
  BY <1>2

\* A set that has both values of a fold's kind as its steps' results.
Closed(step, base, S, T) == base \in T /\ \A x \in S, y \in T : step[<<x, y>>] \in T

\* f takes the steps wherever what it has so far is of the kind T.
Steps(step, base, pick, f, S, T) ==
    \A s \in SUBSET S : (\A x \in s : f[s \ {x}] \in T) =>
        f[s] = IF s = {} THEN base ELSE step[<<pick[s], f[s \ {pick[s]}]>>]

\* What every step keeps, a fold is.
LEMMA FoldType ==
    ASSUME NEW step, NEW base, NEW pick, NEW S, IsFiniteSet(S), Picks(pick, S),
           NEW T, Closed(step, base, S, T),
           NEW f, Steps(step, base, pick, f, S, T)
    PROVE  \A s \in SUBSET S : f[s] \in T
<1> DEFINE Bad == {s \in SUBSET S : f[s] \notin T}
<1> SUFFICES ASSUME Bad # {} PROVE FALSE
  OBVIOUS
<1>1. \A s \in Bad : IsFiniteSet(s)
  BY FS_Subset
<1>2. PICK s \in Bad : \A x \in s : s \ {x} \notin Bad
  <2> HIDE DEF Bad
  <2>1. QED
    BY <1>1, SmallestOf
<1>3. \A x \in s : f[s \ {x}] \in T
  BY <1>2
<1>4. f[s] = IF s = {} THEN base ELSE step[<<pick[s], f[s \ {pick[s]}]>>]
  BY <1>3 DEF Steps
<1>5. s # {} => pick[s] \in s
  BY DEF Picks
<1>6. QED
  BY <1>3, <1>4, <1>5 DEF Closed

\* A fold from the fold of what is left.
LEMMA FoldStep ==
    ASSUME NEW step, NEW base, NEW pick, NEW S, IsFiniteSet(S), Picks(pick, S)
    PROVE  FoldOf(step, base, pick, S) =
             IF S = {} THEN base
             ELSE step[<<pick[S], FoldOf(step, base, pick, S \ {pick[S]})>>]
<1>1. PICK f : IsFold(step, base, pick, f, S) /\ FoldOf(step, base, pick, S) = f[S]
  BY FoldExists DEF FoldOf
<1>2. f[S] = IF S = {} THEN base ELSE step[<<pick[S], f[S \ {pick[S]}]>>]
  BY <1>1 DEF IsFold
<1>3. PICK r : r = S \ {pick[S]}
  OBVIOUS
<1>4. IsFiniteSet(r) /\ r \subseteq S /\ Picks(pick, r)
  BY <1>3, FS_Subset DEF Picks
<1>5. PICK g : IsFold(step, base, pick, g, r) /\ FoldOf(step, base, pick, r) = g[r]
  BY <1>4, FoldExists DEF FoldOf
<1>6. f[r] = g[r]
  BY <1>1, <1>4, <1>5, FoldsAgree
<1>7. QED
  BY <1>1, <1>2, <1>3, <1>5, <1>6

OnSubsets(f, S) == f = [s \in SUBSET S |-> f[s]]

\* And a fold is whatever takes these steps on values of its kind.
LEMMA FoldIs ==
    ASSUME NEW step, NEW base, NEW pick, NEW S, IsFiniteSet(S), Picks(pick, S),
           NEW T, Closed(step, base, S, T),
           NEW f, OnSubsets(f, S), Steps(step, base, pick, f, S, T)
    PROVE  f[S] = FoldOf(step, base, pick, S) /\ f[S] \in T
<1>1. \A s \in SUBSET S : f[s] \in T
  BY FoldType
<1>2. ASSUME NEW s \in SUBSET S
      PROVE  f[s] = IF s = {} THEN base ELSE step[<<pick[s], f[s \ {pick[s]}]>>]
  <2>1. \A x \in s : f[s \ {x}] \in T
    BY <1>1
  <2>2. QED
    BY <2>1 DEF Steps
<1>3. IsFold(step, base, pick, f, S)
  BY <1>2 DEF IsFold, OnSubsets
<1>4. PICK g : IsFold(step, base, pick, g, S) /\ FoldOf(step, base, pick, S) = g[S]
  BY FoldExists DEF FoldOf
<1>5. f[S] = g[S]
  BY <1>3, <1>4, FoldsAgree
<1>6. QED
  BY <1>1, <1>4, <1>5

\* It is of their kind.
LEMMA FoldOfType ==
    ASSUME NEW step, NEW base, NEW pick, NEW S, IsFiniteSet(S), Picks(pick, S),
           NEW T, Closed(step, base, S, T)
    PROVE  FoldOf(step, base, pick, S) \in T
<1>1. PICK f : IsFold(step, base, pick, f, S) /\ FoldOf(step, base, pick, S) = f[S]
  BY FoldExists DEF FoldOf
<1>2. Steps(step, base, pick, f, S, T)
  BY <1>1 DEF IsFold, Steps
<1>3. QED
  BY <1>1, <1>2, FoldType

-----------------------------------------------------------------------------
(* Sums of natural weights.                                                *)

First(S) == [s \in SUBSET S |-> CHOOSE x \in s : TRUE]

AddUp(w) == [x \in (DOMAIN w) \X Nat |-> w[x[1]] + x[2]]

SumOf(w, S) == FoldOf(AddUp(w), 0, First(DOMAIN w), S)

Weighs(w, S) == IsFiniteSet(S) /\ S \subseteq DOMAIN w /\ \A x \in S : w[x] \in Nat

\* What a step adds.
LEMMA AddUpIs ==
    ASSUME NEW w, NEW S, Weighs(w, S)
    PROVE  \A x \in S, y \in Nat : AddUp(w)[<<x, y>>] = w[x] + y
<1> SUFFICES ASSUME NEW x \in S, NEW y \in Nat PROVE AddUp(w)[<<x, y>>] = w[x] + y
  OBVIOUS
<1>1. <<x, y>> \in (DOMAIN w) \X Nat
  BY DEF Weighs
<1>2. \A z \in (DOMAIN w) \X Nat : AddUp(w)[z] = w[z[1]] + z[2]
  BY DEF AddUp
<1>3. QED
  BY <1>1, <1>2

\* The parts of a weighed set.
LEMMA WeighsPart ==
    ASSUME NEW w, NEW S, Weighs(w, S), NEW A, A \subseteq S
    PROVE  Weighs(w, A) /\ IsFiniteSet(A)
  BY FS_Subset DEF Weighs

\* A sum of naturals is one, and comes from the sum over what is left.
LEMMA SumStep ==
    ASSUME NEW w, NEW S, Weighs(w, S)
    PROVE  /\ SumOf(w, S) \in Nat
           /\ S = {} => SumOf(w, S) = 0
           /\ S # {} => \E x \in S : SumOf(w, S) = w[x] + SumOf(w, S \ {x})
<1> DEFINE D == DOMAIN w
           pick == First(D)
           step == AddUp(w)
<1>1. Picks(pick, S)
  BY DEF Weighs, Picks, First
<1>2. \A x \in S, y \in Nat : step[<<x, y>>] = w[x] + y
  BY AddUpIs
<1>3. Closed(step, 0, S, Nat)
  BY <1>2 DEF Closed, Weighs
<1>4. IsFiniteSet(S)
  BY DEF Weighs
<1> HIDE DEF pick, step
<1>5. FoldOf(step, 0, pick, S) \in Nat
  BY <1>1, <1>3, <1>4, FoldOfType
<1>6. FoldOf(step, 0, pick, S) = IF S = {} THEN 0
                                 ELSE step[<<pick[S], FoldOf(step, 0, pick, S \ {pick[S]})>>]
  BY <1>1, <1>4, FoldStep
<1>7. PICK r : r = S \ {pick[S]}
  OBVIOUS
<1>8. FoldOf(step, 0, pick, r) \in Nat
  <2>1. IsFiniteSet(r) /\ Picks(pick, r) /\ Closed(step, 0, r, Nat)
    BY <1>1, <1>3, <1>4, <1>7, FS_Subset DEF Picks, Closed
  <2>2. QED
    BY <2>1, FoldOfType
<1>9. S # {} => pick[S] \in S
  BY <1>1 DEF Picks
<1>10. QED
  BY <1>2, <1>5, <1>6, <1>7, <1>8, <1>9 DEF SumOf, pick, step

\* Whichever element comes last.
LEMMA SumRemove ==
    ASSUME NEW w, NEW S, Weighs(w, S), NEW x \in S
    PROVE  SumOf(w, S) = w[x] + SumOf(w, S \ {x})
<1> DEFINE Bad == {s \in SUBSET S : \E y \in s : SumOf(w, s) # w[y] + SumOf(w, s \ {y})}
<1> SUFFICES ASSUME Bad # {} PROVE FALSE
  OBVIOUS
<1>1. \A s \in SUBSET S : IsFiniteSet(s) /\ Weighs(w, s)
  BY WeighsPart
<1>2. PICK s \in Bad : \A y \in s : s \ {y} \notin Bad
  <2>1. \A s \in Bad : IsFiniteSet(s)
    BY <1>1
  <2> HIDE DEF Bad
  <2>2. QED
    BY <2>1, SmallestOf
<1>3. PICK y \in s : SumOf(w, s) # w[y] + SumOf(w, s \ {y})
  OBVIOUS
<1>4. PICK z \in s : SumOf(w, s) = w[z] + SumOf(w, s \ {z})
  BY <1>1, <1>3, SumStep
<1>5. z # y
  BY <1>3, <1>4
<1>6. PICK r : r = s \ {y, z}
  OBVIOUS
<1>7. (s \ {z}) \ {y} = r /\ (s \ {y}) \ {z} = r /\ y \in s \ {z} /\ z \in s \ {y}
  BY <1>4, <1>5, <1>6
<1>8. /\ SumOf(w, s \ {z}) = w[y] + SumOf(w, r)
      /\ SumOf(w, s \ {y}) = w[z] + SumOf(w, r)
  BY <1>2, <1>4, <1>7
<1>9. SumOf(w, r) \in Nat /\ w[y] \in Nat /\ w[z] \in Nat
  BY <1>1, <1>4, <1>6, SumStep DEF Weighs
<1>10. SumOf(w, s) = w[y] + SumOf(w, s \ {y})
  BY <1>4, <1>8, <1>9
<1>11. QED
  BY <1>3, <1>10

\* Two disjoint parts.
LEMMA SumOfUnion ==
    ASSUME NEW w, NEW A, NEW B, Weighs(w, A), Weighs(w, B), A \cap B = {}
    PROVE  SumOf(w, A \cup B) = SumOf(w, A) + SumOf(w, B)
<1> DEFINE Bad == {s \in SUBSET B : SumOf(w, A \cup s) # SumOf(w, A) + SumOf(w, s)}
<1> SUFFICES ASSUME Bad # {} PROVE FALSE
  OBVIOUS
<1>1. \A s \in SUBSET B : IsFiniteSet(s) /\ Weighs(w, s) /\ Weighs(w, A \cup s)
  BY FS_Subset, FS_Union DEF Weighs
<1>2. PICK s \in Bad : \A y \in s : s \ {y} \notin Bad
  <2>1. \A s \in Bad : IsFiniteSet(s)
    BY <1>1
  <2> HIDE DEF Bad
  <2>2. QED
    BY <2>1, SmallestOf
<1>3. SumOf(w, A) \in Nat /\ (s = {} => SumOf(w, s) = 0)
  BY <1>1, SumStep
<1>4. PICK y : y \in s
  <2> SUFFICES ASSUME s = {} PROVE FALSE
    OBVIOUS
  <2>1. A \cup s = A
    OBVIOUS
  <2>2. SumOf(w, A \cup s) = SumOf(w, A) + SumOf(w, s)
    BY <1>3, <2>1
  <2>3. QED
    BY <2>2
<1>5. SumOf(w, A \cup (s \ {y})) = SumOf(w, A) + SumOf(w, s \ {y})
  BY <1>2, <1>4
<1>6. (A \cup s) \ {y} = A \cup (s \ {y}) /\ y \in A \cup s /\ y \in s
  BY <1>4
<1>7. Weighs(w, s) /\ Weighs(w, A \cup s)
  BY <1>1
<1>8. SumOf(w, s) = w[y] + SumOf(w, s \ {y})
  BY <1>6, <1>7, SumRemove
<1>9. SumOf(w, A \cup s) = w[y] + SumOf(w, (A \cup s) \ {y})
  BY <1>6, <1>7, SumRemove
<1>10. /\ SumOf(w, s) = w[y] + SumOf(w, s \ {y})
      /\ SumOf(w, A \cup s) = w[y] + SumOf(w, A \cup (s \ {y}))
  BY <1>6, <1>8, <1>9
<1>11. w[y] \in Nat /\ SumOf(w, s \ {y}) \in Nat
  BY <1>1, <1>4, SumStep DEF Weighs
<1>12. SumOf(w, A \cup s) = SumOf(w, A) + SumOf(w, s)
  BY <1>3, <1>5, <1>10, <1>11
<1>13. QED
  BY <1>12

\* A part weighs no more.
LEMMA SumOfPart ==
    ASSUME NEW w, NEW S, Weighs(w, S), NEW A, A \subseteq S
    PROVE  SumOf(w, A) <= SumOf(w, S)
<1>1. PICK B : B = S \ A
  OBVIOUS
<1>2. A \cup B = S /\ A \cap B = {} /\ Weighs(w, A) /\ Weighs(w, B)
  BY <1>1, WeighsPart
<1>3. SumOf(w, S) = SumOf(w, A) + SumOf(w, B)
  BY <1>2, SumOfUnion
<1>4. SumOf(w, A) \in Nat /\ SumOf(w, B) \in Nat
  BY <1>2, SumStep
<1>5. QED
  BY <1>3, <1>4

\* What weighs less sums to less.
LEMMA SumLess ==
    ASSUME NEW v, NEW w, NEW S, Weighs(v, S), Weighs(w, S), \A x \in S : v[x] <= w[x]
    PROVE  SumOf(v, S) <= SumOf(w, S)
<1> DEFINE Bad == {s \in SUBSET S : ~(SumOf(v, s) <= SumOf(w, s))}
<1> SUFFICES ASSUME Bad # {} PROVE FALSE
  OBVIOUS
<1>1. \A s \in SUBSET S : IsFiniteSet(s) /\ Weighs(v, s) /\ Weighs(w, s)
  BY FS_Subset DEF Weighs
<1>2. PICK s \in Bad : \A y \in s : s \ {y} \notin Bad
  <2>1. \A s \in Bad : IsFiniteSet(s)
    BY <1>1
  <2> HIDE DEF Bad
  <2>2. QED
    BY <2>1, SmallestOf
<1>3. s # {}
  <2> SUFFICES ASSUME s = {} PROVE FALSE
    OBVIOUS
  <2>1. SumOf(v, s) = 0 /\ SumOf(w, s) = 0
    BY <1>1, SumStep
  <2>2. QED
    BY <2>1
<1>4. PICK y : y \in s
  BY <1>3
<1>5. /\ SumOf(v, s) = v[y] + SumOf(v, s \ {y})
      /\ SumOf(w, s) = w[y] + SumOf(w, s \ {y})
  BY <1>1, <1>4, SumRemove
<1>6. PICK r : r = s \ {y}
  OBVIOUS
<1>7. r \in SUBSET S /\ SumOf(v, r) <= SumOf(w, r)
  BY <1>2, <1>4, <1>6
<1>8. /\ SumOf(v, r) \in Nat /\ SumOf(w, r) \in Nat
      /\ v[y] \in Nat /\ w[y] \in Nat /\ v[y] <= w[y]
  BY <1>1, <1>4, <1>7, SumStep DEF Weighs
<1>9. SumOf(v, s) <= SumOf(w, s)
  BY <1>5, <1>6, <1>7, <1>8
<1>10. QED
  BY <1>9

\* f adds up as MapThenSumSet does.
AddsUp(w, f, S) ==
    /\ OnSubsets(f, S)
    /\ \A s \in SUBSET S :
          f[s] = IF s = {} THEN 0
                 ELSE w[CHOOSE x \in s : TRUE] + f[s \ {CHOOSE x \in s : TRUE}]

\* Whatever adds up naturals, comes to their sum, and something does.
LEMMA SumIs ==
    ASSUME NEW w, NEW S, Weighs(w, S)
    PROVE  /\ \E f : AddsUp(w, f, S)
           /\ \A f : AddsUp(w, f, S) => f[S] = SumOf(w, S)
<1> DEFINE pick == First(DOMAIN w)
           step == AddUp(w)
<1>1. Picks(pick, S) /\ \A s \in SUBSET S : pick[s] = CHOOSE x \in s : TRUE
  BY DEF Weighs, Picks, First
<1>2. \A x \in S, y \in Nat : step[<<x, y>>] = w[x] + y
  BY AddUpIs
<1>3. IsFiniteSet(S) /\ Closed(step, 0, S, Nat)
  BY <1>2 DEF Closed, Weighs
<1> HIDE DEF pick, step
<1>4. ASSUME NEW f, AddsUp(w, f, S) PROVE f[S] = SumOf(w, S)
  <2>1. OnSubsets(f, S)
    BY <1>4 DEF AddsUp
  <2>2. ASSUME NEW s \in SUBSET S, \A x \in s : f[s \ {x}] \in Nat
        PROVE  f[s] = IF s = {} THEN 0 ELSE step[<<pick[s], f[s \ {pick[s]}]>>]
    <3>1. s # {} => pick[s] \in s
      BY <1>1 DEF Picks
    <3>2. f[s] = IF s = {} THEN 0 ELSE w[pick[s]] + f[s \ {pick[s]}]
      BY <1>1, <1>4 DEF AddsUp
    <3>3. s # {} => step[<<pick[s], f[s \ {pick[s]}]>>] = w[pick[s]] + f[s \ {pick[s]}]
      BY <1>2, <2>2, <3>1
    <3>4. QED
      BY <3>2, <3>3
  <2>3. Steps(step, 0, pick, f, S, Nat)
    BY <2>2 DEF Steps
  <2>4. f[S] = FoldOf(step, 0, pick, S)
    BY <1>1, <1>3, <2>1, <2>3, FoldIs
  <2>5. QED
    BY <2>4 DEF SumOf, pick, step
<1>5. \E f : AddsUp(w, f, S)
  <2>1. PICK f : IsFold(step, 0, pick, f, S)
    BY <1>1, <1>3, FoldExists
  <2>2. Steps(step, 0, pick, f, S, Nat)
    BY <2>1 DEF IsFold, Steps
  <2>3. \A s \in SUBSET S : f[s] \in Nat
    BY <1>1, <1>3, <2>2, FoldType
  <2>4. ASSUME NEW s \in SUBSET S
        PROVE  f[s] = IF s = {} THEN 0
                      ELSE w[CHOOSE x \in s : TRUE] + f[s \ {CHOOSE x \in s : TRUE}]
    <3>1. s # {} => pick[s] \in s
      BY <1>1 DEF Picks
    <3>2. f[s] = IF s = {} THEN 0 ELSE step[<<pick[s], f[s \ {pick[s]}]>>]
      BY <2>1 DEF IsFold
    <3>3. f[s \ {pick[s]}] \in Nat
      BY <2>3
    <3>4. s # {} => step[<<pick[s], f[s \ {pick[s]}]>>] = w[pick[s]] + f[s \ {pick[s]}]
      BY <1>2, <3>1, <3>3
    <3>5. pick[s] = CHOOSE x \in s : TRUE
      BY <1>1
    <3>6. QED
      BY <3>2, <3>4, <3>5
  <2>5. OnSubsets(f, S)
    BY <2>1 DEF IsFold, OnSubsets
  <2>6. QED
    BY <2>4, <2>5 DEF AddsUp
<1>6. QED
  BY <1>4, <1>5

-----------------------------------------------------------------------------
(* Routes: there is a least one, and its minutes are a number.             *)

\* A finite set in a total, transitive order has a first element.
LEMMA FirstOf ==
    ASSUME NEW S, IsFiniteSet(S), S # {}, NEW R,
           \A x, y \in S : x # y => <<x, y>> \in R \/ <<y, x>> \in R,
           \A x, y, z \in S : <<x, y>> \in R /\ <<y, z>> \in R => <<x, z>> \in R
    PROVE  \E x \in S : \A y \in S : y = x \/ <<x, y>> \in R
<1> DEFINE Bad == {s \in SUBSET S : s # {} /\ ~\E x \in s : \A y \in s : y = x \/ <<x, y>> \in R}
<1> SUFFICES ASSUME Bad # {} PROVE FALSE
  OBVIOUS
<1>1. PICK s \in Bad : \A x \in s : s \ {x} \notin Bad
  <2>1. \A s \in Bad : IsFiniteSet(s)
    BY FS_Subset
  <2> HIDE DEF Bad
  <2>2. QED
    BY <2>1, SmallestOf
<1>2. PICK x : x \in s
  OBVIOUS
<1>3. CASE s = {x}
  BY <1>3
<1>4. CASE s # {x}
  <2>1. s \ {x} # {}
    BY <1>2, <1>4
  <2>2. PICK m \in s \ {x} : \A y \in s \ {x} : y = m \/ <<m, y>> \in R
    BY <1>1, <1>2, <2>1
  <2>3. m \in S /\ x \in S /\ m # x /\ m \in s
    BY <1>2
  <2>4. CASE <<m, x>> \in R
    <3>1. \A y \in s : y = m \/ <<m, y>> \in R
      BY <2>2, <2>4
    <3>2. QED
      BY <2>3, <3>1
  <2>5. CASE <<x, m>> \in R
    <3>1. \A y \in s : y = x \/ <<x, y>> \in R
      BY <2>2, <2>3, <2>5
    <3>2. QED
      BY <1>2, <3>1
  <2>6. QED
    BY <2>3, <2>4, <2>5
<1>5. QED
  BY <1>3, <1>4

\* The greatest of some positions.
LEMMA MaxIs ==
    ASSUME NEW m \in Nat, NEW s, s \subseteq 1 .. m, s # {}
    PROVE  Max(s) \in s
<1> DEFINE N == {m - x : x \in s}
<1>1. N \subseteq Nat /\ N # {}
  <2>1. \A x \in 1 .. m : m - x \in Nat
    OBVIOUS
  <2>2. \A x \in s : m - x \in Nat
    BY <2>1
  <2>3. QED
    BY <2>2
<1> HIDE DEF N
<1>2. PICK n \in N : \A k \in N : n <= k
  BY <1>1, LeastOf
<1>3. PICK x \in s : n = m - x
  BY <1>2 DEF N
<1>4. \A y \in s : x >= y
  <2> SUFFICES ASSUME NEW y \in s PROVE x >= y
    OBVIOUS
  <2>1. n <= m - y
    BY <1>2 DEF N
  <2>2. x \in 1 .. m /\ y \in 1 .. m
    OBVIOUS
  <2>3. QED
    BY <1>3, <2>1, <2>2
<1>5. QED
  BY <1>4 DEF Max

\* What a finite set maps onto is finite.
LEMMA ImageFinite ==
    ASSUME NEW S, IsFiniteSet(S), NEW T, NEW f, \A t \in T : \E s \in S : f[s] = t
    PROVE  IsFiniteSet(T)
<1> DEFINE D == {s \in S : f[s] \in T}
           g == [s \in D |-> f[s]]
<1>1. IsFiniteSet(D)
  BY FS_Subset
<1>2. g \in Surjection(D, T)
  <2>1. g \in [D -> T]
    OBVIOUS
  <2>2. \A t \in T : \E s \in D : g[s] = t
    OBVIOUS
  <2> HIDE DEF g, D
  <2>3. QED
    BY <2>1, <2>2 DEF Surjection
<1> HIDE DEF g, D
<1>3. QED
  BY <1>1, <1>2, FS_Surjection

\* The sequences of a length over a finite set.
LEMMA TuplesFinite ==
    ASSUME NEW S, IsFiniteSet(S), NEW n \in Nat
    PROVE  IsFiniteSet([1 .. n -> S])
<1> DEFINE N == {k \in Nat : ~IsFiniteSet([1 .. k -> S])}
<1> SUFFICES ASSUME N # {} PROVE FALSE
  OBVIOUS
<1>1. PICK k \in N : \A j \in N : k <= j
  <2> HIDE DEF N
  <2>1. N \subseteq Nat
    BY DEF N
  <2>2. QED
    BY <2>1, LeastOf
<1>2. k \in Nat /\ ~IsFiniteSet([1 .. k -> S])
  OBVIOUS
<1>3. CASE k = 0
  <2>1. PICK e : e = [i \in 1 .. 0 |-> 0]
    OBVIOUS
  <2>2. [1 .. 0 -> S] \subseteq {e}
    BY <2>1
  <2>3. IsFiniteSet({e})
    BY FS_Singleton
  <2>4. IsFiniteSet([1 .. 0 -> S])
    BY <2>2, <2>3, FS_Subset
  <2>5. QED
    BY <1>3, <1>2, <2>4
<1>4. CASE k # 0
  <2>1. PICK j \in Nat : k = j + 1
    <3> HIDE DEF N
    <3>1. k \in Nat /\ k - 1 \in Nat /\ k = (k - 1) + 1
      BY <1>4, <1>2
    <3>2. QED
      BY <3>1
  <2>2. ~(k <= j)
    BY <2>1
  <2>3. IsFiniteSet([1 .. j -> S])
    BY <1>1, <2>2
  <2> DEFINE P == [1 .. j -> S] \X S
             longer(p) == [i \in 1 .. k |-> IF i = k THEN p[2] ELSE p[1][i]]
             f == [p \in P |-> longer(p)]
  <2>4. IsFiniteSet(P)
    BY <2>3, FS_Product
  <2>5. ASSUME NEW t \in [1 .. k -> S] PROVE \E p \in P : f[p] = t
    <3>1. PICK p : p = <<[i \in 1 .. j |-> t[i]], t[k]>>
      OBVIOUS
    <3>2. \A i \in 1 .. j : i \in 1 .. k /\ i # k
      BY <2>1
    <3>3. [i \in 1 .. j |-> t[i]] \in [1 .. j -> S] /\ t[k] \in S
      BY <2>1, <3>2
    <3>4. p \in P
      BY <3>1, <3>3
    <3>5. ASSUME NEW i \in 1 .. k PROVE longer(p)[i] = t[i]
      <4>1. i = k \/ i \in 1 .. j
        BY <2>1
      <4>2. QED
        BY <3>1, <4>1
    <3>6. longer(p) = t
      BY <3>5
    <3>7. QED
      BY <3>4, <3>6
  <2> HIDE DEF P, f
  <2>6. PICK T : T = [1 .. k -> S]
    OBVIOUS
  <2>7. \A t \in T : \E p \in P : f[p] = t
    BY <2>5, <2>6
  <2>8. IsFiniteSet(T)
    BY <2>4, <2>7, ImageFinite
  <2>9. QED
    BY <1>2, <2>6, <2>8
<1>5. QED
  BY <1>3, <1>4

\* Only so many paths are looked at.
LEMMA PathsFinite ==
    ASSUME NEW a, NEW b, NEW closed
    PROVE  IsFiniteSet(OpenPaths(a, b, closed))
<1> DEFINE n == Cardinality(Nodes) - 1
           E == Edges \ closed
           tuples(m) == [1 .. m -> E]
           All == {tuples(m) : m \in 0 .. n}
<1>1. n \in Int
  BY RoadAssumption, FS_CardinalityType DEF Nodes
<1>2. IsFiniteSet(E)
  BY RoadAssumption, FS_Difference DEF Edges
<1>3. \A m \in 0 .. n : IsFiniteSet(tuples(m))
  BY <1>1, <1>2, TuplesFinite
<1>4. IsFiniteSet(All)
  <2> DEFINE f == [m \in 0 .. n |-> tuples(m)]
  <2> HIDE DEF tuples, n
  <2>1. IsFiniteSet(0 .. n)
    BY <1>1, FS_Interval
  <2>2. \A t \in All : \E m \in 0 .. n : f[m] = t
    OBVIOUS
  <2> HIDE DEF f, All
  <2>3. QED
    BY <2>1, <2>2, ImageFinite
<1>5. IsFiniteSet(UNION All)
  <2>1. \A T \in All : IsFiniteSet(T)
    BY <1>3
  <2> HIDE DEF All
  <2>2. QED
    BY <1>4, <2>1, FS_UNION
<1>6. OpenPaths(a, b, closed) \subseteq UNION All
  BY DEF OpenPaths, BoundedSeq, SeqOf
<1> HIDE DEF All
<1>7. QED
  BY <1>5, <1>6, FS_Subset

\* Of two paths as long, one comes first by its edges.
LEMMA EdgesTotal ==
    ASSUME NEW m \in Nat, NEW p \in [1 .. m -> Nat], NEW q \in [1 .. m -> Nat], p # q
    PROVE  EdgesBefore(p, q) \/ EdgesBefore(q, p)
<1> DEFINE N == {i \in 1 .. m : p[i] # q[i]}
<1>1. N \subseteq Nat /\ N # {}
  OBVIOUS
<1> HIDE DEF N
<1>2. PICK i \in N : \A j \in N : i <= j
  BY <1>1, LeastOf
<1>3. i \in 1 .. m /\ p[i] # q[i]
  BY DEF N
<1>4. \A j \in 1 .. i - 1 : p[j] = q[j]
  <2> SUFFICES ASSUME NEW j \in 1 .. i - 1, p[j] # q[j] PROVE FALSE
    OBVIOUS
  <2>1. j \in N /\ ~(i <= j)
    BY <1>3 DEF N
  <2>2. QED
    BY <1>2, <2>1
<1>5. p[i] < q[i] \/ q[i] < p[i]
  BY <1>3
<1>6. Len(p) = m /\ Len(q) = m
  OBVIOUS
<1>7. QED
  BY <1>3, <1>4, <1>5, <1>6 DEF EdgesBefore

\* And the order by edges is transitive.
LEMMA EdgesTransitive ==
    ASSUME NEW m \in Nat, NEW p \in [1 .. m -> Nat], NEW q \in [1 .. m -> Nat],
           NEW r \in [1 .. m -> Nat], EdgesBefore(p, q), EdgesBefore(q, r)
    PROVE  EdgesBefore(p, r)
<1>1. Len(p) = m /\ Len(q) = m
  OBVIOUS
<1>2. PICK i \in 1 .. m : p[i] < q[i] /\ \A k \in 1 .. i - 1 : p[k] = q[k]
  BY <1>1 DEF EdgesBefore
<1>3. PICK j \in 1 .. m : q[j] < r[j] /\ \A k \in 1 .. j - 1 : q[k] = r[k]
  BY <1>1 DEF EdgesBefore
<1>4. p[i] \in Nat /\ q[i] \in Nat /\ r[i] \in Nat /\ p[j] \in Nat /\ q[j] \in Nat /\ r[j] \in Nat
  OBVIOUS
<1>5. PICK least \in {i, j} : least <= i /\ least <= j
  OBVIOUS
<1>6. p[least] < r[least]
  <2>1. CASE i < j
    <3>1. least = i /\ q[i] = r[i]
      BY <1>3, <1>5, <2>1
    <3>2. QED
      BY <1>2, <1>4, <3>1
  <2>2. CASE j < i
    <3>1. least = j /\ p[j] = q[j]
      BY <1>2, <1>5, <2>2
    <3>2. QED
      BY <1>3, <1>4, <3>1
  <2>3. CASE i = j
    BY <1>2, <1>3, <1>4, <1>5, <2>3
  <2>4. QED
    BY <2>1, <2>2, <2>3
<1>7. \A k \in 1 .. least - 1 : p[k] = r[k]
  <2> SUFFICES ASSUME NEW k \in 1 .. least - 1 PROVE p[k] = r[k]
    OBVIOUS
  <2>1. k \in 1 .. i - 1 /\ k \in 1 .. j - 1
    BY <1>5
  <2>2. QED
    BY <1>2, <1>3, <2>1
<1>8. QED
  BY <1>1, <1>5, <1>6, <1>7 DEF EdgesBefore

-----------------------------------------------------------------------------
(* The order of paths: that of their heap entries.                         *)

Timed(p) == [minutes |-> Minutes(p), path |-> p]

Sooner(p, q) == Before(Timed(p), Timed(q))

AtMost(p, q) == p = q \/ Sooner(p, q)

Prefix(p, i) == [j \in 1 .. i |-> p[j]]

MinutesIn(p) == [j \in DOMAIN p |-> Roads[p[j]].minutes]

\* A beginning of a path takes the minutes of its edges.
LEMMA PrefixTakes ==
    ASSUME NEW m \in Nat, NEW p \in [1 .. m -> Edges], NEW i \in 0 .. m
    PROVE  /\ Weighs(MinutesIn(p), 1 .. i)
           /\ Minutes(Prefix(p, i)) = SumOf(MinutesIn(p), 1 .. i)
<1> DEFINE D == 1 .. i
           w == MinutesIn(p)
           fits(f) == f = [s \in SUBSET D |-> IF s = {} THEN 0
                             ELSE f[s \ {Max(s)}] + Roads[p[Max(s)]].minutes]
           value(s) == SumOf(w, s)
<1>1. Weighs(w, D)
  <2>1. \A x \in D : x \in 1 .. m
    OBVIOUS
  <2>2. \A x \in 1 .. m : Roads[p[x]].minutes \in Nat
    BY RoadAssumption DEF Edges
  <2>3. IsFiniteSet(D)
    BY FS_Interval
  <2>4. QED
    BY <2>1, <2>2, <2>3 DEF Weighs, MinutesIn
<1>2. \A x \in D : w[x] = Roads[p[x]].minutes /\ Prefix(p, i)[x] = p[x]
  BY DEF MinutesIn, Prefix
<1>3. \A s \in SUBSET D : s # {} => Max(s) \in s
  <2>1. i \in Nat
    OBVIOUS
  <2>2. QED
    BY <2>1, MaxIs
<1>4. Minutes(Prefix(p, i)) = (CHOOSE f : fits(f))[D]
  <2> DEFINE those(f) == f = [s \in SUBSET D |-> IF s = {} THEN 0
                                ELSE f[s \ {Max(s)}] + Roads[Prefix(p, i)[Max(s)]].minutes]
  <2>1. DOMAIN Prefix(p, i) = D
    BY DEF Prefix
  <2>2. Minutes(Prefix(p, i)) = (CHOOSE f : those(f))[D]
    BY <2>1 DEF Minutes, FoldLeft, MapThenFoldSet
  <2>3. \A s \in SUBSET D : s # {} => Prefix(p, i)[Max(s)] = p[Max(s)]
    BY <1>2, <1>3
  <2>4. \A f : those(f) <=> fits(f)
    BY <2>3
  <2> HIDE DEF those, fits
  <2>5. (CHOOSE f : those(f)) = (CHOOSE f : fits(f))
    BY <2>4
  <2>6. QED
    BY <2>2, <2>5
<1>5. \A s \in SUBSET D : s # {} => value(s) = value(s \ {Max(s)}) + Roads[p[Max(s)]].minutes
  <2> SUFFICES ASSUME NEW s \in SUBSET D, s # {}
               PROVE  value(s) = value(s \ {Max(s)}) + Roads[p[Max(s)]].minutes
    OBVIOUS
  <2>1. PICK x : x = Max(s)
    OBVIOUS
  <2>2. x \in s /\ x \in D
    BY <1>3, <2>1
  <2>3. Weighs(w, s) /\ Weighs(w, s \ {x})
    BY <1>1, WeighsPart
  <2>4. value(s) = w[x] + value(s \ {x})
    BY <2>2, <2>3, SumRemove
  <2>5. value(s \ {x}) \in Nat /\ w[x] \in Nat
    BY <1>1, <2>2, <2>3, SumStep DEF Weighs
  <2>6. QED
    BY <1>2, <2>1, <2>2, <2>4, <2>5
<1>6. value({}) = 0
  <2>1. Weighs(w, {})
    BY <1>1, WeighsPart
  <2>2. QED
    BY <2>1, SumStep
<1> HIDE DEF value, w
<1>7. \E f : fits(f)
  <2>1. PICK f : f = [s \in SUBSET D |-> value(s)]
    OBVIOUS
  <2>2. \A s \in SUBSET D : s # {} => f[s \ {Max(s)}] = value(s \ {Max(s)})
    BY <2>1
  <2>3. fits(f)
    BY <1>5, <1>6, <2>1, <2>2
  <2>4. QED
    BY <2>3
<1>8. PICK f : f = (CHOOSE g : fits(g)) /\ fits(f)
  BY <1>7
<1>9. f[D] = value(D)
  <2> DEFINE Bad == {s \in SUBSET D : f[s] # value(s)}
  <2> SUFFICES ASSUME Bad # {} PROVE FALSE
    OBVIOUS
  <2>1. \A s \in Bad : IsFiniteSet(s)
    BY <1>1, FS_Subset DEF Weighs
  <2>2. PICK s \in Bad : \A x \in s : s \ {x} \notin Bad
    <3> HIDE DEF Bad
    <3>1. QED
      BY <2>1, SmallestOf
  <2>3. f[s] = IF s = {} THEN 0 ELSE f[s \ {Max(s)}] + Roads[p[Max(s)]].minutes
    BY <1>8
  <2>4. s # {}
    BY <1>6, <2>3
  <2>5. f[s \ {Max(s)}] = value(s \ {Max(s)})
    BY <1>3, <2>2, <2>4
  <2>6. QED
    BY <1>5, <2>3, <2>4, <2>5
<1>10. QED
  BY <1>1, <1>4, <1>8, <1>9 DEF value, w

\* What one edge more takes.
LEMMA MinutesAppend ==
    ASSUME NEW p \in Seq(Edges), NEW e \in Edges
    PROVE  Minutes(p) \in Nat /\ Minutes(Append(p, e)) = Minutes(p) + Roads[e].minutes
<1>1. PICK m, q : m = Len(p) /\ q = Append(p, e)
  OBVIOUS
<1>2. /\ m \in Nat /\ m + 1 \in Nat /\ m \in 0 .. m + 1 /\ m + 1 \in 0 .. m + 1
      /\ q \in [1 .. m + 1 -> Edges] /\ q[m + 1] = e /\ \A j \in 1 .. m : q[j] = p[j]
      /\ p \in [1 .. m -> Edges]
  <2>1. m \in Nat /\ p \in [1 .. m -> Edges]
    BY <1>1
  <2>2. /\ q \in Seq(Edges) /\ Len(q) = m + 1 /\ q[m + 1] = e
        /\ \A j \in 1 .. m : q[j] = p[j]
    BY <1>1, AppendProperties
  <2>3. q \in [1 .. m + 1 -> Edges]
    BY <2>2
  <2>4. QED
    BY <2>1, <2>2, <2>3
<1>3. Prefix(q, m) = p /\ Prefix(q, m + 1) = q
  BY <1>2 DEF Prefix
<1>4. PICK w : w = MinutesIn(q)
  OBVIOUS
<1>5. PICK n : n = m + 1
  OBVIOUS
<1>6. q \in [1 .. n -> Edges] /\ n \in Nat /\ m \in 0 .. n /\ n \in 0 .. n
  BY <1>2, <1>5
<1>7. PICK A, B : A = 1 .. n /\ B = 1 .. m
  OBVIOUS
<1>8. /\ Minutes(p) = SumOf(w, B) /\ Weighs(w, B)
      /\ Minutes(q) = SumOf(w, A) /\ Weighs(w, A)
  BY <1>3, <1>4, <1>5, <1>6, <1>7, PrefixTakes
<1>9. SumOf(w, A) = w[n] + SumOf(w, B)
  <2>1. n \in A /\ A \ {n} = B
    BY <1>2, <1>5, <1>7
  <2>2. SumOf(w, A) = w[n] + SumOf(w, A \ {n})
    BY <1>8, <2>1, SumRemove
  <2>3. QED
    BY <2>1, <2>2
<1>10. w[n] = Roads[e].minutes
  <2>1. n \in 1 .. n /\ q[n] = e
    BY <1>2, <1>5
  <2>2. QED
    BY <1>4, <1>6, <2>1 DEF MinutesIn
<1>11. SumOf(w, B) \in Nat /\ Roads[e].minutes \in Nat
  BY <1>8, SumStep, RoadAssumption DEF Edges
<1>12. QED
  BY <1>1, <1>8, <1>9, <1>10, <1>11

\* No beginning of a path takes longer.
LEMMA PrefixLess ==
    ASSUME NEW p \in Seq(Edges), NEW i \in 0 .. Len(p)
    PROVE  Minutes(Prefix(p, i)) \in Nat /\ Minutes(p) \in Nat
           /\ Minutes(Prefix(p, i)) <= Minutes(p)
<1>1. PICK m : m = Len(p)
  OBVIOUS
<1>2. m \in Nat /\ p \in [1 .. m -> Edges] /\ i \in 0 .. m /\ m \in 0 .. m
  BY <1>1
<1>3. Prefix(p, m) = p
  BY <1>2 DEF Prefix
<1>4. PICK w : w = MinutesIn(p)
  OBVIOUS
<1>5. PICK A, B : A = 1 .. m /\ B = 1 .. i
  OBVIOUS
<1>6. /\ Minutes(p) = SumOf(w, A) /\ Weighs(w, A)
      /\ Minutes(Prefix(p, i)) = SumOf(w, B) /\ Weighs(w, B)
  BY <1>2, <1>3, <1>4, <1>5, PrefixTakes
<1>7. B \subseteq A
  BY <1>2, <1>5
<1>8. SumOf(w, A) \in Nat /\ SumOf(w, B) \in Nat /\ SumOf(w, B) <= SumOf(w, A)
  BY <1>6, <1>7, SumOfPart, SumStep
<1>9. QED
  BY <1>6, <1>8

\* Nothing takes no time.
LEMMA NothingTaken == Minutes(<<>>) = 0
<1>1. PICK p, w : p = <<>> /\ w = MinutesIn(p)
  OBVIOUS
<1>2. p \in [1 .. 0 -> Edges] /\ 0 \in Nat /\ 0 \in 0 .. 0 /\ 1 .. 0 = {}
  BY <1>1
<1>3. Prefix(p, 0) = p
  BY <1>1, <1>2 DEF Prefix
<1>4. Minutes(p) = SumOf(w, 1 .. 0) /\ Weighs(w, 1 .. 0)
  BY <1>1, <1>2, <1>3, PrefixTakes
<1>5. QED
  BY <1>1, <1>2, <1>4, SumStep

\* What the order looks at.
LEMMA SoonerIs ==
    ASSUME NEW p \in Seq(Edges), NEW q \in Seq(Edges)
    PROVE  /\ Minutes(p) \in Nat /\ Minutes(q) \in Nat /\ Len(p) \in Nat /\ Len(q) \in Nat
           /\ p \in [1 .. Len(p) -> Nat] /\ q \in [1 .. Len(q) -> Nat]
           /\ Sooner(p, q) <=> \/ Minutes(p) < Minutes(q)
                               \/ Minutes(p) = Minutes(q) /\ Len(p) < Len(q)
                               \/ Minutes(p) = Minutes(q) /\ Len(p) = Len(q) /\ EdgesBefore(p, q)
<1>1. Minutes(p) \in Nat /\ Minutes(q) \in Nat
  <2>1. Len(p) \in 0 .. Len(p) /\ Len(q) \in 0 .. Len(q)
    OBVIOUS
  <2>2. QED
    BY <2>1, PrefixLess
<1>2. Edges \subseteq Nat
  BY RoadAssumption DEF Edges
<1>3. p \in [1 .. Len(p) -> Nat] /\ q \in [1 .. Len(q) -> Nat]
  <2>1. PICK m, n : m = Len(p) /\ n = Len(q)
    OBVIOUS
  <2>2. p \in [1 .. m -> Edges] /\ q \in [1 .. n -> Edges]
    BY <2>1
  <2>3. p \in [1 .. m -> Nat] /\ q \in [1 .. n -> Nat]
    BY <1>2, <2>2
  <2>4. QED
    BY <2>1, <2>3
<1>4. QED
  BY <1>1, <1>3 DEF Sooner, Before, Timed

\* It is total,
LEMMA SoonerTotal ==
    ASSUME NEW p \in Seq(Edges), NEW q \in Seq(Edges)
    PROVE  AtMost(p, q) \/ Sooner(q, p)
<1>1. PICK m, n, a, b : m = Len(p) /\ n = Len(q) /\ a = Minutes(p) /\ b = Minutes(q)
  OBVIOUS
<1>2. m \in Nat /\ n \in Nat /\ a \in Nat /\ b \in Nat
  BY <1>1, SoonerIs
<1>3. p # q /\ m = n => EdgesBefore(p, q) \/ EdgesBefore(q, p)
  <2>1. p \in [1 .. m -> Nat] /\ q \in [1 .. n -> Nat]
    BY <1>1, SoonerIs
  <2>2. QED
    BY <1>2, <2>1, EdgesTotal
<1>4. QED
  BY <1>1, <1>2, <1>3, SoonerIs DEF AtMost

\* transitive,
LEMMA SoonerTransitive ==
    ASSUME NEW p \in Seq(Edges), NEW q \in Seq(Edges), NEW r \in Seq(Edges)
    PROVE  /\ Sooner(p, q) /\ Sooner(q, r) => Sooner(p, r)
           /\ AtMost(p, q) /\ AtMost(q, r) => AtMost(p, r)
           /\ AtMost(p, q) /\ Sooner(q, r) => Sooner(p, r)
           /\ Sooner(p, q) /\ AtMost(q, r) => Sooner(p, r)
<1>1. ASSUME Sooner(p, q), Sooner(q, r) PROVE Sooner(p, r)
  <2>1. PICK m, n, o, a, b, c : /\ m = Len(p) /\ n = Len(q) /\ o = Len(r)
                                /\ a = Minutes(p) /\ b = Minutes(q) /\ c = Minutes(r)
    OBVIOUS
  <2>2. /\ m \in Nat /\ n \in Nat /\ o \in Nat /\ a \in Nat /\ b \in Nat /\ c \in Nat
        /\ p \in [1 .. m -> Nat] /\ q \in [1 .. n -> Nat] /\ r \in [1 .. o -> Nat]
    BY <2>1, SoonerIs
  <2>3. m = n /\ n = o /\ EdgesBefore(p, q) /\ EdgesBefore(q, r) => EdgesBefore(p, r)
    BY <2>2, EdgesTransitive
  <2>4. /\ a < b \/ (a = b /\ m < n) \/ (a = b /\ m = n /\ EdgesBefore(p, q))
        /\ b < c \/ (b = c /\ n < o) \/ (b = c /\ n = o /\ EdgesBefore(q, r))
    BY <1>1, <2>1, SoonerIs
  <2>5. a < c \/ (a = c /\ m < o) \/ (a = c /\ m = o /\ EdgesBefore(p, r))
    BY <2>2, <2>3, <2>4
  <2>6. QED
    BY <2>1, <2>5, SoonerIs
<1>2. QED
  BY <1>1 DEF AtMost

\* and puts nothing before itself.
LEMMA NotSooner ==
    ASSUME NEW p \in Seq(Edges), NEW q \in Seq(Edges)
    PROVE  ~Sooner(p, p) /\ ~(Sooner(p, q) /\ AtMost(q, p))
<1>1. ~Sooner(p, p)
  <2>1. ~EdgesBefore(p, p)
    <3>1. \A i \in 1 .. Len(p) : p[i] \in Nat
      BY SoonerIs
    <3>2. QED
      BY <3>1 DEF EdgesBefore
  <2>2. QED
    BY <2>1, SoonerIs
<1>2. QED
  BY <1>1, SoonerTransitive

\* One edge more keeps the order.
LEMMA SoonerExtends ==
    ASSUME NEW p \in Seq(Edges), NEW q \in Seq(Edges), NEW e \in Edges
    PROVE  /\ Append(p, e) \in Seq(Edges) /\ Append(q, e) \in Seq(Edges)
           /\ Sooner(p, q) => Sooner(Append(p, e), Append(q, e))
           /\ AtMost(p, q) => AtMost(Append(p, e), Append(q, e))
<1>1. PICK r, s : r = Append(p, e) /\ s = Append(q, e)
  OBVIOUS
<1>2. r \in Seq(Edges) /\ s \in Seq(Edges) /\ Len(r) = Len(p) + 1 /\ Len(s) = Len(q) + 1
  BY <1>1
<1>3. /\ Minutes(r) = Minutes(p) + Roads[e].minutes
      /\ Minutes(s) = Minutes(q) + Roads[e].minutes /\ Roads[e].minutes \in Nat
  BY <1>1, MinutesAppend, RoadAssumption DEF Edges
<1>4. EdgesBefore(p, q) /\ Len(p) = Len(q) => EdgesBefore(r, s)
  <2> SUFFICES ASSUME EdgesBefore(p, q), Len(p) = Len(q) PROVE EdgesBefore(r, s)
    OBVIOUS
  <2>1. PICK i \in 1 .. Len(p) : p[i] < q[i] /\ \A j \in 1 .. i - 1 : p[j] = q[j]
    BY DEF EdgesBefore
  <2>2. i \in 1 .. Len(r) /\ \A j \in 1 .. Len(p) : r[j] = p[j] /\ s[j] = q[j]
    BY <1>1, <1>2
  <2>3. \A j \in 1 .. i - 1 : j \in 1 .. Len(p)
    OBVIOUS
  <2>4. r[i] < s[i] /\ \A j \in 1 .. i - 1 : r[j] = s[j]
    BY <2>1, <2>2, <2>3
  <2>5. QED
    BY <2>2, <2>4 DEF EdgesBefore
<1>5. PICK m, n, a, b, c : /\ m = Len(p) /\ n = Len(q) /\ a = Minutes(p) /\ b = Minutes(q)
                           /\ c = Roads[e].minutes
  OBVIOUS
<1>6. m \in Nat /\ n \in Nat /\ a \in Nat /\ b \in Nat /\ c \in Nat
  BY <1>3, <1>5, SoonerIs
<1>7. Sooner(p, q) => Sooner(r, s)
  <2>1. Sooner(p, q) <=> a < b \/ (a = b /\ m < n) \/ (a = b /\ m = n /\ EdgesBefore(p, q))
    BY <1>5, SoonerIs
  <2>2. Sooner(r, s) <=> \/ a + c < b + c
                         \/ a + c = b + c /\ m + 1 < n + 1
                         \/ a + c = b + c /\ m + 1 = n + 1 /\ EdgesBefore(r, s)
    BY <1>2, <1>3, <1>5, SoonerIs
  <2>3. QED
    BY <1>4, <1>5, <1>6, <2>1, <2>2
<1>8. QED
  BY <1>1, <1>2, <1>7 DEF AtMost

\* A beginning of a path comes before it.
LEMMA PrefixSooner ==
    ASSUME NEW p \in Seq(Edges), NEW i \in 0 .. Len(p)
    PROVE  /\ Prefix(p, i) \in Seq(Edges) /\ Len(Prefix(p, i)) = i
           /\ AtMost(Prefix(p, i), p)
           /\ i = Len(p) => Prefix(p, i) = p
           /\ i = 0 => Prefix(p, i) = <<>>
           /\ i # 0 => Prefix(p, i) = Append(Prefix(p, i - 1), p[i])
           /\ i # Len(p) => Sooner(Prefix(p, i), p)
<1>1. PICK m, q : m = Len(p) /\ q = Prefix(p, i)
  OBVIOUS
<1>2. m \in Nat /\ i \in Nat /\ i <= m /\ p \in [1 .. m -> Edges]
  BY <1>1
<1>3. q \in [1 .. i -> Edges]
  BY <1>1, <1>2 DEF Prefix
<1>4. q \in Seq(Edges) /\ Len(q) = i
  BY <1>2, <1>3
<1>5. i = m => q = p
  BY <1>1, <1>2 DEF Prefix
<1>6. i = 0 => q = <<>>
  BY <1>4
<1>7. i # m => Sooner(q, p)
  <2>1. Minutes(q) \in Nat /\ Minutes(p) \in Nat /\ Minutes(q) <= Minutes(p)
    BY <1>1, PrefixLess
  <2>2. QED
    BY <1>1, <1>2, <1>4, <2>1, SoonerIs
<1>8. i # 0 => q = Append(Prefix(p, i - 1), p[i])
  <2> SUFFICES ASSUME i # 0 PROVE q = Append(Prefix(p, i - 1), p[i])
    OBVIOUS
  <2>1. PICK k, r : k = i - 1 /\ r = Prefix(p, k)
    OBVIOUS
  <2>2. k \in Nat /\ i = k + 1 /\ k \in 0 .. m
    BY <1>2, <2>1
  <2>3. r \in [1 .. k -> Edges]
    BY <1>2, <2>1, <2>2 DEF Prefix
  <2>4. r \in Seq(Edges) /\ Len(r) = k
    BY <2>2, <2>3
  <2>5. p[i] \in Edges
    BY <1>2, <2>2
  <2>6. PICK s : s = Append(r, p[i])
    OBVIOUS
  <2>7. s \in [1 .. k + 1 -> Edges] /\ s[k + 1] = p[i] /\ \A j \in 1 .. k : s[j] = r[j]
    <3>1. PICK e : e = p[i]
      OBVIOUS
    <3>2. s = Append(r, e) /\ e \in Edges
      BY <2>5, <2>6, <3>1
    <3>3. s \in Seq(Edges) /\ Len(s) = k + 1 /\ s[k + 1] = e /\ \A j \in 1 .. k : s[j] = r[j]
      BY <2>4, <3>2, AppendProperties
    <3>4. s \in [1 .. k + 1 -> Edges]
      BY <3>3
    <3>5. QED
      BY <3>1, <3>3, <3>4
  <2>8. \A j \in 1 .. k + 1 : s[j] = q[j]
    BY <1>1, <2>1, <2>2, <2>7 DEF Prefix
  <2>9. s = q
    BY <1>3, <2>2, <2>7, <2>8
  <2>10. QED
    BY <2>1, <2>6, <2>9
<1>9. QED
  BY <1>1, <1>4, <1>5, <1>6, <1>7, <1>8 DEF AtMost

\* Nothing is before the empty path.
LEMMA EmptyFirst ==
    ASSUME NEW p \in Seq(Edges)
    PROVE  AtMost(<<>>, p) /\ (AtMost(p, <<>>) => p = <<>>)
<1>1. <<>> \in Seq(Edges)
  OBVIOUS
<1>2. AtMost(<<>>, p)
  BY PrefixSooner
<1>3. QED
  BY <1>1, <1>2, NotSooner DEF AtMost

-----------------------------------------------------------------------------
(* Routes: there is a least path where there is one.                       *)

\* Some paths have a first.
LEMMA FirstPath ==
    ASSUME NEW P, IsFiniteSet(P), P # {}, P \subseteq Seq(Edges)
    PROVE  \E p \in P : \A q \in P : AtMost(p, q)
<1> DEFINE R == {x \in P \X P : Sooner(x[1], x[2])}
<1>1. \A p, q \in P : <<p, q>> \in R <=> Sooner(p, q)
  OBVIOUS
<1> HIDE DEF R
<1>2. \A p, q \in P : p # q => <<p, q>> \in R \/ <<q, p>> \in R
  BY <1>1, SoonerTotal DEF AtMost
<1>3. \A p, q, r \in P : <<p, q>> \in R /\ <<q, r>> \in R => <<p, r>> \in R
  BY <1>1, SoonerTransitive
<1>4. \E p \in P : \A q \in P : q = p \/ <<p, q>> \in R
  BY <1>2, <1>3, FirstOf
<1>5. QED
  BY <1>1, <1>4 DEF AtMost

\* The paths a route is chosen from.
LEMMA OpenPathsAre ==
    ASSUME NEW a, NEW z, NEW C, NEW p
    PROVE  p \in OpenPaths(a, z, C) <=>
              p \in Seq(Edges \ C) /\ Leads(p, a, z) /\ Len(p) <= Cardinality(Nodes) - 1
<1>1. PICK E, n : E = Edges \ C /\ n = Cardinality(Nodes) - 1
  OBVIOUS
<1>2. n \in Int
  BY <1>1, RoadAssumption, FS_CardinalityType DEF Nodes
<1>3. p \in BoundedSeq(E, n) <=> \E m \in 0 .. n : p \in [1 .. m -> E]
  BY DEF BoundedSeq, SeqOf
<1>4. ASSUME p \in Seq(E), Len(p) <= n PROVE \E m \in 0 .. n : p \in [1 .. m -> E]
  <2>1. PICK m : m = Len(p)
    OBVIOUS
  <2>2. m \in 0 .. n /\ p \in [1 .. m -> E]
    BY <1>2, <1>4, <2>1
  <2>3. QED
    BY <2>2
<1>5. ASSUME NEW m \in 0 .. n, p \in [1 .. m -> E] PROVE p \in Seq(E) /\ Len(p) <= n
  <2>1. m \in Nat /\ m <= n
    BY <1>2
  <2>2. p \in Seq(E) /\ Len(p) = m
    BY <1>5, <2>1
  <2>3. QED
    BY <2>1, <2>2
<1>6. QED
  BY <1>1, <1>3, <1>4, <1>5 DEF OpenPaths

\* A path at most every other is the route.
LEMMA RouteIs ==
    ASSUME NEW a, NEW z, NEW C, NEW p \in OpenPaths(a, z, C),
           \A q \in OpenPaths(a, z, C) : AtMost(p, q)
    PROVE  Route(a, z, C) = [reachable |-> TRUE, minutes |-> Minutes(p), path |-> p]
<1>1. PICK L : L = {[minutes |-> Minutes(q), path |-> q] : q \in OpenPaths(a, z, C)}
  OBVIOUS
<1>2. ASSUME NEW q \in OpenPaths(a, z, C) PROVE q \in Seq(Edges)
  <2>1. q \in Seq(Edges \ C)
    BY OpenPathsAre
  <2>2. QED
    BY <2>1
<1>3. Timed(p) \in L /\ L # {}
  BY <1>1 DEF Timed
<1>4. \A k \in L : \E q \in OpenPaths(a, z, C) : k = Timed(q)
  BY <1>1 DEF Timed
<1>5. \A k \in L : k = Timed(p) \/ Before(Timed(p), k)
  BY <1>4 DEF AtMost, Sooner
<1>6. ASSUME NEW k \in L, \A l \in L : l = k \/ Before(k, l) PROVE k = Timed(p)
  <2>1. PICK q \in OpenPaths(a, z, C) : k = Timed(q)
    BY <1>4
  <2>2. q \in Seq(Edges) /\ p \in Seq(Edges)
    BY <1>2
  <2>3. ~(Sooner(q, p) /\ AtMost(p, q))
    BY <2>2, NotSooner
  <2>4. ~Before(k, Timed(p))
    BY <2>1, <2>3 DEF Sooner
  <2>5. QED
    BY <1>3, <1>6, <2>4
<1>7. Least(L) = Timed(p)
  <2>1. \E k \in L : \A l \in L : l = k \/ Before(k, l)
    BY <1>3, <1>5
  <2>2. PICK k : k = Least(L)
    OBVIOUS
  <2>3. k \in L /\ \A l \in L : l = k \/ Before(k, l)
    BY <2>1, <2>2 DEF Least
  <2>4. QED
    BY <1>6, <2>2, <2>3
<1>8. Timed(p).minutes = Minutes(p) /\ Timed(p).path = p
  BY DEF Timed
<1>9. Route(a, z, C) = [reachable |-> TRUE, minutes |-> Least(L).minutes, path |-> Least(L).path]
  BY <1>1, <1>3 DEF Route
<1>10. QED
  BY <1>7, <1>8, <1>9

\* So every route takes a number of minutes.
LEMMA RouteMinutes ==
    ASSUME NEW a, NEW z, NEW C
    PROVE  Route(a, z, C).minutes \in Nat /\ Route(a, z, C).reachable \in BOOLEAN
<1>1. PICK P : P = OpenPaths(a, z, C)
  OBVIOUS
<1>2. CASE P = {}
  <2>1. Route(a, z, C) = Unreachable
    BY <1>1, <1>2 DEF Route
  <2>2. QED
    BY <2>1 DEF Unreachable
<1>3. CASE P # {}
  <2>1. IsFiniteSet(P)
    BY <1>1, PathsFinite
  <2>2. ASSUME NEW q \in P PROVE q \in Seq(Edges)
    <3>1. q \in Seq(Edges \ C)
      BY <1>1, OpenPathsAre
    <3>2. QED
      BY <3>1
  <2>3. PICK p \in P : \A q \in P : AtMost(p, q)
    BY <1>3, <2>1, <2>2, FirstPath
  <2>4. Route(a, z, C) = [reachable |-> TRUE, minutes |-> Minutes(p), path |-> p]
    BY <1>1, <2>3, RouteIs
  <2>5. Minutes(p) \in Nat
    BY <2>2, SoonerIs
  <2>6. QED
    BY <2>4, <2>5
<1>4. QED
  BY <1>2, <1>3

\* Where a route is open, it is with fewer closures, and takes no longer.
LEMMA FewerClosed ==
    ASSUME NEW a, NEW z, NEW C, NEW D, C \subseteq D, Route(a, z, D).reachable
    PROVE  Route(a, z, C).reachable /\ Route(a, z, C).minutes <= Route(a, z, D).minutes
<1>1. PICK P, Q : P = OpenPaths(a, z, C) /\ Q = OpenPaths(a, z, D)
  OBVIOUS
<1>2. Q # {}
  <2> SUFFICES ASSUME Q = {} PROVE FALSE
    OBVIOUS
  <2>1. {[minutes |-> Minutes(p), path |-> p] : p \in OpenPaths(a, z, D)} = {}
    BY <1>1
  <2>2. Route(a, z, D) = Unreachable
    BY <2>1 DEF Route
  <2>3. QED
    BY <2>2 DEF Unreachable
<1>3. P \subseteq Seq(Edges) /\ Q \subseteq Seq(Edges)
  <2>1. ASSUME NEW B, NEW p \in Seq(Edges \ B) PROVE p \in Seq(Edges)
    OBVIOUS
  <2>2. QED
    BY <1>1, <2>1, OpenPathsAre
<1>4. Q \subseteq P
  <2>1. ASSUME NEW p \in Seq(Edges \ D) PROVE p \in Seq(Edges \ C)
    OBVIOUS
  <2>2. QED
    BY <1>1, <2>1, OpenPathsAre
<1>5. IsFiniteSet(P) /\ IsFiniteSet(Q)
  BY <1>1, PathsFinite
<1>6. PICK q \in Q : \A r \in Q : AtMost(q, r)
  BY <1>2, <1>3, <1>5, FirstPath
<1>7. PICK p \in P : \A r \in P : AtMost(p, r)
  BY <1>2, <1>3, <1>4, <1>5, FirstPath
<1>8. /\ Route(a, z, D) = [reachable |-> TRUE, minutes |-> Minutes(q), path |-> q]
      /\ Route(a, z, C) = [reachable |-> TRUE, minutes |-> Minutes(p), path |-> p]
  BY <1>1, <1>6, <1>7, RouteIs
<1>9. Minutes(p) <= Minutes(q)
  <2>1. AtMost(p, q) /\ p \in Seq(Edges) /\ q \in Seq(Edges)
    BY <1>3, <1>4, <1>6, <1>7
  <2>2. p = q \/ Sooner(p, q)
    BY <2>1 DEF AtMost
  <2>3. /\ Minutes(p) \in Nat /\ Minutes(q) \in Nat
        /\ Sooner(p, q) => Minutes(p) < Minutes(q) \/ Minutes(p) = Minutes(q)
    BY <2>1, SoonerIs
  <2>4. QED
    BY <2>2, <2>3
<1>10. QED
  BY <1>8, <1>9

\* The nearest node is one, where there are any.
LEMMA NearestIs ==
    ASSUME NEW x \in Int, Nodes # {}
    PROVE  Nearest(x) \in Nodes
<1> DEFINE nearer(n, m) == \/ Distance(n, x) < Distance(m, x)
                           \/ Distance(n, x) = Distance(m, x) /\ n < m
           R == {y \in Nodes \X Nodes : nearer(y[1], y[2])}
<1>1. \A n \in Nodes : Distance(n, x) \in Int /\ n \in Nat
  <2>1. \A n \in Nodes : NodeAt[n] \in Int /\ n \in Nat
    BY RoadAssumption DEF Nodes, Range
  <2>2. QED
    BY <2>1 DEF Distance
<1>2. IsFiniteSet(Nodes)
  BY RoadAssumption DEF Nodes
<1>3. \A n, m \in Nodes : n # m => nearer(n, m) \/ nearer(m, n)
  BY <1>1
<1>4. \A n, m, k \in Nodes : nearer(n, m) /\ nearer(m, k) => nearer(n, k)
  BY <1>1
<1>5. \A n, m \in Nodes : <<n, m>> \in R <=> nearer(n, m)
  OBVIOUS
<1> HIDE DEF R, nearer
<1>6. \A n, m \in Nodes : n # m => <<n, m>> \in R \/ <<m, n>> \in R
  BY <1>3, <1>5
<1>7. \A n, m, k \in Nodes : <<n, m>> \in R /\ <<m, k>> \in R => <<n, k>> \in R
  BY <1>4, <1>5
<1>8. \E n \in Nodes : \A m \in Nodes : m = n \/ <<n, m>> \in R
  BY <1>2, <1>6, <1>7, FirstOf
<1>9. \E n \in Nodes : \A m \in Nodes \ {n} : nearer(n, m)
  BY <1>5, <1>8
<1>10. QED
  BY <1>9 DEF Nearest, nearer

-----------------------------------------------------------------------------
(* The search of compute_route finds the least open path.  A label that    *)
(* leaves the heap as the best of its node is least of all open paths to   *)
(* that node: such a node is settled.                                      *)

Reaches(p, a, n, C) == p \in Seq(Edges \ C) /\ Leads(p, a, n)

IsTip(l, a, C) ==
    /\ l = [node |-> l.node, minutes |-> Minutes(l.path), path |-> l.path]
    /\ l.node \in Nodes
    /\ Reaches(l.path, a, l.node, C)

Settled(s) == {n \in DOMAIN s.best : s.best[n] \notin s.queue}

\* What holds of a search that has no answer yet.
IsSearch(s, a, C) ==
    /\ s = [queue |-> s.queue, best |-> s.best, answer |-> Unreachable]
    /\ s.best = [n \in DOMAIN s.best |-> s.best[n]]
    /\ IsFiniteSet(s.queue)
    /\ DOMAIN s.best \subseteq Nodes
    /\ a \in DOMAIN s.best
    /\ s.best[a].path = <<>>

KnowsBest(s, a, C) ==
    /\ \A n \in DOMAIN s.best : IsTip(s.best[n], a, C) /\ s.best[n].node = n
    /\ \A l \in s.queue :
          IsTip(l, a, C) /\ l.node \in DOMAIN s.best /\ AtMost(s.best[l.node].path, l.path)

\* The edges out of a settled node are taken into account.
EdgesTaken(s, C) ==
    \A e \in Edges \ C : Roads[e].from \in Settled(s) =>
        /\ Roads[e].to \in DOMAIN s.best
        /\ AtMost(s.best[Roads[e].to].path, Append(s.best[Roads[e].from].path, e))

SettledLeast(s, a, C) ==
    \A n \in Settled(s), p \in Seq(Edges \ C) : Leads(p, a, n) => AtMost(s.best[n].path, p)

\* Each settled node lengthens the best paths by one edge at most.
ShortPaths(s) == \A n \in DOMAIN s.best : Len(s.best[n].path) <= Cardinality(Settled(s))

Searching(s, a, z, C) ==
    /\ IsSearch(s, a, C)
    /\ KnowsBest(s, a, C)
    /\ EdgesTaken(s, C)
    /\ SettledLeast(s, a, C)
    /\ ShortPaths(s)
    /\ z \notin Settled(s)

\* Where a path stands after some edges.
EndOf(p, a, i) == IF i = 0 THEN a ELSE Roads[p[i]].to

\* A path leads to each place on its way.
LEMMA PathLeads ==
    ASSUME NEW p, NEW a, NEW n, NEW C, Reaches(p, a, n, C), NEW i \in 0 .. Len(p)
    PROVE  /\ Reaches(Prefix(p, i), a, EndOf(p, a, i), C)
           /\ i = Len(p) => EndOf(p, a, i) = n
           /\ i # 0 => p[i] \in Edges \ C /\ Roads[p[i]].from = EndOf(p, a, i - 1)
<1>1. p \in Seq(Edges \ C) /\ Leads(p, a, n)
  BY DEF Reaches
<1>2. PICK m, q : m = Len(p) /\ q = Prefix(p, i)
  OBVIOUS
<1>3. m \in Nat /\ i \in Nat /\ i <= m /\ p \in [1 .. m -> Edges \ C]
  BY <1>1, <1>2
<1>4. q \in [1 .. i -> Edges \ C] /\ \A j \in 1 .. i : q[j] = p[j]
  BY <1>2, <1>3 DEF Prefix
<1>5. q \in Seq(Edges \ C) /\ Len(q) = i
  BY <1>3, <1>4
<1>6. m # 0 => /\ Roads[p[1]].from = a /\ Roads[p[m]].to = n
               /\ \A j \in 1 .. m - 1 : Roads[p[j]].to = Roads[p[j + 1]].from
  BY <1>1, <1>2, <1>3 DEF Leads, Last
<1>7. m = 0 => a = n
  BY <1>1, <1>2, <1>3 DEF Leads
<1>8. Leads(q, a, EndOf(p, a, i))
  <2>1. CASE i = 0
    BY <1>5, <2>1 DEF Leads, EndOf
  <2>2. CASE i # 0
    <3>1. q # <<>> /\ Head(q) = q[1] /\ Last(q) = q[i]
      BY <1>5, <2>2 DEF Last
    <3>2. 1 \in 1 .. i /\ i \in 1 .. i /\ m # 0
      BY <1>3, <2>2
    <3>3. \A j \in 1 .. i - 1 : j \in 1 .. i /\ j + 1 \in 1 .. i /\ j \in 1 .. m - 1
      BY <1>3
    <3>4. \A j \in 1 .. i - 1 : Roads[q[j]].to = Roads[q[j + 1]].from
      BY <1>4, <1>6, <3>2, <3>3
    <3>5. Roads[q[1]].from = a /\ Roads[q[i]].to = Roads[p[i]].to
      BY <1>4, <1>6, <3>2
    <3>6. QED
      BY <1>5, <2>2, <3>1, <3>4, <3>5 DEF Leads, EndOf
  <2>3. QED
    BY <2>1, <2>2
<1>9. i = m => EndOf(p, a, i) = n
  BY <1>6, <1>7 DEF EndOf
<1>10. i # 0 => p[i] \in Edges \ C /\ Roads[p[i]].from = EndOf(p, a, i - 1)
  <2> SUFFICES ASSUME i # 0
               PROVE  p[i] \in Edges \ C /\ Roads[p[i]].from = EndOf(p, a, i - 1)
    OBVIOUS
  <2>1. PICK k : k = i - 1
    OBVIOUS
  <2>2. k \in Nat /\ i = k + 1 /\ m # 0 /\ (k # 0 => k \in 1 .. m - 1)
    BY <1>3, <2>1
  <2>3. p[i] \in Edges \ C
    BY <1>3, <2>2
  <2>4. Roads[p[i]].from = EndOf(p, a, k)
    BY <1>6, <2>2 DEF EndOf
  <2>5. QED
    BY <2>1, <2>3, <2>4
<1>11. QED
  BY <1>2, <1>5, <1>8, <1>9, <1>10 DEF Reaches

\* A path and an edge from its end.
LEMMA PathExtends ==
    ASSUME NEW C, NEW p, NEW a, NEW n, Reaches(p, a, n, C), NEW e \in Edges \ C,
           Roads[e].from = n
    PROVE  Reaches(Append(p, e), a, Roads[e].to, C)
<1>1. PICK m, q : m = Len(p) /\ q = Append(p, e)
  OBVIOUS
<1>2. p \in Seq(Edges \ C) /\ m \in Nat /\ p \in [1 .. m -> Edges \ C] /\ Leads(p, a, n)
  BY <1>1 DEF Reaches
<1>3. q \in Seq(Edges \ C) /\ Len(q) = m + 1 /\ q[m + 1] = e /\ \A j \in 1 .. m : q[j] = p[j]
  BY <1>1, <1>2, AppendProperties
<1>4. q # <<>> /\ Head(q) = q[1] /\ Last(q) = q[m + 1]
  BY <1>2, <1>3 DEF Last
<1>5. m = 0 => a = n
  BY <1>1, <1>2 DEF Leads
<1>6. m # 0 => /\ Roads[p[1]].from = a /\ Roads[p[m]].to = n
               /\ \A j \in 1 .. m - 1 : Roads[p[j]].to = Roads[p[j + 1]].from
  BY <1>1, <1>2 DEF Leads, Last
<1>7. Roads[q[1]].from = a
  <2>1. m = 0 \/ 1 \in 1 .. m
    BY <1>2
  <2>2. QED
    BY <1>3, <1>5, <1>6, <2>1
<1>8. ASSUME NEW j \in 1 .. m PROVE Roads[q[j]].to = Roads[q[j + 1]].from
  <2>1. j = m \/ (j \in 1 .. m - 1 /\ j + 1 \in 1 .. m)
    BY <1>2
  <2>2. QED
    BY <1>3, <1>6, <2>1
<1>9. Leads(q, a, Roads[e].to)
  <2>1. (m + 1) - 1 = m
    BY <1>2
  <2>2. QED
    BY <1>3, <1>4, <1>7, <1>8, <2>1 DEF Leads
<1>10. QED
  BY <1>1, <1>3, <1>9 DEF Reaches

\* Every road of an open path is a road.
LEMMA TipPath ==
    ASSUME NEW a, NEW C, NEW l, IsTip(l, a, C)
    PROVE  l.path \in Seq(Edges)
  BY DEF IsTip, Reaches

\* Labels compare as their paths do.
LEMMA TipsCompare ==
    ASSUME NEW a, NEW C, NEW k, NEW l, IsTip(k, a, C), IsTip(l, a, C)
    PROVE  /\ k.path \in Seq(Edges) /\ l.path \in Seq(Edges)
           /\ Before(k, l) <=> Sooner(k.path, l.path)
           /\ k.path = l.path => k = l
<1>1. k.path \in Seq(Edges) /\ l.path \in Seq(Edges)
  BY DEF IsTip, Reaches
<1>2. k.minutes = Minutes(k.path) /\ l.minutes = Minutes(l.path)
  BY DEF IsTip
<1>3. k.path = l.path => k.node = l.node
  BY DEF IsTip, Reaches, Leads
<1>4. k.path = l.path => k = l
  BY <1>3 DEF IsTip
<1>5. QED
  BY <1>1, <1>2, <1>4 DEF Before, Sooner, Timed

\* Some labels have a least one.
LEMMA LeastTip ==
    ASSUME NEW a, NEW C, NEW L, IsFiniteSet(L), L # {},
           \A l \in L : IsTip(l, a, C)
    PROVE  /\ Least(L) \in L
           /\ \A l \in L : l = Least(L) \/ Before(Least(L), l)
           /\ \A l \in L : AtMost(Least(L).path, l.path)
<1> DEFINE P == {l.path : l \in L}
<1>1. P \subseteq Seq(Edges)
  BY DEF IsTip, Reaches
<1>2. IsFiniteSet(P) /\ P # {}
  <2> DEFINE f == [l \in L |-> l.path]
  <2>1. \A t \in P : \E l \in L : f[l] = t
    OBVIOUS
  <2>2. P # {}
    OBVIOUS
  <2> HIDE DEF f, P
  <2>3. QED
    BY <2>1, <2>2, ImageFinite
<1>3. \A l \in L : l.path \in P
  OBVIOUS
<1>4. \A p \in P : \E l \in L : l.path = p
  OBVIOUS
<1> HIDE DEF P
<1>5. PICK p \in P : \A q \in P : AtMost(p, q)
  BY <1>1, <1>2, FirstPath
<1>6. PICK k \in L : k.path = p
  BY <1>4
<1>7. \A l \in L : l = k \/ Before(k, l)
  <2> SUFFICES ASSUME NEW l \in L PROVE l = k \/ Before(k, l)
    OBVIOUS
  <2>1. l.path = k.path \/ Sooner(k.path, l.path)
    BY <1>3, <1>5, <1>6 DEF AtMost
  <2>2. QED
    BY <2>1, TipsCompare
<1>8. PICK m : m = Least(L)
  OBVIOUS
<1>9. m \in L /\ \A l \in L : l = m \/ Before(m, l)
  BY <1>7, <1>8 DEF Least
<1>10. \A l \in L : AtMost(m.path, l.path)
  BY <1>9, TipsCompare DEF AtMost
<1>11. QED
  BY <1>8, <1>9, <1>10

\* On the way to a node that is not settled, a label of the queue is met.
LEMMA QueueMeets ==
    ASSUME NEW s, NEW a, NEW C, IsSearch(s, a, C), KnowsBest(s, a, C), EdgesTaken(s, C),
           SettledLeast(s, a, C),
           NEW n, n \notin Settled(s), NEW p \in Seq(Edges \ C), Leads(p, a, n)
    PROVE  \E k \in s.queue : AtMost(k.path, p)
<1> DEFINE N == {i \in 0 .. Len(p) : EndOf(p, a, i) \notin Settled(s)}
<1>1. ASSUME NEW j \in 0 .. Len(p)
      PROVE  /\ Reaches(Prefix(p, j), a, EndOf(p, a, j), C)
             /\ j = Len(p) => EndOf(p, a, j) = n
             /\ j # 0 => p[j] \in Edges \ C /\ Roads[p[j]].from = EndOf(p, a, j - 1)
  <2>1. Reaches(p, a, n, C)
    BY DEF Reaches
  <2>2. QED
    BY <2>1, PathLeads
<1>2. N \subseteq Nat /\ N # {}
  <2>1. PICK m : m = Len(p)
    OBVIOUS
  <2>2. m \in Nat /\ m \in 0 .. Len(p)
    BY <2>1
  <2>3. EndOf(p, a, m) = n
    BY <1>1, <2>1, <2>2
  <2>4. QED
    BY <2>2, <2>3
<1> HIDE DEF N
<1>3. PICK i \in N : \A j \in N : i <= j
  BY <1>2, LeastOf
<1>4. i \in 0 .. Len(p) /\ EndOf(p, a, i) \notin Settled(s) /\ p \in Seq(Edges)
  BY DEF N
<1>5. PICK r, m : r = Prefix(p, i) /\ m = EndOf(p, a, i)
  OBVIOUS
<1>6. r \in Seq(Edges) /\ AtMost(r, p)
  BY <1>4, <1>5, PrefixSooner
<1>7. ASSUME m \in DOMAIN s.best, AtMost(s.best[m].path, r)
      PROVE  \E k \in s.queue : AtMost(k.path, p)
  <2>1. s.best[m] \in s.queue
    BY <1>4, <1>5, <1>7 DEF Settled
  <2>2. IsTip(s.best[m], a, C)
    BY <1>7 DEF KnowsBest
  <2>3. AtMost(s.best[m].path, p)
    BY <1>4, <1>6, <1>7, <2>2, TipPath, SoonerTransitive
  <2>4. QED
    BY <2>1, <2>3
<1>8. CASE i = 0
  <2>1. m = a
    BY <1>5, <1>8 DEF EndOf
  <2>2. s.best[a].path = <<>> /\ a \in DOMAIN s.best
    BY DEF IsSearch
  <2>3. AtMost(<<>>, r)
    BY <1>6, EmptyFirst
  <2>4. QED
    BY <1>7, <2>1, <2>2, <2>3
<1>9. CASE i # 0
  <2>1. PICK k : k = i - 1
    OBVIOUS
  <2>2. k \in 0 .. Len(p) /\ ~(i <= k)
    BY <1>4, <1>9, <2>1
  <2>3. k \notin N
    BY <1>3, <2>2
  <2>4. PICK o, q, e : o = EndOf(p, a, k) /\ q = Prefix(p, k) /\ e = p[i]
    OBVIOUS
  <2>5. o \in Settled(s)
    BY <2>2, <2>3, <2>4 DEF N
  <2>6. Reaches(q, a, o, C)
    BY <1>1, <2>2, <2>4
  <2>7. e \in Edges \ C /\ Roads[e].from = o /\ r = Append(q, e)
    <3>1. e \in Edges \ C /\ Roads[e].from = o
      BY <1>1, <1>4, <1>9, <2>1, <2>4
    <3>2. r = Append(q, e)
      BY <1>4, <1>5, <1>9, <2>1, <2>4, PrefixSooner
    <3>3. QED
      BY <3>1, <3>2
  <2>8. m = Roads[e].to
    BY <1>5, <1>9, <2>4 DEF EndOf
  <2>9. q \in Seq(Edges \ C) /\ Leads(q, a, o) /\ q \in Seq(Edges) /\ e \in Edges
    BY <2>6, <2>7 DEF Reaches
  <2>10. AtMost(s.best[o].path, q)
    BY <2>5, <2>9 DEF SettledLeast
  <2>11. m \in DOMAIN s.best /\ AtMost(s.best[m].path, Append(s.best[o].path, e))
    BY <2>5, <2>7, <2>8 DEF EdgesTaken
  <2>12. s.best[o].path \in Seq(Edges) /\ s.best[m].path \in Seq(Edges)
    <3>1. IsTip(s.best[o], a, C) /\ IsTip(s.best[m], a, C)
      BY <2>5, <2>11 DEF KnowsBest, Settled
    <3>2. QED
      BY <3>1, TipPath
  <2>13. PICK t : t = Append(s.best[o].path, e)
    OBVIOUS
  <2>14. t \in Seq(Edges) /\ AtMost(t, r)
    BY <2>7, <2>9, <2>10, <2>12, <2>13, SoonerExtends
  <2>15. AtMost(s.best[m].path, r)
    BY <1>6, <2>11, <2>12, <2>13, <2>14, SoonerTransitive
  <2>16. QED
    BY <1>7, <2>11, <2>15
<1>10. QED
  BY <1>8, <1>9

\* So the least label, when it is the best of its node, is least of all paths there.
LEMMA FreshLeast ==
    ASSUME NEW s, NEW a, NEW C, IsSearch(s, a, C), KnowsBest(s, a, C), EdgesTaken(s, C),
           SettledLeast(s, a, C), s.queue # {},
           NEW l, l = Least(s.queue), s.best[l.node] = l,
           NEW p \in Seq(Edges \ C), Leads(p, a, l.node)
    PROVE  AtMost(l.path, p)
<1>1. \A k \in s.queue : IsTip(k, a, C)
  BY DEF KnowsBest
<1>2. l \in s.queue /\ \A k \in s.queue : AtMost(l.path, k.path)
  BY <1>1, LeastTip DEF IsSearch
<1>3. l.node \notin Settled(s)
  BY <1>2 DEF Settled
<1>4. PICK k \in s.queue : AtMost(k.path, p)
  BY <1>3, QueueMeets
<1>5. l.path \in Seq(Edges) /\ k.path \in Seq(Edges) /\ p \in Seq(Edges)
  BY <1>1, <1>2 DEF IsTip, Reaches
<1>6. QED
  BY <1>2, <1>4, <1>5, SoonerTransitive

\* The labels that relaxing one adds to the heap.
Better(s, l, C) == {x \in Extended(l, C) : Improves(x, s.best)}

OutOf(n, C) == {e \in Edges \ C : Roads[e].from = n}

\* There is one label for each open edge at most, and each is the path it says.
LEMMA ExtendedAre ==
    ASSUME NEW a, NEW C, NEW l, IsTip(l, a, C)
    PROVE  /\ \A x \in Extended(l, C) : IsTip(x, a, C)
           /\ \A e \in OutOf(l.node, C) : \E x \in Extended(l, C) :
                 x.node = Roads[e].to /\ x.path = Append(l.path, e)
           /\ \A x \in Extended(l, C) : \E e \in Edges :
                 x.path = Append(l.path, e)
           /\ IsFiniteSet(Extended(l, C))
           /\ Cardinality(Extended(l, C)) <= Cardinality(OutOf(l.node, C))
<1> DEFINE f == [e \in OutOf(l.node, C) |->
                    [node |-> Roads[e].to, minutes |-> l.minutes + Roads[e].minutes,
                     path |-> Append(l.path, e)]]
<1>1. Extended(l, C) = {f[e] : e \in OutOf(l.node, C)}
  BY DEF Extended, OutOf
<1>2. ASSUME NEW e \in OutOf(l.node, C)
      PROVE  IsTip(f[e], a, C) /\ f[e].node = Roads[e].to /\ f[e].path = Append(l.path, e)
  <2>1. e \in Edges \ C /\ e \in Edges /\ Roads[e].from = l.node
    BY DEF OutOf
  <2>2. Reaches(l.path, a, l.node, C) /\ l.minutes = Minutes(l.path)
    BY DEF IsTip
  <2>3. PICK q : q = Append(l.path, e)
    OBVIOUS
  <2>4. Reaches(q, a, Roads[e].to, C)
    BY <2>1, <2>2, <2>3, PathExtends
  <2>5. Minutes(q) = l.minutes + Roads[e].minutes
    BY <2>1, <2>2, <2>3, TipPath, MinutesAppend
  <2>6. Roads[e].to \in Nodes
    BY <2>1, RoadAssumption DEF Edges, Nodes
  <2>7. f[e] = [node |-> Roads[e].to, minutes |-> Minutes(q), path |-> q]
    BY <2>3, <2>5
  <2> HIDE DEF f
  <2>8. f[e].node = Roads[e].to /\ f[e].path = q /\ f[e].minutes = Minutes(q)
    BY <2>7
  <2>9. IsTip(f[e], a, C)
    BY <2>4, <2>6, <2>7, <2>8 DEF IsTip
  <2>10. QED
    BY <2>3, <2>8, <2>9
<1>3. IsFiniteSet(OutOf(l.node, C))
  <2>1. OutOf(l.node, C) \subseteq Edges /\ IsFiniteSet(Edges)
    BY RoadAssumption DEF OutOf, Edges
  <2>2. QED
    BY <2>1, FS_Subset
<1>4. PICK X, O : X = Extended(l, C) /\ O = OutOf(l.node, C)
  OBVIOUS
<1>5. f \in Surjection(O, X)
  <2>1. f \in [O -> X]
    BY <1>1, <1>4
  <2>2. \A x \in X : \E e \in O : f[e] = x
    BY <1>1, <1>4
  <2> HIDE DEF f
  <2>3. QED
    BY <2>1, <2>2 DEF Surjection
<1>6. IsFiniteSet(X) /\ Cardinality(X) <= Cardinality(O)
  BY <1>3, <1>4, <1>5, FS_Surjection
<1> HIDE DEF f
<1>7. \A e \in OutOf(l.node, C) : e \in Edges
  BY DEF OutOf
<1>8. QED
  BY <1>1, <1>2, <1>4, <1>6, <1>7

\* What relaxing a label leaves: its improvements B join the heap.
IsRelaxed(s, a, C, l, t, B) ==
    /\ t = [queue |-> (s.queue \ {l}) \cup B, best |-> t.best, answer |-> Unreachable]
    /\ t.queue = (s.queue \ {l}) \cup B
    /\ t.best = [n \in DOMAIN t.best |-> t.best[n]]
    /\ DOMAIN t.best = DOMAIN s.best \cup {x.node : x \in B}
    /\ IsFiniteSet(B) /\ \A x \in B : IsTip(x, a, C)
    /\ \A x \in B : x.node \in DOMAIN t.best /\ AtMost(t.best[x.node].path, x.path)
    /\ \A n \in DOMAIN t.best :
          \/ t.best[n] \in B /\ t.best[n].node = n
          \/ n \in DOMAIN s.best /\ t.best[n] = s.best[n] /\ \A x \in B : x.node # n
    /\ \A n \in DOMAIN s.best :
          n \in DOMAIN t.best /\ AtMost(t.best[n].path, s.best[n].path)

\* Relaxed leaves just that.
LEMMA RelaxedIs ==
    ASSUME NEW s, NEW a, NEW C, IsSearch(s, a, C), KnowsBest(s, a, C), NEW l, IsTip(l, a, C),
           NEW t, t = Relaxed(s, l, C), NEW B, B = Better(s, l, C)
    PROVE  IsRelaxed(s, a, C, l, t, B)
<1> DEFINE of(n) == {x \in B : x.node = n}
           best == [n \in DOMAIN s.best \cup {x.node : x \in B} |->
                       IF \E x \in B : x.node = n THEN Least(of(n)) ELSE s.best[n]]
<1>1. t = [queue |-> (s.queue \ {l}) \cup B, best |-> best, answer |-> Unreachable]
  <2>1. PICK p, q, b : p = s.queue /\ q = (p \ {l}) \cup B /\ b = s.best
    OBVIOUS
  <2>2. t = [s EXCEPT !.queue = q, !.best = best]
    BY <2>1 DEF Relaxed, Better
  <2>3. s = [queue |-> p, best |-> b, answer |-> Unreachable]
    BY <2>1 DEF IsSearch
  <2> HIDE DEF best
  <2>4. t = [queue |-> q, best |-> best, answer |-> Unreachable]
    BY <2>2, <2>3
  <2>5. QED
    BY <2>1, <2>4
<1>2. t.best = best /\ t.queue = (s.queue \ {l}) \cup B
  <2> HIDE DEF best
  <2>1. QED
    BY <1>1
<1>3. IsFiniteSet(B) /\ \A x \in B : IsTip(x, a, C)
  <2>1. PICK X : X = Extended(l, C)
    OBVIOUS
  <2>2. IsFiniteSet(X) /\ \A x \in X : IsTip(x, a, C)
    BY <2>1, ExtendedAre
  <2>3. B \subseteq X
    BY <2>1 DEF Better
  <2>4. QED
    BY <2>2, <2>3, FS_Subset
<1>4. ASSUME NEW n, \E x \in B : x.node = n
      PROVE  /\ Least(of(n)) \in B /\ Least(of(n)).node = n
             /\ \A x \in B : x.node = n => AtMost(Least(of(n)).path, x.path)
  <2>1. PICK L : L = of(n)
    OBVIOUS
  <2>2. L \subseteq B /\ L # {} /\ \A x \in L : x.node = n
    BY <1>4, <2>1
  <2>3. IsFiniteSet(L) /\ \A x \in L : IsTip(x, a, C)
    BY <1>3, <2>2, FS_Subset
  <2>4. Least(L) \in L /\ \A x \in L : AtMost(Least(L).path, x.path)
    BY <2>2, <2>3, LeastTip
  <2>5. QED
    BY <2>1, <2>2, <2>4
<1>5. \A n \in DOMAIN best :
         /\ (\E x \in B : x.node = n) => best[n] = Least(of(n))
         /\ (\A x \in B : x.node # n) => best[n] = s.best[n] /\ n \in DOMAIN s.best
  OBVIOUS
<1>6. DOMAIN best = DOMAIN s.best \cup {x.node : x \in B}
  OBVIOUS
<1>7. best = [n \in DOMAIN best |-> best[n]]
  OBVIOUS
<1> HIDE DEF best, of
<1>8. \A x \in B : x.node \in DOMAIN best /\ AtMost(best[x.node].path, x.path)
  BY <1>4, <1>5, <1>6
<1>9. \A n \in DOMAIN best :
         \/ best[n] \in B /\ best[n].node = n
         \/ n \in DOMAIN s.best /\ best[n] = s.best[n] /\ \A x \in B : x.node # n
  BY <1>4, <1>5
<1>10. ASSUME NEW n \in DOMAIN s.best
       PROVE  n \in DOMAIN best /\ AtMost(best[n].path, s.best[n].path)
  <2>1. n \in DOMAIN best
    BY <1>6
  <2>2. CASE \A x \in B : x.node # n
    BY <1>5, <2>1, <2>2 DEF AtMost
  <2>3. CASE \E x \in B : x.node = n
    <3>1. PICK k : k = best[n]
      OBVIOUS
    <3>2. k \in B /\ k.node = n
      BY <1>4, <1>5, <2>1, <2>3, <3>1
    <3>3. Before(k, s.best[n])
      BY <3>2 DEF Better, Improves
    <3>4. IsTip(k, a, C) /\ IsTip(s.best[n], a, C)
      BY <1>3, <3>2 DEF KnowsBest
    <3>5. QED
      BY <2>1, <3>1, <3>3, <3>4, TipsCompare DEF AtMost
  <2>4. QED
    BY <2>2, <2>3
<1>11. QED
  BY <1>1, <1>2, <1>3, <1>6, <1>7, <1>8, <1>9, <1>10 DEF IsRelaxed

Work(s, C) ==
    Cardinality(s.queue) + Cardinality({e \in Edges \ C : Roads[e].from \notin Settled(s)})

\* An answered search says what the route is.
Concluded(s, a, z, C) ==
    \E k : /\ Searching(k, a, z, C)
          /\ s = [queue |-> {}, best |-> k.best, answer |-> Route(a, z, C)]

\* Its heap is empty.
LEMMA ConcludedIs ==
    ASSUME NEW s, NEW a, NEW z, NEW C, Concluded(s, a, z, C)
    PROVE  s.queue = {} /\ s.answer = Route(a, z, C)
<1>1. PICK b, r : s = [queue |-> {}, best |-> b, answer |-> r] /\ r = Route(a, z, C)
  BY DEF Concluded
<1>2. QED
  BY <1>1

\* A heap that runs empty has met every place there is a path to.
LEMMA EmptyAnswers ==
    ASSUME NEW s, NEW a, NEW z, NEW C, Searching(s, a, z, C), s.queue = {}
    PROVE  Concluded(s, a, z, C)
<1>1. /\ IsSearch(s, a, C) /\ KnowsBest(s, a, C) /\ EdgesTaken(s, C)
      /\ SettledLeast(s, a, C) /\ z \notin Settled(s)
  BY DEF Searching
<1>2. \A p \in OpenPaths(a, z, C) : FALSE
  BY <1>1, OpenPathsAre, QueueMeets
<1>3. Route(a, z, C) = Unreachable
  BY <1>2 DEF Route
<1>4. PICK b : b = s.best
  OBVIOUS
<1>5. s = [queue |-> {}, best |-> b, answer |-> Route(a, z, C)]
  BY <1>1, <1>3, <1>4 DEF IsSearch
<1>6. QED
  BY <1>4, <1>5 DEF Concluded

\* The numbers of a search.
LEMMA WorkIs ==
    ASSUME NEW s, NEW a, NEW C, IsSearch(s, a, C)
    PROVE  /\ IsFiniteSet(Settled(s)) /\ Cardinality(Settled(s)) \in Nat
           /\ IsFiniteSet({e \in Edges \ C : Roads[e].from \notin Settled(s)})
           /\ Cardinality({e \in Edges \ C : Roads[e].from \notin Settled(s)}) \in Nat
           /\ Cardinality(s.queue) \in Nat /\ Work(s, C) \in Nat
           /\ Work(s, C) = 0 => s.queue = {}
<1>1. PICK S, O : S = Settled(s) /\ O = {e \in Edges \ C : Roads[e].from \notin S}
  OBVIOUS
<1>2. S \subseteq Nodes /\ O \subseteq Edges
  BY <1>1 DEF Settled, IsSearch
<1>3. IsFiniteSet(Nodes) /\ IsFiniteSet(Edges)
  BY RoadAssumption DEF Nodes, Edges
<1>4. IsFiniteSet(S) /\ IsFiniteSet(O) /\ IsFiniteSet(s.queue)
  BY <1>2, <1>3, FS_Subset DEF IsSearch
<1>5. Cardinality(S) \in Nat /\ Cardinality(O) \in Nat /\ Cardinality(s.queue) \in Nat
  BY <1>4, FS_CardinalityType
<1>6. Cardinality(s.queue) = 0 => s.queue = {}
  BY <1>4, FS_EmptySet
<1>7. PICK m, n : m = Cardinality(s.queue) /\ n = Cardinality(O)
  OBVIOUS
<1>8. Work(s, C) = m + n
  BY <1>1, <1>7 DEF Work
<1>9. Work(s, C) \in Nat /\ (Work(s, C) = 0 => m = 0)
  BY <1>5, <1>7, <1>8
<1>10. QED
  BY <1>1, <1>4, <1>5, <1>6, <1>7, <1>9

\* An outdated label goes without a change.
LEMMA StaleTurn ==
    ASSUME NEW s, NEW a, NEW z, NEW C, Searching(s, a, z, C), NEW l \in s.queue,
           s.best[l.node] # l, NEW t, t = [s EXCEPT !.queue = @ \ {l}]
    PROVE  Searching(t, a, z, C) /\ Work(t, C) < Work(s, C)
<1>1. /\ IsSearch(s, a, C) /\ KnowsBest(s, a, C) /\ EdgesTaken(s, C)
      /\ SettledLeast(s, a, C) /\ ShortPaths(s) /\ z \notin Settled(s)
  BY DEF Searching
<1>2. PICK p, q, b : p = s.queue /\ b = s.best /\ q = p \ {l}
  OBVIOUS
<1>3. t = [queue |-> q, best |-> b, answer |-> Unreachable]
  <2>1. s = [queue |-> p, best |-> b, answer |-> Unreachable]
    BY <1>1, <1>2 DEF IsSearch
  <2>2. QED
    BY <1>2, <2>1
<1>4. t.queue = q /\ t.best = b
  BY <1>3
<1>5. Settled(t) = Settled(s)
  <2>1. \A n \in DOMAIN b : b[n] # l
    BY <1>1, <1>2 DEF KnowsBest
  <2>2. \A n \in DOMAIN b : b[n] \in q <=> b[n] \in p
    BY <1>2, <2>1
  <2>3. QED
    BY <1>2, <1>4, <2>2 DEF Settled
<1>6. IsSearch(t, a, C)
  <2>1. IsFiniteSet(q)
    BY <1>1, <1>2, FS_Subset DEF IsSearch
  <2>2. QED
    BY <1>1, <1>2, <1>3, <1>4, <2>1 DEF IsSearch
<1>7. KnowsBest(t, a, C)
  BY <1>1, <1>2, <1>4 DEF KnowsBest
<1>8. EdgesTaken(t, C) /\ SettledLeast(t, a, C) /\ ShortPaths(t)
  <2>1. t.best = s.best
    BY <1>2, <1>4
  <2>2. QED
    BY <1>1, <1>5, <2>1 DEF EdgesTaken, SettledLeast, ShortPaths
<1>9. Work(t, C) < Work(s, C)
  <2>1. IsFiniteSet(p) /\ l \in p
    BY <1>1, <1>2 DEF IsSearch
  <2>2. Cardinality(q) = Cardinality(p) - 1 /\ Cardinality(p) \in Nat
    BY <1>2, <2>1, FS_RemoveElement, FS_CardinalityType
  <2>3. PICK m, n, o : /\ m = Cardinality(p) /\ n = Cardinality(q)
                       /\ o = Cardinality({e \in Edges \ C : Roads[e].from \notin Settled(s)})
    OBVIOUS
  <2>4. o \in Nat
    BY <1>1, <2>3, WorkIs
  <2>5. Work(s, C) = m + o /\ Work(t, C) = n + o
    BY <1>2, <1>4, <1>5, <2>3 DEF Work
  <2>6. QED
    BY <2>2, <2>3, <2>4, <2>5
<1>10. QED
  BY <1>1, <1>5, <1>6, <1>7, <1>8, <1>9 DEF Searching

\* The best label of the destination is the route.
LEMMA FoundTurn ==
    ASSUME NEW s, NEW a, NEW z \in Nodes, NEW C, Searching(s, a, z, C), s.queue # {},
           NEW l, l = Least(s.queue), s.best[l.node] = l, l.node = z
    PROVE  Route(a, z, C) = [reachable |-> TRUE, minutes |-> l.minutes, path |-> l.path]
<1>1. /\ IsSearch(s, a, C) /\ KnowsBest(s, a, C) /\ EdgesTaken(s, C)
      /\ SettledLeast(s, a, C) /\ ShortPaths(s) /\ z \notin Settled(s)
  BY DEF Searching
<1>2. l \in s.queue
  <2>1. \A k \in s.queue : IsTip(k, a, C)
    BY <1>1 DEF KnowsBest
  <2>2. QED
    BY <1>1, <2>1, LeastTip DEF IsSearch
<1>3. IsTip(l, a, C) /\ z \in DOMAIN s.best
  BY <1>1, <1>2 DEF KnowsBest
<1>4. Len(l.path) <= Cardinality(Nodes) - 1
  <2>1. PICK S : S = Settled(s)
    OBVIOUS
  <2>2. S \subseteq Nodes \ {z}
    BY <1>1, <2>1 DEF Settled, IsSearch
  <2>3. IsFiniteSet(Nodes)
    BY RoadAssumption DEF Nodes
  <2>4. PICK O : O = Nodes \ {z}
    OBVIOUS
  <2>5. IsFiniteSet(O) /\ Cardinality(O) = Cardinality(Nodes) - 1
    BY <2>3, <2>4, FS_RemoveElement
  <2>6. Cardinality(S) <= Cardinality(O)
    BY <2>2, <2>4, <2>5, FS_Subset
  <2>7. Len(l.path) <= Cardinality(S)
    BY <1>1, <1>3, <2>1 DEF ShortPaths
  <2>8. PICK m, n, k : m = Cardinality(S) /\ n = Cardinality(Nodes) /\ k = Len(l.path)
    OBVIOUS
  <2>9. m \in Nat /\ n \in Nat /\ k \in Nat
    <3>1. m \in Nat
      BY <1>1, <2>1, <2>8, WorkIs
    <3>2. n \in Nat
      BY <2>3, <2>8, FS_CardinalityType
    <3>3. k \in Nat
      BY <1>3, <2>8, TipPath
    <3>4. QED
      BY <3>1, <3>2, <3>3
  <2>10. QED
    BY <2>5, <2>6, <2>7, <2>8, <2>9
<1>5. l.path \in OpenPaths(a, z, C)
  BY <1>3, <1>4, OpenPathsAre DEF IsTip, Reaches
<1>6. ASSUME NEW q \in OpenPaths(a, z, C) PROVE AtMost(l.path, q)
  <2>1. q \in Seq(Edges \ C) /\ Leads(q, a, l.node)
    BY OpenPathsAre
  <2>2. QED
    BY <1>1, <2>1, FreshLeast
<1>7. Route(a, z, C) = [reachable |-> TRUE, minutes |-> Minutes(l.path), path |-> l.path]
  BY <1>5, <1>6, RouteIs
<1>8. l.minutes = Minutes(l.path)
  BY <1>3 DEF IsTip
<1>9. QED
  BY <1>7, <1>8

\* The node of a label is settled, and no settled one disturbed.
Settles(s, a, C, l, t) ==
    /\ l \in s.queue /\ IsTip(l, a, C) /\ l.node \in DOMAIN s.best
    /\ l.node \notin Settled(s)
    /\ Settled(t) = Settled(s) \cup {l.node}
    /\ \A n \in Settled(t) : n \in DOMAIN s.best /\ t.best[n] = s.best[n]
    /\ \A n \in Settled(t), p \in Seq(Edges \ C) :
          Leads(p, a, n) => AtMost(s.best[n].path, p)

\* So does relaxing a fresh label.
LEMMA RelaxSettles ==
    ASSUME NEW s, NEW a, NEW z, NEW C, Searching(s, a, z, C), s.queue # {},
           NEW l, l = Least(s.queue), s.best[l.node] = l,
           NEW t, t = Relaxed(s, l, C)
    PROVE  Settles(s, a, C, l, t)
<1> DEFINE B == Better(s, l, C)
           S == Settled(s) \cup {l.node}
<1>1. /\ IsSearch(s, a, C) /\ KnowsBest(s, a, C) /\ EdgesTaken(s, C)
      /\ SettledLeast(s, a, C)
  BY DEF Searching
<1>2. l \in s.queue
  <2>1. \A k \in s.queue : IsTip(k, a, C)
    BY <1>1 DEF KnowsBest
  <2>2. QED
    BY <1>1, <2>1, LeastTip DEF IsSearch
<1>3. IsTip(l, a, C) /\ l.node \in DOMAIN s.best
  BY <1>1, <1>2 DEF KnowsBest
<1>4. l.node \notin Settled(s)
  BY <1>2 DEF Settled
<1>5. \A n \in S : n \in DOMAIN s.best
  BY <1>3 DEF Settled
<1>6. ASSUME NEW n \in S, NEW p \in Seq(Edges \ C), Leads(p, a, n)
      PROVE  AtMost(s.best[n].path, p)
  <2>1. CASE n \in Settled(s)
    BY <1>1, <1>6, <2>1 DEF SettledLeast
  <2>2. CASE n = l.node
    BY <1>1, <1>6, <2>2, FreshLeast
  <2>3. QED
    BY <2>1, <2>2
<1>7. PICK A : A = B
  OBVIOUS
<1>8. IsRelaxed(s, a, C, l, t, A)
  BY <1>1, <1>3, <1>7, RelaxedIs
<1>9. /\ t.queue = (s.queue \ {l}) \cup A
      /\ DOMAIN t.best = DOMAIN s.best \cup {x.node : x \in A}
      /\ \A x \in A : IsTip(x, a, C)
      /\ \A n \in DOMAIN t.best :
            \/ t.best[n] \in A /\ t.best[n].node = n
            \/ n \in DOMAIN s.best /\ t.best[n] = s.best[n] /\ \A x \in A : x.node # n
  BY <1>8 DEF IsRelaxed
<1>10. ASSUME NEW n \in S, NEW x \in A, x.node = n PROVE FALSE
  <2>1. Reaches(x.path, a, n, C) /\ IsTip(x, a, C)
    BY <1>9, <1>10 DEF IsTip
  <2>2. AtMost(s.best[n].path, x.path)
    BY <1>6, <2>1 DEF Reaches
  <2>3. Before(x, s.best[n])
    BY <1>5, <1>7, <1>10 DEF Better, Improves
  <2>4. IsTip(s.best[n], a, C)
    BY <1>1, <1>5 DEF KnowsBest
  <2>5. Sooner(x.path, s.best[n].path)
    BY <2>1, <2>3, <2>4, TipsCompare
  <2>6. QED
    BY <2>1, <2>2, <2>4, <2>5, TipPath, NotSooner
<1>11. \A n \in S : n \in DOMAIN t.best /\ t.best[n] = s.best[n]
  BY <1>5, <1>9, <1>10
<1>12. ASSUME NEW n \in S PROVE n \in Settled(t)
  <2>1. s.best[n] \notin A
    BY <1>1, <1>5, <1>10 DEF KnowsBest
  <2>2. s.best[n] \notin s.queue \ {l}
    <3>1. n \in Settled(s) => s.best[n] \notin s.queue
      BY DEF Settled
    <3>2. QED
      BY <3>1
  <2>3. QED
    BY <1>9, <1>11, <2>1, <2>2 DEF Settled
<1>13. ASSUME NEW n \in Settled(t) PROVE n \in S
  <2>1. n \in DOMAIN t.best /\ t.best[n] \notin A /\ t.best[n] \notin s.queue \ {l}
    BY <1>9 DEF Settled
  <2>2. n \in DOMAIN s.best /\ t.best[n] = s.best[n]
    BY <1>9, <2>1
  <2>3. s.best[n] \notin s.queue \/ s.best[n] = l
    BY <2>1, <2>2
  <2>4. s.best[n] = l => n = l.node
    BY <1>1, <2>2 DEF KnowsBest
  <2>5. QED
    BY <2>2, <2>3, <2>4 DEF Settled
<1> HIDE DEF B
<1>14. Settled(t) = S
  BY <1>12, <1>13
<1>15. QED
  BY <1>2, <1>3, <1>4, <1>5, <1>6, <1>11, <1>14 DEF Settles

\* It goes on as it was, with less to do.
LEMMA RelaxTurn ==
    ASSUME NEW s, NEW a, NEW z, NEW C, Searching(s, a, z, C), s.queue # {},
           NEW l, l = Least(s.queue), s.best[l.node] = l, l.node # z,
           NEW t, t = Relaxed(s, l, C)
    PROVE  Searching(t, a, z, C) /\ Work(t, C) < Work(s, C)
<1>1. /\ IsSearch(s, a, C) /\ KnowsBest(s, a, C) /\ EdgesTaken(s, C)
      /\ SettledLeast(s, a, C) /\ ShortPaths(s) /\ z \notin Settled(s)
  BY DEF Searching
<1>2. Settles(s, a, C, l, t)
  BY RelaxSettles
<1>3. /\ l \in s.queue /\ IsTip(l, a, C) /\ l.node \in DOMAIN s.best
      /\ l.node \notin Settled(s)
  BY <1>2 DEF Settles
<1>4. Settled(t) = Settled(s) \cup {l.node}
  BY <1>2 DEF Settles
<1>5. \A n \in Settled(t) : n \in DOMAIN s.best /\ t.best[n] = s.best[n]
  BY <1>2 DEF Settles
<1>6. \A n \in Settled(t), p \in Seq(Edges \ C) : Leads(p, a, n) => AtMost(s.best[n].path, p)
  BY <1>2 DEF Settles
<1>7. PICK B : B = Better(s, l, C)
  OBVIOUS
<1>8. IsRelaxed(s, a, C, l, t, B)
  BY <1>1, <1>3, <1>7, RelaxedIs
<1>9. /\ t.queue = (s.queue \ {l}) \cup B
      /\ DOMAIN t.best = DOMAIN s.best \cup {x.node : x \in B}
      /\ IsFiniteSet(B)
      /\ \A x \in B : IsTip(x, a, C)
      /\ \A x \in B : x.node \in DOMAIN t.best /\ AtMost(t.best[x.node].path, x.path)
  BY <1>8 DEF IsRelaxed
<1>10. \A n \in DOMAIN t.best :
         \/ t.best[n] \in B /\ t.best[n].node = n
         \/ n \in DOMAIN s.best /\ t.best[n] = s.best[n] /\ \A x \in B : x.node # n
  BY <1>8 DEF IsRelaxed
<1>11. \A n \in DOMAIN s.best :
          n \in DOMAIN t.best /\ AtMost(t.best[n].path, s.best[n].path)
  BY <1>8 DEF IsRelaxed
<1>12. ASSUME NEW n \in DOMAIN t.best PROVE IsTip(t.best[n], a, C) /\ t.best[n].node = n
  BY <1>1, <1>9, <1>10 DEF KnowsBest
<1>13. \A n \in DOMAIN s.best : IsTip(s.best[n], a, C)
  BY <1>1 DEF KnowsBest
<1>14. ASSUME NEW k \in t.queue
       PROVE  /\ IsTip(k, a, C) /\ k.node \in DOMAIN t.best
              /\ AtMost(t.best[k.node].path, k.path)
  <2>1. CASE k \in B
    BY <1>9, <2>1
  <2>2. CASE k \in s.queue
    <3>1. IsTip(k, a, C) /\ k.node \in DOMAIN s.best /\ AtMost(s.best[k.node].path, k.path)
      BY <1>1, <2>2 DEF KnowsBest
    <3>2. k.node \in DOMAIN t.best /\ AtMost(t.best[k.node].path, s.best[k.node].path)
      BY <1>11, <3>1
    <3>3. PICK p, q, r : p = t.best[k.node].path /\ q = s.best[k.node].path /\ r = k.path
      OBVIOUS
    <3>4. p \in Seq(Edges) /\ q \in Seq(Edges) /\ r \in Seq(Edges)
      <4>1. IsTip(t.best[k.node], a, C) /\ IsTip(s.best[k.node], a, C)
        BY <1>12, <1>13, <3>1, <3>2
      <4>2. QED
        BY <3>1, <3>3, <4>1, TipPath
    <3>5. AtMost(p, r)
      BY <3>1, <3>2, <3>3, <3>4, SoonerTransitive
    <3>6. QED
      BY <3>1, <3>2, <3>3, <3>5
  <2>3. QED
    BY <1>9, <2>1, <2>2
<1>15. KnowsBest(t, a, C)
  BY <1>12, <1>14 DEF KnowsBest
<1>16. IsSearch(t, a, C)
  <2>1. t = [queue |-> t.queue, best |-> t.best, answer |-> Unreachable]
    BY <1>8 DEF IsRelaxed
  <2>2. t.best = [n \in DOMAIN t.best |-> t.best[n]]
    BY <1>8 DEF IsRelaxed
  <2>3. IsFiniteSet(t.queue)
    <3>1. PICK q : q = s.queue \ {l}
      OBVIOUS
    <3>2. IsFiniteSet(q)
      BY <1>1, <3>1, FS_Subset DEF IsSearch
    <3>3. t.queue = q \cup B
      BY <1>9, <3>1
    <3>4. IsFiniteSet(q \cup B)
      BY <1>9, <3>2, FS_Union
    <3>5. QED
      BY <3>3, <3>4
  <2>4. DOMAIN t.best \subseteq Nodes
    BY <1>12 DEF IsTip
  <2>5. a \in DOMAIN t.best /\ t.best[a].path = <<>>
    <3>1. a \in DOMAIN s.best /\ s.best[a].path = <<>>
      BY <1>1 DEF IsSearch
    <3>2. a \in DOMAIN t.best /\ AtMost(t.best[a].path, <<>>)
      BY <1>11, <3>1
    <3>3. t.best[a].path \in Seq(Edges)
      BY <1>12, <3>2, TipPath
    <3>4. QED
      BY <3>2, <3>3, EmptyFirst
  <2>6. QED
    BY <2>1, <2>2, <2>3, <2>4, <2>5 DEF IsSearch
<1>17. SettledLeast(t, a, C)
  BY <1>5, <1>6 DEF SettledLeast
<1>18. EdgesTaken(t, C)
  <2> SUFFICES ASSUME NEW e \in Edges \ C, Roads[e].from \in Settled(t)
               PROVE  /\ Roads[e].to \in DOMAIN t.best
                      /\ AtMost(t.best[Roads[e].to].path,
                                Append(t.best[Roads[e].from].path, e))
    BY DEF EdgesTaken
  <2>1. PICK m, n, p : m = Roads[e].from /\ n = Roads[e].to /\ p = Append(s.best[m].path, e)
    OBVIOUS
  <2>2. m \in DOMAIN s.best /\ t.best[m] = s.best[m] /\ IsTip(s.best[m], a, C)
    BY <1>5, <1>13, <2>1
  <2>3. e \in Edges /\ p \in Seq(Edges)
    BY <2>1, <2>2, TipPath, SoonerExtends
  <2>4. ASSUME n \in DOMAIN s.best, AtMost(s.best[n].path, p)
        PROVE  n \in DOMAIN t.best /\ AtMost(t.best[n].path, p)
    <3>1. n \in DOMAIN t.best /\ AtMost(t.best[n].path, s.best[n].path)
      BY <1>11, <2>4
    <3>2. t.best[n].path \in Seq(Edges) /\ s.best[n].path \in Seq(Edges)
      BY <1>12, <1>13, <2>4, <3>1, TipPath
    <3>3. QED
      BY <2>3, <2>4, <3>1, <3>2, SoonerTransitive
  <2>5. CASE m \in Settled(s)
    <3>1. n \in DOMAIN s.best /\ AtMost(s.best[n].path, p)
      BY <1>1, <2>1, <2>5 DEF EdgesTaken
    <3>2. QED
      BY <2>1, <2>2, <2>4, <3>1
  <2>6. CASE m = l.node
    <3>1. e \in OutOf(l.node, C)
      BY <2>1, <2>6 DEF OutOf
    <3>2. PICK x \in Extended(l, C) : x.node = n /\ x.path = Append(l.path, e)
      BY <1>3, <2>1, <3>1, ExtendedAre
    <3>3. x.path = p
      BY <2>1, <2>6, <3>2
    <3>4. CASE x \in B
      BY <1>9, <2>1, <2>2, <3>2, <3>3, <3>4
    <3>5. CASE x \notin B
      <4>1. n \in DOMAIN s.best /\ ~Before(x, s.best[n])
        BY <1>7, <3>2, <3>5 DEF Better, Improves
      <4>2. IsTip(x, a, C) /\ IsTip(s.best[n], a, C)
        BY <1>3, <1>13, <4>1, ExtendedAre
      <4>3. ~Sooner(p, s.best[n].path)
        BY <3>3, <4>1, <4>2, TipsCompare
      <4>4. AtMost(s.best[n].path, p)
        BY <2>3, <4>2, <4>3, TipPath, SoonerTotal
      <4>5. QED
        BY <2>1, <2>2, <2>4, <4>1, <4>4
    <3>6. QED
      BY <3>4, <3>5
  <2>7. QED
    BY <1>4, <2>1, <2>5, <2>6
<1>19. z \notin Settled(t)
  BY <1>1, <1>4
<1>20. PICK S, m, n : S = Settled(s) /\ m = Cardinality(S) /\ n = Cardinality(Settled(t))
  OBVIOUS
<1>21. m \in Nat /\ n = m + 1
  <2>1. IsFiniteSet(S) /\ m \in Nat
    BY <1>1, <1>20, WorkIs
  <2>2. n = Cardinality(S \cup {l.node}) /\ l.node \notin S
    BY <1>3, <1>4, <1>20
  <2>3. QED
    BY <1>20, <2>1, <2>2, FS_AddElement
<1>22. ShortPaths(t)
  <2> SUFFICES ASSUME NEW o \in DOMAIN t.best PROVE Len(t.best[o].path) <= n
    BY <1>20 DEF ShortPaths
  <2>1. PICK p, k : p = t.best[o].path /\ k = Len(p)
    OBVIOUS
  <2>2. p \in Seq(Edges) /\ k \in Nat
    <3>1. p \in Seq(Edges)
      BY <1>12, <2>1, TipPath
    <3>2. QED
      BY <2>1, <3>1
  <2>3. CASE o \in DOMAIN s.best /\ t.best[o] = s.best[o]
    <3>1. k <= m
      BY <1>1, <1>20, <2>1, <2>3 DEF ShortPaths
    <3>2. QED
      BY <1>21, <2>1, <2>2, <3>1
  <2>4. CASE t.best[o] \in B
    <3>1. t.best[o] \in Extended(l, C)
      BY <1>7, <2>4 DEF Better
    <3>2. PICK e \in Edges : p = Append(l.path, e)
      BY <1>3, <2>1, <3>1, ExtendedAre
    <3>3. PICK q, j : q = l.path /\ j = Len(q)
      OBVIOUS
    <3>4. q \in Seq(Edges) /\ j \in Nat
      <4>1. q \in Seq(Edges)
        BY <1>3, <3>3, TipPath
      <4>2. QED
        BY <3>3, <4>1
    <3>5. k = j + 1
      BY <2>1, <3>2, <3>3, <3>4
    <3>6. j <= m
      BY <1>1, <1>3, <1>20, <3>3 DEF ShortPaths
    <3>7. QED
      BY <1>21, <2>1, <3>4, <3>5, <3>6
  <2>5. QED
    BY <1>10, <2>3, <2>4
<1>23. Work(t, C) < Work(s, C)
  <2> DEFINE open(T) == {e \in Edges \ C : Roads[e].from \notin T}
  <2>1. PICK O, P, Q : O = open(S) /\ P = open(Settled(t)) /\ Q = OutOf(l.node, C)
    OBVIOUS
  <2>2. IsFiniteSet(O) /\ IsFiniteSet(P) /\ IsFiniteSet(Q)
    <3>1. O \subseteq Edges /\ P \subseteq Edges /\ Q \subseteq Edges
      BY <2>1 DEF OutOf
    <3>2. IsFiniteSet(Edges)
      BY RoadAssumption DEF Edges
    <3>3. QED
      BY <3>1, <3>2, FS_Subset
  <2>3. O = P \cup Q /\ P \cap Q = {}
    <3>1. \A e \in Edges \ C : Roads[e].from \notin S <=>
             Roads[e].from \notin Settled(t) \/ Roads[e].from = l.node
      BY <1>3, <1>4, <1>20
    <3>2. \A e \in Edges \ C : ~(Roads[e].from \notin Settled(t) /\ Roads[e].from = l.node)
      BY <1>4
    <3>3. QED
      BY <2>1, <3>1, <3>2 DEF OutOf
  <2>4. Cardinality(O) = Cardinality(P) + Cardinality(Q)
    <3>1. Cardinality(P \cup Q) = Cardinality(P) + Cardinality(Q) - Cardinality(P \cap Q)
      BY <2>2, FS_Union
    <3>2. Cardinality({}) = 0 /\ Cardinality(P) \in Nat /\ Cardinality(Q) \in Nat
      BY <2>2, FS_EmptySet, FS_CardinalityType
    <3>3. Cardinality(P \cap Q) = 0
      BY <2>3, <3>2
    <3>4. QED
      BY <2>3, <3>1, <3>2, <3>3
  <2>5. Cardinality(B) <= Cardinality(Q)
    <3>1. PICK X : X = Extended(l, C)
      OBVIOUS
    <3>2. IsFiniteSet(X) /\ Cardinality(X) <= Cardinality(Q)
      BY <1>3, <2>1, <3>1, ExtendedAre
    <3>3. B \subseteq X
      BY <1>7, <3>1 DEF Better
    <3>4. Cardinality(B) <= Cardinality(X)
      BY <3>2, <3>3, FS_Subset
    <3>5. Cardinality(B) \in Nat /\ Cardinality(X) \in Nat /\ Cardinality(Q) \in Nat
      BY <1>9, <2>2, <3>2, FS_CardinalityType
    <3>6. PICK b, x, q : b = Cardinality(B) /\ x = Cardinality(X) /\ q = Cardinality(Q)
      OBVIOUS
    <3>7. QED
      BY <3>2, <3>4, <3>5, <3>6
  <2>6. PICK R : R = s.queue \ {l}
    OBVIOUS
  <2>7. IsFiniteSet(s.queue) /\ IsFiniteSet(R) /\ Cardinality(R) = Cardinality(s.queue) - 1
    BY <1>1, <1>3, <2>6, FS_RemoveElement DEF IsSearch
  <2>8. t.queue = R \cup B
    BY <1>9, <2>6
  <2>9. Cardinality(R \cup B) = Cardinality(R) + Cardinality(B) - Cardinality(R \cap B)
    BY <1>9, <2>7, FS_Union
  <2>10. IsFiniteSet(R \cap B)
    BY <2>7, FS_Intersection
  <2>11. PICK q, r, b, i, o, p, u :
            /\ q = Cardinality(s.queue) /\ r = Cardinality(R) /\ b = Cardinality(B)
            /\ i = Cardinality(R \cap B) /\ o = Cardinality(O) /\ p = Cardinality(P)
            /\ u = Cardinality(Q)
    OBVIOUS
  <2>12. /\ q \in Nat /\ r \in Nat /\ b \in Nat /\ i \in Nat /\ o \in Nat /\ p \in Nat /\ u \in Nat
    BY <1>9, <2>2, <2>7, <2>10, <2>11, FS_CardinalityType
  <2>13. Work(s, C) = q + o
    BY <1>20, <2>1, <2>11 DEF Work
  <2>14. Work(t, C) = (r + b - i) + p
    BY <2>1, <2>8, <2>9, <2>11 DEF Work
  <2>15. b <= u /\ o = p + u /\ r = q - 1
    BY <2>4, <2>5, <2>7, <2>11
  <2> HIDE DEF open
  <2>16. QED
    BY <2>12, <2>13, <2>14, <2>15
<1>24. QED
  BY <1>15, <1>16, <1>17, <1>18, <1>19, <1>22, <1>23 DEF Searching

\* Each turn answers or has less to do.
LEMMA TurnIs ==
    ASSUME NEW s, NEW a, NEW z \in Nodes, NEW C, Searching(s, a, z, C), s.queue # {},
           NEW t, t = Popped(s, z, C)
    PROVE  Concluded(t, a, z, C) \/ (Searching(t, a, z, C) /\ Work(t, C) < Work(s, C))
<1>1. PICK l : l = Least(s.queue)
  OBVIOUS
<1>2. IsSearch(s, a, C) /\ KnowsBest(s, a, C)
  BY DEF Searching
<1>3. l \in s.queue
  <2>1. \A k \in s.queue : IsTip(k, a, C)
    BY <1>2 DEF KnowsBest
  <2>2. QED
    BY <1>1, <1>2, <2>1, LeastTip DEF IsSearch
<1>4. CASE s.best[l.node] # l
  <2>1. t = [s EXCEPT !.queue = @ \ {l}]
    BY <1>1, <1>4 DEF Popped
  <2>2. QED
    BY <1>3, <1>4, <2>1, StaleTurn
<1>5. CASE s.best[l.node] = l /\ l.node = z
  <2>1. PICK r : r = [reachable |-> TRUE, minutes |-> l.minutes, path |-> l.path]
    OBVIOUS
  <2>2. t = [s EXCEPT !.queue = {}, !.answer = r]
    BY <1>1, <1>5, <2>1 DEF Popped
  <2>3. PICK q, b : q = s.queue /\ b = s.best
    OBVIOUS
  <2>4. s = [queue |-> q, best |-> b, answer |-> Unreachable]
    BY <1>2, <2>3 DEF IsSearch
  <2>5. t = [queue |-> {}, best |-> b, answer |-> r]
    BY <2>2, <2>4
  <2>6. r = Route(a, z, C)
    BY <1>1, <1>5, <2>1, FoundTurn
  <2>7. QED
    BY <2>3, <2>5, <2>6 DEF Concluded
<1>6. CASE s.best[l.node] = l /\ l.node # z
  <2>1. t = Relaxed(s, l, C)
    BY <1>1, <1>6 DEF Popped
  <2>2. QED
    BY <1>1, <1>6, <2>1, RelaxTurn
<1>7. QED
  BY <1>4, <1>5, <1>6

Origin(a) == [node |-> a, minutes |-> 0, path |-> <<>>]

Started(a) ==
    [queue |-> {Origin(a)}, best |-> [n \in {a} |-> Origin(a)], answer |-> Unreachable]

\* A search starts with no more to do than there are edges, and one label.
LEMMA SearchStarts ==
    ASSUME NEW a \in Nodes, NEW z, NEW C
    PROVE  Searching(Started(a), a, z, C) /\ Work(Started(a), C) <= 1 + Cardinality(Edges)
<1>1. PICK s, o : s = Started(a) /\ o = Origin(a)
  OBVIOUS
<1>2. /\ s = [queue |-> {o}, best |-> [n \in {a} |-> o], answer |-> Unreachable]
      /\ o = [node |-> a, minutes |-> 0, path |-> <<>>]
  BY <1>1 DEF Started, Origin
<1>3. /\ s.queue = {o} /\ DOMAIN s.best = {a} /\ s.best[a] = o /\ o.node = a /\ o.path = <<>>
      /\ s.best = [n \in {a} |-> o]
  BY <1>2
<1>4. Settled(s) = {}
  BY <1>3 DEF Settled
<1>5. <<>> \in Seq(Edges \ C) /\ <<>> \in Seq(Edges)
  OBVIOUS
<1>6. IsTip(o, a, C)
  <2>1. Leads(<<>>, a, a)
    BY DEF Leads
  <2>2. QED
    BY <1>2, <1>3, <1>5, <2>1, NothingTaken DEF IsTip, Reaches
<1>7. IsSearch(s, a, C)
  <2>1. IsFiniteSet({o})
    BY FS_Singleton
  <2>2. QED
    BY <1>2, <1>3, <2>1 DEF IsSearch
<1>8. KnowsBest(s, a, C)
  BY <1>3, <1>6 DEF KnowsBest, AtMost
<1>9. EdgesTaken(s, C) /\ SettledLeast(s, a, C)
  BY <1>4 DEF EdgesTaken, SettledLeast
<1>10. ShortPaths(s)
  <2>1. Cardinality({}) = 0 /\ Len(<<>>) = 0
    BY FS_EmptySet
  <2>2. QED
    BY <1>3, <1>4, <2>1 DEF ShortPaths
<1>11. Work(s, C) <= 1 + Cardinality(Edges)
  <2>1. PICK O : O = {e \in Edges \ C : Roads[e].from \notin Settled(s)}
    OBVIOUS
  <2>2. O \subseteq Edges /\ IsFiniteSet(Edges)
    BY <2>1, RoadAssumption DEF Edges
  <2>3. /\ Cardinality(O) \in Nat /\ Cardinality(Edges) \in Nat
        /\ Cardinality(O) <= Cardinality(Edges)
    BY <2>2, FS_Subset, FS_CardinalityType
  <2>4. Work(s, C) = 1 + Cardinality(O)
    <3>1. Cardinality({o}) = 1
      BY FS_Singleton
    <3>2. QED
      BY <1>3, <2>1, <3>1 DEF Work
  <2>5. PICK m, n : m = Cardinality(O) /\ n = Cardinality(Edges)
    OBVIOUS
  <2>6. QED
    BY <2>3, <2>4, <2>5
<1>12. QED
  BY <1>1, <1>4, <1>7, <1>8, <1>9, <1>10, <1>11 DEF Searching

Labels == [node : Nodes, minutes : Nat, path : Seq(Edges)]

Searches ==
    [ queue : SUBSET Labels, best : UNION {[D -> Labels] : D \in SUBSET Nodes},
      answer : {Unreachable} ]

Reached(a, z, C) ==
    LET going == {k \in Searches : Searching(k, a, z, C)} IN
    going \cup {[queue |-> {}, best |-> k.best, answer |-> Route(a, z, C)] : k \in going}

\* What a search may be is a set.
LEMMA ReachedAre ==
    ASSUME NEW s, NEW a, NEW z, NEW C
    PROVE  s \in Reached(a, z, C) <=> Concluded(s, a, z, C) \/ Searching(s, a, z, C)
<1>1. ASSUME NEW k, Searching(k, a, z, C) PROVE k \in Searches
  <2>1. IsSearch(k, a, C) /\ KnowsBest(k, a, C)
    BY <1>1 DEF Searching
  <2>2. ASSUME NEW l, IsTip(l, a, C) PROVE l \in Labels
    <3>1. PICK n, m, p : n = l.node /\ m = Minutes(l.path) /\ p = l.path
      OBVIOUS
    <3>2. l = [node |-> n, minutes |-> m, path |-> p] /\ n \in Nodes
      BY <2>2, <3>1 DEF IsTip
    <3>3. p \in Seq(Edges)
      BY <2>2, <3>1, TipPath
    <3>4. m \in Nat
      BY <3>1, <3>3, SoonerIs
    <3>5. QED
      BY <3>2, <3>3, <3>4 DEF Labels
  <2>3. PICK q, b, D : q = k.queue /\ b = k.best /\ D = DOMAIN b
    OBVIOUS
  <2>4. q \in SUBSET Labels
    BY <2>1, <2>2, <2>3 DEF KnowsBest
  <2>5. b \in [D -> Labels] /\ D \in SUBSET Nodes
    <3>1. \A n \in D : b[n] \in Labels
      BY <2>1, <2>2, <2>3 DEF KnowsBest
    <3>2. b = [n \in D |-> b[n]] /\ D \subseteq Nodes
      BY <2>1, <2>3 DEF IsSearch
    <3>3. QED
      BY <3>1, <3>2
  <2>6. k = [queue |-> q, best |-> b, answer |-> Unreachable]
    BY <2>1, <2>3 DEF IsSearch
  <2>7. b \in UNION {[X -> Labels] : X \in SUBSET Nodes}
    BY <2>5
  <2>8. QED
    BY <2>4, <2>6, <2>7 DEF Searches
<1>2. QED
  BY <1>1 DEF Reached, Concluded

\* The turns are enough for it: from every node, to every node, under every set of
\* closures, the heap's first answer is the route of least minutes, and of the
\* routes as short the least (road_graph.py compute_route).
THEOREM SearchFindsRoutes ==
    ASSUME NEW a \in Nodes, NEW z \in Nodes, NEW C
    PROVE  ShortestRoute(a, z, C) = Route(a, z, C)
<1> DEFINE fits(f) == f = [s \in SUBSET Turns |->
                             IF s = {} THEN Started(a)
                             ELSE Popped(f[s \ {CHOOSE x \in s : TRUE}], z, C)]
           Done(k) == Concluded(k, a, z, C)
           Going(k) == Searching(k, a, z, C)
<1>1. ShortestRoute(a, z, C) = (CHOOSE f : fits(f))[Turns].answer
  BY DEF ShortestRoute, FoldSet, MapThenFoldSet, Started, Origin
<1>2. PICK E, N : E = Cardinality(Edges) /\ N = Cardinality(Nodes)
  OBVIOUS
<1>3. E \in Nat /\ N \in Nat /\ N # 0 /\ Turns = 1 .. 1 + E * N
  <2>1. IsFiniteSet(Edges) /\ IsFiniteSet(Nodes) /\ Nodes # {}
    BY RoadAssumption DEF Edges, Nodes
  <2>2. E \in Nat /\ N \in Nat /\ (N = 0 => Nodes = {})
    BY <1>2, <2>1, FS_CardinalityType, FS_EmptySet
  <2>3. QED
    BY <1>2, <2>1, <2>2 DEF Turns
<1>4. PICK M : M = 1 + E * N
  OBVIOUS
<1>5. M \in Nat /\ M >= 1 + E /\ IsFiniteSet(Turns) /\ Cardinality(Turns) = M
  <2>1. E * N \in Nat /\ E * N >= E
    <3>1. PICK k \in Nat : N = k + 1
      <4>1. N - 1 \in Nat /\ N = (N - 1) + 1
        BY <1>3
      <4>2. QED
        BY <4>1
    <3>2. E * N = E * k + E /\ E * k \in Nat
      BY <1>3, <3>1
    <3>3. QED
      BY <1>3, <3>2
  <2>2. M \in Nat /\ M >= 1 + E /\ Turns = 1 .. M
    BY <1>3, <1>4, <2>1
  <2>3. QED
    BY <2>2, FS_Interval
<1> HIDE DEF Done, Going
<1>6. ASSUME NEW f, fits(f)
      PROVE  \A s \in SUBSET Turns :
                Done(f[s]) \/ (Going(f[s]) /\ Work(f[s], C) + Cardinality(s) <= 1 + E)
  <2> DEFINE Bad == {s \in SUBSET Turns :
                ~(Done(f[s]) \/ (Going(f[s]) /\ Work(f[s], C) + Cardinality(s) <= 1 + E))}
  <2> SUFFICES ASSUME Bad # {} PROVE FALSE
    OBVIOUS
  <2>1. \A s \in Bad : IsFiniteSet(s)
    BY <1>5, FS_Subset
  <2>2. PICK s \in Bad : \A x \in s : s \ {x} \notin Bad
    <3> HIDE DEF Bad
    <3>1. QED
      BY <2>1, SmallestOf
  <2>3. s \in SUBSET Turns /\ IsFiniteSet(s)
    BY <2>1
  <2>4. CASE s = {}
    <3>1. f[s] = Started(a)
      BY <1>6, <2>3, <2>4
    <3>2. Cardinality(s) = 0
      BY <2>4, FS_EmptySet
    <3>3. PICK k : k = f[s]
      OBVIOUS
    <3>4. Going(k) /\ Work(k, C) <= 1 + E
      BY <1>2, <3>1, <3>3, SearchStarts DEF Going
    <3>5. Work(k, C) \in Nat
      BY <3>4, WorkIs DEF Going, Searching
    <3>6. Work(k, C) + Cardinality(s) <= 1 + E
      BY <3>2, <3>4, <3>5
    <3>7. QED
      BY <2>2, <3>3, <3>4, <3>6
  <2>5. CASE s # {}
    <3>1. PICK x : x = CHOOSE y \in s : TRUE
      OBVIOUS
    <3>2. x \in s
      BY <2>5, <3>1
    <3>3. PICK r, k, t : r = s \ {x} /\ k = f[r] /\ t = f[s]
      OBVIOUS
    <3>4. t = Popped(k, z, C)
      BY <1>6, <2>3, <2>5, <3>1, <3>3
    <3>5. r \in SUBSET Turns /\ r \notin Bad
      BY <2>2, <2>3, <3>2, <3>3
    <3>6. Done(k) \/ (Going(k) /\ Work(k, C) + Cardinality(r) <= 1 + E)
      BY <3>3, <3>5
    <3>7. Cardinality(r) \in Nat /\ Cardinality(s) = Cardinality(r) + 1
      <4>1. IsFiniteSet(r) /\ Cardinality(r) = Cardinality(s) - 1
        BY <2>3, <3>2, <3>3, FS_RemoveElement
      <4>2. Cardinality(s) \in Nat /\ Cardinality(r) \in Nat
        BY <2>3, <4>1, FS_CardinalityType
      <4>3. QED
        BY <4>1, <4>2
    <3>8. CASE k.queue = {}
      <4>1. Done(k)
        BY <3>6, <3>8, EmptyAnswers DEF Done, Going
      <4>2. t = k
        BY <3>4, <3>8 DEF Popped
      <4>3. QED
        BY <2>2, <3>3, <4>1, <4>2
    <3>9. CASE k.queue # {}
      <4>1. Going(k) /\ Work(k, C) + Cardinality(r) <= 1 + E
        BY <3>6, <3>9, ConcludedIs DEF Done
      <4>2. Done(t) \/ (Going(t) /\ Work(t, C) < Work(k, C))
        BY <3>4, <3>9, <4>1, TurnIs DEF Done, Going
      <4>3. CASE Done(t)
        BY <2>2, <3>3, <4>3
      <4>4. CASE Going(t) /\ Work(t, C) < Work(k, C)
        <5>1. Work(t, C) \in Nat /\ Work(k, C) \in Nat
          BY <4>1, <4>4, WorkIs DEF Going, Searching
        <5>2. PICK u, v, c, d : /\ u = Work(t, C) /\ v = Work(k, C)
                                /\ c = Cardinality(r) /\ d = Cardinality(s)
          OBVIOUS
        <5>3. u + d <= 1 + E
          BY <1>3, <3>7, <4>1, <4>4, <5>1, <5>2
        <5>4. Going(f[s]) /\ Work(f[s], C) + Cardinality(s) <= 1 + E
          BY <3>3, <4>4, <5>2, <5>3
        <5>5. QED
          BY <2>2, <5>4
      <4>5. QED
        BY <4>2, <4>3, <4>4
    <3>10. QED
      BY <3>8, <3>9
  <2>6. QED
    BY <2>4, <2>5
<1>7. \E f : fits(f)
  <2> DEFINE T == Reached(a, z, C)
             step == [x \in Turns \X T |-> Popped(x[2], z, C)]
  <2>1. \A k : k \in T <=> Done(k) \/ Going(k)
    BY ReachedAre DEF Done, Going
  <2>2. \A x \in Turns, k \in T : step[<<x, k>>] = Popped(k, z, C)
    OBVIOUS
  <2> HIDE DEF T, step
  <2>3. PICK base, pick : base = Started(a) /\ pick = First(Turns)
    OBVIOUS
  <2>4. \A s \in SUBSET Turns : pick[s] = CHOOSE x \in s : TRUE
    BY <2>3 DEF First
  <2>5. Picks(pick, Turns)
    BY <2>4 DEF Picks
  <2>6. Closed(step, base, Turns, T)
    <3>1. base \in T
      BY <2>1, <2>3, SearchStarts DEF Going
    <3>2. ASSUME NEW k \in T PROVE Popped(k, z, C) \in T
      <4>1. CASE k.queue = {}
        BY <4>1 DEF Popped
      <4>2. CASE k.queue # {}
        <5>1. Going(k)
          BY <2>1, <4>2, ConcludedIs DEF Done
        <5>2. PICK t : t = Popped(k, z, C)
          OBVIOUS
        <5>3. Done(t) \/ Going(t)
          BY <4>2, <5>1, <5>2, TurnIs DEF Done, Going
        <5>4. QED
          BY <2>1, <5>2, <5>3
      <4>3. QED
        BY <4>1, <4>2
    <3>3. QED
      BY <2>2, <3>1, <3>2 DEF Closed
  <2>7. PICK g : IsFold(step, base, pick, g, Turns)
    BY <1>5, <2>5, FoldExists
  <2>8. Steps(step, base, pick, g, Turns, T)
    BY <2>7 DEF IsFold, Steps
  <2>9. \A s \in SUBSET Turns : g[s] \in T
    BY <1>5, <2>5, <2>6, <2>8, FoldType
  <2>10. ASSUME NEW s \in SUBSET Turns, s # {}
         PROVE  step[<<pick[s], g[s \ {pick[s]}]>>]
                   = Popped(g[s \ {CHOOSE x \in s : TRUE}], z, C)
    <3>1. pick[s] \in Turns /\ g[s \ {pick[s]}] \in T
      BY <2>5, <2>9, <2>10 DEF Picks
    <3>2. PICK x, y : x = pick[s] /\ y = g[s \ {x}]
      OBVIOUS
    <3>3. x = CHOOSE o \in s : TRUE
      BY <2>4, <3>2
    <3>4. step[<<x, y>>] = Popped(y, z, C)
      BY <2>2, <3>1, <3>2
    <3>5. QED
      BY <3>2, <3>3, <3>4
  <2>11. g = [s \in SUBSET Turns |-> IF s = {} THEN base
                                     ELSE step[<<pick[s], g[s \ {pick[s]}]>>]]
    BY <2>7 DEF IsFold
  <2>12. fits(g)
    BY <2>3, <2>10, <2>11
  <2>13. QED
    BY <2>12
<1> HIDE DEF fits
<1>8. PICK f : f = (CHOOSE g : fits(g)) /\ fits(f)
  BY <1>7
<1>9. PICK k : k = f[Turns]
  OBVIOUS
<1>10. ShortestRoute(a, z, C) = k.answer
  BY <1>1, <1>8, <1>9
<1>11. Done(k) \/ (Going(k) /\ Work(k, C) + M <= 1 + E)
  BY <1>5, <1>6, <1>8, <1>9
<1>12. CASE Going(k) /\ Work(k, C) + M <= 1 + E
  <2>1. Work(k, C) \in Nat
    BY <1>12, WorkIs DEF Going, Searching
  <2>2. Work(k, C) = 0
    BY <1>3, <1>5, <1>12, <2>1
  <2>3. k.queue = {}
    BY <1>12, <2>2, WorkIs DEF Going, Searching
  <2>4. Done(k)
    BY <1>12, <2>3, EmptyAnswers DEF Done, Going
  <2>5. QED
    BY <1>10, <2>4, ConcludedIs DEF Done
<1>13. QED
  BY <1>11, <1>12, <1>10, ConcludedIs DEF Done

-----------------------------------------------------------------------------
(* Requests, and the sums in them.                                         *)

\* What the solver is given.
IsRequest(q) ==
    /\ IsFiniteSet(DOMAIN q.resources) /\ IsFiniteSet(DOMAIN q.tasks)
    /\ \A r \in DOMAIN q.resources :
          q.resources[r].capacity \in Nat \ {0} /\ q.resources[r].available \in BOOLEAN
    /\ \A t \in DOMAIN q.tasks : q.tasks[t].need \in Nat \ {0} /\ q.tasks[t].penalty \in Nat
    /\ \A p \in Pairs(q) : q.routes[p].minutes \in Nat /\ q.routes[p].reachable \in BOOLEAN
    /\ q.weight \in Nat
    /\ q.eligible = Eligible(q)

CapacityIn(q) == [r \in DOMAIN q.resources |-> q.resources[r].capacity]

CostIn(q) == [p \in Pairs(q) |-> TravelCost(q, p)]

PenaltyIn(q) == [t \in DOMAIN q.tasks |-> q.tasks[t].penalty]

\* What travel costs.
LEMMA CostIsNat ==
    ASSUME NEW q, IsRequest(q), NEW p \in Pairs(q)
    PROVE  TravelCost(q, p) \in Nat
<1> DEFINE c == CeilMinutes(q.routes[p].minutes)
           w == q.weight
<1>1. w \in Nat /\ c \in Nat
  BY DEF IsRequest, CeilMinutes
<1>2. TravelCost(q, p) = w * c
  BY DEF TravelCost
<1> HIDE DEF c, w
<1>3. w * c \in Nat
  BY <1>1
<1>4. QED
  BY <1>2, <1>3

\* The capacities of some resources are summed.
LEMMA CapacityIs ==
    ASSUME NEW q, IsRequest(q), NEW S, S \subseteq DOMAIN q.resources
    PROVE  /\ Weighs(CapacityIn(q), S)
           /\ CapacityOf(q, S) = SumOf(CapacityIn(q), S)
<1> DEFINE fits(f) == f = [s \in SUBSET S |-> IF s = {} THEN 0
                             ELSE q.resources[CHOOSE x \in s : TRUE].capacity
                                    + f[s \ {CHOOSE x \in s : TRUE}]]
           w == CapacityIn(q)
<1>1. CapacityOf(q, S) = (CHOOSE f : fits(f))[S]
  BY DEF CapacityOf, MapThenSumSet, MapThenFoldSet
<1>2. \A x \in S : w[x] = q.resources[x].capacity
  BY DEF CapacityIn
<1>3. Weighs(w, S)
  BY <1>2, FS_Subset DEF CapacityIn, IsRequest, Weighs
<1> HIDE DEF w
<1>4. ASSUME NEW f PROVE fits(f) <=> AddsUp(w, f, S)
  <2>1. \A s \in SUBSET S : s # {} =>
           w[CHOOSE x \in s : TRUE] = q.resources[CHOOSE x \in s : TRUE].capacity
    BY <1>2
  <2>2. QED
    BY <2>1 DEF AddsUp, OnSubsets
<1> HIDE DEF fits
<1>5. fits(CHOOSE f : fits(f))
  BY <1>3, <1>4, SumIs
<1>6. QED
  BY <1>1, <1>3, <1>4, <1>5, SumIs DEF w

\* The costs of some pairs are.
LEMMA CostIs ==
    ASSUME NEW q, IsRequest(q), NEW S, S \subseteq Pairs(q)
    PROVE  /\ Weighs(CostIn(q), S)
           /\ CostOf(q, S) = SumOf(CostIn(q), S)
<1> DEFINE fits(f) == f = [s \in SUBSET S |-> IF s = {} THEN 0
                             ELSE TravelCost(q, CHOOSE x \in s : TRUE)
                                    + f[s \ {CHOOSE x \in s : TRUE}]]
           w == CostIn(q)
<1>1. CostOf(q, S) = (CHOOSE f : fits(f))[S]
  BY DEF CostOf, MapThenSumSet, MapThenFoldSet
<1>2. \A x \in S : w[x] = TravelCost(q, x)
  BY DEF CostIn
<1>3. Weighs(w, S)
  <2>1. IsFiniteSet(Pairs(q))
    BY FS_Product DEF Pairs, IsRequest
  <2>2. IsFiniteSet(S) /\ S \subseteq DOMAIN w
    BY <2>1, FS_Subset DEF CostIn
  <2>3. \A x \in S : w[x] \in Nat
    BY <1>2, CostIsNat
  <2>4. QED
    BY <2>2, <2>3 DEF Weighs
<1> HIDE DEF w
<1>4. ASSUME NEW f PROVE fits(f) <=> AddsUp(w, f, S)
  <2>1. \A s \in SUBSET S : s # {} =>
           w[CHOOSE x \in s : TRUE] = TravelCost(q, CHOOSE x \in s : TRUE)
    BY <1>2
  <2>2. QED
    BY <2>1 DEF AddsUp, OnSubsets
<1> HIDE DEF fits
<1>5. fits(CHOOSE f : fits(f))
  BY <1>3, <1>4, SumIs
<1>6. QED
  BY <1>1, <1>3, <1>4, <1>5, SumIs DEF w

\* The penalties of some tasks are.
LEMMA PenaltyIs ==
    ASSUME NEW q, IsRequest(q), NEW S, S \subseteq DOMAIN q.tasks
    PROVE  /\ Weighs(PenaltyIn(q), S)
           /\ PenaltyOf(q, S) = SumOf(PenaltyIn(q), S)
<1> DEFINE fits(f) == f = [s \in SUBSET S |-> IF s = {} THEN 0
                             ELSE q.tasks[CHOOSE x \in s : TRUE].penalty
                                    + f[s \ {CHOOSE x \in s : TRUE}]]
           w == PenaltyIn(q)
<1>1. PenaltyOf(q, S) = (CHOOSE f : fits(f))[S]
  BY DEF PenaltyOf, MapThenSumSet, MapThenFoldSet
<1>2. \A x \in S : w[x] = q.tasks[x].penalty
  BY DEF PenaltyIn
<1>3. Weighs(w, S)
  BY <1>2, FS_Subset DEF PenaltyIn, IsRequest, Weighs
<1> HIDE DEF w
<1>4. ASSUME NEW f PROVE fits(f) <=> AddsUp(w, f, S)
  <2>1. \A s \in SUBSET S : s # {} =>
           w[CHOOSE x \in s : TRUE] = q.tasks[CHOOSE x \in s : TRUE].penalty
    BY <1>2
  <2>2. QED
    BY <2>1 DEF AddsUp, OnSubsets
<1> HIDE DEF fits
<1>5. fits(CHOOSE f : fits(f))
  BY <1>3, <1>4, SumIs
<1>6. QED
  BY <1>1, <1>3, <1>4, <1>5, SumIs DEF w

\* So an objective is a number.
LEMMA ObjectiveIsNat ==
    ASSUME NEW q, IsRequest(q), NEW pairs, pairs \subseteq Pairs(q)
    PROVE  /\ CostOf(q, pairs) \in Nat
           /\ PenaltyOf(q, DOMAIN q.tasks \ Covered(pairs)) \in Nat
           /\ Objective(q, pairs) \in Nat
<1>1. CostOf(q, pairs) \in Nat
  BY CostIs, SumStep
<1>2. PenaltyOf(q, DOMAIN q.tasks \ Covered(pairs)) \in Nat
  <2>1. PICK S : S = DOMAIN q.tasks \ Covered(pairs)
    OBVIOUS
  <2>2. S \subseteq DOMAIN q.tasks
    BY <2>1
  <2>3. QED
    BY <2>1, <2>2, PenaltyIs, SumStep
<1>3. QED
  BY <1>1, <1>2 DEF Objective

-----------------------------------------------------------------------------
(* What the exercise asks the solver is such a request.                    *)

\* A materialised checkpoint.
IsTown(m) ==
    /\ IsFiniteSet(DOMAIN m.resources) /\ IsFiniteSet(DOMAIN m.tasks)
    /\ \A r \in DOMAIN m.resources :
          /\ m.resources[r].capacity \in Nat \ {0}
          /\ m.resources[r].available \in BOOLEAN /\ m.resources[r].at \in Int
    /\ \A t \in DOMAIN m.tasks :
          /\ m.tasks[t].need \in Nat \ {0} /\ m.tasks[t].penalty \in Nat
          /\ m.tasks[t].at \in Int
    /\ m.closed \in SUBSET Edges
    /\ Weights[m.objective].travel \in Nat
    /\ DOMAIN m.resources # {} => Nodes # {}

\* What a request keeps of it.
LEMMA RequestHolds ==
    ASSUME NEW m, NEW locks
    PROVE  /\ RequestOf(m, locks).resources = m.resources
           /\ RequestOf(m, locks).tasks = m.tasks
           /\ RequestOf(m, locks).routes = CandidateRoutes(m)
           /\ RequestOf(m, locks).locks = locks
           /\ RequestOf(m, locks).weight = Weights[m.objective].travel
           /\ RequestOf(m, locks).eligible = Eligible(RequestOf(m, locks))
  BY DEF RequestOf, Prepared, Eligible, Pairs

\* A resource and a task are given a route.
LEMMA CandidateIs ==
    ASSUME NEW m, IsTown(m), NEW p \in (DOMAIN m.resources) \X (DOMAIN m.tasks)
    PROVE  /\ CandidateRoutes(m)[p].minutes \in Nat
           /\ CandidateRoutes(m)[p].reachable \in BOOLEAN
<1>1. p[1] \in DOMAIN m.resources /\ p[2] \in DOMAIN m.tasks
  OBVIOUS
<1>2. PICK a, b, c : /\ a = Nearest(m.resources[p[1]].at) /\ b = Nearest(m.tasks[p[2]].at)
                     /\ c = m.closed
  OBVIOUS
<1>3. m.resources[p[1]].at \in Int /\ m.tasks[p[2]].at \in Int /\ Nodes # {} /\ c \in SUBSET Edges
  BY <1>1, <1>2 DEF IsTown
<1>4. a \in Nodes /\ b \in Nodes
  BY <1>2, <1>3, NearestIs
<1>5. CandidateRoutes(m)[p] = Routes[<<a, b, c>>]
  BY <1>2 DEF CandidateRoutes
<1>6. <<a, b, c>> \in Nodes \X Nodes \X SUBSET Edges
  BY <1>3, <1>4
<1>7. Routes[<<a, b, c>>] = Route(a, b, c)
  BY <1>6 DEF Routes
<1>8. QED
  BY <1>5, <1>7, RouteMinutes

\* The request of a checkpoint.
LEMMA RequestIs ==
    ASSUME NEW m, IsTown(m), NEW locks
    PROVE  IsRequest(RequestOf(m, locks))
<1>1. PICK q : q = RequestOf(m, locks)
  OBVIOUS
<1>2. /\ q.resources = m.resources /\ q.tasks = m.tasks /\ q.routes = CandidateRoutes(m)
      /\ q.weight = Weights[m.objective].travel /\ q.eligible = Eligible(q)
  BY <1>1, RequestHolds
<1>3. \A p \in Pairs(q) : q.routes[p].minutes \in Nat /\ q.routes[p].reachable \in BOOLEAN
  BY <1>2, CandidateIs DEF Pairs
<1>4. IsRequest(q)
  BY <1>2, <1>3 DEF IsRequest, IsTown
<1>5. QED
  BY <1>1, <1>4

\* Penalties are natural.
LEMMA PenaltyIsNat ==
    ASSUME NEW task, {task.base, task.population} \subseteq Nat, NEW o \in Objectives
    PROVE  Penalty(task, Weights[o]) \in Nat
<1> DEFINE w == Weights[o]
           a == w.base * task.base
           b == IF task.critical THEN w.critical ELSE 0
           n == task.population \div w.divisor
           c == w.population * n
<1>1. /\ w.base \in Nat /\ w.critical \in Nat /\ w.population \in Nat /\ w.divisor \in Nat \ {0}
      /\ task.base \in Nat /\ task.population \in Nat
  BY PlanningAssumption
<1>2. Penalty(task, w) = a + b + c
  BY DEF Penalty
<1> HIDE DEF w
<1>3. a \in Nat /\ b \in Nat
  BY <1>1
<1>4. n \in Nat
  BY <1>1
<1> HIDE DEF n
<1>5. c \in Nat
  BY <1>1, <1>4
<1> HIDE DEF a, b, c
<1>6. Penalty(task, w) \in Nat
  BY <1>2, <1>3, <1>5
<1>7. QED
  BY <1>6 DEF w

\* A definition that was validated materialises as one.
LEMMA MaterializedIs ==
    ASSUME NEW d \in Definitions, ValidRuntime(d), NEW c \in 0 .. FinalCheckpoint,
           NEW o \in Objectives, NEW cleared
    PROVE  /\ IsTown(Materialized(d, c, o, cleared))
           /\ Materialized(d, c, o, cleared).resources = d.resources
           /\ DOMAIN Materialized(d, c, o, cleared).tasks = DOMAIN d.checkpoints[c].tasks
           /\ DOMAIN d.resources # {}
           /\ Materialized(d, c, o, cleared).objective = o
           /\ Materialized(d, c, o, cleared).closed = ClosedAt(d, c, cleared)
<1>1. PICK m : m = Materialized(d, c, o, cleared)
  OBVIOUS
<1>2. PICK tasks : tasks = d.checkpoints[c].tasks
  OBVIOUS
<1>3. /\ m.objective = o /\ m.resources = d.resources /\ m.closed = ClosedAt(d, c, cleared)
      /\ DOMAIN m.tasks = DOMAIN tasks
      /\ \A t \in DOMAIN tasks : m.tasks[t] = Demand(tasks[t], Weights[o])
  BY <1>1, <1>2 DEF Materialized
<1>4. IsDefinition(d)
  BY PlanningAssumption
<1>5. IsFiniteSet(DOMAIN m.resources) /\ IsFiniteSet(DOMAIN m.tasks)
  BY <1>2, <1>3, <1>4 DEF IsDefinition
<1>6. \A r \in DOMAIN m.resources :
          /\ m.resources[r].capacity \in Nat \ {0}
          /\ m.resources[r].available \in BOOLEAN /\ m.resources[r].at \in Int
  BY <1>3, <1>4 DEF IsDefinition
<1>7. ASSUME NEW t \in DOMAIN m.tasks
      PROVE  /\ m.tasks[t].need \in Nat \ {0} /\ m.tasks[t].penalty \in Nat
             /\ m.tasks[t].at \in Int
  <2>1. PICK task : task = tasks[t]
    OBVIOUS
  <2>2. /\ task.need \in Nat \ {0} /\ {task.base, task.population} \subseteq Nat /\ task.at \in Int
    BY <1>2, <1>3, <1>4, <2>1 DEF IsDefinition
  <2>3. Penalty(task, Weights[o]) \in Nat
    BY <2>2, PenaltyIsNat
  <2>4. /\ m.tasks[t].need = task.need /\ m.tasks[t].penalty = Penalty(task, Weights[o])
        /\ m.tasks[t].at = task.at
    <3>1. m.tasks[t] = Demand(task, Weights[o])
      BY <1>3, <2>1
    <3>2. QED
      BY <3>1 DEF Demand
  <2>5. QED
    BY <2>2, <2>3, <2>4
<1>8. m.closed \in SUBSET Edges
  <2>1. d.checkpoints[c].closed \subseteq Edges
    BY DEF ValidRuntime
  <2>2. QED
    BY <1>3, <2>1 DEF ClosedAt
<1>9. Weights[m.objective].travel \in Nat
  BY <1>3, PlanningAssumption
<1>10. DOMAIN d.resources # {}
  <2>1. PICK objective \in Objectives : TRUE
    BY ObjectiveAssumption
  <2>2. HasShelterOverride(d, objective, TRUE)
    BY <2>1 DEF ValidRuntime, ClearedTried
  <2>3. QED
    BY <2>2 DEF HasShelterOverride, Buses
<1>11. Nodes # {}
  BY <1>10 DEF ValidRuntime, Snappable
<1>12. IsTown(m)
  BY <1>3, <1>5, <1>6, <1>7, <1>8, <1>9, <1>11 DEF IsTown
<1>13. QED
  BY <1>1, <1>2, <1>3, <1>10, <1>12

-----------------------------------------------------------------------------
(* What is stored of a run, and what was answered.                         *)

\* The requests and what is seen of a plan, by the definition.
RequestIn(d, input) ==
    RequestOf(Materialized(d, input.checkpoint, input.objective, input.corridor), input.locks)

SeenIn(d, input, answer) ==
    [ objective |-> input.objective, closed |-> input.closed, pairs |-> answer.pairs,
      penalty |-> [t \in DOMAIN RequestIn(d, input).tasks |->
                     RequestIn(d, input).tasks[t].penalty] ]

\* A run answers the request of its input.
RunFits(d, run) ==
    /\ run.input.checkpoint \in 0 .. FinalCheckpoint
    /\ run.input.objective \in Objectives
    /\ run.input.closed = ClosedAt(d, run.input.checkpoint, run.input.corridor)
    /\ Accepted(RequestIn(d, run.input))
    /\ run.answer \in Answers(RequestIn(d, run.input))

\* It is stored with the changes against the run before; as an override, it
\* pins a lock on the input of that run.
Follows(d, before, run) ==
    /\ run.changes = Changes(SeenIn(d, before.input, before.answer),
                             SeenIn(d, run.input, run.answer))
    /\ run.override =>
          /\ \E r : run.input.locks = ShelterLock(r) /\ <<r, ShelterTask>> \in run.answer.pairs
          /\ before.input.locks = {}
          /\ before.input.checkpoint = run.input.checkpoint
          /\ before.input.objective = run.input.objective
          /\ before.input.corridor = run.input.corridor

RunsFit(d, rs) ==
    /\ \A i \in DOMAIN rs : RunFits(d, rs[i])
    /\ \A i \in DOMAIN rs : i # 1 => Follows(d, rs[i - 1], rs[i])
    /\ \A i \in DOMAIN rs : i = 1 => ~rs[i].override

\* The sandbox, by the definition.
SandboxTown(d, k) ==
    LET m == Materialized(d, k.checkpoint, k.objective, FALSE)
        factor(t) == Multipliers[IF t \in DOMAIN k.presets THEN k.presets[t] ELSE "standard"]
        unit(r) == [m.resources[r] EXCEPT !.available = @ /\ r \notin k.unavailable]
        task(t) == [m.tasks[t] EXCEPT !.penalty = @ * factor(t)]
    IN  [ m EXCEPT !.closed = k.closed,
                   !.resources = [r \in DOMAIN @ |-> unit(r)],
                   !.tasks = [t \in DOMAIN @ |-> task(t)] ]

SandboxIn(d, k) == RequestOf(SandboxTown(d, k), k.locks)

AllowedIn(d, k) ==
    LET tasks == DOMAIN d.checkpoints[k.checkpoint].tasks IN
    /\ k.checkpoint \in d.sandbox
    /\ k.closed \subseteq d.closures
    /\ k.unavailable \subseteq DOMAIN d.resources
    /\ DOMAIN k.presets \subseteq tasks
    /\ \A t \in DOMAIN k.presets : k.presets[t] \in DOMAIN Multipliers
    /\ \A t \in tasks : SandboxIn(d, k).tasks[t].penalty <= IntMax

PreviewFits(d, shown) ==
    shown # NoPreview =>
        /\ shown.controls \in Controls
        /\ shown.answer.status = "refused"
              <=> ~(AllowedIn(d, shown.controls) /\ Accepted(SandboxIn(d, shown.controls)))
        /\ shown.answer.status # "refused" =>
              shown.answer \in Answers(SandboxIn(d, shown.controls))

\* The inductive invariant of what is stored and shown.
RunsInv == RunsFit(definition, runs) /\ PreviewFits(definition, preview)

\* The operators of the model are these, of the definition loaded.
LEMMA SameRequests ==
    /\ \A input : Request(input) = RequestIn(definition, input)
    /\ \A input, answer : Seen(input, answer) = SeenIn(definition, input, answer)
    /\ \A k : SandboxRequest(k) = SandboxIn(definition, k)
    /\ \A k : ControlsAllowed(k) <=> AllowedIn(definition, k)
<1>1. \A input : Request(input) = RequestIn(definition, input)
  BY DEF Request, RequestIn
<1>2. \A input, answer : Seen(input, answer) = SeenIn(definition, input, answer)
  BY <1>1 DEF Seen, SeenIn
<1>3. \A k : SandboxRequest(k) = SandboxIn(definition, k)
  BY DEF SandboxRequest, SandboxIn, Sandbox, SandboxTown
<1>4. \A k : ControlsAllowed(k) <=> AllowedIn(definition, k)
  BY <1>3 DEF ControlsAllowed, AllowedIn
<1>5. QED
  BY <1>1, <1>2, <1>3, <1>4

\* A run that fits may be stored.
LEMMA RunStored ==
    ASSUME NEW d, NEW S, NEW rs \in Seq(S), RunsFit(d, rs), NEW x, RunFits(d, x),
           rs = <<>> => ~x.override, rs # <<>> => Follows(d, rs[Len(rs)], x)
    PROVE  RunsFit(d, Append(rs, x))
<1> DEFINE n == Len(rs)
           b == Append(rs, x)
<1>1. n \in Nat /\ DOMAIN rs = 1 .. n /\ (rs = <<>> <=> n = 0)
  OBVIOUS
<1>2. DOMAIN b = 1 .. n + 1 /\ b[n + 1] = x /\ \A i \in 1 .. n : b[i] = rs[i]
  OBVIOUS
<1>3. rs # <<>> => Follows(d, rs[n], x)
  OBVIOUS
<1> HIDE DEF n, b
<1>4. \A i \in DOMAIN b : RunFits(d, b[i])
  <2> SUFFICES ASSUME NEW i \in 1 .. n + 1 PROVE RunFits(d, b[i])
    BY <1>2
  <2>1. i = n + 1 \/ i \in 1 .. n
    BY <1>1
  <2>2. QED
    BY <1>1, <1>2, <2>1 DEF RunsFit
<1>5. \A i \in DOMAIN b : i # 1 => Follows(d, b[i - 1], b[i])
  <2> SUFFICES ASSUME NEW i \in 1 .. n + 1, i # 1 PROVE Follows(d, b[i - 1], b[i])
    BY <1>2
  <2>1. CASE i = n + 1
    <3>1. n \in 1 .. n /\ i - 1 = n /\ rs # <<>>
      BY <1>1, <2>1
    <3>2. QED
      BY <1>2, <1>3, <2>1, <3>1
  <2>2. CASE i \in 1 .. n
    <3>1. i - 1 \in 1 .. n
      BY <1>1, <2>2
    <3>2. QED
      BY <1>1, <1>2, <2>2, <3>1 DEF RunsFit
  <2>3. QED
    BY <1>1, <2>1, <2>2
<1>6. \A i \in DOMAIN b : i = 1 => ~b[i].override
  <2> SUFFICES ASSUME 1 \in 1 .. n + 1 PROVE ~b[1].override
    BY <1>2
  <2>1. CASE n = 0
    BY <1>1, <1>2, <2>1
  <2>2. CASE n # 0
    <3>1. 1 \in 1 .. n
      BY <1>1, <2>2
    <3>2. QED
      BY <1>1, <1>2, <3>1 DEF RunsFit
  <2>3. QED
    BY <2>1, <2>2
<1>7. QED
  BY <1>4, <1>5, <1>6 DEF RunsFit, b

\* Nothing is stored at first.
LEMMA RunsInitially == Init => RunsInv
  BY DEF Init, RunsInv, RunsFit, PreviewFits

\* The input of the session is one.
LEMMA InputFits ==
    ASSUME PInv, session.objective # NoObjective, NEW locks
    PROVE  /\ InputOf(session, locks).checkpoint \in 0 .. FinalCheckpoint
           /\ InputOf(session, locks).objective \in Objectives
           /\ InputOf(session, locks).closed =
                ClosedAt(definition, InputOf(session, locks).checkpoint,
                         InputOf(session, locks).corridor)
<1>1. session \in Session
  BY SameData DEF PInv, W!WInv, W!TypeOK
<1>2. session.checkpoint \in 0 .. FinalCheckpoint /\ session.objective \in Objectives
  BY <1>1 DEF Session
<1>3. QED
  BY <1>2 DEF InputOf

\* What is stored is explained against the run before.
LEMMA ExplainedIs ==
    ASSUME NEW input, NEW answer, runs # <<>>
    PROVE  Explained(input, answer)
             = Changes(SeenIn(definition, runs[Len(runs)].input, runs[Len(runs)].answer),
                       SeenIn(definition, input, answer))
  BY SameRequests DEF Explained, Last

\* A run answered on an input may be stored.
LEMMA StoreRun ==
    ASSUME PInv, RunsInv, NEW locks, session.objective # NoObjective,
           NEW answer \in Answers(Request(InputOf(session, locks))),
           Accepted(Request(InputOf(session, locks))), NEW override,
           override => \E r : locks = ShelterLock(r) /\ <<r, ShelterTask>> \in answer.pairs,
           override => /\ runs # <<>> /\ runs[Len(runs)].input = InputOf(session, {}),
           runs' = Append(runs, Run(InputOf(session, locks), answer, override)),
           UNCHANGED <<definition, preview>>
    PROVE  RunsInv'
<1>1. PICK S : runs \in Seq(S)
  BY DEF PInv
<1>2. PICK input : input = InputOf(session, locks)
  OBVIOUS
<1>3. PICK x : x = Run(input, answer, override)
  OBVIOUS
<1>4. /\ x.input = input /\ x.answer = answer /\ x.override = override
      /\ x.changes = Explained(input, answer)
  BY <1>3 DEF Run
<1>5. RunFits(definition, x)
  BY <1>2, <1>4, InputFits, SameRequests DEF RunFits
<1>6. ASSUME runs # <<>> PROVE Follows(definition, runs[Len(runs)], x)
  <2>1. x.changes = Changes(SeenIn(definition, runs[Len(runs)].input, runs[Len(runs)].answer),
                            SeenIn(definition, x.input, x.answer))
    BY <1>4, <1>6, ExplainedIs
  <2>2. ASSUME x.override
        PROVE  LET before == runs[Len(runs)] IN
               /\ \E r : x.input.locks = ShelterLock(r) /\ <<r, ShelterTask>> \in x.answer.pairs
               /\ before.input.locks = {}
               /\ before.input.checkpoint = x.input.checkpoint
               /\ before.input.objective = x.input.objective
               /\ before.input.corridor = x.input.corridor
    <3>1. runs[Len(runs)].input = InputOf(session, {})
      BY <1>4, <2>2
    <3>2. \E r : locks = ShelterLock(r) /\ <<r, ShelterTask>> \in answer.pairs
      BY <1>4, <2>2
    <3>3. QED
      BY <1>2, <1>4, <3>1, <3>2, InputIs
  <2>3. QED
    BY <2>1, <2>2 DEF Follows
<1>7. runs = <<>> => ~x.override
  BY <1>4
<1>8. RunsFit(definition, Append(runs, x))
  BY <1>1, <1>5, <1>6, <1>7, RunStored DEF RunsInv
<1>9. QED
  BY <1>2, <1>3, <1>8 DEF RunsInv

\* The latest plan of the last checkpoint is the last of all.
LEMMA LatestIsLast ==
    ASSUME PInv, session.checkpoint = FinalCheckpoint, LatestAt(AbstractRuns, FinalCheckpoint) # 0
    PROVE  LatestAt(AbstractRuns, FinalCheckpoint) = Len(runs) /\ runs # <<>>
<1>1. W!LatestPlanIsCurrent
  BY W!InvIsEnough, ObjectiveAssumption DEF PInv, W!WorkflowSound
<1>2. \A ps, c : W!LatestAt(ps, c) = LatestAt(ps, c)
  BY DEF W!LatestAt, LatestAt, W!LastIndex, LastIndex
<1>3. LatestAt(AbstractRuns, FinalCheckpoint) = Len(AbstractRuns)
  BY <1>1, <1>2 DEF W!LatestPlanIsCurrent
<1>4. PICK S : runs \in Seq(S)
  BY DEF PInv
<1>5. Len(AbstractRuns) = Len(runs)
  BY <1>4, AbstractRunsAre
<1>6. runs = <<>> => Len(runs) = 0
  OBVIOUS
<1>7. QED
  BY <1>3, <1>5, <1>6

\* No answer of the solver is a refusal.
LEMMA AnswersAnswer ==
    ASSUME NEW q, NEW answer \in Answers(q)
    PROVE  answer.status # "refused"
  BY DEF Answers, Solutions

\* Every step keeps it.
LEMMA StepRunsInv == PInv /\ RunsInv /\ [Next]_vars => RunsInv'
<1> SUFFICES ASSUME PInv, RunsInv, [Next]_vars PROVE RunsInv'
  OBVIOUS
<1>1. CASE UNCHANGED <<definition, runs, preview>>
  BY <1>1 DEF RunsInv
<1>2. CASE GeneratePlan
  <2>1. PICK answer \in AnswersTo(Request(InputOf(session, {})), GuidedStatuses) :
             runs' = Append(runs, Run(InputOf(session, {}), answer, FALSE))
    BY <1>2 DEF GeneratePlan
  <2>2. /\ GenerateRefusal(session, AbstractRuns) = "none"
        /\ Accepted(Request(InputOf(session, {})))
        /\ UNCHANGED <<definition, preview>>
    BY <1>2 DEF GeneratePlan
  <2>3. session.objective # NoObjective
    BY <2>2 DEF GenerateRefusal
  <2>4. answer \in Answers(Request(InputOf(session, {})))
    BY DEF AnswersTo
  <2>5. QED
    BY <2>1, <2>2, <2>3, <2>4, StoreRun
<1>3. CASE \E r \in Buses(definition) : ApplyOverride(r)
  <2>1. PICK r \in Buses(definition) : ApplyOverride(r)
    BY <1>3
  <2>2. PICK answer \in AnswersTo(Request(InputOf(session, ShelterLock(r))), GuidedStatuses) :
             /\ Honoured(answer, r)
             /\ runs' = Append(runs, Run(InputOf(session, ShelterLock(r)), answer, TRUE))
    BY <2>1 DEF ApplyOverride
  <2>3. /\ session.checkpoint = FinalCheckpoint /\ session.objective # NoObjective
        /\ LatestAt(AbstractRuns, FinalCheckpoint) # 0
        /\ InputHolds(runs[LatestAt(AbstractRuns, FinalCheckpoint)])
        /\ Accepted(Request(InputOf(session, ShelterLock(r))))
        /\ UNCHANGED <<definition, preview>>
    BY <2>1 DEF ApplyOverride
  <2>4. runs # <<>> /\ runs[Len(runs)].input = InputOf(session, {})
    BY <2>3, LatestIsLast DEF InputHolds
  <2>5. /\ answer \in Answers(Request(InputOf(session, ShelterLock(r))))
        /\ <<r, ShelterTask>> \in answer.pairs
    BY <2>2 DEF AnswersTo, Honoured
  <2>6. \E b : ShelterLock(r) = ShelterLock(b) /\ <<b, ShelterTask>> \in answer.pairs
    BY <2>5
  <2>7. QED
    BY <2>2, <2>3, <2>4, <2>5, <2>6, StoreRun
<1>4. CASE \E k \in Controls : SandboxPlan(k)
  <2>1. PICK k \in Controls : SandboxPlan(k)
    BY <1>4
  <2>2. UNCHANGED <<definition, runs>>
    BY <2>1 DEF SandboxPlan
  <2>3. PreviewFits(definition, preview')
    <3>1. CASE ControlsAllowed(k) /\ Accepted(SandboxRequest(k))
      <4>1. PICK answer \in AnswersTo(SandboxRequest(k), SandboxStatuses) :
                 preview' = [controls |-> k, answer |-> answer]
        BY <2>1, <3>1 DEF SandboxPlan
      <4>2. answer \in Answers(SandboxIn(definition, k))
        BY SameRequests DEF AnswersTo
      <4>3. answer.status # "refused"
        BY <4>2, AnswersAnswer
      <4>4. AllowedIn(definition, k) /\ Accepted(SandboxIn(definition, k))
        BY <3>1, SameRequests
      <4>5. preview'.controls = k /\ preview'.answer = answer
        BY <4>1
      <4>6. QED
        BY <4>2, <4>3, <4>4, <4>5 DEF PreviewFits
    <3>2. CASE ~(ControlsAllowed(k) /\ Accepted(SandboxRequest(k)))
      <4>1. preview' = [controls |-> k, answer |-> [status |-> "refused", pairs |-> {}]]
        BY <2>1, <3>2 DEF SandboxPlan
      <4>2. ~(AllowedIn(definition, k) /\ Accepted(SandboxIn(definition, k)))
        BY <3>2, SameRequests
      <4>3. preview'.controls = k /\ preview'.answer.status = "refused"
        BY <4>1
      <4>4. QED
        BY <4>2, <4>3 DEF PreviewFits
    <3>3. QED
      BY <3>1, <3>2
  <2>4. QED
    BY <2>2, <2>3 DEF RunsInv
<1>5. QED
  BY <1>1, <1>2, <1>3, <1>4 DEF Next, Create, Move, vars

\* Both invariants hold throughout.
LEMMA RunsAlways == Spec => [](PInv /\ RunsInv)
<1>1. Init => PInv /\ RunsInv
  BY InitPInv, RunsInitially
<1>2. PInv /\ RunsInv /\ [Next]_vars => (PInv /\ RunsInv)'
  BY StepPInv, StepRunsInv
<1>3. QED
  BY <1>1, <1>2, PTL DEF Spec

\* The request of a run that fits is one the solver understands.
LEMMA RequestFits ==
    ASSUME PInv, NEW run, RunFits(definition, run)
    PROVE  /\ IsRequest(RequestIn(definition, run.input))
           /\ DOMAIN RequestIn(definition, run.input).resources # {}
<1>1. PICK m : m = Materialized(definition, run.input.checkpoint, run.input.objective,
                                run.input.corridor)
  OBVIOUS
<1>2. /\ run.input.checkpoint \in 0 .. FinalCheckpoint /\ run.input.objective \in Objectives
      /\ definition \in Definitions /\ ValidRuntime(definition)
  BY DEF RunFits, PInv
<1>3. IsTown(m) /\ DOMAIN m.resources # {}
  BY <1>1, <1>2, MaterializedIs
<1>4. RequestIn(definition, run.input) = RequestOf(m, run.input.locks)
  BY <1>1 DEF RequestIn
<1>5. QED
  BY <1>3, <1>4, RequestIs, RequestHolds

-----------------------------------------------------------------------------
(* An override keeps its lock, and against a best plan it can only cost.   *)

\* The least of some numbers.
LEMMA MinIs ==
    ASSUME NEW S, S \subseteq Nat, S # {}
    PROVE  Min(S) \in S /\ \A x \in S : Min(S) <= x
<1>1. \E x \in S : \A y \in S : x <= y
  BY LeastOf
<1>2. QED
  BY <1>1 DEF Min

\* What the solver says.
LEMMA AnswerIs ==
    ASSUME NEW q, NEW answer \in Answers(q)
    PROVE  /\ answer.status \in {"INFEASIBLE", "OPTIMAL", "FEASIBLE", "UNKNOWN"}
           /\ Solved(answer) \/ answer.pairs # {} => answer.pairs \in Plans(q)
           /\ answer.status = "OPTIMAL" => answer.pairs \in BestPlans(q)
<1>1. BestPlans(q) \subseteq Plans(q)
  BY DEF BestPlans
<1>2. QED
  BY <1>1 DEF Answers, Solutions, Solved

\* A best plan is no dearer than any other.
LEMMA BestIsLeast ==
    ASSUME NEW q, IsRequest(q), NEW best \in BestPlans(q), NEW pairs \in Plans(q)
    PROVE  Objective(q, best) <= Objective(q, pairs)
<1> DEFINE costs == {Objective(q, p) : p \in Plans(q)}
<1>1. \A p \in Plans(q) : p \subseteq Pairs(q)
  BY DEF Plans, IsRequest, Eligible
<1>2. costs \subseteq Nat /\ costs # {} /\ Objective(q, pairs) \in costs
  BY <1>1, ObjectiveIsNat
<1>3. Objective(q, best) = Min(costs)
  BY DEF BestPlans
<1> HIDE DEF costs
<1>4. QED
  BY <1>2, <1>3, MinIs

\* Two requests that differ in their locks.
SameTown(q, o) ==
    /\ q.resources = o.resources /\ q.tasks = o.tasks
    /\ q.routes = o.routes /\ q.weight = o.weight

\* What is eligible and what it costs do not depend on the locks.
LEMMA LocksCostNothing ==
    ASSUME NEW q, NEW o, IsRequest(q), IsRequest(o), SameTown(q, o)
    PROVE  /\ q.eligible = o.eligible
           /\ \A pairs \in SUBSET Pairs(q) : Objective(q, pairs) = Objective(o, pairs)
           /\ \A S \in SUBSET (DOMAIN q.resources) : CapacityOf(q, S) = CapacityOf(o, S)
<1>1. Pairs(q) = Pairs(o)
  BY DEF SameTown, Pairs
<1>2. q.eligible = o.eligible
  BY <1>1 DEF SameTown, IsRequest, Eligible
<1>3. ASSUME NEW S \in SUBSET (DOMAIN q.resources) PROVE CapacityOf(q, S) = CapacityOf(o, S)
  <2>1. CapacityIn(q) = CapacityIn(o) /\ S \subseteq DOMAIN o.resources
    BY DEF SameTown, CapacityIn
  <2>2. QED
    BY <2>1, CapacityIs
<1>4. ASSUME NEW pairs \in SUBSET Pairs(q) PROVE Objective(q, pairs) = Objective(o, pairs)
  <2>1. CostOf(q, pairs) = CostOf(o, pairs)
    <3>1. CostIn(q) = CostIn(o)
      BY <1>1 DEF SameTown, CostIn, TravelCost
    <3>2. QED
      BY <1>1, <3>1, CostIs
  <2>2. PICK S : S = DOMAIN q.tasks \ Covered(pairs)
    OBVIOUS
  <2>3. PenaltyOf(q, S) = PenaltyOf(o, S)
    <3>1. PenaltyIn(q) = PenaltyIn(o) /\ S \subseteq DOMAIN q.tasks /\ S \subseteq DOMAIN o.tasks
      BY <2>2 DEF SameTown, PenaltyIn
    <3>2. QED
      BY <3>1, PenaltyIs
  <2>4. S = DOMAIN o.tasks \ Covered(pairs)
    BY <2>2 DEF SameTown
  <2>5. QED
    BY <2>1, <2>2, <2>3, <2>4 DEF Objective
<1>5. QED
  BY <1>2, <1>3, <1>4

\* A plan under more locks is a plan under fewer.
LEMMA PlanUnderFewer ==
    ASSUME NEW q, NEW o, IsRequest(q), IsRequest(o), SameTown(q, o), o.locks \subseteq q.locks,
           NEW pairs \in Plans(q)
    PROVE  pairs \in Plans(o)
<1>1. pairs \in SUBSET q.eligible /\ IsPlan(q, pairs)
  BY DEF Plans
<1>2. pairs \subseteq Pairs(q)
  BY <1>1 DEF IsRequest, Eligible
<1>3. \A t : ServersOf(pairs, t) \subseteq DOMAIN q.resources
  BY <1>2 DEF ServersOf, Pairs
<1>4. \A p \in pairs : CapacityOf(o, ServersOf(pairs, p[2])) = CapacityOf(q, ServersOf(pairs, p[2]))
  BY <1>3, LocksCostNothing
<1>5. IsPlan(o, pairs)
  BY <1>1, <1>4 DEF IsPlan, SameTown
<1>6. QED
  BY <1>1, <1>5, LocksCostNothing DEF Plans

\* What is stored says so.
LEMMA OverridesCost == PInv /\ RunsInv => OverrideCosts
<1> SUFFICES ASSUME PInv, RunsInv, NEW i \in DOMAIN runs, runs[i].override
             PROVE  /\ runs[i].input.locks \subseteq runs[i].answer.pairs
                    /\ runs[i - 1].answer.status = "OPTIMAL" =>
                          Objective(Request(runs[i].input), runs[i].answer.pairs)
                             >= Objective(Request(runs[i - 1].input), runs[i - 1].answer.pairs)
  BY DEF OverrideCosts
<1>1. PICK S : runs \in Seq(S)
  BY DEF PInv
<1>2. i # 1 /\ Follows(definition, runs[i - 1], runs[i])
  BY DEF RunsInv, RunsFit
<1>3. i - 1 \in DOMAIN runs
  BY <1>1, <1>2
<1>4. PICK run, before : run = runs[i] /\ before = runs[i - 1]
  OBVIOUS
<1>5. RunFits(definition, run) /\ RunFits(definition, before) /\ run.override
  BY <1>3, <1>4 DEF RunsInv, RunsFit
<1>6. PICK q, o : q = RequestIn(definition, run.input) /\ o = RequestIn(definition, before.input)
  OBVIOUS
<1>7. IsRequest(q) /\ IsRequest(o)
  BY <1>5, <1>6, RequestFits
<1>8. PICK r : run.input.locks = ShelterLock(r) /\ <<r, ShelterTask>> \in run.answer.pairs
  BY <1>2, <1>4 DEF Follows
<1>9. run.input.locks \subseteq run.answer.pairs
  BY <1>8 DEF ShelterLock
<1>10. /\ before.input.locks = {}
       /\ before.input.checkpoint = run.input.checkpoint
       /\ before.input.objective = run.input.objective
       /\ before.input.corridor = run.input.corridor
  BY <1>2, <1>4, <1>5 DEF Follows
<1>11. SameTown(q, o) /\ o.locks = {}
  BY <1>6, <1>10, RequestHolds DEF RequestIn, SameTown
<1>12. run.answer.pairs \in Plans(q)
  BY <1>5, <1>6, <1>8, AnswerIs DEF RunFits
<1>13. run.answer.pairs \in Plans(o)
  BY <1>7, <1>11, <1>12, PlanUnderFewer
<1>14. before.answer.status = "OPTIMAL" => before.answer.pairs \in BestPlans(o)
  BY <1>5, <1>6, AnswerIs DEF RunFits
<1>15. before.answer.status = "OPTIMAL" =>
          Objective(o, before.answer.pairs) <= Objective(o, run.answer.pairs)
  BY <1>7, <1>13, <1>14, BestIsLeast
<1>16. run.answer.pairs \in SUBSET Pairs(q)
  BY <1>7, <1>12 DEF Plans, IsRequest, Eligible
<1>17. Objective(q, run.answer.pairs) = Objective(o, run.answer.pairs)
  BY <1>7, <1>11, <1>16, LocksCostNothing
<1>18. before.answer.status = "OPTIMAL" =>
          Objective(q, run.answer.pairs) >= Objective(o, before.answer.pairs)
  <2>1. before.answer.status = "OPTIMAL" => before.answer.pairs \in SUBSET Pairs(o)
    BY <1>7, <1>14 DEF BestPlans, Plans, IsRequest, Eligible
  <2>2. run.answer.pairs \in SUBSET Pairs(o)
    BY <1>7, <1>13 DEF Plans, IsRequest, Eligible
  <2>3. before.answer.status = "OPTIMAL" => Objective(o, before.answer.pairs) \in Nat
    BY <1>7, <2>1, ObjectiveIsNat
  <2>4. Objective(o, run.answer.pairs) \in Nat
    BY <1>7, <2>2, ObjectiveIsNat
  <2>5. QED
    BY <1>15, <1>17, <2>3, <2>4
<1>19. QED
  BY <1>4, <1>6, <1>9, <1>18, SameRequests

\* At the last checkpoint there is always an override to choose; stored, it
\* keeps its lock, and against the best plan it overrides it can only cost
\* (exercise_planning.py: validate_runtime and apply_override).
THEOREM OverridesAreSound == Spec => []OverrideSound
<1>1. PInv /\ RunsInv => OverrideSound
  BY NeverStuck, OverridesCost DEF OverrideSound
<1>2. QED
  BY <1>1, RunsAlways, PTL

-----------------------------------------------------------------------------
(* Explanations.  The changes turn one plan into the next.                 *)

\* A resource that is not reported as moved serves what it served, and one
\* that is, what is reported.
LEMMA MovesReproduce ==
    ASSUME NEW before, NEW after, NEW A, NEW B,
           before.pairs \subseteq A \X B, after.pairs \subseteq A \X B
    PROVE  LET c == Changes(before, after)
               moved == {m.resource : m \in c.moved}
           IN  after.pairs = {p \in before.pairs : p[1] \notin moved}
                    \cup UNION {{m.resource} \X m.now : m \in c.moved}
<1> DEFINE c == Changes(before, after)
           moving == {s \in Compared(before, after) :
                        TaskOf(before.pairs, s) # TaskOf(after.pairs, s)}
           move(r) == [resource |-> r, now |-> TaskOf(after.pairs, r)]
           moved == {m.resource : m \in c.moved}
           stay == {p \in before.pairs : p[1] \notin moved}
           new == UNION {{m.resource} \X m.now : m \in c.moved}
<1>1. c.moved = {move(r) : r \in moving}
  BY DEF Changes
<1>2. moved = moving
  <2>1. moved = {m.resource : m \in {move(r) : r \in moving}}
    BY <1>1
  <2> HIDE DEF moving, c, moved
  <2>2. \A r \in moving : move(r).resource = r
    OBVIOUS
  <2> HIDE DEF move
  <2>3. QED
    BY <2>1, <2>2
<1>3. \A x : x \in new <=> \E r \in moving : x \in {r} \X TaskOf(after.pairs, r)
  <2>1. new = UNION {{m.resource} \X m.now : m \in {move(r) : r \in moving}}
    BY <1>1
  <2> HIDE DEF moving, c
  <2>2. \A r \in moving : move(r).resource = r /\ move(r).now = TaskOf(after.pairs, r)
    OBVIOUS
  <2> HIDE DEF move, new
  <2>3. QED
    BY <2>1, <2>2
<1>4. \A p \in A \X B : p = <<p[1], p[2]>>
  OBVIOUS
<1>5. \A pairs \in SUBSET (A \X B) : \A r, t : t \in TaskOf(pairs, r) <=> <<r, t>> \in pairs
  BY <1>4 DEF TaskOf
<1>6. ASSUME NEW p \in after.pairs PROVE p \in stay \cup new
  <2>1. p = <<p[1], p[2]>> /\ p[2] \in TaskOf(after.pairs, p[1])
    BY <1>4, <1>5
  <2>2. CASE p[1] \in moving
    BY <1>3, <2>1, <2>2
  <2>3. CASE p[1] \notin moving
    <3>1. p[1] \in Compared(before, after)
      BY DEF Compared
    <3>2. TaskOf(before.pairs, p[1]) = TaskOf(after.pairs, p[1])
      BY <2>3, <3>1
    <3>3. p \in before.pairs
      BY <1>5, <2>1, <3>2
    <3>4. QED
      BY <1>2, <2>3, <3>3
  <2>4. QED
    BY <2>2, <2>3
<1>7. ASSUME NEW p \in stay PROVE p \in after.pairs
  <2>1. p \in before.pairs /\ p[1] \notin moving
    BY <1>2
  <2>2. p = <<p[1], p[2]>> /\ p[2] \in TaskOf(before.pairs, p[1])
    BY <1>4, <1>5, <2>1
  <2>3. p[1] \in Compared(before, after)
    BY <2>1 DEF Compared
  <2>4. TaskOf(before.pairs, p[1]) = TaskOf(after.pairs, p[1])
    BY <2>1, <2>3
  <2>5. QED
    BY <1>5, <2>2, <2>4
<1>8. ASSUME NEW p \in new PROVE p \in after.pairs
  <2>1. PICK r \in moving : p \in {r} \X TaskOf(after.pairs, r)
    BY <1>3
  <2>2. p = <<r, p[2]>> /\ p[2] \in TaskOf(after.pairs, r)
    BY <2>1
  <2>3. QED
    BY <1>5, <2>2
<1> HIDE DEF stay, new
<1>9. after.pairs = stay \cup new
  BY <1>6, <1>7, <1>8
<1>10. QED
  BY <1>9 DEF stay, new

\* What an answer sends are pairs of a resource and a task.
LEMMA PairsArePairs ==
    ASSUME PInv, NEW run, RunFits(definition, run)
    PROVE  \E A, B : run.answer.pairs \subseteq A \X B /\ A = DOMAIN definition.resources
<1>1. PICK q : q = RequestIn(definition, run.input)
  OBVIOUS
<1>2. IsRequest(q) /\ run.answer \in Answers(q)
  BY <1>1, RequestFits DEF RunFits
<1>3. run.answer.pairs \subseteq Pairs(q)
  <2>1. CASE run.answer.pairs = {}
    BY <2>1
  <2>2. CASE run.answer.pairs # {}
    BY <1>2, <2>2, AnswerIs DEF Plans, IsRequest, Eligible
  <2>3. QED
    BY <2>1, <2>2
<1>4. q.resources = definition.resources
  BY <1>1, RequestHolds DEF RequestIn, Materialized
<1>5. QED
  BY <1>3, <1>4 DEF Pairs

\* So the changes stored turn the run before into the run.
LEMMA StoredChanges == PInv /\ RunsInv => ChangesReproduce
<1> SUFFICES ASSUME PInv, RunsInv PROVE ChangesReproduce
  OBVIOUS
<1> DEFINE Goal(before, after, c) ==
            LET moved == {m.resource : m \in c.moved} IN
            /\ after.objective \in
                  (IF c.objective = {} THEN {before.objective} ELSE c.objective)
            /\ DOMAIN after.penalty = (DOMAIN before.penalty \ c.removed) \cup c.added
            /\ \A t \in DOMAIN after.penalty \cap DOMAIN before.penalty :
                  after.penalty[t] = before.penalty[t]
                  \/ [task |-> t, now |-> after.penalty[t]] \in c.repriced
            /\ after.closed = (before.closed \ c.reopened) \cup c.closed
            /\ after.pairs = {p \in before.pairs : p[1] \notin moved}
                    \cup UNION {{m.resource} \X m.now : m \in c.moved}
<1>1. ASSUME NEW before, NEW after, NEW A, NEW B,
             before.pairs \subseteq A \X B, after.pairs \subseteq A \X B
      PROVE  Goal(before, after, Changes(before, after))
  <2>1. PICK c : c = Changes(before, after)
    OBVIOUS
  <2>2. after.pairs = {p \in before.pairs : p[1] \notin {m.resource : m \in c.moved}}
                    \cup UNION {{m.resource} \X m.now : m \in c.moved}
    BY <1>1, <2>1, MovesReproduce
  <2>3. /\ c.objective = {after.objective} \ {before.objective}
        /\ c.added = DOMAIN after.penalty \ DOMAIN before.penalty
        /\ c.removed = DOMAIN before.penalty \ DOMAIN after.penalty
        /\ c.closed = after.closed \ before.closed
        /\ c.reopened = before.closed \ after.closed
    BY <2>1 DEF Changes
  <2>4. \A t \in DOMAIN after.penalty \cap DOMAIN before.penalty :
           after.penalty[t] = before.penalty[t]
           \/ [task |-> t, now |-> after.penalty[t]] \in c.repriced
    BY <2>1 DEF Changes
  <2>5. after.objective \in (IF c.objective = {} THEN {before.objective} ELSE c.objective)
    BY <2>3
  <2>6. /\ DOMAIN after.penalty = (DOMAIN before.penalty \ c.removed) \cup c.added
        /\ after.closed = (before.closed \ c.reopened) \cup c.closed
    BY <2>3
  <2>7. QED
    BY <2>1, <2>2, <2>4, <2>5, <2>6
<1>2. ASSUME NEW i \in DOMAIN runs \ {1}
      PROVE  Goal(Seen(runs[i - 1].input, runs[i - 1].answer),
                  Seen(runs[i].input, runs[i].answer), runs[i].changes)
  <2>1. PICK before, after : /\ before = Seen(runs[i - 1].input, runs[i - 1].answer)
                             /\ after = Seen(runs[i].input, runs[i].answer)
    OBVIOUS
  <2>2. PICK S : runs \in Seq(S)
    BY DEF PInv
  <2>3. i - 1 \in DOMAIN runs
    BY <2>2
  <2>4. /\ RunFits(definition, runs[i]) /\ RunFits(definition, runs[i - 1])
        /\ Follows(definition, runs[i - 1], runs[i])
    BY <2>3 DEF RunsInv, RunsFit
  <2>5. runs[i].changes = Changes(before, after)
    BY <2>1, <2>4, SameRequests DEF Follows
  <2>6. before.pairs = runs[i - 1].answer.pairs /\ after.pairs = runs[i].answer.pairs
    BY <2>1 DEF Seen
  <2>7. PICK R, T, U : before.pairs \subseteq R \X T /\ after.pairs \subseteq R \X U
    BY <2>4, <2>6, PairsArePairs
  <2>8. before.pairs \subseteq R \X (T \cup U) /\ after.pairs \subseteq R \X (T \cup U)
    BY <2>7
  <2> HIDE DEF Goal
  <2>9. Goal(before, after, Changes(before, after))
    BY <1>1, <2>8
  <2>10. QED
    BY <2>1, <2>5, <2>9
<1>3. QED
  BY <1>2 DEF ChangesReproduce

-----------------------------------------------------------------------------
(* What was answered last.                                                 *)

\* The controls of the sandbox make a checkpoint of their own.
LEMMA SandboxTownIs ==
    ASSUME NEW d \in Definitions, ValidRuntime(d), NEW k \in Controls, AllowedIn(d, k)
    PROVE  IsTown(SandboxTown(d, k)) /\ DOMAIN SandboxTown(d, k).resources # {}
<1>1. PICK m : m = Materialized(d, k.checkpoint, k.objective, FALSE)
  OBVIOUS
<1>2. PICK n : n = SandboxTown(d, k)
  OBVIOUS
<1> DEFINE factor(t) == Multipliers[IF t \in DOMAIN k.presets THEN k.presets[t] ELSE "standard"]
           unit(r) == [m.resources[r] EXCEPT !.available = @ /\ r \notin k.unavailable]
           task(t) == [m.tasks[t] EXCEPT !.penalty = @ * factor(t)]
<1>3. IsDefinition(d) /\ k.checkpoint \in 0 .. FinalCheckpoint /\ k.objective \in Objectives
  BY PlanningAssumption DEF AllowedIn, IsDefinition
<1>4. IsTown(m) /\ m.resources = d.resources /\ DOMAIN d.resources # {}
  <2>1. PICK c, o, no : c = k.checkpoint /\ o = k.objective /\ no = FALSE
    OBVIOUS
  <2>2. m = Materialized(d, c, o, no) /\ c \in 0 .. FinalCheckpoint /\ o \in Objectives
    BY <1>1, <1>3, <2>1
  <2>3. QED
    BY <2>2, MaterializedIs
<1>5. /\ n.objective = m.objective /\ n.closed = k.closed
      /\ n.resources = [r \in DOMAIN m.resources |-> unit(r)]
      /\ n.tasks = [t \in DOMAIN m.tasks |-> task(t)]
  BY <1>1, <1>2 DEF SandboxTown, Materialized
<1>6. ASSUME NEW r \in DOMAIN m.resources
      PROVE  /\ unit(r).capacity = m.resources[r].capacity
             /\ unit(r).at = m.resources[r].at
             /\ unit(r).available \in BOOLEAN
  <2>1. DOMAIN m.resources[r] = {"skills", "capacity", "available", "at", "bus"}
    BY <1>3, <1>4 DEF IsDefinition
  <2>2. QED
    BY <2>1
<1>7. ASSUME NEW t \in DOMAIN m.tasks
      PROVE  /\ task(t).need = m.tasks[t].need /\ task(t).at = m.tasks[t].at
             /\ task(t).penalty \in Nat
  <2>1. m.tasks[t] = Demand(d.checkpoints[k.checkpoint].tasks[t], Weights[k.objective])
    BY <1>1 DEF Materialized
  <2>2. m.tasks[t].penalty \in Nat
    BY <1>4 DEF IsTown
  <2>3. factor(t) \in Nat
    <3>1. (IF t \in DOMAIN k.presets THEN k.presets[t] ELSE "standard") \in DOMAIN Multipliers
      BY PlanningAssumption DEF AllowedIn
    <3>2. factor(t) \in Range(Multipliers)
      BY <3>1 DEF Range
    <3>3. QED
      BY <3>2, PlanningAssumption
  <2>4. DOMAIN m.tasks[t] = {"skill", "need", "deadline", "at", "penalty"}
    BY <2>1 DEF Demand
  <2> HIDE DEF factor
  <2>5. /\ task(t).need = m.tasks[t].need /\ task(t).at = m.tasks[t].at
        /\ task(t).penalty = m.tasks[t].penalty * factor(t)
    BY <2>4
  <2>6. PICK a, b \in Nat : a = m.tasks[t].penalty /\ b = factor(t)
    BY <2>2, <2>3
  <2>7. a * b \in Nat
    OBVIOUS
  <2>8. QED
    BY <2>5, <2>6, <2>7
<1>8. n.closed \in SUBSET Edges
  BY <1>5 DEF AllowedIn, ValidRuntime
<1> HIDE DEF unit, task
<1>9. DOMAIN n.resources = DOMAIN m.resources /\ DOMAIN n.tasks = DOMAIN m.tasks
  BY <1>5
<1>10. \A r \in DOMAIN n.resources :
          /\ n.resources[r].capacity \in Nat \ {0}
          /\ n.resources[r].available \in BOOLEAN /\ n.resources[r].at \in Int
  BY <1>4, <1>5, <1>6 DEF IsTown
<1>11. \A t \in DOMAIN n.tasks :
          /\ n.tasks[t].need \in Nat \ {0} /\ n.tasks[t].penalty \in Nat
          /\ n.tasks[t].at \in Int
  BY <1>4, <1>5, <1>7 DEF IsTown
<1>12. IsTown(n)
  BY <1>4, <1>5, <1>8, <1>9, <1>10, <1>11 DEF IsTown
<1>13. QED
  BY <1>2, <1>4, <1>9, <1>12

\* What an answer answers is the request of a checkpoint with some resources,
\* which the solver accepted.
IsAnswered(a) ==
    /\ \E m, locks : a.q = RequestOf(m, locks)
    /\ IsRequest(a.q) /\ DOMAIN a.q.resources # {}
    /\ Accepted(a.q)
    /\ a.answer \in Answers(a.q)

\* A run, or a sandbox response, is such an answer.
LEMMA AnsweredAre == PInv /\ RunsInv => \A a \in Answered : IsAnswered(a)
<1> SUFFICES ASSUME PInv, RunsInv, NEW a \in Answered PROVE IsAnswered(a)
  OBVIOUS
<1>1. definition \in Definitions /\ ValidRuntime(definition)
  BY DEF PInv
<1>2. CASE preview # NoPreview
  <2>1. /\ a = [q |-> SandboxRequest(preview.controls), answer |-> preview.answer]
        /\ Previewed /\ preview.answer.status # "refused"
    BY <1>2 DEF Answered
  <2>2. PICK k : k = preview.controls
    OBVIOUS
  <2>3. a.q = RequestOf(SandboxTown(definition, k), k.locks) /\ a.answer = preview.answer
    BY <2>1, <2>2, SameRequests DEF SandboxIn
  <2>4. /\ k \in Controls /\ AllowedIn(definition, k)
        /\ Accepted(SandboxIn(definition, k))
        /\ preview.answer \in Answers(SandboxIn(definition, k))
    BY <1>2, <2>1, <2>2 DEF RunsInv, PreviewFits
  <2>5. IsTown(SandboxTown(definition, k)) /\ DOMAIN SandboxTown(definition, k).resources # {}
    BY <1>1, <2>4, SandboxTownIs
  <2>6. IsRequest(a.q) /\ DOMAIN a.q.resources # {}
    BY <2>3, <2>5, RequestIs, RequestHolds
  <2>7. QED
    BY <2>3, <2>4, <2>6 DEF IsAnswered, SandboxIn
<1>3. CASE preview = NoPreview
  <2>1. PICK i \in DOMAIN runs : a = [q |-> Request(runs[i].input), answer |-> runs[i].answer]
    BY <1>3 DEF Answered
  <2>2. a.q = RequestIn(definition, runs[i].input) /\ a.answer = runs[i].answer
    BY <2>1, SameRequests
  <2>3. RunFits(definition, runs[i])
    BY DEF RunsInv, RunsFit
  <2>4. IsRequest(a.q) /\ DOMAIN a.q.resources # {}
    BY <2>2, <2>3, RequestFits
  <2>5. QED
    BY <2>2, <2>3, <2>4 DEF IsAnswered, RunFits, RequestIn
<1>4. QED
  BY <1>2, <1>3

\* Values.

\* What is sent is eligible.
LEMMA SentIsEligible ==
    ASSUME NEW q, IsRequest(q), NEW answer \in Answers(q)
    PROVE  answer.pairs \subseteq q.eligible /\ q.eligible \subseteq Pairs(q)
<1>1. answer.pairs # {} => answer.pairs \in Plans(q)
  BY AnswerIs
<1>2. QED
  BY <1>1 DEF Plans, IsRequest, Eligible

\* No pairs at all cost more than all who may go and all tasks uncovered.
LEMMA ObjectiveFits ==
    ASSUME NEW q, IsRequest(q), InRange(q), NEW pairs, pairs \subseteq q.eligible
    PROVE  Objective(q, pairs) <= IntMax
<1>1. q.eligible \subseteq Pairs(q) /\ pairs \subseteq Pairs(q)
  BY DEF IsRequest, Eligible
<1>2. PICK rest, all : rest = DOMAIN q.tasks \ Covered(pairs) /\ all = DOMAIN q.tasks
  OBVIOUS
<1>3. CostOf(q, pairs) <= CostOf(q, q.eligible)
  BY <1>1, CostIs, SumOfPart
<1>4. PenaltyOf(q, rest) <= PenaltyOf(q, all)
  <2>1. rest \subseteq all /\ rest \subseteq DOMAIN q.tasks /\ all \subseteq DOMAIN q.tasks
    BY <1>2
  <2>2. QED
    BY <2>1, PenaltyIs, SumOfPart
<1>5. CostOf(q, pairs) \in Nat /\ CostOf(q, q.eligible) \in Nat
  BY <1>1, CostIs, SumStep
<1>6. PenaltyOf(q, rest) \in Nat /\ PenaltyOf(q, all) \in Nat
  <2>1. rest \subseteq DOMAIN q.tasks /\ all \subseteq DOMAIN q.tasks
    BY <1>2
  <2>2. QED
    BY <2>1, PenaltyIs, SumStep
<1>7. CostOf(q, q.eligible) + PenaltyOf(q, all) <= IntMax
  BY <1>2 DEF InRange
<1>8. Objective(q, pairs) = CostOf(q, pairs) + PenaltyOf(q, rest)
  BY <1>2 DEF Objective
<1>9. QED
  BY <1>3, <1>4, <1>5, <1>6, <1>7, <1>8, IntMaxAssumption

\* So what is reported fits the solver's integers.
LEMMA ReportedFits == PInv /\ RunsInv => ValuesFit
<1> SUFFICES ASSUME PInv, RunsInv, NEW a \in Answered
             PROVE  /\ Objective(a.q, a.answer.pairs) <= IntMax
                    /\ Objective(a.q, {}) <= IntMax
                    /\ CostOf(a.q, a.q.eligible) <= IntMax
  BY DEF ValuesFit
<1>1. IsAnswered(a)
  BY AnsweredAre
<1>2. PICK q, answer : q = a.q /\ answer = a.answer
  OBVIOUS
<1>3. IsRequest(q) /\ InRange(q) /\ answer \in Answers(q)
  BY <1>1, <1>2 DEF IsAnswered, Accepted
<1>4. answer.pairs \subseteq q.eligible /\ q.eligible \subseteq Pairs(q)
  BY <1>3, SentIsEligible
<1>5. Objective(q, answer.pairs) <= IntMax /\ Objective(q, {}) <= IntMax
  BY <1>3, <1>4, ObjectiveFits
<1>6. CostOf(q, q.eligible) <= IntMax
  <2>1. CostOf(q, q.eligible) \in Nat
    BY <1>3, <1>4, CostIs, SumStep
  <2>2. PenaltyOf(q, DOMAIN q.tasks) \in Nat
    BY <1>3, PenaltyIs, SumStep
  <2>3. QED
    BY <1>3, <2>1, <2>2, IntMaxAssumption DEF InRange
<1>7. QED
  BY <1>2, <1>5, <1>6

-----------------------------------------------------------------------------
(* Reasons: the first test that holds.                                     *)

\* The reasons in the order they are looked for.
ReasonGiven(q, answer, t) ==
    IF ~Solved(answer) THEN "solver-status"
    ELSE IF Compatible(q, t) = {} THEN "compatibility"
    ELSE IF AvailableFor(q, t) = {} THEN "availability"
    ELSE IF ReachableFor(q, t) = {} THEN "route"
    ELSE IF ServersOf(q.eligible, t) = {} THEN "deadline"
    ELSE IF CapacityOf(q, ServersOf(q.eligible, t)) < q.tasks[t].need THEN "capacity"
    ELSE IF TooFewIdle(q, answer, t) THEN "contention"
    ELSE IF answer.status = "FEASIBLE" THEN "feasible-incumbent"
    ELSE "objective-tradeoff"

\* It is the first of them, as the list of tests says.
LEMMA ReasonIs ==
    ASSUME NEW q, NEW answer, NEW t
    PROVE  Reason(q, answer, t) = ReasonGiven(q, answer, t)
<1> DEFINE b1 == ~Solved(answer)
           b2 == Compatible(q, t) = {}
           b3 == AvailableFor(q, t) = {}
           b4 == ReachableFor(q, t) = {}
           b5 == ServersOf(q.eligible, t) = {}
           b6 == CapacityOf(q, ServersOf(q.eligible, t)) < q.tasks[t].need
           b7 == TooFewIdle(q, answer, t)
           b8 == answer.status = "FEASIBLE"
           tests == << <<"solver-status", b1>>, <<"compatibility", b2>>, <<"availability", b3>>,
                       <<"route", b4>>, <<"deadline", b5>>, <<"capacity", b6>>,
                       <<"contention", b7>>, <<"feasible-incumbent", b8>>,
                       <<"objective-tradeoff", TRUE>> >>
           S == {i \in DOMAIN tests : tests[i][2]}
<1>1. Reason(q, answer, t) = tests[Min(S)][1]
  BY DEF Reason
<1>2. ReasonGiven(q, answer, t) =
         IF b1 THEN "solver-status" ELSE IF b2 THEN "compatibility"
         ELSE IF b3 THEN "availability" ELSE IF b4 THEN "route"
         ELSE IF b5 THEN "deadline" ELSE IF b6 THEN "capacity"
         ELSE IF b7 THEN "contention" ELSE IF b8 THEN "feasible-incumbent"
         ELSE "objective-tradeoff"
  BY DEF ReasonGiven
<1> HIDE DEF b1, b2, b3, b4, b5, b6, b7, b8
<1>3. DOMAIN tests = 1 .. 9
  OBVIOUS
<1>4. /\ tests[1][2] = b1 /\ tests[2][2] = b2 /\ tests[3][2] = b3 /\ tests[4][2] = b4
      /\ tests[5][2] = b5 /\ tests[6][2] = b6 /\ tests[7][2] = b7 /\ tests[8][2] = b8
      /\ tests[9][2] = TRUE
  OBVIOUS
<1>5. /\ 9 \in S /\ (1 \in S <=> b1) /\ (2 \in S <=> b2) /\ (3 \in S <=> b3) /\ (4 \in S <=> b4)
      /\ (5 \in S <=> b5) /\ (6 \in S <=> b6) /\ (7 \in S <=> b7) /\ (8 \in S <=> b8)
  <2> HIDE DEF tests
  <2>1. QED
    BY <1>3, <1>4
<1>6. /\ tests[1][1] = "solver-status" /\ tests[2][1] = "compatibility"
      /\ tests[3][1] = "availability" /\ tests[4][1] = "route" /\ tests[5][1] = "deadline"
      /\ tests[6][1] = "capacity" /\ tests[7][1] = "contention"
      /\ tests[8][1] = "feasible-incumbent" /\ tests[9][1] = "objective-tradeoff"
  OBVIOUS
<1>7. S \subseteq 1 .. 9
  BY <1>3
<1> HIDE DEF tests, S
<1>8. Min(S) \in S /\ \A i \in S : Min(S) <= i
  <2>1. S \subseteq Nat /\ S # {}
    BY <1>5, <1>7
  <2>2. QED
    BY <2>1, MinIs
<1>9. PICK n \in 1 .. 9 : n = Min(S) /\ n \in S /\ \A i \in S : n <= i
  BY <1>7, <1>8
<1>10. tests[n][1] =
         IF b1 THEN "solver-status" ELSE IF b2 THEN "compatibility"
         ELSE IF b3 THEN "availability" ELSE IF b4 THEN "route"
         ELSE IF b5 THEN "deadline" ELSE IF b6 THEN "capacity"
         ELSE IF b7 THEN "contention" ELSE IF b8 THEN "feasible-incumbent"
         ELSE "objective-tradeoff"
  BY <1>5, <1>6, <1>9
<1>11. QED
  BY <1>1, <1>2, <1>9, <1>10

\* Who is eligible for a task passed every test of it.
LEMMA ServersAre ==
    ASSUME NEW q, IsRequest(q), NEW t \in DOMAIN q.tasks
    PROVE  /\ ServersOf(q.eligible, t) \subseteq DOMAIN q.resources
           /\ \A r \in DOMAIN q.resources :
                 r \in ServersOf(q.eligible, t) <=> <<r, t>> \in q.eligible
           /\ \A r \in ServersOf(q.eligible, t) :
                 r \in Compatible(q, t) /\ r \in AvailableFor(q, t) /\ r \in ReachableFor(q, t)
<1>1. \A r \in DOMAIN q.resources :
         <<r, t>> \in q.eligible =>
            /\ q.resources[r].available
            /\ q.tasks[t].skill \in q.resources[r].skills
            /\ q.routes[<<r, t>>].reachable
  BY DEF IsRequest, Eligible, Pairs
<1>2. \A p \in q.eligible : p = <<p[1], p[2]>> /\ p[1] \in DOMAIN q.resources
  BY DEF IsRequest, Eligible, Pairs
<1>3. \A r : r \in ServersOf(q.eligible, t) <=> <<r, t>> \in q.eligible
  BY <1>2 DEF ServersOf
<1>4. \A r : <<r, t>> \in q.eligible => r \in DOMAIN q.resources
  BY <1>2
<1>5. QED
  BY <1>1, <1>3, <1>4 DEF Compatible, AvailableFor, ReachableFor

\* Who a plan sends to a task may go there.
LEMMA SentAreServers ==
    ASSUME NEW q, IsRequest(q), NEW pairs, pairs \subseteq q.eligible, NEW t
    PROVE  /\ ServersOf(pairs, t) \subseteq ServersOf(q.eligible, t)
           /\ \A r : r \in ServersOf(pairs, t) <=> <<r, t>> \in pairs
           /\ ServersOf(pairs, t) \subseteq DOMAIN q.resources
<1>1. \A p \in q.eligible : p = <<p[1], p[2]>> /\ p[1] \in DOMAIN q.resources
  BY DEF IsRequest, Eligible, Pairs
<1>2. QED
  BY <1>1 DEF ServersOf

\* Capacities are naturals, and more resources have no less.
LEMMA CapacityGrows ==
    ASSUME NEW q, IsRequest(q), NEW B, B \subseteq DOMAIN q.resources, NEW A, A \subseteq B
    PROVE  CapacityOf(q, A) \in Nat /\ CapacityOf(q, B) \in Nat
           /\ CapacityOf(q, A) <= CapacityOf(q, B)
<1>1. A \subseteq DOMAIN q.resources
  OBVIOUS
<1>2. CapacityOf(q, A) = SumOf(CapacityIn(q), A) /\ Weighs(CapacityIn(q), A)
  BY <1>1, CapacityIs
<1>3. CapacityOf(q, B) = SumOf(CapacityIn(q), B) /\ Weighs(CapacityIn(q), B)
  BY CapacityIs
<1>4. QED
  BY <1>2, <1>3, SumStep, SumOfPart

\* A task has a plan that covers it, without locks, when those eligible suffice.
LEMMA CoverableIs ==
    ASSUME NEW q, IsRequest(q), q.locks = {}, NEW t \in DOMAIN q.tasks
    PROVE  (\A pairs \in Plans(q) : t \notin Covered(pairs))
             <=> \/ ServersOf(q.eligible, t) = {}
                 \/ CapacityOf(q, ServersOf(q.eligible, t)) < q.tasks[t].need
<1> DEFINE E == ServersOf(q.eligible, t)
           all == E \X {t}
           need == q.tasks[t].need
<1>1. need \in Nat /\ E \subseteq DOMAIN q.resources /\ CapacityOf(q, E) \in Nat
  BY ServersAre, CapacityGrows DEF IsRequest
<1>2. ASSUME NEW pairs \in Plans(q), t \in Covered(pairs)
      PROVE  E # {} /\ ~(CapacityOf(q, E) < need)
  <2>1. pairs \subseteq q.eligible /\ IsPlan(q, pairs)
    BY DEF Plans
  <2>2. PICK p \in pairs : p[2] = t
    BY <1>2 DEF Covered
  <2>3. PICK S : S = ServersOf(pairs, t)
    OBVIOUS
  <2>4. S \subseteq E /\ p[1] \in S
    BY <2>1, <2>2, <2>3, SentAreServers DEF ServersOf
  <2>5. CapacityOf(q, S) >= need
    BY <2>1, <2>2, <2>3 DEF IsPlan
  <2>6. CapacityOf(q, S) \in Nat /\ CapacityOf(q, S) <= CapacityOf(q, E)
    BY <1>1, <2>4, CapacityGrows
  <2> HIDE DEF E, need
  <2>7. QED
    BY <1>1, <2>4, <2>5, <2>6
<1>3. ASSUME E # {}, ~(CapacityOf(q, E) < need)
      PROVE  all \in Plans(q) /\ t \in Covered(all)
  <2>1. all \subseteq q.eligible
    BY ServersAre
  <2>2. \A r \in E : <<r, t>> \in all /\ <<r, t>>[1] = r /\ <<r, t>>[2] = t
    OBVIOUS
  <2>3. \A p \in all : p[1] \in E /\ p[2] = t
    OBVIOUS
  <2>4. ServersOf(all, t) = E /\ t \in Covered(all)
    <3> HIDE DEF E, all
    <3>1. QED
      BY <1>3, <2>2, <2>3 DEF ServersOf, Covered
  <2> HIDE DEF E, all
  <2>5. CapacityOf(q, E) >= need
    BY <1>1, <1>3
  <2>6. IsPlan(q, all)
    <3>1. \A p, o \in all : p[1] = o[1] => p = o
      BY DEF all
    <3>2. QED
      BY <2>3, <2>4, <2>5, <3>1 DEF IsPlan, need
  <2>7. QED
    BY <2>1, <2>4, <2>6 DEF Plans
<1> HIDE DEF E, all, need
<1>4. QED
  BY <1>2, <1>3 DEF E, need

\* Without its locks a request has the same resources, tasks and eligible pairs.
LEMMA Unlocked ==
    ASSUME NEW q, \E m, locks : q = RequestOf(m, locks), IsRequest(q)
    PROVE  /\ IsRequest([q EXCEPT !.locks = {}])
           /\ [q EXCEPT !.locks = {}].locks = {}
           /\ SameTown(q, [q EXCEPT !.locks = {}])
           /\ [q EXCEPT !.locks = {}].eligible = q.eligible
<1>1. PICK o : o = [q EXCEPT !.locks = {}]
  OBVIOUS
<1>2. DOMAIN q = {"resources", "tasks", "locks", "weight", "routes", "eligible"}
  BY DEF RequestOf, Prepared
<1>3. /\ o.resources = q.resources /\ o.tasks = q.tasks /\ o.routes = q.routes
      /\ o.weight = q.weight /\ o.eligible = q.eligible /\ o.locks = {}
  BY <1>1, <1>2
<1>4. IsRequest(o)
  BY <1>3 DEF IsRequest, Eligible, Pairs
<1>5. QED
  BY <1>1, <1>3, <1>4 DEF SameTown

\* So a lack is given as the reason exactly when no plan could cover the task.
LEMMA LacksAreReal == PInv /\ RunsInv => ReasonsSound
<1> SUFFICES ASSUME PInv, RunsInv, NEW a \in Answered, NEW t \in Uncovered(a.q, a.answer),
                    Solved(a.answer)
             PROVE  Reason(a.q, a.answer, t)
                      \in {"compatibility", "availability", "route", "deadline", "capacity"}
                    <=> \A pairs \in Plans([a.q EXCEPT !.locks = {}]) : t \notin Covered(pairs)
  BY DEF ReasonsSound
<1>1. PICK q, answer : q = a.q /\ answer = a.answer
  OBVIOUS
<1>2. IsRequest(q) /\ \E m, locks : q = RequestOf(m, locks)
  BY <1>1, AnsweredAre DEF IsAnswered
<1>3. PICK o : o = [q EXCEPT !.locks = {}]
  OBVIOUS
<1>4. IsRequest(o) /\ o.locks = {} /\ SameTown(q, o) /\ o.eligible = q.eligible
  BY <1>2, <1>3, Unlocked
<1>5. t \in DOMAIN q.tasks /\ t \in DOMAIN o.tasks /\ o.tasks[t].need = q.tasks[t].need
  BY <1>1, <1>4 DEF Uncovered, SameTown
<1>6. PICK E : E = ServersOf(q.eligible, t)
  OBVIOUS
<1>7. CapacityOf(o, E) = CapacityOf(q, E)
  BY <1>2, <1>4, <1>5, <1>6, ServersAre, LocksCostNothing
<1>8. (\A pairs \in Plans(o) : t \notin Covered(pairs))
         <=> E = {} \/ CapacityOf(q, E) < q.tasks[t].need
  BY <1>4, <1>5, <1>6, <1>7, CoverableIs
<1>9. \/ Compatible(q, t) = {} \/ AvailableFor(q, t) = {} \/ ReachableFor(q, t) = {} => E = {}
  BY <1>2, <1>5, <1>6, ServersAre
<1>10. Solved(answer)
  BY <1>1
<1>11. Reason(q, answer, t) = ReasonGiven(q, answer, t)
  BY ReasonIs
<1>12. ReasonGiven(q, answer, t)
         \in {"compatibility", "availability", "route", "deadline", "capacity"}
       <=> E = {} \/ CapacityOf(q, E) < q.tasks[t].need
  BY <1>6, <1>9, <1>10 DEF ReasonGiven
<1>13. QED
  BY <1>1, <1>3, <1>8, <1>11, <1>12

-----------------------------------------------------------------------------
(* Evidence: the reason and the binding constraints tell one story.        *)

\* Why a resource is not eligible for a task.
LEMMA IneligibilityIs ==
    ASSUME NEW q, IsRequest(q), NEW t \in DOMAIN q.tasks, NEW r \in DOMAIN q.resources
    PROVE  Ineligibility(q, <<r, t>>) =
             IF ~q.resources[r].available THEN "availability"
             ELSE IF r \notin Compatible(q, t) THEN "compatibility"
             ELSE IF ~q.routes[<<r, t>>].reachable THEN "route"
             ELSE IF r \in ServersOf(q.eligible, t) THEN "none"
             ELSE "deadline"
<1>1. PICK p : p = <<r, t>>
  OBVIOUS
<1>2. p[1] = r /\ p[2] = t
  BY <1>1
<1> DEFINE a == q.resources[r].available
           c == q.tasks[t].skill \in q.resources[r].skills
           b == q.routes[p].reachable
           e == p \in q.eligible
<1>3. e => a /\ c /\ b
  BY <1>1, ServersAre DEF IsRequest, Eligible
<1>4. Ineligibility(q, p) =
         CASE ~a -> "availability" [] a /\ ~c -> "compatibility" [] a /\ c /\ ~b -> "route"
           [] e -> "none" [] OTHER -> "deadline"
  BY <1>2 DEF Ineligibility
<1>5. (r \in Compatible(q, t) <=> c) /\ (r \in ServersOf(q.eligible, t) <=> e)
  BY <1>1, ServersAre DEF Compatible
<1> HIDE DEF a, b, c, e
<1>6. Ineligibility(q, p) = IF ~a THEN "availability" ELSE IF ~c THEN "compatibility"
                            ELSE IF ~b THEN "route" ELSE IF e THEN "none" ELSE "deadline"
  <2>1. CASE ~a
    BY <1>3, <1>4, <2>1
  <2>2. CASE a /\ ~c
    BY <1>3, <1>4, <2>2
  <2>3. CASE a /\ c /\ ~b
    BY <1>3, <1>4, <2>3
  <2>4. CASE a /\ c /\ b /\ e
    BY <1>4, <2>4
  <2>5. CASE a /\ c /\ b /\ ~e
    BY <1>4, <2>5
  <2>6. QED
    BY <2>1, <2>2, <2>3, <2>4, <2>5
<1>7. QED
  BY <1>1, <1>5, <1>6 DEF a, b

\* What binds an uncovered task of a plan that was solved.
LEMMA BindingIs ==
    ASSUME NEW q, NEW answer, Solved(answer), NEW t
    PROVE  /\ \A r \in DOMAIN q.resources :
                 Ineligibility(q, <<r, t>>) # "none"
                   => Ineligibility(q, <<r, t>>) \in Bindings(q, answer, t)
           /\ CapacityOf(q, ServersOf(q.eligible, t)) < q.tasks[t].need
                 => "capacity" \in Bindings(q, answer, t)
           /\ ServersElsewhere(q, answer, t) # {} => "contention" \in Bindings(q, answer, t)
  BY DEF Bindings

\* Whoever is assigned, but not to an uncovered task, is assigned elsewhere.
LEMMA AssignedElsewhere ==
    ASSUME NEW q, NEW answer, NEW t \in Uncovered(q, answer)
    PROVE  ServersElsewhere(q, answer, t) = ServersOf(q.eligible, t) \cap AssignedIn(answer)
<1>1. \A p \in answer.pairs : p[2] # t
  BY DEF Uncovered, Covered
<1>2. QED
  BY <1>1 DEF ServersElsewhere, AssignedIn

\* So the two agree.
LEMMA EvidenceIsOne == PInv /\ RunsInv => EvidenceAgrees
<1> SUFFICES ASSUME PInv, RunsInv, NEW a \in Answered, NEW t \in Uncovered(a.q, a.answer),
                    Solved(a.answer)
             PROVE  LET reason == Reason(a.q, a.answer, t)
                        bindings == Bindings(a.q, a.answer, t)
                        blamed == Blamed(a.q, a.answer, t)
                    IN  /\ reason = "contention" =>
                              blamed # {} /\ blamed \subseteq ServersElsewhere(a.q, a.answer, t)
                        /\ reason \in {"availability", "route", "deadline", "capacity",
                                       "contention"} => reason \in bindings
                        /\ bindings = {} =>
                              reason \in {"feasible-incumbent", "objective-tradeoff"}
  BY DEF EvidenceAgrees
<1>1. PICK q, answer : q = a.q /\ answer = a.answer
  OBVIOUS
<1>2. IsRequest(q) /\ DOMAIN q.resources # {}
  BY <1>1, AnsweredAre DEF IsAnswered
<1>3. Solved(answer) /\ t \in Uncovered(q, answer) /\ t \in DOMAIN q.tasks
  BY <1>1 DEF Uncovered
<1>4. PICK E, else : E = ServersOf(q.eligible, t) /\ else = ServersElsewhere(q, answer, t)
  OBVIOUS
<1>5. else = E \cap AssignedIn(answer)
  BY <1>3, <1>4, AssignedElsewhere
<1>6. PICK reason, bindings, blamed :
         /\ reason = Reason(q, answer, t)
         /\ bindings = Bindings(q, answer, t)
         /\ blamed = Blamed(q, answer, t)
  OBVIOUS
<1>7. reason = ReasonGiven(q, answer, t)
  BY <1>6, ReasonIs
<1>8. reason = "contention" =>
         TooFewIdle(q, answer, t) /\ ~(CapacityOf(q, E) < q.tasks[t].need)
  BY <1>3, <1>4, <1>7 DEF ReasonGiven
<1>9. reason = "contention" => else # {}
  <2> SUFFICES ASSUME reason = "contention", else = {} PROVE FALSE
    OBVIOUS
  <2>1. IdleFor(q, answer, t) = E
    BY <1>4, <1>5 DEF IdleFor
  <2>2. QED
    BY <1>8, <2>1 DEF TooFewIdle
<1>10. reason = "contention" => blamed # {} /\ blamed \subseteq else
  BY <1>4, <1>5, <1>6, <1>9 DEF Blamed
<1>11. reason \in {"availability", "route", "deadline", "capacity", "contention"}
         => reason \in bindings
  <2>1. CASE reason = "availability"
    <3>1. Compatible(q, t) # {} /\ AvailableFor(q, t) = {}
      BY <1>3, <1>7, <2>1 DEF ReasonGiven
    <3>2. PICK r \in DOMAIN q.resources : ~q.resources[r].available
      BY <3>1 DEF AvailableFor, Compatible
    <3>3. Ineligibility(q, <<r, t>>) = "availability"
      BY <1>2, <1>3, <3>2, IneligibilityIs
    <3>4. QED
      BY <1>3, <1>6, <2>1, <3>3, BindingIs
  <2>2. CASE reason = "route"
    <3>1. AvailableFor(q, t) # {} /\ ReachableFor(q, t) = {}
      BY <1>3, <1>7, <2>2 DEF ReasonGiven
    <3>2. PICK r \in DOMAIN q.resources : /\ q.resources[r].available /\ r \in Compatible(q, t)
                                          /\ ~q.routes[<<r, t>>].reachable
      BY <3>1 DEF AvailableFor, ReachableFor, Compatible
    <3>3. Ineligibility(q, <<r, t>>) = "route"
      BY <1>2, <1>3, <3>2, IneligibilityIs
    <3>4. QED
      BY <1>3, <1>6, <2>2, <3>3, BindingIs
  <2>3. CASE reason = "deadline"
    <3>1. ReachableFor(q, t) # {} /\ E = {}
      BY <1>3, <1>4, <1>7, <2>3 DEF ReasonGiven
    <3>2. PICK r \in DOMAIN q.resources : /\ q.resources[r].available /\ r \in Compatible(q, t)
                                          /\ q.routes[<<r, t>>].reachable
      BY <3>1 DEF AvailableFor, ReachableFor, Compatible
    <3>3. Ineligibility(q, <<r, t>>) = "deadline"
      BY <1>2, <1>3, <1>4, <3>1, <3>2, IneligibilityIs
    <3>4. QED
      BY <1>3, <1>6, <2>3, <3>3, BindingIs
  <2>4. CASE reason = "capacity"
    <3>1. CapacityOf(q, E) < q.tasks[t].need
      BY <1>3, <1>4, <1>7, <2>4 DEF ReasonGiven
    <3>2. QED
      BY <1>3, <1>4, <1>6, <2>4, <3>1, BindingIs
  <2>5. CASE reason = "contention"
    BY <1>3, <1>4, <1>6, <1>9, <2>5, BindingIs
  <2>6. QED
    BY <2>1, <2>2, <2>3, <2>4, <2>5
<1>12. bindings = {} => reason \in {"feasible-incumbent", "objective-tradeoff"}
  <2> SUFFICES ASSUME bindings = {}
               PROVE  reason \in {"feasible-incumbent", "objective-tradeoff"}
    OBVIOUS
  <2>1. PICK r \in DOMAIN q.resources : TRUE
    BY <1>2
  <2>2. Ineligibility(q, <<r, t>>) = "none"
    BY <1>3, <1>6, BindingIs
  <2>3. r \in E
    BY <1>2, <1>3, <1>4, <2>2, IneligibilityIs
  <2>4. Compatible(q, t) # {} /\ AvailableFor(q, t) # {} /\ ReachableFor(q, t) # {}
    BY <1>2, <1>3, <1>4, <2>3, ServersAre
  <2>5. ~(CapacityOf(q, E) < q.tasks[t].need) /\ else = {}
    BY <1>3, <1>4, <1>6, BindingIs
  <2>6. ~TooFewIdle(q, answer, t)
    <3>1. IdleFor(q, answer, t) = E
      BY <1>4, <1>5, <2>5 DEF IdleFor
    <3>2. QED
      BY <2>5, <3>1 DEF TooFewIdle
  <2>7. QED
    BY <1>3, <1>4, <1>7, <2>3, <2>4, <2>5, <2>6 DEF ReasonGiven
<1>13. QED
  BY <1>1, <1>4, <1>6, <1>10, <1>11, <1>12

-----------------------------------------------------------------------------
(* The cheapest cover: the table kept resource by resource holds, for each  *)
(* capacity supplied, the least cost of a set of them that supplies it.     *)

CostTables(need) == [0 .. need -> Nat \cup {-1}]

CoverCost(q, t, some) == CostOf(q, some \X {t})

Supplied(q, t, some) == SuppliedUpTo(q.tasks[t].need, CapacityOf(q, some))

\* The smaller of two.
LEMMA UpTo ==
    ASSUME NEW need \in Nat, NEW sum \in Nat
    PROVE  SuppliedUpTo(need, sum) = IF need <= sum THEN need ELSE sum
<1>1. Min({need, sum}) \in {need, sum} /\ \A x \in {need, sum} : Min({need, sum}) <= x
  <2>1. PICK S : S = {need, sum}
    OBVIOUS
  <2>2. S \subseteq Nat /\ S # {}
    BY <2>1
  <2>3. Min(S) \in S /\ \A x \in S : Min(S) <= x
    BY <2>2, MinIs
  <2>4. QED
    BY <2>1, <2>3
<1>2. PICK m : m = Min({need, sum})
  OBVIOUS
<1>3. (m = need \/ m = sum) /\ m <= need /\ m <= sum
  BY <1>1, <1>2
<1>4. QED
  BY <1>2, <1>3 DEF SuppliedUpTo

\* One more resource: what was reached stays, and what it adds is reached.
LEMMA ImprovedIs ==
    ASSUME NEW q, IsRequest(q), NEW t \in DOMAIN q.tasks, NEW r \in DOMAIN q.resources,
           NEW table \in CostTables(q.tasks[t].need)
    PROVE  LET need == q.tasks[t].need
               cost == TravelCost(q, <<r, t>>)
               more(b) == SuppliedUpTo(need, b + q.resources[r].capacity)
               new == Improved(q, t, r, table)
           IN  /\ new \in CostTables(need)
               /\ \A s \in 0 .. need :
                     /\ table[s] # -1 => new[s] # -1 /\ new[s] <= table[s]
                     /\ \A b \in 0 .. need : table[b] # -1 /\ more(b) = s =>
                           new[s] # -1 /\ new[s] <= table[b] + cost
                     /\ new[s] # -1 =>
                           \/ table[s] # -1 /\ new[s] = table[s]
                           \/ \E b \in 0 .. need : table[b] # -1 /\ more(b) = s
                                                   /\ new[s] = table[b] + cost
<1> DEFINE need == q.tasks[t].need
           cost == TravelCost(q, <<r, t>>)
           more(b) == SuppliedUpTo(need, b + q.resources[r].capacity)
           new == Improved(q, t, r, table)
           from(s) == {c \in DOMAIN table : table[c] >= 0 /\ more(c) = s}
           reach(s) == {table[b] + cost : b \in from(s)}
           options(s) == reach(s) \cup ({table[s]} \ {-1})
<1>1. need \in Nat /\ cost \in Nat /\ table \in [0 .. need -> Nat \cup {-1}]
  BY CostIsNat DEF IsRequest, CostTables, Pairs
<1>2. new = [s \in DOMAIN table |-> IF options(s) = {} THEN -1 ELSE Min(options(s))]
  BY DEF Improved
<1> HIDE DEF need, cost, more, new
<1>3. DOMAIN table = 0 .. need /\ \A b \in 0 .. need : table[b] \in Nat \/ table[b] = -1
  BY <1>1
<1>4. \A b \in 0 .. need : table[b] # -1 <=> table[b] \in Nat
  BY <1>1
<1>5. ASSUME NEW s \in 0 .. need
      PROVE  /\ options(s) \subseteq Nat
             /\ table[s] # -1 => table[s] \in options(s)
             /\ \A b \in 0 .. need : table[b] # -1 /\ more(b) = s =>
                   table[b] + cost \in options(s)
             /\ \A x \in options(s) :
                   \/ table[s] # -1 /\ x = table[s]
                   \/ \E b \in 0 .. need : table[b] # -1 /\ more(b) = s /\ x = table[b] + cost
  <2>1. \A b : b \in from(s) <=> b \in 0 .. need /\ table[b] # -1 /\ more(b) = s
    BY <1>3, <1>4
  <2> HIDE DEF from
  <2>2. \A x : x \in reach(s) <=> \E b \in 0 .. need : table[b] # -1 /\ more(b) = s
                                                       /\ x = table[b] + cost
    BY <2>1
  <2>3. \A b \in 0 .. need : table[b] # -1 => table[b] + cost \in Nat
    BY <1>1, <1>4
  <2>4. reach(s) \subseteq Nat
    BY <2>2, <2>3
  <2> HIDE DEF reach
  <2>5. QED
    BY <1>4, <2>2, <2>4
<1> HIDE DEF options
<1>6. ASSUME NEW s \in 0 .. need
      PROVE  /\ options(s) = {} => new[s] = -1
             /\ options(s) # {} => new[s] \in options(s) /\ new[s] \in Nat
                                   /\ \A x \in options(s) : new[s] <= x
  <2>1. new[s] = IF options(s) = {} THEN -1 ELSE Min(options(s))
    BY <1>2, <1>3
  <2>2. PICK S : S = options(s)
    OBVIOUS
  <2>3. S # {} => Min(S) \in S /\ \A x \in S : Min(S) <= x
    BY <1>5, <2>2, MinIs
  <2>4. QED
    BY <1>5, <2>1, <2>2, <2>3
<1>7. new \in CostTables(need)
  <2>1. \A s \in 0 .. need : new[s] \in Nat \cup {-1}
    BY <1>6
  <2>2. new = [s \in 0 .. need |-> new[s]]
    BY <1>2, <1>3
  <2>3. QED
    BY <2>1, <2>2 DEF CostTables
<1>8. ASSUME NEW s \in 0 .. need
      PROVE  /\ table[s] # -1 => new[s] # -1 /\ new[s] <= table[s]
             /\ \A b \in 0 .. need : table[b] # -1 /\ more(b) = s =>
                   new[s] # -1 /\ new[s] <= table[b] + cost
             /\ new[s] # -1 =>
                   \/ table[s] # -1 /\ new[s] = table[s]
                   \/ \E b \in 0 .. need : table[b] # -1 /\ more(b) = s
                                           /\ new[s] = table[b] + cost
  <2>1. \A x \in Nat : x # -1
    OBVIOUS
  <2>2. QED
    BY <1>5, <1>6, <2>1
<1>9. QED
  BY <1>7, <1>8 DEF need, cost, more, new

\* The table tells the least costs of sets of the resources S.
TableFits(q, t, S, table) ==
    /\ table \in CostTables(q.tasks[t].need)
    /\ \A A \in SUBSET S :
          table[Supplied(q, t, A)] # -1 /\ table[Supplied(q, t, A)] <= CoverCost(q, t, A)
    /\ \A s \in 0 .. q.tasks[t].need : table[s] # -1 =>
          \E A \in SUBSET S : Supplied(q, t, A) = s /\ table[s] = CoverCost(q, t, A)

\* What sets of resources supply and cost.
LEMMA CoverIs ==
    ASSUME NEW q, IsRequest(q), NEW t \in DOMAIN q.tasks, NEW A, A \subseteq DOMAIN q.resources
    PROVE  /\ CoverCost(q, t, A) \in Nat /\ CapacityOf(q, A) \in Nat
           /\ Supplied(q, t, A) \in 0 .. q.tasks[t].need
           /\ Supplied(q, t, A) = q.tasks[t].need <=> CapacityOf(q, A) >= q.tasks[t].need
           /\ A = {} => CoverCost(q, t, A) = 0 /\ Supplied(q, t, A) = 0
<1>1. PICK B, n, c : B = A \X {t} /\ n = q.tasks[t].need /\ c = CapacityOf(q, A)
  OBVIOUS
<1>2. B \subseteq Pairs(q) /\ n \in Nat
  BY <1>1 DEF Pairs, IsRequest
<1>3. CostOf(q, B) \in Nat /\ (B = {} => CostOf(q, B) = 0)
  BY <1>2, CostIs, SumStep
<1>4. c \in Nat /\ (A = {} => c = 0)
  BY <1>1, CapacityIs, SumStep
<1>5. Supplied(q, t, A) = IF n <= c THEN n ELSE c
  BY <1>1, <1>2, <1>4, UpTo DEF Supplied
<1>6. A = {} => B = {}
  BY <1>1
<1>7. CoverCost(q, t, A) = CostOf(q, B)
  BY <1>1 DEF CoverCost
<1>8. QED
  BY <1>1, <1>2, <1>3, <1>4, <1>5, <1>6, <1>7

\* One resource more.
LEMMA CoverOneMore ==
    ASSUME NEW q, IsRequest(q), NEW t \in DOMAIN q.tasks, NEW A, A \subseteq DOMAIN q.resources,
           NEW r \in A
    PROVE  /\ CoverCost(q, t, A) = CoverCost(q, t, A \ {r}) + TravelCost(q, <<r, t>>)
           /\ Supplied(q, t, A) =
                SuppliedUpTo(q.tasks[t].need,
                             Supplied(q, t, A \ {r}) + q.resources[r].capacity)
<1>1. PICK R, n, p : R = A \ {r} /\ n = q.tasks[t].need /\ p = <<r, t>>
  OBVIOUS
<1>2. PICK B, C : B = A \X {t} /\ C = R \X {t}
  OBVIOUS
<1>3. p \in B /\ C = B \ {p} /\ B \subseteq Pairs(q) /\ C \subseteq Pairs(q)
  <2>1. p \in B /\ B \subseteq Pairs(q) /\ C \subseteq Pairs(q)
    BY <1>1, <1>2 DEF Pairs
  <2>2. \A x : x \in C <=> x \in B /\ x # p
    BY <1>1, <1>2
  <2>3. QED
    BY <2>1, <2>2
<1>4. CostOf(q, B) = TravelCost(q, p) + CostOf(q, C)
  <2>1. /\ CostOf(q, B) = SumOf(CostIn(q), B) /\ Weighs(CostIn(q), B)
        /\ CostOf(q, C) = SumOf(CostIn(q), C)
    BY <1>3, CostIs
  <2>2. SumOf(CostIn(q), B) = CostIn(q)[p] + SumOf(CostIn(q), B \ {p})
    BY <1>3, <2>1, SumRemove
  <2>3. CostIn(q)[p] = TravelCost(q, p)
    BY <1>3 DEF CostIn
  <2>4. QED
    BY <1>3, <2>1, <2>2, <2>3
<1>5. CostOf(q, C) \in Nat /\ TravelCost(q, p) \in Nat
  BY <1>3, CostIs, SumStep, CostIsNat
<1>6. PICK c, d, k : c = CapacityOf(q, A) /\ d = CapacityOf(q, R) /\ k = q.resources[r].capacity
  OBVIOUS
<1>7. c = k + d /\ d \in Nat /\ k \in Nat /\ c \in Nat
  <2>1. R \subseteq DOMAIN q.resources
    BY <1>1
  <2>2. /\ c = SumOf(CapacityIn(q), A) /\ Weighs(CapacityIn(q), A)
        /\ d = SumOf(CapacityIn(q), R) /\ Weighs(CapacityIn(q), R)
    BY <1>6, <2>1, CapacityIs
  <2>3. SumOf(CapacityIn(q), A) = CapacityIn(q)[r] + SumOf(CapacityIn(q), A \ {r})
    BY <2>2, SumRemove
  <2>4. CapacityIn(q)[r] = k /\ k \in Nat
    BY <1>6 DEF CapacityIn, IsRequest
  <2>5. d \in Nat
    BY <2>2, SumStep
  <2>6. QED
    BY <1>1, <2>2, <2>3, <2>4, <2>5
<1>8. n \in Nat
  BY <1>1 DEF IsRequest
<1>9. Supplied(q, t, A) = (IF n <= c THEN n ELSE c) /\ Supplied(q, t, R) = (IF n <= d THEN n ELSE d)
  BY <1>1, <1>6, <1>7, <1>8, UpTo DEF Supplied
<1>10. PICK s : s = Supplied(q, t, R)
  OBVIOUS
<1>11. s + k \in Nat
  BY <1>7, <1>8, <1>9, <1>10
<1>12. SuppliedUpTo(n, s + k) = IF n <= s + k THEN n ELSE s + k
  BY <1>8, <1>11, UpTo
<1>13. (IF n <= c THEN n ELSE c) = (IF n <= s + k THEN n ELSE s + k)
  BY <1>7, <1>8, <1>9, <1>10
<1>14. CoverCost(q, t, A) = CoverCost(q, t, R) + TravelCost(q, p)
  BY <1>2, <1>4, <1>5 DEF CoverCost
<1>15. QED
  BY <1>1, <1>6, <1>9, <1>10, <1>12, <1>13, <1>14

\* A table stays one with one resource more.
LEMMA TableImproved ==
    ASSUME NEW q, IsRequest(q), NEW t \in DOMAIN q.tasks, NEW S, S \subseteq DOMAIN q.resources,
           NEW r \in S, NEW table, TableFits(q, t, S \ {r}, table)
    PROVE  TableFits(q, t, S, Improved(q, t, r, table))
<1>1. PICK need, k, cost, new : /\ need = q.tasks[t].need /\ k = q.resources[r].capacity
                                /\ cost = TravelCost(q, <<r, t>>)
                                /\ new = Improved(q, t, r, table)
  OBVIOUS
<1>2. table \in CostTables(need)
  BY <1>1 DEF TableFits
<1>3. /\ new \in CostTables(need)
      /\ \A s \in 0 .. need :
            /\ table[s] # -1 => new[s] # -1 /\ new[s] <= table[s]
            /\ \A b \in 0 .. need : table[b] # -1 /\ SuppliedUpTo(need, b + k) = s =>
                  new[s] # -1 /\ new[s] <= table[b] + cost
            /\ new[s] # -1 =>
                  \/ table[s] # -1 /\ new[s] = table[s]
                  \/ \E b \in 0 .. need : table[b] # -1 /\ SuppliedUpTo(need, b + k) = s
                                          /\ new[s] = table[b] + cost
  BY <1>1, <1>2, ImprovedIs
<1>4. \A s \in 0 .. need : table[s] \in Nat \cup {-1} /\ new[s] \in Nat \cup {-1}
  BY <1>2, <1>3 DEF CostTables
<1>5. cost \in Nat /\ need \in Nat
  BY <1>1, CostIsNat DEF IsRequest, Pairs
<1>6. ASSUME NEW A \in SUBSET S
      PROVE  new[Supplied(q, t, A)] # -1 /\ new[Supplied(q, t, A)] <= CoverCost(q, t, A)
  <2>1. PICK s : s = Supplied(q, t, A)
    OBVIOUS
  <2>2. A \subseteq DOMAIN q.resources
    OBVIOUS
  <2>3. s \in 0 .. need /\ CoverCost(q, t, A) \in Nat
    BY <1>1, <2>1, <2>2, CoverIs
  <2>4. CASE r \notin A
    <3>1. A \in SUBSET (S \ {r})
      BY <2>4
    <3>2. table[s] # -1 /\ table[s] <= CoverCost(q, t, A)
      BY <2>1, <3>1 DEF TableFits
    <3>3. QED
      BY <1>3, <1>4, <2>1, <2>3, <3>2
  <2>5. CASE r \in A
    <3>1. PICK B, b : B = A \ {r} /\ b = Supplied(q, t, B)
      OBVIOUS
    <3>2. B \in SUBSET (S \ {r}) /\ B \subseteq DOMAIN q.resources
      BY <3>1
    <3>3. table[b] # -1 /\ table[b] <= CoverCost(q, t, B)
      BY <3>1, <3>2 DEF TableFits
    <3>4. b \in 0 .. need /\ CoverCost(q, t, B) \in Nat
      BY <1>1, <3>1, <3>2, CoverIs
    <3>5. CoverCost(q, t, A) = CoverCost(q, t, B) + cost /\ s = SuppliedUpTo(need, b + k)
      BY <1>1, <2>1, <2>2, <2>5, <3>1, CoverOneMore
    <3>6. new[s] # -1 /\ new[s] <= table[b] + cost
      BY <1>3, <2>3, <3>3, <3>4, <3>5
    <3>7. table[b] \in Nat /\ new[s] \in Nat
      BY <1>4, <2>3, <3>3, <3>4, <3>6
    <3>8. QED
      BY <1>5, <2>1, <3>3, <3>4, <3>5, <3>6, <3>7
  <2>6. QED
    BY <2>4, <2>5
<1>7. ASSUME NEW s \in 0 .. need, new[s] # -1
      PROVE  \E A \in SUBSET S : Supplied(q, t, A) = s /\ new[s] = CoverCost(q, t, A)
  <2>1. CASE table[s] # -1 /\ new[s] = table[s]
    <3>1. PICK A \in SUBSET (S \ {r}) : Supplied(q, t, A) = s /\ table[s] = CoverCost(q, t, A)
      BY <1>1, <2>1 DEF TableFits
    <3>2. QED
      BY <2>1, <3>1
  <2>2. CASE \E b \in 0 .. need : table[b] # -1 /\ SuppliedUpTo(need, b + k) = s
                                  /\ new[s] = table[b] + cost
    <3>1. PICK b \in 0 .. need : table[b] # -1 /\ SuppliedUpTo(need, b + k) = s
                                 /\ new[s] = table[b] + cost
      BY <2>2
    <3>2. PICK B \in SUBSET (S \ {r}) : Supplied(q, t, B) = b /\ table[b] = CoverCost(q, t, B)
      BY <1>1, <3>1 DEF TableFits
    <3>3. PICK A : A = B \cup {r}
      OBVIOUS
    <3>4. A \in SUBSET S /\ r \in A /\ A \ {r} = B /\ A \subseteq DOMAIN q.resources
      BY <3>3
    <3>5. /\ CoverCost(q, t, A) = CoverCost(q, t, B) + cost
          /\ Supplied(q, t, A) = SuppliedUpTo(need, b + k)
      BY <1>1, <3>2, <3>4, CoverOneMore
    <3>6. QED
      BY <3>1, <3>2, <3>4, <3>5
  <2>3. QED
    BY <1>3, <1>7, <2>1, <2>2
<1>8. QED
  BY <1>1, <1>3, <1>6, <1>7 DEF TableFits

\* Before the first resource, nothing is supplied at no cost.
LEMMA TableAtFirst ==
    ASSUME NEW q, IsRequest(q), NEW t \in DOMAIN q.tasks
    PROVE  TableFits(q, t, {}, [s \in 0 .. q.tasks[t].need |-> IF s = 0 THEN 0 ELSE -1])
<1>1. PICK need, table : /\ need = q.tasks[t].need
                         /\ table = [s \in 0 .. need |-> IF s = 0 THEN 0 ELSE -1]
  OBVIOUS
<1>2. need \in Nat /\ table \in CostTables(need) /\ 0 \in 0 .. need
  BY <1>1 DEF IsRequest, CostTables
<1>3. table[0] = 0 /\ \A s \in 0 .. need : table[s] # -1 => s = 0
  BY <1>1, <1>2
<1>4. CoverCost(q, t, {}) = 0 /\ Supplied(q, t, {}) = 0
  BY CoverIs
<1>5. \A A \in SUBSET {} : A = {}
  OBVIOUS
<1>6. 0 # -1 /\ 0 <= 0
  OBVIOUS
<1>7. QED
  BY <1>1, <1>2, <1>3, <1>4, <1>5, <1>6 DEF TableFits

\* So the fold over some resources ends in a table of their sets.
LEMMA CoverCostIs ==
    ASSUME NEW q, IsRequest(q), NEW t \in DOMAIN q.tasks, NEW S, S \subseteq DOMAIN q.resources
    PROVE  \E table : /\ TableFits(q, t, S, table)
                      /\ MinimumCoverCost(q, t, S) = table[q.tasks[t].need]
<1> DEFINE need == q.tasks[t].need
           base == [s \in 0 .. need |-> IF s = 0 THEN 0 ELSE -1]
           value(f, s) == IF s = {} THEN base
                          ELSE Improved(q, t, CHOOSE x \in s : TRUE,
                                        f[s \ {CHOOSE x \in s : TRUE}])
           fits(f) == f = [s \in SUBSET S |-> value(f, s)]
           pick == First(S)
           Tables == CostTables(need)
           step == [x \in S \X Tables |-> Improved(q, t, x[1], x[2])]
<1>1. MinimumCoverCost(q, t, S) = (CHOOSE f : fits(f))[S][need]
  BY DEF MinimumCoverCost, FoldSet, MapThenFoldSet
<1>2. IsFiniteSet(S)
  BY FS_Subset DEF IsRequest
<1>3. \A s \in SUBSET S : pick[s] = CHOOSE x \in s : TRUE
  BY DEF First
<1>4. Picks(pick, S)
  BY <1>3 DEF Picks
<1>5. \A x \in S, y \in Tables : step[<<x, y>>] = Improved(q, t, x, y) /\ step[<<x, y>>] \in Tables
  <2> SUFFICES ASSUME NEW x \in S, NEW y \in Tables
               PROVE  step[<<x, y>>] = Improved(q, t, x, y) /\ step[<<x, y>>] \in Tables
    OBVIOUS
  <2>1. <<x, y>> \in S \X Tables /\ <<x, y>>[1] = x /\ <<x, y>>[2] = y
    OBVIOUS
  <2>2. step[<<x, y>>] = Improved(q, t, x, y)
    BY <2>1
  <2>3. Improved(q, t, x, y) \in Tables
    BY ImprovedIs
  <2>4. QED
    BY <2>2, <2>3
<1>6. TableFits(q, t, {}, base)
  BY TableAtFirst
<1>7. base \in Tables
  BY <1>6 DEF TableFits
<1> HIDE DEF pick, step, base
<1>8. Closed(step, base, S, Tables)
  BY <1>5, <1>7 DEF Closed
<1> HIDE DEF Tables
<1>9. \E f : fits(f)
  <2>1. PICK f : IsFold(step, base, pick, f, S)
    BY <1>2, <1>4, FoldExists
  <2>2. Steps(step, base, pick, f, S, Tables)
    BY <2>1 DEF IsFold, Steps
  <2>3. \A s \in SUBSET S : f[s] \in Tables
    BY <1>2, <1>4, <1>8, <2>2, FoldType
  <2>4. ASSUME NEW s \in SUBSET S
        PROVE  f[s] = value(f, s)
    <3>1. f[s] = IF s = {} THEN base ELSE step[<<pick[s], f[s \ {pick[s]}]>>]
      BY <2>1 DEF IsFold
    <3>2. s # {} => pick[s] \in S
      BY <1>4 DEF Picks
    <3>3. f[s \ {pick[s]}] \in Tables
      BY <2>3
    <3>4. s # {} => step[<<pick[s], f[s \ {pick[s]}]>>] = Improved(q, t, pick[s], f[s \ {pick[s]}])
      BY <1>5, <3>2, <3>3
    <3>5. QED
      BY <1>3, <3>1, <3>4
  <2>5. f = [s \in SUBSET S |-> f[s]]
    BY <2>1 DEF IsFold
  <2> HIDE DEF value
  <2>6. fits(f)
    BY <2>4, <2>5
  <2>7. QED
    BY <2>6
<1> HIDE DEF fits, value
<1>10. PICK f : f = (CHOOSE g : fits(g)) /\ fits(f)
  BY <1>9
<1>11. ASSUME NEW s \in SUBSET S PROVE TableFits(q, t, s, f[s])
  <2> DEFINE Bad == {A \in SUBSET s : ~TableFits(q, t, A, f[A])}
  <2> SUFFICES ASSUME Bad # {} PROVE FALSE
    OBVIOUS
  <2>1. \A A \in Bad : IsFiniteSet(A)
    BY <1>2, FS_Subset
  <2>2. PICK A \in Bad : \A x \in A : A \ {x} \notin Bad
    <3> HIDE DEF Bad
    <3>1. QED
      BY <2>1, SmallestOf
  <2>3. PICK x : x = CHOOSE y \in A : TRUE
    OBVIOUS
  <2>4. f[A] = IF A = {} THEN base ELSE Improved(q, t, x, f[A \ {x}])
    <3>1. f[A] = value(f, A)
      BY <1>10 DEF fits
    <3>2. QED
      BY <2>3, <3>1 DEF value
  <2>5. A # {}
    BY <1>6, <2>4
  <2>6. x \in A
    BY <2>3, <2>5
  <2>7. TableFits(q, t, A \ {x}, f[A \ {x}])
    BY <2>2, <2>6
  <2>8. A \subseteq DOMAIN q.resources
    OBVIOUS
  <2>9. TableFits(q, t, A, Improved(q, t, x, f[A \ {x}]))
    BY <2>6, <2>7, <2>8, TableImproved
  <2>10. QED
    BY <2>4, <2>5, <2>9
<1>12. QED
  BY <1>1, <1>10, <1>11

\* What it finds is the least cost of the sets that suffice, if any does.
LEMMA CoverCostLeast ==
    ASSUME NEW q, IsRequest(q), NEW t \in DOMAIN q.tasks, NEW S, S \subseteq DOMAIN q.resources,
           CapacityOf(q, S) >= q.tasks[t].need
    PROVE  LET covers == {some \in SUBSET S : CapacityOf(q, some) >= q.tasks[t].need}
               costs == {CostOf(q, some \X {t}) : some \in covers}
           IN  /\ MinimumCoverCost(q, t, S) = Min(costs)
               /\ \E some \in covers : MinimumCoverCost(q, t, S) = CostOf(q, some \X {t})
<1>1. PICK need : need = q.tasks[t].need
  OBVIOUS
<1>2. PICK table : TableFits(q, t, S, table) /\ MinimumCoverCost(q, t, S) = table[need]
  BY <1>1, CoverCostIs
<1> DEFINE covers == {some \in SUBSET S : CapacityOf(q, some) >= q.tasks[t].need}
           costs == {CostOf(q, some \X {t}) : some \in covers}
<1>3. ASSUME NEW A \in SUBSET S
      PROVE  /\ CoverCost(q, t, A) \in Nat
             /\ Supplied(q, t, A) = need <=> A \in covers
             /\ CoverCost(q, t, A) = CostOf(q, A \X {t})
  <2>1. A \subseteq DOMAIN q.resources
    OBVIOUS
  <2>2. QED
    BY <1>1, <2>1, CoverIs DEF CoverCost
<1>4. need \in Nat /\ S \in covers
  BY <1>1 DEF IsRequest
<1> HIDE DEF covers
<1>5. table[need] # -1
  BY <1>2, <1>3, <1>4 DEF TableFits, covers
<1>6. PICK A \in SUBSET S : Supplied(q, t, A) = need /\ table[need] = CoverCost(q, t, A)
  BY <1>1, <1>2, <1>4, <1>5 DEF TableFits
<1>7. A \in covers /\ table[need] \in costs /\ table[need] = CostOf(q, A \X {t})
  BY <1>3, <1>6
<1>8. \A c \in costs : c \in Nat /\ table[need] <= c
  <2> SUFFICES ASSUME NEW B \in covers
               PROVE  CostOf(q, B \X {t}) \in Nat /\ table[need] <= CostOf(q, B \X {t})
    OBVIOUS
  <2>1. B \in SUBSET S
    BY DEF covers
  <2>2. Supplied(q, t, B) = need /\ CoverCost(q, t, B) = CostOf(q, B \X {t})
        /\ CoverCost(q, t, B) \in Nat
    BY <1>3, <2>1
  <2>3. QED
    BY <1>2, <2>1, <2>2 DEF TableFits
<1> HIDE DEF costs
<1>9. Min(costs) \in costs /\ \A c \in costs : Min(costs) <= c
  <2>1. costs \subseteq Nat /\ costs # {}
    BY <1>7, <1>8
  <2>2. QED
    BY <2>1, MinIs
<1>10. PICK m : m = Min(costs)
  OBVIOUS
<1>11. m \in Nat /\ table[need] \in Nat /\ m <= table[need] /\ table[need] <= m
  BY <1>7, <1>8, <1>9, <1>10
<1>12. table[need] = m
  BY <1>11
<1>13. QED
  BY <1>2, <1>7, <1>10, <1>12 DEF covers, costs

-----------------------------------------------------------------------------
(* Tradeoffs: a best plan leaves a task only where covering it costs more. *)

\* Idle resources that suffice can be added to a plan, at their cost.
LEMMA CoverOneTask ==
    ASSUME NEW q, IsRequest(q), NEW pairs \in Plans(q), NEW t \in DOMAIN q.tasks,
           t \notin Covered(pairs), NEW A, A \subseteq ServersOf(q.eligible, t),
           \A p \in pairs : p[1] \notin A, CapacityOf(q, A) >= q.tasks[t].need
    PROVE  /\ pairs \cup (A \X {t}) \in Plans(q)
           /\ Objective(q, pairs \cup (A \X {t})) + q.tasks[t].penalty
                = Objective(q, pairs) + CostOf(q, A \X {t})
<1>1. PICK B, more : B = A \X {t} /\ more = pairs \cup B
  OBVIOUS
<1>2. pairs \subseteq q.eligible /\ IsPlan(q, pairs) /\ q.eligible \subseteq Pairs(q)
  BY DEF Plans, IsRequest, Eligible
<1>3. A \subseteq DOMAIN q.resources /\ \A r \in A : <<r, t>> \in q.eligible
  BY ServersAre
<1>4. \A p \in B : p[1] \in A /\ p[2] = t /\ p = <<p[1], t>>
  BY <1>1
<1>5. \A r \in A : <<r, t>> \in B /\ <<r, t>>[1] = r /\ <<r, t>>[2] = t
  BY <1>1
<1>6. B \subseteq q.eligible /\ more \subseteq q.eligible
  BY <1>1, <1>2, <1>3, <1>4
<1>7. pairs \cap B = {} /\ \A p \in pairs : p[2] # t
  BY <1>4 DEF Covered
<1>8. A # {}
  <2> SUFFICES ASSUME A = {} PROVE FALSE
    OBVIOUS
  <2>1. CapacityOf(q, {}) = 0
    BY CapacityIs, SumStep
  <2>2. q.tasks[t].need \in Nat \ {0}
    BY DEF IsRequest
  <2>3. QED
    BY <2>1, <2>2
<1>9. IsPlan(q, more)
  <2>1. q.locks \subseteq more
    BY <1>1, <1>2 DEF IsPlan
  <2>2. ASSUME NEW p \in more, NEW o \in more, p[1] = o[1] PROVE p = o
    <3>1. CASE p \in pairs /\ o \in pairs
      BY <1>2, <2>2, <3>1 DEF IsPlan
    <3>2. CASE p \in B /\ o \in B
      BY <1>4, <2>2, <3>2
    <3>3. QED
      BY <1>1, <1>4, <2>2, <3>1, <3>2
  <2>3. ASSUME NEW p \in more
        PROVE  CapacityOf(q, ServersOf(more, p[2])) >= q.tasks[p[2]].need
    <3>1. CASE p[2] = t
      <4>1. \A r : <<r, t>> \in more <=> r \in A
        <5> SUFFICES ASSUME NEW r PROVE <<r, t>> \in more <=> r \in A
          OBVIOUS
        <5>1. <<r, t>> \notin pairs
          BY <1>7
        <5>2. <<r, t>> \in B <=> r \in A
          BY <1>1
        <5>3. QED
          BY <1>1, <5>1, <5>2
      <4>2. \A p2 \in more : p2[2] = t => p2[1] \in A
        BY <1>1, <1>4, <1>7
      <4>3. ServersOf(more, t) = A
        <5>1. \A r : r \in ServersOf(more, t) <=> r \in A
          BY <4>1, <4>2, <1>5, <1>1 DEF ServersOf
        <5>2. QED
          BY <5>1
      <4>4. QED
        BY <3>1, <4>3
    <3>2. CASE p[2] # t
      <4>1. p \in pairs
        BY <1>1, <1>4, <3>2
      <4>2. ServersOf(more, p[2]) = ServersOf(pairs, p[2])
        BY <1>1, <1>4, <3>2 DEF ServersOf
      <4>3. QED
        BY <1>2, <4>1, <4>2 DEF IsPlan
    <3>3. QED
      BY <3>1, <3>2
  <2>4. QED
    BY <2>1, <2>2, <2>3 DEF IsPlan
<1>10. more \in Plans(q)
  BY <1>6, <1>9 DEF Plans
<1>11. CostOf(q, more) = CostOf(q, pairs) + CostOf(q, B)
  <2>1. more \subseteq Pairs(q) /\ pairs \subseteq Pairs(q) /\ B \subseteq Pairs(q)
    BY <1>2, <1>6
  <2>2. /\ CostOf(q, pairs) = SumOf(CostIn(q), pairs) /\ Weighs(CostIn(q), pairs)
        /\ CostOf(q, B) = SumOf(CostIn(q), B) /\ Weighs(CostIn(q), B)
        /\ CostOf(q, more) = SumOf(CostIn(q), more)
    BY <2>1, CostIs
  <2>3. QED
    BY <1>1, <1>7, <2>2, SumOfUnion
<1>12. PICK rest, left : /\ rest = DOMAIN q.tasks \ Covered(pairs)
                         /\ left = DOMAIN q.tasks \ Covered(more)
  OBVIOUS
<1>13. /\ t \in rest /\ left = rest \ {t}
       /\ rest \subseteq DOMAIN q.tasks /\ left \subseteq DOMAIN q.tasks
  <2>1. Covered(B) = {t}
    <3>1. \E p \in B : p[2] = t
      BY <1>5, <1>8
    <3>2. QED
      BY <1>4, <3>1 DEF Covered
  <2>2. Covered(more) = Covered(pairs) \cup Covered(B)
    BY <1>1 DEF Covered
  <2>3. QED
    BY <1>12, <2>1, <2>2
<1>14. PenaltyOf(q, rest) = q.tasks[t].penalty + PenaltyOf(q, left)
  <2>1. /\ PenaltyOf(q, rest) = SumOf(PenaltyIn(q), rest) /\ Weighs(PenaltyIn(q), rest)
        /\ PenaltyOf(q, left) = SumOf(PenaltyIn(q), left)
    BY <1>13, PenaltyIs
  <2>2. SumOf(PenaltyIn(q), rest) = PenaltyIn(q)[t] + SumOf(PenaltyIn(q), rest \ {t})
    BY <1>13, <2>1, SumRemove
  <2>3. QED
    BY <1>13, <2>1, <2>2 DEF PenaltyIn
<1>15. /\ CostOf(q, pairs) \in Nat /\ CostOf(q, B) \in Nat /\ PenaltyOf(q, left) \in Nat
       /\ q.tasks[t].penalty \in Nat
  <2>1. pairs \subseteq Pairs(q) /\ B \subseteq Pairs(q)
    BY <1>2, <1>6
  <2>2. CostOf(q, pairs) \in Nat /\ CostOf(q, B) \in Nat
    BY <2>1, CostIs, SumStep
  <2>3. PenaltyOf(q, left) \in Nat
    BY <1>13, PenaltyIs, SumStep
  <2>4. QED
    BY <2>2, <2>3 DEF IsRequest
<1>16. /\ Objective(q, more) = CostOf(q, more) + PenaltyOf(q, left)
       /\ Objective(q, pairs) = CostOf(q, pairs) + PenaltyOf(q, rest)
  BY <1>12 DEF Objective
<1>17. Objective(q, more) + q.tasks[t].penalty = Objective(q, pairs) + CostOf(q, B)
  BY <1>11, <1>14, <1>15, <1>16
<1>18. QED
  BY <1>1, <1>10, <1>17

\* A comparison finds a lower cost only if there is one.
LEMMA ComparisonIs ==
    ASSUME NEW q, NEW t, NEW S, MinimumCoverCost(q, t, S) \in Nat, q.tasks[t].penalty \in Nat,
           MinimumCoverCost(q, t, S) >= q.tasks[t].penalty
    PROVE  Comparison(q, t, S) # "travel-cost-lower"
<1> DEFINE c == MinimumCoverCost(q, t, S)
           p == q.tasks[t].penalty
<1>1. Comparison(q, t, S) =
         CASE c > p -> "travel-cost-higher" [] c = p -> "equal" [] OTHER -> "travel-cost-lower"
  BY DEF Comparison
<1>2. c \in Nat /\ p \in Nat /\ c >= p
  OBVIOUS
<1> HIDE DEF c, p
<1>3. CASE c > p
  BY <1>1, <1>2, <1>3
<1>4. CASE c = p
  BY <1>1, <1>2, <1>4
<1>5. QED
  BY <1>2, <1>3, <1>4

\* So the tradeoff an explanation speaks of is one.
LEMMA TradeoffIsReal == PInv /\ RunsInv => TradeoffReal
<1> SUFFICES ASSUME PInv, RunsInv, NEW a \in Answered, NEW t \in Uncovered(a.q, a.answer),
                    Reason(a.q, a.answer, t) = "objective-tradeoff"
             PROVE  LET idle == IdleFor(a.q, a.answer, t)
                        covers == {some \in SUBSET idle :
                                      CapacityOf(a.q, some) >= a.q.tasks[t].need}
                    IN  /\ Comparison(a.q, t, idle) # "travel-cost-lower"
                        /\ MinimumCoverCost(a.q, t, idle) =
                              Min({CostOf(a.q, some \X {t}) : some \in covers})
  BY DEF TradeoffReal
<1>1. PICK q, answer : q = a.q /\ answer = a.answer
  OBVIOUS
<1>2. IsRequest(q) /\ answer \in Answers(q)
  BY <1>1, AnsweredAre DEF IsAnswered
<1>3. t \in DOMAIN q.tasks /\ t \notin Covered(answer.pairs)
  BY <1>1 DEF Uncovered
<1>4. ReasonGiven(q, answer, t) = "objective-tradeoff"
  BY <1>1, ReasonIs
<1>5. Solved(answer) /\ ~TooFewIdle(q, answer, t) /\ answer.status # "FEASIBLE"
  BY <1>4 DEF ReasonGiven
<1>6. answer.pairs \in BestPlans(q) /\ answer.pairs \in Plans(q)
  BY <1>2, <1>5, AnswerIs DEF Solved
<1>7. PICK idle : idle = IdleFor(q, answer, t)
  OBVIOUS
<1>8. /\ idle \subseteq ServersOf(q.eligible, t) /\ idle \subseteq DOMAIN q.resources
      /\ \A p \in answer.pairs : p[1] \notin idle
  BY <1>2, <1>3, <1>7, ServersAre DEF IdleFor, AssignedIn
<1>9. CapacityOf(q, idle) >= q.tasks[t].need
  <2>1. CapacityOf(q, idle) \in Nat /\ q.tasks[t].need \in Nat
    BY <1>2, <1>3, <1>8, CapacityGrows DEF IsRequest
  <2>2. ~(CapacityOf(q, idle) < q.tasks[t].need)
    BY <1>5, <1>7 DEF TooFewIdle
  <2>3. QED
    BY <2>1, <2>2
<1>10. PICK covers : covers = {some \in SUBSET idle : CapacityOf(q, some) >= q.tasks[t].need}
  OBVIOUS
<1>11. /\ MinimumCoverCost(q, t, idle) = Min({CostOf(q, some \X {t}) : some \in covers})
       /\ \E some \in covers : MinimumCoverCost(q, t, idle) = CostOf(q, some \X {t})
  <2> DEFINE those == {some \in SUBSET idle : CapacityOf(q, some) >= q.tasks[t].need}
  <2>1. /\ MinimumCoverCost(q, t, idle) = Min({CostOf(q, some \X {t}) : some \in those})
        /\ \E some \in those : MinimumCoverCost(q, t, idle) = CostOf(q, some \X {t})
    BY <1>2, <1>3, <1>8, <1>9, CoverCostLeast
  <2>2. covers = those
    BY <1>10
  <2> HIDE DEF those
  <2>3. QED
    BY <2>1, <2>2
<1>12. PICK A \in covers : MinimumCoverCost(q, t, idle) = CostOf(q, A \X {t})
  BY <1>11
<1>13. /\ A \subseteq ServersOf(q.eligible, t) /\ CapacityOf(q, A) >= q.tasks[t].need
       /\ \A p \in answer.pairs : p[1] \notin A
       /\ A \subseteq DOMAIN q.resources
  BY <1>8, <1>10
<1>14. PICK pairs, more : pairs = answer.pairs /\ more = pairs \cup (A \X {t})
  OBVIOUS
<1>15. more \in Plans(q) /\
       Objective(q, more) + q.tasks[t].penalty = Objective(q, pairs) + CostOf(q, A \X {t})
  BY <1>2, <1>3, <1>6, <1>13, <1>14, CoverOneTask
<1>16. Objective(q, pairs) <= Objective(q, more)
  BY <1>2, <1>6, <1>14, <1>15, BestIsLeast
<1>17. Objective(q, pairs) \in Nat /\ Objective(q, more) \in Nat
  <2>1. pairs \subseteq Pairs(q) /\ more \subseteq Pairs(q)
    BY <1>2, <1>6, <1>14, <1>15 DEF Plans, IsRequest, Eligible
  <2>2. QED
    BY <1>2, <2>1, ObjectiveIsNat
<1>18. CostOf(q, A \X {t}) \in Nat /\ q.tasks[t].penalty \in Nat
  BY <1>2, <1>3, <1>13, CoverIs DEF CoverCost, IsRequest
<1>19. CostOf(q, A \X {t}) >= q.tasks[t].penalty
  BY <1>15, <1>16, <1>17, <1>18
<1>20. Comparison(q, t, idle) # "travel-cost-lower"
  BY <1>12, <1>18, <1>19, ComparisonIs
<1>21. QED
  BY <1>1, <1>7, <1>10, <1>11, <1>20

\* What an operator is told of a plan is true of it (task_explanations.py and
\* the binding constraints of task_optimizer.py): why a task is uncovered, what
\* binds it, what a tradeoff costs, and what changed since the last run.
THEOREM ExplanationsAreTrue == Spec => []ExplanationsTrue
<1>1. PInv /\ RunsInv => ExplanationsTrue
  BY LacksAreReal, EvidenceIsOne, TradeoffIsReal, StoredChanges DEF ExplanationsTrue
<1>2. QED
  BY <1>1, RunsAlways, PTL

-----------------------------------------------------------------------------
(* Locks: the deficits counted down resource by resource are what sets of   *)
(* them leave lacking, so none is left exactly when some plan honours all.  *)

\* The larger of nothing and what is missing.
LEMMA LackingIs ==
    ASSUME NEW need \in Nat, NEW supply \in Nat
    PROVE  Lacking(need, supply) = IF need <= supply THEN 0 ELSE need - supply
<1>1. PICK S : S = {0, need - supply}
  OBVIOUS
<1>2. \E x \in S : \A y \in S : x >= y
  <2>1. CASE need <= supply
    BY <1>1, <2>1
  <2>2. CASE ~(need <= supply)
    BY <1>1, <2>2
  <2>3. QED
    BY <2>1, <2>2
<1>3. Max(S) \in S /\ \A y \in S : Max(S) >= y
  BY <1>2 DEF Max
<1>4. PICK m : m = Max(S)
  OBVIOUS
<1>5. (m = 0 \/ m = need - supply) /\ m >= 0 /\ m >= need - supply
  BY <1>1, <1>3, <1>4
<1>6. QED
  BY <1>1, <1>4, <1>5 DEF Lacking

\* Help that the resources s can give to the locked tasks, one task each.
Helps(q, s) ==
    {A \in SUBSET q.eligible :
        /\ \A p \in A : p[1] \in s /\ p[2] \in LockedTasks(q)
        /\ \A p, o \in A : p[1] = o[1] => p = o}

Supply(q, A, t) == CapacityOf(q, ServersOf(q.locks, t)) + CapacityOf(q, ServersOf(A, t))

\* What each locked task still lacks with it.
Left(q, A) == [t \in LockedTasks(q) |-> Lacking(q.tasks[t].need, Supply(q, A, t))]

\* Locks name tasks, and help is measured.
LEMMA HelpIs ==
    ASSUME NEW q, IsRequest(q), q.locks \subseteq q.eligible, NEW t \in LockedTasks(q),
           NEW A, A \subseteq q.eligible
    PROVE  /\ q.tasks[t].need \in Nat
           /\ CapacityOf(q, ServersOf(q.locks, t)) \in Nat
           /\ CapacityOf(q, ServersOf(A, t)) \in Nat
           /\ Supply(q, A, t) \in Nat
           /\ Left(q, A)[t] = IF q.tasks[t].need <= Supply(q, A, t) THEN 0
                              ELSE q.tasks[t].need - Supply(q, A, t)
<1>1. t \in DOMAIN q.tasks
  BY DEF LockedTasks, IsRequest, Eligible, Pairs
<1>2. q.tasks[t].need \in Nat
  BY <1>1 DEF IsRequest
<1>3. ASSUME NEW B, B \subseteq q.eligible PROVE CapacityOf(q, ServersOf(B, t)) \in Nat
  <2>1. ServersOf(B, t) \subseteq DOMAIN q.resources
    BY <1>3, SentAreServers
  <2>2. QED
    BY <2>1, CapacityGrows
<1>4. CapacityOf(q, ServersOf(q.locks, t)) \in Nat /\ CapacityOf(q, ServersOf(A, t)) \in Nat
  BY <1>3
<1>5. Supply(q, A, t) \in Nat
  BY <1>4 DEF Supply
<1>6. Left(q, A)[t] = Lacking(q.tasks[t].need, Supply(q, A, t))
  BY DEF Left
<1>7. QED
  BY <1>2, <1>4, <1>5, <1>6, LackingIs

\* What r sent to the locked task t makes of it.
Sending(q, r, left, t) == [left EXCEPT ![t] = Lacking(left[t], q.resources[r].capacity)]

\* One resource more, sent to one locked task.
LEMMA HelpOneMore ==
    ASSUME NEW q, IsRequest(q), q.locks \subseteq q.eligible, NEW S, NEW r \in S,
           NEW A \in Helps(q, S \ {r}), NEW t \in LockedTasks(q), <<r, t>> \in q.eligible
    PROVE  /\ A \cup {<<r, t>>} \in Helps(q, S)
           /\ Left(q, A \cup {<<r, t>>}) = Sending(q, r, Left(q, A), t)
<1>1. PICK p, B : p = <<r, t>> /\ B = A \cup {p}
  OBVIOUS
<1>2. /\ A \subseteq q.eligible /\ \A o \in A : o[1] # r /\ o[1] \in S /\ o[2] \in LockedTasks(q)
      /\ p[1] = r /\ p[2] = t /\ p \in q.eligible
  BY <1>1 DEF Helps
<1>3. B \subseteq q.eligible
  BY <1>1, <1>2
<1>4. B \in Helps(q, S)
  <2>1. \A o \in B : o[1] \in S /\ o[2] \in LockedTasks(q)
    BY <1>1, <1>2
  <2>2. ASSUME NEW x \in B, NEW o \in B, x[1] = o[1] PROVE x = o
    <3>1. CASE x \in A /\ o \in A
      BY <2>2, <3>1 DEF Helps
    <3>2. QED
      BY <1>1, <1>2, <2>2, <3>1
  <2>3. QED
    BY <1>3, <2>1, <2>2 DEF Helps
<1>5. ASSUME NEW u \in LockedTasks(q), u # t PROVE Left(q, B)[u] = Left(q, A)[u]
  <2>1. ServersOf(B, u) = ServersOf(A, u)
    BY <1>1, <1>2, <1>5 DEF ServersOf
  <2>2. QED
    BY <2>1 DEF Left, Supply
<1>6. PICK c : c = q.resources[r].capacity
  OBVIOUS
<1>7. Supply(q, B, t) = Supply(q, A, t) + c /\ c \in Nat
  <2>1. PICK more, few : more = ServersOf(B, t) /\ few = ServersOf(A, t)
    OBVIOUS
  <2>2. /\ r \in DOMAIN q.resources
        /\ more \subseteq DOMAIN q.resources /\ few \subseteq DOMAIN q.resources
    <3>1. r \in ServersOf(B, t)
      BY <1>1, <1>3, SentAreServers
    <3>2. QED
      BY <1>2, <1>3, <2>1, <3>1, SentAreServers
  <2>3. r \in more /\ r \notin few /\ more \ {r} = few
    <3>1. \A x : (x \in more <=> <<x, t>> \in B) /\ (x \in few <=> <<x, t>> \in A)
      BY <1>2, <1>3, <2>1, SentAreServers
    <3>2. \A x : <<x, t>> \in B <=> <<x, t>> \in A \/ x = r
      BY <1>1
    <3>3. <<r, t>> \notin A
      BY <1>1, <1>2
    <3>4. QED
      BY <3>1, <3>2, <3>3
  <2>4. /\ CapacityOf(q, more) = SumOf(CapacityIn(q), more) /\ Weighs(CapacityIn(q), more)
        /\ CapacityOf(q, few) = SumOf(CapacityIn(q), few)
    BY <2>2, CapacityIs
  <2>5. SumOf(CapacityIn(q), more) = CapacityIn(q)[r] + SumOf(CapacityIn(q), more \ {r})
    BY <2>3, <2>4, SumRemove
  <2>6. CapacityIn(q)[r] = c /\ c \in Nat
    BY <1>6, <2>2 DEF CapacityIn, IsRequest
  <2>7. CapacityOf(q, more) = c + CapacityOf(q, few)
    BY <2>3, <2>4, <2>5, <2>6
  <2>8. CapacityOf(q, few) \in Nat /\ CapacityOf(q, ServersOf(q.locks, t)) \in Nat
    BY <1>2, <2>1, HelpIs
  <2>9. QED
    BY <2>1, <2>6, <2>7, <2>8 DEF Supply
<1>8. Left(q, B)[t] = Lacking(Left(q, A)[t], c)
  <2>1. PICK need, a, b : need = q.tasks[t].need /\ a = Supply(q, A, t) /\ b = Supply(q, B, t)
    OBVIOUS
  <2>2. need \in Nat /\ a \in Nat /\ b \in Nat
    BY <1>2, <1>3, <2>1, HelpIs
  <2>3. /\ Left(q, A)[t] = IF need <= a THEN 0 ELSE need - a
        /\ Left(q, B)[t] = IF need <= b THEN 0 ELSE need - b
    BY <1>2, <1>3, <2>1, HelpIs
  <2>4. b = a + c /\ c \in Nat
    BY <1>7, <2>1
  <2>5. PICK l : l = Left(q, A)[t]
    OBVIOUS
  <2>6. l \in Nat
    BY <2>2, <2>3, <2>5
  <2>7. Lacking(l, c) = IF l <= c THEN 0 ELSE l - c
    BY <2>4, <2>6, LackingIs
  <2>8. (IF need <= b THEN 0 ELSE need - b) = (IF l <= c THEN 0 ELSE l - c)
    BY <2>2, <2>3, <2>4, <2>5
  <2>9. QED
    BY <2>3, <2>5, <2>7, <2>8
<1>9. Left(q, B) = Sending(q, r, Left(q, A), t)
  <2>1. /\ Left(q, A) = [u \in LockedTasks(q) |-> Left(q, A)[u]]
        /\ Left(q, B) = [u \in LockedTasks(q) |-> Left(q, B)[u]]
    BY DEF Left
  <2>2. QED
    BY <1>5, <1>6, <1>8, <2>1 DEF Sending
<1>10. QED
  BY <1>1, <1>4, <1>9

\* The states of the deficits are those the resources s can bring about.
Brought(q, s) == {Left(q, A) : A \in Helps(q, s)}

\* Before the first resource, that is what the locks themselves leave.
LEMMA NothingBrought ==
    ASSUME NEW q, IsRequest(q), q.locks \subseteq q.eligible
    PROVE  {Deficits(q)} = Brought(q, {})
<1>1. \A A : A \in Helps(q, {}) <=> A = {}
  BY DEF Helps
<1>2. ASSUME NEW t \in LockedTasks(q) PROVE Left(q, {})[t] = Deficits(q)[t]
  <2>1. ServersOf({}, t) = {}
    BY DEF ServersOf
  <2>2. CapacityOf(q, {}) = 0
    BY CapacityIs, SumStep
  <2>3. Supply(q, {}, t) = CapacityOf(q, ServersOf(q.locks, t))
    <3>1. CapacityOf(q, ServersOf(q.locks, t)) \in Nat
      BY HelpIs
    <3>2. QED
      BY <2>1, <2>2, <3>1 DEF Supply
  <2>4. QED
    BY <2>3 DEF Left, Deficits
<1>3. Left(q, {}) = Deficits(q)
  BY <1>2 DEF Left, Deficits
<1>4. QED
  BY <1>1, <1>3 DEF Brought

\* And each resource adds what it can do.
LEMMA HelpedBrings ==
    ASSUME NEW q, IsRequest(q), q.locks \subseteq q.eligible, NEW S, NEW r \in S
    PROVE  Helped(q, r, Brought(q, S \ {r})) = Brought(q, S)
<1> DEFINE old == Brought(q, S \ {r})
           c == q.resources[r].capacity
           open(d) == {u \in DOMAIN d : d[u] > 0 /\ <<r, u>> \in q.eligible}
<1>1. \A d : d \in Helped(q, r, old)
                <=> d \in old \/ \E e \in old : \E t \in open(e) : d = Sending(q, r, e, t)
  <2>1. Helped(q, r, old) = old \cup UNION {{Sending(q, r, e, t) : t \in open(e)} : e \in old}
    BY DEF Helped, Sending
  <2> HIDE DEF open, old
  <2>2. QED
    BY <2>1
<1>2. \A A \in Helps(q, S \ {r}) : DOMAIN Left(q, A) = LockedTasks(q)
  BY DEF Left
<1>3. ASSUME NEW A \in Helps(q, S \ {r}), NEW t \in LockedTasks(q), <<r, t>> \in q.eligible
      PROVE  /\ A \cup {<<r, t>>} \in Helps(q, S)
             /\ Left(q, A \cup {<<r, t>>}) = Sending(q, r, Left(q, A), t)
  <2>1. PICK Z : Z = S \ {r}
    OBVIOUS
  <2>2. A \in Helps(q, Z) /\ <<r, t>> \in q.eligible
    BY <1>3, <2>1
  <2>3. A \cup {<<r, t>>} \in Helps(q, S)
    BY <2>1, <2>2, HelpOneMore
  <2>4. Left(q, A \cup {<<r, t>>}) = Sending(q, r, Left(q, A), t)
    BY <2>1, <2>2, HelpOneMore
  <2>5. QED
    BY <2>3, <2>4
<1>4. ASSUME NEW d \in Helped(q, r, old) PROVE d \in Brought(q, S)
  <2>1. CASE d \in old
    <3>1. PICK A \in Helps(q, S \ {r}) : d = Left(q, A)
      BY <2>1 DEF Brought
    <3>2. A \in Helps(q, S)
      BY DEF Helps
    <3>3. QED
      BY <3>1, <3>2 DEF Brought
  <2>2. CASE \E e \in old : \E t \in open(e) : d = Sending(q, r, e, t)
    <3>1. PICK e \in old : \E t \in open(e) : d = Sending(q, r, e, t)
      BY <2>2
    <3>2. PICK t \in open(e) : d = Sending(q, r, e, t)
      BY <3>1
    <3>3. PICK A \in Helps(q, S \ {r}) : e = Left(q, A)
      BY DEF Brought
    <3>4. t \in LockedTasks(q) /\ <<r, t>> \in q.eligible
      BY <1>2, <3>3
    <3>5. QED
      BY <1>3, <3>2, <3>3, <3>4 DEF Brought
  <2>3. QED
    BY <1>1, <2>1, <2>2
<1>5. ASSUME NEW A \in Helps(q, S) PROVE Left(q, A) \in Helped(q, r, old)
  <2>1. A \subseteq q.eligible /\ \A p \in A : p = <<p[1], p[2]>>
    BY DEF Helps, IsRequest, Eligible, Pairs
  <2>2. CASE \A p \in A : p[1] # r
    <3>1. A \in Helps(q, S \ {r})
      BY <2>2 DEF Helps
    <3>2. QED
      BY <1>1, <3>1 DEF Brought
  <2>3. CASE \E p \in A : p[1] = r
    <3>1. PICK p \in A : p[1] = r
      BY <2>3
    <3>2. PICK t, B : t = p[2] /\ B = A \ {p}
      OBVIOUS
    <3>3. p = <<r, t>> /\ t \in LockedTasks(q) /\ p \in q.eligible /\ A = B \cup {<<r, t>>}
      BY <2>1, <3>1, <3>2 DEF Helps
    <3>4. B \in Helps(q, S \ {r})
      <4>1. \A o \in B : o[1] # r
        BY <3>1, <3>2 DEF Helps
      <4>2. QED
        BY <3>2, <4>1 DEF Helps
    <3>5. Left(q, A) = Sending(q, r, Left(q, B), t) /\ Left(q, B) \in old
      BY <1>3, <3>3, <3>4 DEF Brought
    <3>6. CASE Left(q, B)[t] > 0
      <4>1. t \in open(Left(q, B))
        BY <1>2, <3>3, <3>4, <3>6
      <4>2. QED
        BY <1>1, <3>5, <4>1
    <3>7. CASE ~(Left(q, B)[t] > 0)
      <4>1. B \subseteq q.eligible
        BY <2>1, <3>2
      <4>2. Left(q, B)[t] \in Nat
        BY <3>3, <4>1, HelpIs
      <4>3. c \in Nat
        BY <3>3 DEF IsRequest, Eligible, Pairs
      <4>4. Lacking(0, c) = 0
        BY <4>3, LackingIs
      <4>5. Left(q, B)[t] = 0
        BY <3>7, <4>2
      <4>6. Sending(q, r, Left(q, B), t) = [Left(q, B) EXCEPT ![t] = 0]
        BY <4>4, <4>5 DEF Sending
      <4>7. Left(q, B) = [u \in LockedTasks(q) |-> Left(q, B)[u]]
        BY DEF Left
      <4>8. Sending(q, r, Left(q, B), t) = Left(q, B)
        BY <4>5, <4>6, <4>7
      <4>9. QED
        BY <1>1, <3>5, <4>8
    <3>8. QED
      BY <3>6, <3>7
  <2>4. QED
    BY <2>2, <2>3
<1>6. QED
  BY <1>4, <1>5 DEF Brought

\* So the deficits reached are those all free resources can bring about.
LEMMA ReachedAreBrought ==
    ASSUME NEW q, IsRequest(q), q.locks \subseteq q.eligible
    PROVE  ReachableDeficits(q) = Brought(q, FreeResources(q))
<1> DEFINE S == FreeResources(q)
           value(f, s) == IF s = {} THEN {Deficits(q)}
                          ELSE Helped(q, CHOOSE x \in s : TRUE, f[s \ {CHOOSE x \in s : TRUE}])
           fits(f) == f = [s \in SUBSET S |-> value(f, s)]
<1>1. ReachableDeficits(q) = (CHOOSE f : fits(f))[S]
  BY DEF ReachableDeficits, FoldSet, MapThenFoldSet
<1>2. IsFiniteSet(S)
  BY FS_Subset DEF FreeResources, IsRequest
<1> HIDE DEF S
<1>3. \A s \in SUBSET S :
         s # {} => Helped(q, CHOOSE x \in s : TRUE, Brought(q, s \ {CHOOSE x \in s : TRUE}))
                     = Brought(q, s)
  <2> SUFFICES ASSUME NEW s \in SUBSET S, s # {}
               PROVE  Helped(q, CHOOSE x \in s : TRUE, Brought(q, s \ {CHOOSE x \in s : TRUE}))
                        = Brought(q, s)
    OBVIOUS
  <2>1. PICK x : x = CHOOSE y \in s : TRUE
    OBVIOUS
  <2>2. x \in s
    BY <2>1
  <2>3. Helped(q, x, Brought(q, s \ {x})) = Brought(q, s)
    BY <2>2, HelpedBrings
  <2>4. QED
    BY <2>1, <2>3
<1>4. \E f : fits(f)
  <2>1. PICK f : f = [s \in SUBSET S |-> Brought(q, s)]
    OBVIOUS
  <2>2. ASSUME NEW s \in SUBSET S PROVE Brought(q, s) = value(f, s)
    <3>1. CASE s = {}
      BY <3>1, NothingBrought
    <3>2. CASE s # {}
      <4>1. f[s \ {CHOOSE x \in s : TRUE}] = Brought(q, s \ {CHOOSE x \in s : TRUE})
        BY <2>1
      <4>2. QED
        BY <1>3, <3>2, <4>1
    <3>3. QED
      BY <3>1, <3>2
  <2> HIDE DEF value
  <2>3. fits(f)
    BY <2>1, <2>2
  <2>4. QED
    BY <2>3
<1> HIDE DEF fits, value
<1>5. PICK f : f = (CHOOSE g : fits(g)) /\ fits(f)
  BY <1>4
<1>6. f[S] = Brought(q, S)
  <2> DEFINE Bad == {A \in SUBSET S : f[A] # Brought(q, A)}
  <2> SUFFICES ASSUME Bad # {} PROVE FALSE
    OBVIOUS
  <2>1. \A A \in Bad : IsFiniteSet(A)
    BY <1>2, FS_Subset
  <2>2. PICK A \in Bad : \A x \in A : A \ {x} \notin Bad
    <3> HIDE DEF Bad
    <3>1. QED
      BY <2>1, SmallestOf
  <2>3. PICK x : x = CHOOSE y \in A : TRUE
    OBVIOUS
  <2>4. f[A] = IF A = {} THEN {Deficits(q)} ELSE Helped(q, x, f[A \ {x}])
    <3>1. f[A] = value(f, A)
      BY <1>5 DEF fits
    <3>2. QED
      BY <2>3, <3>1 DEF value
  <2>5. A # {}
    BY <2>4, NothingBrought
  <2>6. x \in A
    BY <2>3, <2>5
  <2>7. f[A \ {x}] = Brought(q, A \ {x})
    BY <2>2, <2>6
  <2>8. Helped(q, x, Brought(q, A \ {x})) = Brought(q, A)
    BY <2>6, HelpedBrings
  <2>9. QED
    BY <2>4, <2>5, <2>7, <2>8
<1>7. QED
  BY <1>1, <1>5, <1>6 DEF S

\* Resources that serve a locked task in a plan are locked to it, or help.
LEMMA SupplyAdds ==
    ASSUME NEW q, IsRequest(q), q.locks \subseteq q.eligible, NEW t \in LockedTasks(q),
           NEW A \in Helps(q, FreeResources(q)), NEW pairs, pairs \subseteq q.eligible,
           \A r : <<r, t>> \in pairs <=> <<r, t>> \in q.locks \/ <<r, t>> \in A
    PROVE  CapacityOf(q, ServersOf(pairs, t)) = Supply(q, A, t)
<1>1. A \subseteq q.eligible /\ \A p \in A : p[1] \in FreeResources(q)
  BY DEF Helps
<1>2. PICK all, held, idle : /\ all = ServersOf(pairs, t) /\ held = ServersOf(q.locks, t)
                             /\ idle = ServersOf(A, t)
  OBVIOUS
<1>3. \A r : /\ r \in all <=> <<r, t>> \in pairs
             /\ r \in held <=> <<r, t>> \in q.locks
             /\ r \in idle <=> <<r, t>> \in A
  BY <1>1, <1>2, SentAreServers
<1>4. all \subseteq DOMAIN q.resources /\ held \subseteq DOMAIN q.resources
      /\ idle \subseteq DOMAIN q.resources
  BY <1>1, <1>2, SentAreServers
<1>5. all = held \cup idle
  BY <1>3
<1>6. held \cap idle = {}
  <2> SUFFICES ASSUME NEW r \in held, r \in idle PROVE FALSE
    OBVIOUS
  <2>1. <<r, t>> \in q.locks /\ <<r, t>> \in A /\ <<r, t>>[1] = r
    BY <1>3
  <2>2. QED
    BY <1>1, <2>1 DEF FreeResources
<1>7. /\ CapacityOf(q, all) = SumOf(CapacityIn(q), all)
      /\ CapacityOf(q, held) = SumOf(CapacityIn(q), held) /\ Weighs(CapacityIn(q), held)
      /\ CapacityOf(q, idle) = SumOf(CapacityIn(q), idle) /\ Weighs(CapacityIn(q), idle)
  BY <1>4, CapacityIs
<1>8. SumOf(CapacityIn(q), held \cup idle)
        = SumOf(CapacityIn(q), held) + SumOf(CapacityIn(q), idle)
  BY <1>6, <1>7, SumOfUnion
<1>9. QED
  BY <1>2, <1>5, <1>7, <1>8 DEF Supply

\* If nothing is left lacking, the locks and the help are a plan.
LEMMA HelpIsPlan ==
    ASSUME NEW q, IsRequest(q), LocksEligible(q), LocksCovered(q)
    PROVE  Plans(q) # {}
<1>1. q.locks \subseteq q.eligible /\ \A p, o \in q.locks : p[1] = o[1] => p = o
  BY DEF LocksEligible
<1>2. PICK A \in Helps(q, FreeResources(q)) : [t \in LockedTasks(q) |-> 0] = Left(q, A)
  BY <1>1, ReachedAreBrought DEF LocksCovered, Brought
<1>3. PICK pairs : pairs = q.locks \cup A
  OBVIOUS
<1>4. /\ A \subseteq q.eligible /\ \A p, o \in A : p[1] = o[1] => p = o
      /\ \A p \in A : p[1] \in FreeResources(q) /\ p[2] \in LockedTasks(q)
  BY DEF Helps
<1>5. pairs \subseteq q.eligible /\ q.locks \subseteq pairs
  BY <1>1, <1>3, <1>4
<1>6. \A p, o \in pairs : p[1] = o[1] => p = o
  <2>1. \A p \in q.locks, o \in A : p[1] # o[1]
    BY <1>4 DEF FreeResources
  <2>2. QED
    BY <1>1, <1>3, <1>4, <2>1
<1>7. ASSUME NEW p \in pairs
      PROVE  CapacityOf(q, ServersOf(pairs, p[2])) >= q.tasks[p[2]].need
  <2>1. PICK t : t = p[2]
    OBVIOUS
  <2>2. t \in LockedTasks(q)
    BY <1>3, <1>4, <2>1 DEF LockedTasks
  <2>3. \A r : <<r, t>> \in pairs <=> <<r, t>> \in q.locks \/ <<r, t>> \in A
    BY <1>3
  <2>4. CapacityOf(q, ServersOf(pairs, t)) = Supply(q, A, t)
    BY <1>1, <1>5, <2>2, <2>3, SupplyAdds
  <2>5. Left(q, A)[t] = 0
    <3>1. [u \in LockedTasks(q) |-> 0][t] = 0
      BY <2>2
    <3>2. QED
      BY <1>2, <3>1
  <2>6. PICK need, supply : need = q.tasks[t].need /\ supply = Supply(q, A, t)
    OBVIOUS
  <2>7. /\ need \in Nat /\ supply \in Nat
        /\ Left(q, A)[t] = IF need <= supply THEN 0 ELSE need - supply
    BY <1>1, <1>4, <2>2, <2>6, HelpIs
  <2>8. supply >= need
    BY <2>5, <2>7
  <2>9. QED
    BY <2>1, <2>4, <2>6, <2>8
<1>8. IsPlan(q, pairs)
  BY <1>5, <1>6, <1>7 DEF IsPlan
<1>9. QED
  BY <1>5, <1>8 DEF Plans

\* And a plan's own resources leave nothing lacking.
LEMMA PlanIsHelp ==
    ASSUME NEW q, IsRequest(q), NEW pairs \in Plans(q)
    PROVE  LocksEligible(q) /\ LocksCovered(q)
<1>1. pairs \subseteq q.eligible /\ IsPlan(q, pairs)
  BY DEF Plans
<1>2. q.locks \subseteq pairs /\ \A p, o \in pairs : p[1] = o[1] => p = o
  BY <1>1 DEF IsPlan
<1>3. LocksEligible(q)
  BY <1>1, <1>2 DEF LocksEligible
<1>4. q.locks \subseteq q.eligible
  BY <1>1, <1>2
<1>5. PICK A : A = {p \in pairs : p[1] \in FreeResources(q) /\ p[2] \in LockedTasks(q)}
  OBVIOUS
<1>6. A \in Helps(q, FreeResources(q)) /\ A \subseteq q.eligible
  BY <1>1, <1>2, <1>5 DEF Helps
<1>7. ASSUME NEW t \in LockedTasks(q)
      PROVE  /\ Left(q, A)[t] = 0
             /\ Deficits(q)[t] <= CapacityOf(q, FreeResources(q) \cap ServersOf(q.eligible, t))
  <2>1. \A r : <<r, t>> \in pairs <=> <<r, t>> \in q.locks \/ <<r, t>> \in A
    <3> SUFFICES ASSUME NEW r PROVE <<r, t>> \in pairs <=> <<r, t>> \in q.locks \/ <<r, t>> \in A
      OBVIOUS
    <3>1. PICK p : p = <<r, t>>
      OBVIOUS
    <3>2. p[1] = r /\ p[2] = t
      BY <3>1
    <3>3. ASSUME p \in pairs, p \notin q.locks PROVE p \in A
      <4>1. r \in DOMAIN q.resources
        BY <1>1, <3>2, <3>3 DEF IsRequest, Eligible, Pairs
      <4>2. \A o \in q.locks : o[1] # r
        BY <1>2, <3>2, <3>3
      <4>3. r \in FreeResources(q)
        BY <4>1, <4>2 DEF FreeResources
      <4>4. QED
        BY <1>5, <3>2, <3>3, <4>3
    <3>4. QED
      BY <1>2, <1>5, <3>1, <3>3
  <2>2. CapacityOf(q, ServersOf(pairs, t)) = Supply(q, A, t)
    BY <1>1, <1>4, <1>6, <2>1, SupplyAdds
  <2>3. PICK p \in q.locks : p[2] = t
    BY DEF LockedTasks
  <2>4. CapacityOf(q, ServersOf(pairs, t)) >= q.tasks[t].need
    BY <1>1, <1>2, <2>3 DEF IsPlan
  <2>5. PICK need, supply, held, help : /\ need = q.tasks[t].need /\ supply = Supply(q, A, t)
                                        /\ held = CapacityOf(q, ServersOf(q.locks, t))
                                        /\ help = CapacityOf(q, ServersOf(A, t))
    OBVIOUS
  <2>6. /\ need \in Nat /\ supply \in Nat /\ held \in Nat /\ help \in Nat
        /\ Left(q, A)[t] = IF need <= supply THEN 0 ELSE need - supply
    BY <1>4, <1>6, <2>5, HelpIs
  <2>7. need <= supply /\ supply = held + help
    BY <2>2, <2>4, <2>5, <2>6 DEF Supply
  <2>8. Deficits(q)[t] = IF need <= held THEN 0 ELSE need - held
    BY <2>5, <2>6, LackingIs DEF Deficits
  <2>9. Deficits(q)[t] <= help
    BY <2>6, <2>7, <2>8
  <2>10. PICK some : some = FreeResources(q) \cap ServersOf(q.eligible, t)
    OBVIOUS
  <2>11. ServersOf(A, t) \subseteq some /\ some \subseteq DOMAIN q.resources
    <3>1. ServersOf(A, t) \subseteq ServersOf(q.eligible, t)
      BY <1>6, SentAreServers
    <3>2. \A r \in ServersOf(A, t) : r \in FreeResources(q)
      BY <1>5 DEF ServersOf
    <3>3. some \subseteq DOMAIN q.resources
      BY <2>10 DEF FreeResources
    <3>4. QED
      BY <2>10, <3>1, <3>2, <3>3
  <2>12. CapacityOf(q, some) \in Nat /\ help <= CapacityOf(q, some)
    BY <2>5, <2>11, CapacityGrows
  <2>13. Deficits(q)[t] \in Nat
    BY <2>6, <2>8
  <2>14. QED
    BY <2>6, <2>7, <2>9, <2>10, <2>12, <2>13
<1>8. Left(q, A) = [t \in LockedTasks(q) |-> 0]
  BY <1>7 DEF Left
<1>9. [t \in LockedTasks(q) |-> 0] \in ReachableDeficits(q)
  BY <1>4, <1>6, <1>8, ReachedAreBrought DEF Brought
<1>10. QED
  BY <1>3, <1>7, <1>9 DEF LocksCovered

\* So locks are refused exactly when no plan honours them.
LEMMA LocksAreHeard == PInv /\ RunsInv => LocksHeard
<1> SUFFICES ASSUME PInv, RunsInv, Previewed, InRange(SandboxRequest(preview.controls))
             PROVE  preview.answer.status = "refused"
                      <=> Plans(SandboxRequest(preview.controls)) = {}
  BY DEF LocksHeard
<1>1. PICK k, q : k = preview.controls /\ q = SandboxRequest(k)
  OBVIOUS
<1>2. q = SandboxIn(definition, k) /\ AllowedIn(definition, k) /\ preview # NoPreview
  BY <1>1, SameRequests DEF Previewed
<1>3. /\ k \in Controls
      /\ preview.answer.status = "refused" <=> ~Accepted(q)
  BY <1>1, <1>2 DEF RunsInv, PreviewFits
<1>4. IsTown(SandboxTown(definition, k))
  BY <1>2, <1>3, SandboxTownIs DEF PInv
<1>5. IsRequest(q)
  BY <1>2, <1>4, RequestIs DEF SandboxIn
<1>6. Accepted(q) <=> LocksEligible(q) /\ LocksCovered(q)
  BY <1>1 DEF Accepted
<1>7. Plans(q) # {} <=> LocksEligible(q) /\ LocksCovered(q)
  BY <1>5, HelpIsPlan, PlanIsHelp
<1>8. QED
  BY <1>1, <1>3, <1>6, <1>7

\* The validation of a request lets through what the solver can answer: locks
\* some plan honours, and no sum its integers cannot hold (validate_request).
THEOREM ValidationIsSound == Spec => []ValidationSound
<1>1. PInv /\ RunsInv => ValidationSound
  BY LocksAreHeard, ReportedFits DEF ValidationSound
<1>2. QED
  BY <1>1, RunsAlways, PTL

-----------------------------------------------------------------------------
(* Live planning implements Dispatch.                                      *)

UnitsKnown == UNION {DOMAIN pinned.units : pinned \in Range(Snapshots)}

\* A sequence, of whatever.
IsSeq(f) == \E S : f \in Seq(S)

\* What a version holds is the first version's or was asked for.
Parts == {o[part] : o \in Overlays \cup {NoOverlay}, part \in DOMAIN NoOverlay}

LiveVersion == [DOMAIN NoOverlay -> Parts]

LiveScenario == [pinned : 1 .. Len(Snapshots), versions : Seq(LiveVersion)]

\* Versions plan with units that some snapshot knows; a recommendation names a
\* version that there is.
LiveInv ==
    /\ snapshot \in 0 .. Len(Snapshots)
    /\ scenarios \in Seq(LiveScenario)
    /\ \A s \in DOMAIN scenarios :
          /\ scenarios[s].versions # <<>>
          /\ \A v \in DOMAIN scenarios[s].versions :
                DOMAIN scenarios[s].versions[v].units \subseteq UnitsKnown
    /\ IsSeq(recommendations)
    /\ \A i \in DOMAIN recommendations :
          /\ recommendations[i].scenario \in DOMAIN scenarios
          /\ recommendations[i].version \in DOMAIN scenarios[recommendations[i].scenario].versions
    /\ IsSeq(decisions)

\* The three tables, seen through the units.
ScenariosSeen ==
    [s \in DOMAIN scenarios |->
        [ pinned |-> scenarios[s].pinned,
          overlays |-> [v \in DOMAIN scenarios[s].versions |->
                           Withdrawn(scenarios[s].versions[v])] ]]

RecommendationSeen(rec) ==
    [ scenario |-> rec.scenario, version |-> rec.version,
      snapshot |-> scenarios[rec.scenario].pinned, release |-> "deployed",
      solved |-> Solved(rec.answer), proposed |-> Sent(rec.answer.pairs) ]

RecommendationsSeen ==
    [i \in DOMAIN recommendations |-> RecommendationSeen(recommendations[i])]

DecisionSeen(d) ==
    [recommendation |-> d.recommendation, action |-> d.action, assigned |-> Sent(d.pairs)]

DecisionsSeen == [d \in DOMAIN decisions |-> DecisionSeen(decisions[d])]

\* A function on the first numbers is a sequence.
LEMMA SequenceIs ==
    ASSUME NEW m \in Nat, NEW T, NEW f, f = [i \in 1 .. m |-> f[i]], \A i \in 1 .. m : f[i] \in T
    PROVE  f \in Seq(T) /\ Len(f) = m /\ DOMAIN f = 1 .. m
<1>1. DOMAIN f = 1 .. m
  OBVIOUS
<1>2. [i \in 1 .. m |-> f[i]] \in Seq(T)
  OBVIOUS
<1>3. QED
  BY <1>1, <1>2

\* A function on the first numbers.
Listed(f, m) == f = [i \in 1 .. m |-> f[i]]

\* A sequence that agrees with another and goes on by one element.
LEMMA AppendIs ==
    ASSUME NEW n \in Nat, NEW b, NEW c, NEW a,
           Listed(b, n), Listed(c, n + 1), c[n + 1] = a, \A i \in 1 .. n : c[i] = b[i]
    PROVE  Len(b) = n /\ c = Append(b, a)
<1> DEFINE T == {b[i] : i \in 1 .. n} \cup {a}
           m == n + 1
<1>1. b \in Seq(T) /\ Len(b) = n /\ a \in T
  BY DEF Listed
<1>2. m \in Nat /\ \A i \in 1 .. m : i = m \/ (i \in 1 .. n /\ i # m)
  OBVIOUS
<1> HIDE DEF T
<1>3. \A i \in 1 .. m : c[i] \in T
  <2>1. \A i \in 1 .. n : b[i] \in T
    BY DEF T
  <2>2. QED
    BY <1>1, <1>2, <2>1
<1>4. c \in Seq(T) /\ Len(c) = m
  <2>1. c = [i \in 1 .. m |-> c[i]]
    BY DEF Listed
  <2> HIDE DEF m
  <2>2. QED
    BY <1>2, <1>3, <2>1, SequenceIs
<1> DEFINE d == Append(b, a)
<1>5. d \in Seq(T) /\ Len(d) = m /\ d[m] = a /\ \A i \in 1 .. n : d[i] = b[i]
  BY <1>1
<1> HIDE DEF d
<1>6. \A i \in 1 .. m : c[i] = d[i]
  BY <1>2, <1>5
<1>7. c = d
  <2> HIDE DEF m
  <2>1. QED
    BY <1>4, <1>5, <1>6, SeqEqual
<1>8. QED
  BY <1>1, <1>7 DEF d

\* The scenarios seen are as many, with as many versions.
LEMMA SeenScenarios ==
    ASSUME LiveInv
    PROVE  /\ Len(scenarios) \in Nat /\ DOMAIN scenarios = 1 .. Len(scenarios)
           /\ DOMAIN ScenariosSeen = 1 .. Len(scenarios) /\ Len(ScenariosSeen) = Len(scenarios)
           /\ \A s \in DOMAIN scenarios :
                 /\ ScenariosSeen[s].pinned = scenarios[s].pinned
                 /\ scenarios[s].pinned \in 1 .. Len(Snapshots)
                 /\ scenarios[s].versions \in Seq(LiveVersion)
                 /\ Len(scenarios[s].versions) \in Nat \ {0}
                 /\ DOMAIN scenarios[s].versions = 1 .. Len(scenarios[s].versions)
                 /\ Len(ScenariosSeen[s].overlays) = Len(scenarios[s].versions)
                 /\ DOMAIN ScenariosSeen[s].overlays = DOMAIN scenarios[s].versions
                 /\ \A v \in DOMAIN scenarios[s].versions :
                       ScenariosSeen[s].overlays[v] = Withdrawn(scenarios[s].versions[v])
<1>1. scenarios \in Seq(LiveScenario)
  BY DEF LiveInv
<1> DEFINE n == Len(scenarios)
<1>2. n \in Nat /\ DOMAIN scenarios = 1 .. n
  BY <1>1
<1>3. ScenariosSeen = [s \in 1 .. n |-> ScenariosSeen[s]]
  BY <1>2 DEF ScenariosSeen
<1>4. DOMAIN ScenariosSeen = 1 .. n /\ Len(ScenariosSeen) = n
  <2> HIDE DEF n
  <2>1. ScenariosSeen \in Seq({ScenariosSeen[s] : s \in 1 .. n})
    BY <1>2, <1>3
  <2>2. QED
    BY <1>2, <1>3, <2>1
<1>5. ASSUME NEW s \in DOMAIN scenarios
      PROVE  /\ ScenariosSeen[s].pinned = scenarios[s].pinned
             /\ scenarios[s].pinned \in 1 .. Len(Snapshots)
             /\ scenarios[s].versions \in Seq(LiveVersion)
             /\ Len(scenarios[s].versions) \in Nat \ {0}
             /\ DOMAIN scenarios[s].versions = 1 .. Len(scenarios[s].versions)
             /\ Len(ScenariosSeen[s].overlays) = Len(scenarios[s].versions)
             /\ DOMAIN ScenariosSeen[s].overlays = DOMAIN scenarios[s].versions
             /\ \A v \in DOMAIN scenarios[s].versions :
                   ScenariosSeen[s].overlays[v] = Withdrawn(scenarios[s].versions[v])
  <2>1. scenarios[s] \in LiveScenario
    BY <1>1, <1>2, <1>5
  <2>2. scenarios[s].pinned \in 1 .. Len(Snapshots) /\ scenarios[s].versions \in Seq(LiveVersion)
    BY <2>1 DEF LiveScenario
  <2>3. scenarios[s].versions # <<>>
    BY <1>5 DEF LiveInv
  <2> DEFINE f == scenarios[s].versions
             k == Len(f)
             o == [v \in DOMAIN f |-> Withdrawn(f[v])]
  <2>4. ScenariosSeen[s].pinned = scenarios[s].pinned /\ ScenariosSeen[s].overlays = o
    BY <1>5 DEF ScenariosSeen
  <2> HIDE DEF f
  <2>5. k \in Nat \ {0} /\ DOMAIN f = 1 .. k
    BY <2>2, <2>3 DEF f
  <2> HIDE DEF k
  <2>6. o \in Seq({o[v] : v \in 1 .. k}) /\ Len(o) = k /\ DOMAIN o = 1 .. k
    BY <2>5
  <2>7. \A v \in DOMAIN f : o[v] = Withdrawn(f[v])
    OBVIOUS
  <2> HIDE DEF o
  <2>8. QED
    BY <2>2, <2>4, <2>5, <2>6, <2>7 DEF f, k
<1>6. QED
  BY <1>2, <1>4, <1>5

\* The initial states of Dispatch, on the tables seen.
LEMMA InitIs ==
    ASSUME snapshot = 0, ScenariosSeen = <<>>, RecommendationsSeen = <<>>, DecisionsSeen = <<>>
    PROVE  AsDispatch!Init
BY DEF AsDispatch!Init, ScenariosSeen, RecommendationsSeen, RecommendationSeen,
   DecisionsSeen, DecisionSeen

\* Refresh, on the tables seen.
LEMMA RefreshIs ==
    ASSUME snapshot < Len(Snapshots), snapshot' = snapshot + 1,
           UNCHANGED <<ScenariosSeen, RecommendationsSeen, DecisionsSeen>>
    PROVE  AsDispatch!Refresh
BY DEF AsDispatch!Refresh, ScenariosSeen, RecommendationsSeen, RecommendationSeen,
   DecisionsSeen, DecisionSeen

\* CreateScenario, on the tables seen.
LEMMA CreateIs ==
    ASSUME snapshot > 0, Len(ScenariosSeen) < MaxScenarios,
           ScenariosSeen' = Append(ScenariosSeen, [pinned |-> snapshot, overlays |-> <<{}>>]),
           UNCHANGED <<snapshot, RecommendationsSeen, DecisionsSeen>>
    PROVE  AsDispatch!CreateScenario
BY DEF AsDispatch!CreateScenario, ScenariosSeen, RecommendationsSeen, RecommendationSeen,
   DecisionsSeen, DecisionSeen

\* AddVersion, on the tables seen.
LEMMA AddIs ==
    ASSUME NEW s, NEW overlay, Len(ScenariosSeen[s].overlays) < MaxVersions,
           ScenariosSeen' = [ScenariosSeen EXCEPT ![s].overlays =
                                Append(ScenariosSeen[s].overlays, overlay)],
           UNCHANGED <<snapshot, RecommendationsSeen, DecisionsSeen>>
    PROVE  AsDispatch!AddVersion(s, overlay)
BY DEF AsDispatch!AddVersion, ScenariosSeen, RecommendationsSeen, RecommendationSeen,
   DecisionsSeen, DecisionSeen

\* Recommend, on the tables seen.
LEMMA RecommendIs ==
    ASSUME NEW s, NEW v, NEW plan, Len(RecommendationsSeen) < MaxRecommendations,
           v = Len(ScenariosSeen[s].overlays), ScenariosSeen[s].pinned = snapshot,
           RecommendationsSeen' = Append(RecommendationsSeen,
             [ scenario |-> s, version |-> v, snapshot |-> ScenariosSeen[s].pinned,
               release |-> "deployed", solved |-> plan.solved, proposed |-> plan.proposed ]),
           UNCHANGED <<snapshot, ScenariosSeen, DecisionsSeen>>
    PROVE  AsDispatch!Recommend(s, v, plan)
BY DEF AsDispatch!Recommend, AsDispatch!CurrentVersion, ScenariosSeen,
   RecommendationsSeen, RecommendationSeen, DecisionsSeen, DecisionSeen

\* A decision of Dispatch, on the tables seen.
LEMMA DispatchDecides ==
    ASSUME NEW i, NEW action, NEW assigned,
           \A d \in 1 .. Len(DecisionsSeen) : DecisionsSeen[d].recommendation # i,
           action # "reject" =>
              LET rec == RecommendationsSeen[i] IN
              /\ rec.version = Len(ScenariosSeen[rec.scenario].overlays)
              /\ ScenariosSeen[rec.scenario].pinned = snapshot
              /\ rec.snapshot = snapshot /\ rec.release = "deployed" /\ rec.solved,
           \A d \in 1 .. Len(DecisionsSeen) : assigned \cap DecisionsSeen[d].assigned = {},
           DecisionsSeen' = Append(DecisionsSeen,
              [recommendation |-> i, action |-> action, assigned |-> assigned]),
           UNCHANGED <<snapshot, ScenariosSeen, RecommendationsSeen>>
    PROVE  AsDispatch!Decide(i, action, assigned)
<1>1. ~AsDispatch!Decided(i)
  BY DEF AsDispatch!Decided, DecisionsSeen, DecisionSeen
<1>2. assigned \cap AsDispatch!Dispatched = {}
  <2>1. AsDispatch!Dispatched = UNION {DecisionsSeen[d].assigned : d \in 1 .. Len(DecisionsSeen)}
    BY DEF AsDispatch!Dispatched, DecisionsSeen, DecisionSeen
  <2>2. QED
    BY <2>1
<1>3. action # "reject" =>
          AsDispatch!Current(RecommendationsSeen[i]) /\ RecommendationsSeen[i].solved
  BY DEF AsDispatch!Current, AsDispatch!CurrentVersion, ScenariosSeen
<1>4. QED
  BY <1>1, <1>2, <1>3 DEF AsDispatch!Decide, ScenariosSeen, RecommendationsSeen,
     RecommendationSeen, DecisionsSeen, DecisionSeen

\* A step of Dispatch adds a version that plans with known units.
LEMMA AddIsStep ==
    ASSUME NEW s \in 1 .. Len(ScenariosSeen), NEW overlay \in SUBSET UnitsKnown,
           AsDispatch!AddVersion(s, overlay)
    PROVE  AsDispatch!Next
BY DEF AsDispatch!Next, UnitsKnown, ScenariosSeen

\* A step of Dispatch recommends nothing, unsolved, or known units its version has.
LEMMA RecommendIsStep ==
    ASSUME NEW s \in 1 .. Len(ScenariosSeen), NEW v \in 1 .. Len(ScenariosSeen[s].overlays),
           NEW solved, NEW proposed,
           \/ solved = FALSE /\ proposed = {}
           \/ solved = TRUE /\ proposed \subseteq UnitsKnown \ ScenariosSeen[s].overlays[v],
           AsDispatch!Recommend(s, v, [solved |-> solved, proposed |-> proposed])
    PROVE  AsDispatch!Next
<1> DEFINE plan == [solved |-> solved, proposed |-> proposed]
<1>1. AsDispatch!Available(s, v) = UnitsKnown \ ScenariosSeen[s].overlays[v]
  BY DEF AsDispatch!Available, UnitsKnown, ScenariosSeen
<1>2. plan \in AsDispatch!Proposals(s, v)
  BY <1>1 DEF AsDispatch!Proposals
<1>3. AsDispatch!Recommend(s, v, plan)
  OBVIOUS
<1> HIDE DEF plan
<1>4. QED
  BY <1>2, <1>3 DEF AsDispatch!Next, ScenariosSeen

\* A step of Dispatch sends nobody, who was proposed, or known units the version has.
LEMMA DecideIsStep ==
    ASSUME NEW i \in 1 .. Len(RecommendationsSeen), NEW action, NEW assigned,
           NEW s, NEW v, s = RecommendationsSeen[i].scenario, v = RecommendationsSeen[i].version,
           \/ action = "reject" /\ assigned = {}
           \/ action = "approve" /\ assigned = RecommendationsSeen[i].proposed
           \/ /\ action = "edit" /\ assigned # {}
              /\ assigned \subseteq UnitsKnown \ ScenariosSeen[s].overlays[v],
           AsDispatch!Decide(i, action, assigned)
    PROVE  AsDispatch!Next
<1>1. AsDispatch!Available(s, v) = UnitsKnown \ ScenariosSeen[s].overlays[v]
  BY DEF AsDispatch!Available, UnitsKnown, ScenariosSeen
<1>2. action \in AsDispatch!Actions
  BY DEF AsDispatch!Actions
<1>3. assigned \in AsDispatch!Assignable(RecommendationsSeen[i], action)
  BY <1>1 DEF AsDispatch!Assignable
<1>4. QED
  BY <1>2, <1>3 DEF AsDispatch!Next, RecommendationsSeen, RecommendationSeen

\* Units of a snapshot are known.
LEMMA PinnedUnitsKnown ==
    ASSUME LiveInv, NEW s \in DOMAIN scenarios
    PROVE  /\ Pinned(s) \in Range(Snapshots)
           /\ DOMAIN Pinned(s).units \subseteq UnitsKnown
           /\ \A r \in DOMAIN Pinned(s).units : "available" \in DOMAIN Pinned(s).units[r]
<1>1. scenarios[s].pinned \in 1 .. Len(Snapshots)
  BY SeenScenarios
<1>2. Snapshots \in Seq(Range(Snapshots))
  BY LiveAssumption
<1>3. Pinned(s) \in Range(Snapshots)
  BY <1>1, <1>2 DEF Pinned
<1>4. QED
  BY <1>3, LiveAssumption DEF UnitsKnown, IsSnapshot

\* A sequence that goes on by one element.
LEMMA SeqAppend ==
    ASSUME NEW T, NEW f \in Seq(T), NEW a \in T, NEW g, g = Append(f, a), NEW n, n = Len(f)
    PROVE  /\ n \in Nat /\ DOMAIN f = 1 .. n
           /\ g \in Seq(T) /\ g # <<>> /\ Len(g) = n + 1 /\ DOMAIN g = 1 .. n + 1
           /\ g[n + 1] = a
           /\ \A i \in DOMAIN f : i \in DOMAIN g /\ g[i] = f[i]
           /\ \A i \in DOMAIN g : i = n + 1 \/ i \in DOMAIN f
OBVIOUS

\* The same, whatever the elements are.
LEMMA SomeAppend ==
    ASSUME NEW f, IsSeq(f), NEW a, NEW g, g = Append(f, a), NEW n, n = Len(f)
    PROVE  /\ IsSeq(g)
           /\ n \in Nat /\ DOMAIN f = 1 .. n /\ Len(g) = n + 1 /\ DOMAIN g = 1 .. n + 1
           /\ g[n + 1] = a
           /\ \A i \in DOMAIN f : i \in DOMAIN g /\ g[i] = f[i]
           /\ \A i \in DOMAIN g : i = n + 1 \/ i \in DOMAIN f
<1>1. PICK S : f \in Seq(S)
  BY DEF IsSeq
<1> DEFINE T == S \cup {a}
<1>2. f \in Seq(T)
  <2>1. \A i \in 1 .. Len(f) : f[i] \in S
    BY <1>1
  <2>2. QED
    BY <1>1, <2>1
<1>3. a \in T
  OBVIOUS
<1> HIDE DEF T
<1>4. QED
  BY <1>2, <1>3, SeqAppend DEF IsSeq

\* There is nothing at the start.
LEMMA LiveInitially == LiveInit => LiveInv
<1> SUFFICES ASSUME LiveInit PROVE LiveInv
  OBVIOUS
<1>1. scenarios = <<>> /\ recommendations = <<>> /\ decisions = <<>> /\ snapshot = 0
  BY DEF LiveInit
<1>2. Len(Snapshots) \in Nat
  BY LiveAssumption
<1>3. recommendations \in Seq({}) /\ decisions \in Seq({}) /\ scenarios \in Seq(LiveScenario)
  BY <1>1
<1>4. DOMAIN scenarios = {} /\ DOMAIN recommendations = {}
  BY <1>1
<1>5. QED
  BY <1>1, <1>2, <1>3, <1>4 DEF LiveInv, IsSeq

\* What a new version leaves.
LEMMA AfterAddVersion ==
    ASSUME LiveInv, NEW s \in DOMAIN scenarios, NEW overlay \in Overlays, AddVersion(s, overlay),
           NEW version, version = Effective(Last(scenarios[s].versions), overlay)
    PROVE  /\ version \in LiveVersion /\ DOMAIN version.units \subseteq UnitsKnown
           /\ Len(scenarios[s].versions) < MaxVersions
           /\ scenarios' \in Seq(LiveScenario) /\ DOMAIN scenarios' = DOMAIN scenarios
           /\ scenarios'[s].pinned = scenarios[s].pinned
           /\ scenarios'[s].versions = Append(scenarios[s].versions, version)
           /\ \A z \in DOMAIN scenarios : z # s => scenarios'[z] = scenarios[z]
           /\ UNCHANGED <<snapshot, recommendations, decisions>>
<1> DEFINE f == scenarios[s].versions
<1>1. /\ Known(s, version) /\ Len(f) < MaxVersions
      /\ scenarios' = [scenarios EXCEPT ![s].versions = Append(@, version)]
      /\ UNCHANGED <<snapshot, recommendations, decisions>>
  BY DEF AddVersion
<1>2. f \in Seq(LiveVersion) /\ Len(f) \in Nat \ {0} /\ scenarios[s].pinned \in 1 .. Len(Snapshots)
  BY SeenScenarios
<1>3. DOMAIN version.units \subseteq UnitsKnown
  BY <1>1, PinnedUnitsKnown DEF Known
<1>4. version \in LiveVersion
  <2> DEFINE last == Last(f)
  <2>1. last \in [DOMAIN NoOverlay -> Parts]
    BY <1>2 DEF Last, LiveVersion
  <2>2. version = [part \in DOMAIN last |-> IF overlay[part] = Keep THEN last[part]
                                            ELSE overlay[part]]
    BY DEF Effective
  <2> HIDE DEF last
  <2>3. \A part \in DOMAIN NoOverlay : overlay[part] \in Parts
    BY DEF Parts
  <2>4. QED
    BY <2>1, <2>2, <2>3 DEF LiveVersion
<1> DEFINE u == [scenarios[s] EXCEPT !.versions = Append(f, version)]
<1>5. scenarios \in Seq(LiveScenario) /\ scenarios[s] \in LiveScenario
  BY DEF LiveInv
<1>6. u \in LiveScenario /\ u.pinned = scenarios[s].pinned /\ u.versions = Append(f, version)
  <2>1. Append(f, version) \in Seq(LiveVersion)
    BY <1>2, <1>4
  <2>2. QED
    BY <1>2, <1>5, <2>1 DEF LiveScenario
<1>7. scenarios' = [scenarios EXCEPT ![s] = u]
  BY <1>1
<1> HIDE DEF u
<1>8. scenarios' \in Seq(LiveScenario) /\ DOMAIN scenarios' = DOMAIN scenarios /\ scenarios'[s] = u
  BY <1>5, <1>6, <1>7
<1>9. QED
  BY <1>1, <1>3, <1>4, <1>6, <1>7, <1>8

\* LiveInv survives every operation.
LEMMA LiveInvStep == LiveInv /\ [LiveNext]_liveVars => LiveInv'
<1> SUFFICES ASSUME LiveInv, [LiveNext]_liveVars PROVE LiveInv'
  OBVIOUS
<1> USE DEF LiveInv
<1>1. CASE Refresh
  <2>1. snapshot' \in 0 .. Len(Snapshots)
    BY <1>1, LiveAssumption DEF Refresh
  <2>2. UNCHANGED <<scenarios, recommendations, decisions>>
    BY <1>1 DEF Refresh
  <2>3. QED
    BY <2>1, <2>2
<1>2. CASE CreateScenario
  <2> DEFINE new == [pinned |-> snapshot, versions |-> <<NoOverlay>>]
             n == Len(scenarios)
  <2>1. /\ scenarios' = Append(scenarios, new) /\ snapshot > 0
        /\ UNCHANGED <<snapshot, recommendations, decisions>>
    BY <1>2 DEF CreateScenario
  <2>2. NoOverlay \in LiveVersion /\ DOMAIN NoOverlay.units = {}
    <3>1. NoOverlay \in [DOMAIN NoOverlay -> Parts]
      BY DEF NoOverlay, Parts
    <3>2. QED
      BY <3>1 DEF LiveVersion, NoOverlay
  <2>3. /\ <<NoOverlay>> \in Seq(LiveVersion) /\ <<NoOverlay>> # <<>>
        /\ DOMAIN <<NoOverlay>> = {1} /\ <<NoOverlay>>[1] = NoOverlay
    BY <2>2
  <2>4. new \in LiveScenario /\ new.versions = <<NoOverlay>>
    BY <2>1, <2>3, LiveAssumption DEF LiveScenario
  <2> HIDE DEF new
  <2>5. n \in Nat /\ DOMAIN scenarios = 1 .. n
    OBVIOUS
  <2>6. /\ scenarios' \in Seq(LiveScenario) /\ DOMAIN scenarios' = 1 .. n + 1
        /\ scenarios'[n + 1] = new /\ \A s \in 1 .. n : scenarios'[s] = scenarios[s]
    BY <2>1, <2>4
  <2> HIDE DEF n
  <2>7. \A s \in DOMAIN scenarios' : s = n + 1 \/ s \in 1 .. n
    BY <2>5, <2>6
  <2>8. ASSUME NEW s \in DOMAIN scenarios'
        PROVE  /\ scenarios'[s].versions # <<>>
               /\ \A v \in DOMAIN scenarios'[s].versions :
                     DOMAIN scenarios'[s].versions[v].units \subseteq UnitsKnown
    <3>1. CASE s = n + 1
      <4>1. scenarios'[s].versions = <<NoOverlay>>
        BY <2>4, <2>6, <3>1
      <4>2. QED
        BY <2>2, <2>3, <4>1
    <3>2. CASE s \in 1 .. n
      BY <2>5, <2>6, <3>2
    <3>3. QED
      BY <2>7, <3>1, <3>2
  <2>9. \A s \in DOMAIN scenarios : s \in DOMAIN scenarios' /\ scenarios'[s] = scenarios[s]
    BY <2>5, <2>6
  <2>10. QED
    BY <2>1, <2>6, <2>8, <2>9
<1>3. ASSUME NEW s \in DOMAIN scenarios, NEW overlay \in Overlays, AddVersion(s, overlay)
      PROVE  LiveInv'
  <2> DEFINE version == Effective(Last(scenarios[s].versions), overlay)
             f == scenarios[s].versions
  <2>1. version = Effective(Last(scenarios[s].versions), overlay)
    OBVIOUS
  <2> HIDE DEF version
  <2>2. /\ version \in LiveVersion /\ DOMAIN version.units \subseteq UnitsKnown
        /\ scenarios' \in Seq(LiveScenario) /\ DOMAIN scenarios' = DOMAIN scenarios
        /\ scenarios'[s].versions = Append(f, version)
        /\ \A z \in DOMAIN scenarios : z # s => scenarios'[z] = scenarios[z]
        /\ UNCHANGED <<snapshot, recommendations, decisions>>
    BY <1>3, <2>1, AfterAddVersion
  <2>3. f \in Seq(LiveVersion) /\ Len(f) \in Nat \ {0} /\ DOMAIN f = 1 .. Len(f)
    BY SeenScenarios
  <2>4. \A v \in DOMAIN f : DOMAIN f[v].units \subseteq UnitsKnown
    OBVIOUS
  <2> HIDE DEF f
  <2> DEFINE g == Append(f, version)
  <2> DEFINE k == Len(f)
  <2>5. /\ g # <<>> /\ DOMAIN f \subseteq DOMAIN g
        /\ \A v \in DOMAIN g : g[v] = version \/ (v \in DOMAIN f /\ g[v] = f[v])
    <3>1. version \in LiveVersion /\ f \in Seq(LiveVersion) /\ g = Append(f, version) /\ k = Len(f)
      BY <2>2, <2>3
    <3> HIDE DEF g, k
    <3>2. /\ g # <<>> /\ g[k + 1] = version
          /\ \A i \in DOMAIN f : i \in DOMAIN g /\ g[i] = f[i]
          /\ \A i \in DOMAIN g : i = k + 1 \/ i \in DOMAIN f
      BY <3>1, SeqAppend
    <3>3. QED
      BY <3>2
  <2>6. scenarios'[s].versions = g
    BY <2>2
  <2> HIDE DEF g
  <2>7. \A v \in DOMAIN g : DOMAIN g[v].units \subseteq UnitsKnown
    BY <2>2, <2>4, <2>5
  <2>8. ASSUME NEW z \in DOMAIN scenarios
        PROVE  /\ scenarios'[z].versions # <<>>
               /\ DOMAIN scenarios[z].versions \subseteq DOMAIN scenarios'[z].versions
               /\ \A v \in DOMAIN scenarios'[z].versions :
                     DOMAIN scenarios'[z].versions[v].units \subseteq UnitsKnown
    <3>1. CASE z = s
      BY <2>5, <2>6, <2>7, <3>1 DEF f
    <3>2. CASE z # s
      BY <2>2, <3>2
    <3>3. QED
      BY <3>1, <3>2
  <2>9. QED
    BY <2>2, <2>8
<1>4. ASSUME NEW s \in DOMAIN scenarios, NEW limit \in Limits, Recommend(s, limit)
      PROVE  LiveInv'
  <2>1. UNCHANGED <<snapshot, scenarios, decisions>>
    BY <1>4 DEF Recommend
  <2>2. PICK answer : recommendations' = Append(recommendations,
             [ scenario |-> s, version |-> Len(scenarios[s].versions),
               limit |-> limit, answer |-> answer ])
    BY <1>4 DEF Recommend
  <2> DEFINE rec == [ scenario |-> s, version |-> Len(scenarios[s].versions),
                      limit |-> limit, answer |-> answer ]
  <2>3. rec.scenario = s /\ rec.version \in DOMAIN scenarios[s].versions
    <3>1. Len(scenarios[s].versions) \in Nat \ {0}
          /\ DOMAIN scenarios[s].versions = 1 .. Len(scenarios[s].versions)
      BY SeenScenarios
    <3>2. QED
      BY <3>1
  <2> DEFINE g == Append(recommendations, rec)
             n == Len(recommendations)
  <2>4. recommendations' = g
    BY <2>2
  <2>5. g = Append(recommendations, rec) /\ n = Len(recommendations)
        /\ IsSeq(recommendations)
    OBVIOUS
  <2> HIDE DEF g, n, rec, LiveInv
  <2>6. /\ IsSeq(g)
        /\ g[n + 1] = rec
        /\ \A i \in DOMAIN recommendations : g[i] = recommendations[i]
        /\ \A i \in DOMAIN g : i = n + 1 \/ i \in DOMAIN recommendations
    <3>1. IsSeq(g)
      BY <2>5, SomeAppend
    <3>2. g[n + 1] = rec
      BY <2>5, SomeAppend
    <3>3. \A i \in DOMAIN recommendations : g[i] = recommendations[i]
      BY <2>5, SomeAppend
    <3>4. \A i \in DOMAIN g : i = n + 1 \/ i \in DOMAIN recommendations
      BY <2>5, SomeAppend
    <3>5. QED
      BY <3>1, <3>2, <3>3, <3>4
  <2>7. \A i \in DOMAIN recommendations' :
           /\ recommendations'[i].scenario \in DOMAIN scenarios
           /\ recommendations'[i].version \in
                 DOMAIN scenarios[recommendations'[i].scenario].versions
    BY <2>3, <2>4, <2>6 DEF LiveInv
  <2>8. QED
    BY <2>1, <2>4, <2>6, <2>7 DEF LiveInv
<1>5. ASSUME NEW i \in DOMAIN recommendations, NEW action, Decide(i, action)
      PROVE  LiveInv'
  <2>1. UNCHANGED <<snapshot, scenarios, recommendations>>
    BY <1>5 DEF Decide
  <2>2. PICK d : decisions' = Append(decisions, d)
    BY <1>5 DEF Decide
  <2>3. IsSeq(decisions')
    BY <2>2, SomeAppend
  <2>4. QED
    BY <2>1, <2>3
<1>6. CASE UNCHANGED liveVars
  BY <1>6 DEF liveVars
<1>7. QED
  BY <1>1, <1>2, <1>3, <1>4, <1>5, <1>6 DEF LiveNext

\* An answer sends somebody only as part of a plan, over eligible pairs.
LEMMA AnswersAre ==
    ASSUME NEW q, NEW answer \in Answers(q)
    PROVE  /\ Solved(answer) \in BOOLEAN
           /\ Solved(answer) => answer.pairs \subseteq q.eligible
           /\ ~Solved(answer) => answer.pairs = {}
<1>1. BestPlans(q) \subseteq Plans(q) /\ \A pairs \in Plans(q) : pairs \subseteq q.eligible
  BY DEF BestPlans, Plans
<1>2. \/ answer \in [status : {"OPTIMAL"}, pairs : BestPlans(q)]
      \/ answer \in [status : {"FEASIBLE"}, pairs : Plans(q)]
      \/ answer = [status |-> "INFEASIBLE", pairs |-> {}]
      \/ answer = [status |-> "UNKNOWN", pairs |-> {}]
  BY DEF Answers, Solutions
<1>3. QED
  BY <1>1, <1>2 DEF Solved

\* A version's problem has its snapshot's units; one it withdraws is not available.
LEMMA AvailableUnits ==
    ASSUME LiveInv, NEW s \in DOMAIN scenarios, NEW version, NEW limit,
           NEW q, q = Problem(s, version, limit),
           NEW r \in DOMAIN q.resources, q.resources[r].available
    PROVE  r \in UnitsKnown \ Withdrawn(version)
<1>1. q.resources = Units(s, version)
  BY DEF Problem, Prepared
<1>2. r \in DOMAIN Pinned(s).units
  BY <1>1 DEF Units
<1>3. r \in UnitsKnown /\ "available" \in DOMAIN Pinned(s).units[r]
  BY <1>2, PinnedUnitsKnown
<1>4. ASSUME r \in DOMAIN version.units PROVE version.units[r]
  <2> DEFINE u == Pinned(s).units[r]
  <2>1. q.resources[r] = [u EXCEPT !.available = IF r \in DOMAIN version.units
                                                 THEN version.units[r] ELSE @]
    BY <1>1, <1>2 DEF Units
  <2>2. "available" \in DOMAIN u
    BY <1>3
  <2> HIDE DEF u
  <2>3. QED
    BY <1>4, <2>1, <2>2
<1>5. QED
  BY <1>3, <1>4 DEF Withdrawn

\* Eligible pairs are of available units.
LEMMA EligibleUnits ==
    ASSUME LiveInv, NEW s \in DOMAIN scenarios, NEW version, NEW limit,
           NEW q, q = Problem(s, version, limit)
    PROVE  Sent(q.eligible) \subseteq UnitsKnown \ Withdrawn(version)
<1> SUFFICES ASSUME NEW p \in q.eligible PROVE p[1] \in UnitsKnown \ Withdrawn(version)
  BY DEF Sent
<1>1. p[1] \in DOMAIN q.resources /\ q.resources[p[1]].available
  BY DEF Problem, Prepared, Eligible, Pairs
<1>2. QED
  BY <1>1, AvailableUnits

\* Recommendations look the same while their scenarios pin the same.
LEMMA RecommendationsStay ==
    ASSUME LiveInv, UNCHANGED recommendations,
           \A s \in DOMAIN scenarios : scenarios'[s].pinned = scenarios[s].pinned
    PROVE  UNCHANGED RecommendationsSeen
<1>1. \A i \in DOMAIN recommendations : recommendations[i].scenario \in DOMAIN scenarios
  BY DEF LiveInv
<1>2. \A i \in DOMAIN recommendations : RecommendationSeen(recommendations[i])'
                                           = RecommendationSeen(recommendations[i])
  BY <1>1 DEF RecommendationSeen
<1>3. QED
  BY <1>2 DEF RecommendationsSeen

\* Refreshing is a step of Dispatch.
LEMMA RefreshRefines == LiveInv /\ Refresh => AsDispatch!Next
<1> SUFFICES ASSUME LiveInv, Refresh PROVE AsDispatch!Next
  OBVIOUS
<1>1. /\ snapshot < Len(Snapshots) /\ snapshot' = snapshot + 1
      /\ UNCHANGED <<scenarios, recommendations, decisions>>
  BY DEF Refresh
<1>2. UNCHANGED <<ScenariosSeen, DecisionsSeen>>
  BY <1>1 DEF ScenariosSeen, DecisionsSeen
<1>3. UNCHANGED RecommendationsSeen
  BY <1>1, RecommendationsStay
<1>4. AsDispatch!Refresh
  BY <1>1, <1>2, <1>3, RefreshIs
<1>5. QED
  BY <1>4 DEF AsDispatch!Next

\* Creating a scenario is a step of Dispatch.
LEMMA CreateScenarioRefines == LiveInv /\ CreateScenario => AsDispatch!Next
<1> SUFFICES ASSUME LiveInv, CreateScenario PROVE AsDispatch!Next
  OBVIOUS
<1> DEFINE n == Len(scenarios)
           new == [pinned |-> snapshot, versions |-> <<NoOverlay>>]
           g == Append(scenarios, new)
           c == [s \in DOMAIN g |->
                   [ pinned |-> g[s].pinned,
                     overlays |-> [v \in DOMAIN g[s].versions |-> Withdrawn(g[s].versions[v])] ]]
           seen == [pinned |-> snapshot, overlays |-> <<{}>>]
           b == ScenariosSeen
<1>1. /\ snapshot > 0 /\ n < MaxScenarios /\ scenarios' = g
      /\ UNCHANGED <<snapshot, recommendations, decisions>>
  BY DEF CreateScenario
<1>2. IsSeq(scenarios) /\ n = Len(scenarios) /\ g = Append(scenarios, new)
  BY DEF LiveInv, IsSeq
<1>3. ScenariosSeen' = c
  BY <1>1 DEF ScenariosSeen
<1>4. DOMAIN b = 1 .. n /\ Len(b) = n /\ Listed(b, n)
  BY SeenScenarios DEF ScenariosSeen, Listed
<1>5. new.pinned = snapshot /\ new.versions = <<NoOverlay>>
  OBVIOUS
<1>6. [v \in DOMAIN new.versions |-> Withdrawn(new.versions[v])] = <<{}>>
  <2>1. Withdrawn(NoOverlay) = {}
    BY DEF Withdrawn, NoOverlay
  <2> DEFINE f == <<NoOverlay>>
  <2>2. DOMAIN f = 1 .. 1 /\ f[1] = NoOverlay
    OBVIOUS
  <2>3. [v \in DOMAIN f |-> Withdrawn(f[v])] = [v \in 1 .. 1 |-> {}]
    BY <2>1, <2>2
  <2>4. QED
    BY <1>5, <2>3
<1> HIDE DEF g, n, new
<1>7. /\ n \in Nat /\ DOMAIN g = 1 .. n + 1 /\ DOMAIN scenarios = 1 .. n
      /\ \A s \in DOMAIN scenarios : g[s] = scenarios[s]
  BY <1>2, SomeAppend
<1>8. g[n + 1] = new
  BY <1>2, SomeAppend
<1>9. c[n + 1] = seen
  <2>1. c[n + 1] = [ pinned |-> new.pinned,
                     overlays |-> [v \in DOMAIN new.versions |-> Withdrawn(new.versions[v])] ]
    BY <1>7, <1>8
  <2>2. QED
    BY <1>5, <1>6, <2>1
<1>10. \A s \in 1 .. n : c[s] = b[s]
  BY <1>7 DEF ScenariosSeen
<1>11. Listed(c, n + 1)
  BY <1>7 DEF Listed
<1> HIDE DEF c, b, seen
<1>12. c = Append(b, seen)
  BY <1>4, <1>7, <1>9, <1>10, <1>11, AppendIs
<1>13. \A s \in DOMAIN scenarios : scenarios'[s].pinned = scenarios[s].pinned
  BY <1>1, <1>7
<1>14. UNCHANGED RecommendationsSeen /\ UNCHANGED DecisionsSeen
  BY <1>1, <1>13, RecommendationsStay DEF DecisionsSeen
<1>15. ScenariosSeen' = Append(ScenariosSeen, [pinned |-> snapshot, overlays |-> <<{}>>])
  BY <1>3, <1>12 DEF b, seen
<1>16. Len(ScenariosSeen) < MaxScenarios
  BY <1>1, <1>4 DEF b
<1>17. AsDispatch!CreateScenario
  BY <1>1, <1>14, <1>15, <1>16, CreateIs
<1>18. QED
  BY <1>17 DEF AsDispatch!Next

\* Adding a version is a step of Dispatch.
LEMMA AddVersionRefines ==
    ASSUME LiveInv, NEW s \in DOMAIN scenarios, NEW overlay \in Overlays, AddVersion(s, overlay)
    PROVE  AsDispatch!Next
<1>1. PICK version, gone :
         version = Effective(Last(scenarios[s].versions), overlay) /\ gone = Withdrawn(version)
  OBVIOUS
<1> DEFINE f == scenarios[s].versions
           g == Append(f, version)
           k == Len(f)
           b == ScenariosSeen[s].overlays
           c == [v \in DOMAIN g |-> Withdrawn(g[v])]
<1>2. /\ version \in LiveVersion /\ DOMAIN version.units \subseteq UnitsKnown
      /\ k < MaxVersions /\ DOMAIN scenarios' = DOMAIN scenarios
      /\ scenarios'[s].pinned = scenarios[s].pinned /\ scenarios'[s].versions = g
      /\ \A z \in DOMAIN scenarios : z # s => scenarios'[z] = scenarios[z]
      /\ UNCHANGED <<snapshot, recommendations, decisions>>
  BY <1>1, AfterAddVersion
<1>3. /\ f \in Seq(LiveVersion) /\ k = Len(f) /\ g = Append(f, version)
      /\ DOMAIN f = 1 .. k /\ s \in 1 .. Len(ScenariosSeen)
      /\ ScenariosSeen[s].pinned = scenarios[s].pinned
      /\ b = [v \in DOMAIN f |-> Withdrawn(f[v])] /\ Len(b) = k
  BY SeenScenarios DEF ScenariosSeen
<1>4. ScenariosSeen' = [ScenariosSeen EXCEPT ![s].overlays = c]
  <2> DEFINE new == [pinned |-> scenarios[s].pinned, overlays |-> c]
  <2>1. ScenariosSeen'[s] = new /\ DOMAIN ScenariosSeen' = DOMAIN scenarios
    BY <1>2 DEF ScenariosSeen
  <2>2. [ScenariosSeen[s] EXCEPT !.overlays = c] = new
    <3> DEFINE u == [pinned |-> scenarios[s].pinned, overlays |-> b]
    <3>1. ScenariosSeen[s] = u
      BY <1>3 DEF ScenariosSeen
    <3> HIDE DEF b, c
    <3>2. [u EXCEPT !.overlays = c] = new
      OBVIOUS
    <3> HIDE DEF u, new
    <3>3. QED
      BY <3>1, <3>2
  <2>3. \A z \in DOMAIN scenarios : z # s => ScenariosSeen'[z] = ScenariosSeen[z]
    BY <1>2 DEF ScenariosSeen
  <2> HIDE DEF new, g
  <2>4. ScenariosSeen' = [z \in DOMAIN scenarios |-> ScenariosSeen'[z]]
    BY <1>2 DEF ScenariosSeen
  <2>5. [ScenariosSeen EXCEPT ![s].overlays = c]
          = [z \in DOMAIN scenarios |-> IF z = s THEN new ELSE ScenariosSeen[z]]
    BY <2>2 DEF ScenariosSeen
  <2>6. QED
    BY <2>1, <2>3, <2>4, <2>5
<1> HIDE DEF f, g, k
<1>5. /\ k \in Nat /\ DOMAIN g = 1 .. k + 1 /\ g[k + 1] = version
      /\ \A v \in DOMAIN f : g[v] = f[v]
  BY <1>2, <1>3, SeqAppend
<1>6. c[k + 1] = gone /\ Listed(c, k + 1)
  BY <1>1, <1>5 DEF Listed
<1>7. Listed(b, k) /\ \A v \in 1 .. k : c[v] = b[v]
  BY <1>3, <1>5 DEF Listed
<1> HIDE DEF b, c
<1>8. c = Append(b, gone)
  BY <1>5, <1>6, <1>7, AppendIs
<1>9. \A z \in DOMAIN scenarios : scenarios'[z].pinned = scenarios[z].pinned
  BY <1>2
<1>10. UNCHANGED RecommendationsSeen /\ UNCHANGED DecisionsSeen
  BY <1>2, <1>9, RecommendationsStay DEF DecisionsSeen
<1>11. ScenariosSeen' = [ScenariosSeen EXCEPT ![s].overlays =
                            Append(ScenariosSeen[s].overlays, gone)]
  BY <1>4, <1>8 DEF b
<1>12. Len(ScenariosSeen[s].overlays) < MaxVersions
  BY <1>2, <1>3 DEF b
<1>13. AsDispatch!AddVersion(s, gone)
  BY <1>2, <1>10, <1>11, <1>12, AddIs
<1>14. gone \in SUBSET UnitsKnown
  BY <1>1, <1>2 DEF Withdrawn
<1>15. QED
    <2>1. s \in 1 .. Len(ScenariosSeen)
    BY <1>3
  <2>2. QED
    BY <2>1, <1>13, <1>14, AddIsStep

\* The recommendations seen go on with the recommendations.
LEMMA RecommendationsGrow ==
    ASSUME LiveInv, NEW rec, recommendations' = Append(recommendations, rec), UNCHANGED scenarios
    PROVE  /\ Len(RecommendationsSeen) = Len(recommendations)
           /\ RecommendationsSeen' = Append(RecommendationsSeen, RecommendationSeen(rec))
<1> DEFINE n == Len(recommendations)
           g == Append(recommendations, rec)
           b == RecommendationsSeen
           c == [i \in DOMAIN g |-> RecommendationSeen(g[i])]
           seen == RecommendationSeen(rec)
<1>1. IsSeq(recommendations) /\ n = Len(recommendations) /\ g = Append(recommendations, rec)
  BY DEF LiveInv
<1>2. RecommendationsSeen' = c
  BY DEF RecommendationsSeen, RecommendationSeen
<1> HIDE DEF n, g
<1>3. n \in Nat /\ DOMAIN recommendations = 1 .. n /\ DOMAIN g = 1 .. n + 1
  BY <1>1, SomeAppend
<1>4. g[n + 1] = rec
  BY <1>1, SomeAppend
<1>5. \A i \in DOMAIN recommendations : g[i] = recommendations[i]
  BY <1>1, SomeAppend
<1>6. Listed(b, n)
  BY <1>3 DEF Listed, RecommendationsSeen
<1>7. Listed(c, n + 1)
  BY <1>3 DEF Listed
<1>8. c[n + 1] = seen
  BY <1>3, <1>4
<1>9. \A i \in 1 .. n : c[i] = b[i]
  BY <1>3, <1>5 DEF RecommendationsSeen
<1> HIDE DEF b, c, seen
<1>10. Len(b) = n /\ c = Append(b, seen)
  BY <1>3, <1>6, <1>7, <1>8, <1>9, AppendIs
<1>11. QED
  BY <1>1, <1>2, <1>10 DEF b, seen

\* Recommending is a step of Dispatch.
LEMMA RecommendRefines ==
    ASSUME LiveInv, NEW s \in DOMAIN scenarios, NEW limit, Recommend(s, limit)
    PROVE  AsDispatch!Next
<1> DEFINE version == Last(scenarios[s].versions)
           k == Len(scenarios[s].versions)
           q == Problem(s, version, limit)
<1>1. /\ Len(recommendations) < MaxRecommendations /\ scenarios[s].pinned = snapshot
      /\ UNCHANGED <<snapshot, scenarios, decisions>>
  BY DEF Recommend
<1>2. PICK answer \in Allocations(q) : recommendations' = Append(recommendations,
             [scenario |-> s, version |-> k, limit |-> limit, answer |-> answer])
  BY DEF Recommend
<1> DEFINE rec == [scenario |-> s, version |-> k, limit |-> limit, answer |-> answer]
           sent == Sent(answer.pairs)
           solved == Solved(answer)
<1>3. /\ k \in Nat \ {0} /\ k \in DOMAIN scenarios[s].versions
      /\ s \in 1 .. Len(ScenariosSeen) /\ k = Len(ScenariosSeen[s].overlays)
      /\ ScenariosSeen[s].pinned = scenarios[s].pinned
      /\ ScenariosSeen[s].overlays[k] = Withdrawn(scenarios[s].versions[k])
      /\ version = scenarios[s].versions[k]
  BY SeenScenarios DEF Last
<1>4. q = Problem(s, version, limit) /\ answer \in Answers(q)
  BY <1>2 DEF Allocations
<1> HIDE DEF q, version, k
<1>5. Sent(q.eligible) \subseteq UnitsKnown \ Withdrawn(version)
  BY <1>4, EligibleUnits
<1>6. \/ solved = FALSE /\ sent = {}
      \/ solved = TRUE /\ sent \subseteq UnitsKnown \ Withdrawn(version)
  <2>1. /\ solved \in BOOLEAN
        /\ solved => answer.pairs \subseteq q.eligible
        /\ ~solved => answer.pairs = {}
    BY <1>4, AnswersAre
  <2> HIDE DEF solved
  <2>2. CASE solved
    BY <1>5, <2>1, <2>2 DEF Sent
  <2>3. CASE ~solved
    BY <2>1, <2>3 DEF Sent
  <2>4. QED
    BY <2>2, <2>3
<1>7. RecommendationSeen(rec) = [ scenario |-> s, version |-> k, snapshot |-> scenarios[s].pinned,
                                  release |-> "deployed", solved |-> solved, proposed |-> sent ]
  BY DEF RecommendationSeen
<1> HIDE DEF solved, sent
<1>8. /\ Len(RecommendationsSeen) < MaxRecommendations
      /\ RecommendationsSeen' = Append(RecommendationsSeen, RecommendationSeen(rec))
  BY <1>1, <1>2, RecommendationsGrow
<1> HIDE DEF rec
<1>9. UNCHANGED <<ScenariosSeen, DecisionsSeen>>
  BY <1>1 DEF ScenariosSeen, DecisionsSeen
<1> DEFINE plan == [solved |-> solved, proposed |-> sent]
<1>10. RecommendationsSeen' = Append(RecommendationsSeen,
          [ scenario |-> s, version |-> k, snapshot |-> ScenariosSeen[s].pinned,
            release |-> "deployed", solved |-> plan.solved, proposed |-> plan.proposed ])
  BY <1>3, <1>7, <1>8
<1> HIDE DEF plan
<1>11. AsDispatch!Recommend(s, k, plan)
  BY <1>1, <1>3, <1>8, <1>9, <1>10, RecommendIs
<1>12. k \in 1 .. Len(ScenariosSeen[s].overlays)
  BY <1>3
<1>13. QED
  BY <1>3, <1>6, <1>11, <1>12, RecommendIsStep DEF plan

\* An edit sends units of the problem that its checks accept, and at least one.
LEMMA EditsAre ==
    ASSUME NEW rec, NEW pairs \in Assignable(rec, "edit"), NEW q, q = ProblemOf(rec)
    PROVE  pairs \subseteq Pairs(q) /\ pairs # {} /\ EditAccepted(q, pairs)
BY DEF Assignable

\* Deciding is a step of Dispatch: who an edit sends is available under the version.
LEMMA DecideRefines ==
    ASSUME LiveInv, NEW i \in DOMAIN recommendations, NEW action \in {"approve", "edit", "reject"},
           Decide(i, action)
    PROVE  AsDispatch!Next
<1> DEFINE rec == recommendations[i]
           seen == RecommendationsSeen[i]
<1>1. /\ \A d \in DOMAIN decisions : decisions[d].recommendation # i
      /\ action # "reject" => Current(rec) /\ Solved(rec.answer)
      /\ UNCHANGED <<snapshot, scenarios, recommendations>>
  BY DEF Decide
<1>2. PICK pairs \in Assignable(rec, action) :
         /\ Sent(pairs) \cap Out = {}
         /\ decisions' = Append(decisions,
               [recommendation |-> i, action |-> action, pairs |-> pairs])
  BY DEF Decide
<1>3. PICK sent : sent = Sent(pairs)
  OBVIOUS
<1>4. PICK s, v : s = rec.scenario /\ v = rec.version
  OBVIOUS
<1>5. s \in DOMAIN scenarios /\ v \in DOMAIN scenarios[s].versions
  BY <1>4 DEF LiveInv
<1>6. /\ seen.scenario = s /\ seen.version = v /\ seen.snapshot = scenarios[s].pinned
      /\ seen.release = "deployed" /\ seen.solved = Solved(rec.answer)
      /\ seen.proposed = Sent(rec.answer.pairs)
  BY <1>4 DEF RecommendationsSeen, RecommendationSeen
<1>7. /\ ScenariosSeen[s].pinned = scenarios[s].pinned
      /\ Len(ScenariosSeen[s].overlays) = Len(scenarios[s].versions)
      /\ ScenariosSeen[s].overlays[v] = Withdrawn(scenarios[s].versions[v])
  BY <1>5, SeenScenarios
<1>8. DecisionsSeen' = Append(DecisionsSeen,
                          [recommendation |-> i, action |-> action, assigned |-> sent])
      /\ 1 .. Len(DecisionsSeen) = DOMAIN decisions
  <2> DEFINE new == [recommendation |-> i, action |-> action, pairs |-> pairs]
             end == [recommendation |-> i, action |-> action, assigned |-> sent]
             n == Len(decisions)
             g == Append(decisions, new)
             b == DecisionsSeen
             c == [d \in DOMAIN g |-> DecisionSeen(g[d])]
  <2>1. IsSeq(decisions) /\ n = Len(decisions) /\ g = Append(decisions, new)
    BY DEF LiveInv
  <2>2. DecisionsSeen' = c
    BY <1>2 DEF DecisionsSeen, DecisionSeen
  <2>3. DecisionSeen(new) = end
    BY <1>3 DEF DecisionSeen
  <2> HIDE DEF n, g, new
  <2>4. n \in Nat /\ DOMAIN decisions = 1 .. n /\ DOMAIN g = 1 .. n + 1
    BY <2>1, SomeAppend
  <2>5. g[n + 1] = new
    BY <2>1, SomeAppend
  <2>6. \A d \in DOMAIN decisions : g[d] = decisions[d]
    BY <2>1, SomeAppend
  <2>7. Listed(b, n) /\ Listed(c, n + 1)
    BY <2>4 DEF Listed, DecisionsSeen
  <2>8. c[n + 1] = end
    BY <2>3, <2>4, <2>5
  <2>9. \A d \in 1 .. n : c[d] = b[d]
    BY <2>4, <2>6 DEF DecisionsSeen
  <2> HIDE DEF b, c, end
  <2>10. Len(b) = n /\ c = Append(b, end)
    BY <2>4, <2>7, <2>8, <2>9, AppendIs
  <2>11. QED
    BY <2>2, <2>4, <2>10 DEF b, end
<1>8a. \A d \in DOMAIN decisions :
          /\ DecisionsSeen[d].recommendation = decisions[d].recommendation
          /\ DecisionsSeen[d].assigned = Sent(decisions[d].pairs)
  BY DEF DecisionsSeen, DecisionSeen
<1>9. \A d \in 1 .. Len(DecisionsSeen) : DecisionsSeen[d].recommendation # i
  BY <1>1, <1>8, <1>8a
<1>10. \A d \in 1 .. Len(DecisionsSeen) : sent \cap DecisionsSeen[d].assigned = {}
  <2> SUFFICES ASSUME NEW d \in 1 .. Len(DecisionsSeen)
               PROVE  sent \cap DecisionsSeen[d].assigned = {}
    OBVIOUS
  <2>1. Sent(decisions[d].pairs) \subseteq Out
    BY <1>8 DEF Out
  <2>2. DecisionsSeen[d].assigned = Sent(decisions[d].pairs)
    BY <1>8, <1>8a
  <2>3. QED
    BY <1>2, <1>3, <2>1, <2>2
<1>11. UNCHANGED <<snapshot, ScenariosSeen, RecommendationsSeen>>
  BY <1>1 DEF ScenariosSeen, RecommendationsSeen, RecommendationSeen
<1>12. action # "reject" =>
          /\ seen.version = Len(ScenariosSeen[seen.scenario].overlays)
          /\ ScenariosSeen[seen.scenario].pinned = snapshot
          /\ seen.snapshot = snapshot /\ seen.release = "deployed" /\ seen.solved
  BY <1>1, <1>4, <1>6, <1>7 DEF Current
<1>13. AsDispatch!Decide(i, action, sent)
  BY <1>8, <1>9, <1>10, <1>11, <1>12, DispatchDecides
<1> HIDE DEF seen
<1>14. \/ action = "reject" /\ sent = {}
       \/ action = "approve" /\ sent = seen.proposed
       \/ /\ action = "edit" /\ sent # {}
          /\ sent \subseteq UnitsKnown \ ScenariosSeen[s].overlays[v]
  <2>1. CASE action = "reject"
    BY <1>2, <1>3, <2>1 DEF Assignable, Sent
  <2>2. CASE action = "approve"
    <3>1. pairs = rec.answer.pairs
      BY <1>2, <2>2 DEF Assignable
    <3>2. QED
      BY <1>3, <1>6, <2>2, <3>1
  <2>3. CASE action = "edit"
    <3>1. PICK q, version, limit :
             q = ProblemOf(rec) /\ version = scenarios[s].versions[v] /\ limit = rec.limit
      OBVIOUS
    <3>2. q = Problem(s, version, limit)
      BY <1>4, <3>1 DEF ProblemOf, Version
    <3>3. pairs \subseteq Pairs(q) /\ pairs # {} /\ EditAccepted(q, pairs)
      BY <1>2, <2>3, <3>1, EditsAre
    <3>4. ASSUME NEW p \in pairs PROVE p[1] \in UnitsKnown \ Withdrawn(version)
      <4>1. p[1] \in DOMAIN q.resources /\ q.resources[p[1]].available
        BY <3>3, <3>4 DEF Pairs, EditAccepted
      <4>2. QED
        BY <1>5, <3>2, <4>1, AvailableUnits
    <3>5. sent # {} /\ sent \subseteq UnitsKnown \ Withdrawn(version)
      BY <1>3, <3>3, <3>4 DEF Sent
    <3>6. QED
      BY <1>7, <2>3, <3>1, <3>5
  <2>4. QED
    BY <2>1, <2>2, <2>3
<1>15. s = RecommendationsSeen[i].scenario /\ v = RecommendationsSeen[i].version
  BY <1>6 DEF seen
<1>16. i \in 1 .. Len(RecommendationsSeen)
  <2> DEFINE n == Len(recommendations)
             a == 0
             g == Append(recommendations, a)
  <2>1. IsSeq(recommendations) /\ n = Len(recommendations) /\ g = Append(recommendations, a)
    BY DEF LiveInv
  <2> HIDE DEF n, g, a
  <2>2. n \in Nat /\ DOMAIN recommendations = 1 .. n
    BY <2>1, SomeAppend
  <2>3. RecommendationsSeen = [j \in 1 .. n |-> RecommendationsSeen[j]]
    BY <2>2 DEF RecommendationsSeen
  <2>4. Len(RecommendationsSeen) = n
    BY <2>2, <2>3, SequenceIs
  <2>5. QED
    BY <2>2, <2>4
<1>17. QED
  BY <1>13, <1>14, <1>15, <1>16, DecideIsStep DEF seen

\* Live planning implements Dispatch (scenarios.py, recommendations.py, decisions.py): it
\* sends out units only as the abstract planning does, whatever roads, risk and solver say.
THEOREM LivePlanningIsDispatch == LiveSpec => ImplementsDispatch
<1>1. LiveInit => LiveInv /\ AsDispatch!Init
  <2> SUFFICES ASSUME LiveInit PROVE LiveInv /\ AsDispatch!Init
    OBVIOUS
  <2>1. /\ scenarios = <<>> /\ recommendations = <<>> /\ decisions = <<>> /\ snapshot = 0
    BY DEF LiveInit
  <2>2. ScenariosSeen = <<>> /\ RecommendationsSeen = <<>> /\ DecisionsSeen = <<>>
    BY <2>1 DEF ScenariosSeen, RecommendationsSeen, DecisionsSeen
  <2>3. QED
    BY <2>1, <2>2, InitIs, LiveInitially
<1>2. LiveInv /\ [LiveNext]_liveVars => LiveInv'
  BY LiveInvStep
<1>3. LiveInv /\ [LiveNext]_liveVars => [AsDispatch!Next]_(AsDispatch!vars)
  <2> SUFFICES ASSUME LiveInv, [LiveNext]_liveVars PROVE [AsDispatch!Next]_(AsDispatch!vars)
    OBVIOUS
  <2>1. CASE Refresh
    BY <2>1, RefreshRefines
  <2>2. CASE CreateScenario
    BY <2>2, CreateScenarioRefines
  <2>3. ASSUME NEW s \in DOMAIN scenarios, NEW overlay \in Overlays, AddVersion(s, overlay)
        PROVE  AsDispatch!Next
    BY <2>3, AddVersionRefines
  <2>4. ASSUME NEW s \in DOMAIN scenarios, NEW limit \in Limits, Recommend(s, limit)
        PROVE  AsDispatch!Next
    BY <2>4, RecommendRefines
  <2>5. ASSUME NEW i \in DOMAIN recommendations, NEW action \in {"approve", "edit", "reject"},
               Decide(i, action)
        PROVE  AsDispatch!Next
    BY <2>5, DecideRefines
  <2>6. CASE UNCHANGED liveVars
    BY <2>6 DEF liveVars, AsDispatch!vars, Sent, Withdrawn, Solved
  <2>7. QED
    BY <2>1, <2>2, <2>3, <2>4, <2>5, <2>6 DEF LiveNext
<1>4. QED
  BY <1>1, <1>2, <1>3, PTL DEF LiveSpec, ImplementsDispatch, AsDispatch!Spec

\* Of one problem, the edits accepted are the plans: there are no locks.
LEMMA EditsOf ==
    ASSUME NEW s, NEW version, NEW limit, NEW q, q = Problem(s, version, limit)
    PROVE  {pairs \in SUBSET Pairs(q) : EditAccepted(q, pairs)} = Plans(q)
<1> DEFINE units == Units(s, version)
           demands == Demands(s, version, limit)
           routes == [p \in (DOMAIN units) \X (DOMAIN demands) |->
                         RouteFor(Nearest(units[p[1]].at), Nearest(demands[p[2]].at),
                                  version.closed)]
           q0 == [ resources |-> units, tasks |-> demands, locks |-> {}, weight |-> 1,
                   routes |-> routes ]
<1>1. q = Prepared(q0)
  BY DEF Problem
<1>2. /\ q0.resources = units /\ q0.tasks = demands /\ q0.locks = {} /\ q0.routes = routes
  OBVIOUS
<1> HIDE DEF q0, units, demands, routes
<1>3. /\ q.resources = units /\ q.tasks = demands /\ q.locks = {} /\ q.routes = routes
      /\ q.eligible = Eligible(q0)
  BY <1>1, <1>2 DEF Prepared
<1>4. q.eligible = {p \in Pairs(q) :
                       /\ q.resources[p[1]].available
                       /\ q.tasks[p[2]].skill \in q.resources[p[1]].skills
                       /\ q.routes[p].reachable
                       /\ q.routes[p].minutes <= 2 * q.tasks[p[2]].deadline}
  BY <1>2, <1>3 DEF Eligible, Pairs
<1>5. ASSUME NEW pairs \in SUBSET Pairs(q)
      PROVE  EditAccepted(q, pairs) <=> pairs \subseteq q.eligible /\ IsPlan(q, pairs)
  <2>1. pairs \subseteq q.eligible <=>
           \A p \in pairs : /\ q.resources[p[1]].available
                            /\ q.tasks[p[2]].skill \in q.resources[p[1]].skills
                            /\ q.routes[p].reachable
                            /\ q.routes[p].minutes <= 2 * q.tasks[p[2]].deadline
    BY <1>4
  <2>2. QED
    BY <1>3, <2>1 DEF EditAccepted, IsPlan
<1>6. q.eligible \subseteq Pairs(q)
  BY <1>4
<1>7. QED
  BY <1>5, <1>6 DEF Plans

\* What live planning searches for is what it is checked against.
LEMMA SearchedAreBest ==
    ASSUME NEW a \in Nodes, NEW b \in Nodes, NEW closed \in SUBSET Edges
    PROVE  Searched[<<a, b, closed>>] = BestRoutes[<<a, b, closed>>]
<1> DEFINE k == <<a, b, closed>>
<1>1. k \in Trips /\ k[1] = a /\ k[2] = b /\ k[3] = closed
  BY DEF Trips
<1> HIDE DEF k
<1>2. Searched[k] = ShortestRoute(a, b, closed) /\ BestRoutes[k] = Route(a, b, closed)
  BY <1>1 DEF Searched, BestRoutes
<1>3. Searched[k] = BestRoutes[k]
  BY <1>2, SearchFindsRoutes
<1>4. QED
  BY <1>3 DEF k

\* The cache answers what was searched under the closures asked about.
CachedAsSearched ==
    \A a, b \in Nodes, closed \in SUBSET Edges :
        Key(a, b, closed) \in DOMAIN cache =>
            cache[Key(a, b, closed)] = Searched[<<a, b, closed>>]

\* Every operation keeps the answers and adds searched ones.
LEMMA CachedStep == CachedAsSearched /\ [LiveNext]_liveVars => CachedAsSearched'
<1> SUFFICES ASSUME CachedAsSearched, [LiveNext]_liveVars PROVE CachedAsSearched'
  OBVIOUS
<1>1. CASE UNCHANGED cache
  BY <1>1 DEF CachedAsSearched
<1>2. ASSUME NEW s \in DOMAIN scenarios, NEW version, cache' = Warmed(s, version)
      PROVE  CachedAsSearched'
  <2>1. PICK keys : /\ \A k \in keys : k[3] = version.closed
                    /\ cache' = [k \in DOMAIN cache \cup keys |->
                          IF k \in DOMAIN cache THEN cache[k]
                          ELSE Searched[<<k[1], k[2], version.closed>>]]
    <3> DEFINE starts == {Nearest(u.at) : u \in Range(Pinned(s).units)}
               ends == {Nearest(a.x) : a \in Pinned(s).assets}
               keys == {Key(a, b, version.closed) : a \in starts, b \in ends}
    <3>1. \A k \in keys : k[3] = version.closed
      BY DEF Key
    <3>2. cache' = [k \in DOMAIN cache \cup keys |->
                       IF k \in DOMAIN cache THEN cache[k]
                       ELSE Searched[<<k[1], k[2], version.closed>>]]
      BY <1>2 DEF Warmed
    <3> HIDE DEF keys
    <3>3. QED
      BY <3>1, <3>2
  <2>2. SUFFICES ASSUME NEW a \in Nodes, NEW b \in Nodes, NEW closed \in SUBSET Edges,
                        Key(a, b, closed) \in DOMAIN cache'
                 PROVE  cache'[Key(a, b, closed)] = Searched[<<a, b, closed>>]
    BY DEF CachedAsSearched, Key
  <2> DEFINE k == <<a, b, closed>>
  <2>3. k[1] = a /\ k[2] = b /\ k[3] = closed /\ Key(a, b, closed) = k
    BY DEF Key
  <2> HIDE DEF k
  <2>4. CASE k \in DOMAIN cache
    BY <2>1, <2>2, <2>3, <2>4 DEF CachedAsSearched
  <2>5. CASE k \notin DOMAIN cache
    BY <2>1, <2>2, <2>3, <2>5
  <2>6. QED
    BY <2>4, <2>5
<1>3. ASSUME NEW s \in DOMAIN scenarios, NEW limit, Recommend(s, limit) PROVE CachedAsSearched'
  BY <1>2, <1>3 DEF Recommend
<1>4. QED
  BY <1>1, <1>3 DEF LiveNext, Refresh, CreateScenario, AddVersion, Decide, liveVars

\* The cache hands out only routes there are (road_graph.py route): none that was
\* searched under other closures, and none the search got wrong.
THEOREM CacheKeepsRoutes == LiveSpec => []CachedRoutesHold
<1>1. LiveInit => CachedAsSearched
  BY DEF LiveInit, CachedAsSearched
<1>2. CachedAsSearched /\ [LiveNext]_liveVars => CachedAsSearched'
  BY CachedStep
<1>3. CachedAsSearched => CachedRoutesHold
  BY SearchedAreBest DEF CachedAsSearched, CachedRoutesHold
<1>4. QED
  BY <1>1, <1>2, <1>3, PTL DEF LiveSpec

-----------------------------------------------------------------------------
(* The risk of a version is a natural number, and so are its penalties.    *)

\* Some integers have a greatest.
LEMMA GreatestOf ==
    ASSUME NEW S, IsFiniteSet(S), S # {}, S \subseteq Int
    PROVE  Max(S) \in S
<1> DEFINE R == {y \in S \X S : y[1] > y[2]}
<1>1. \A x, y \in S : <<x, y>> \in R <=> x > y
  OBVIOUS
<1> HIDE DEF R
<1>2. \A x, y \in S : x # y => <<x, y>> \in R \/ <<y, x>> \in R
  BY <1>1
<1>3. \A x, y, z \in S : <<x, y>> \in R /\ <<y, z>> \in R => <<x, z>> \in R
  BY <1>1
<1>4. \E x \in S : \A y \in S : y = x \/ <<x, y>> \in R
  BY <1>2, <1>3, FirstOf
<1>5. PICK x \in S : \A y \in S : y = x \/ x > y
  BY <1>1, <1>4
<1>6. \A y \in S : x >= y
  BY <1>5
<1>7. QED
  BY <1>6 DEF Max

\* A percentage is cut to one.
LEMMA ClampIs ==
    ASSUME NEW percent \in Int
    PROVE  Clamp(percent) \in Nat
<1>1. PICK low : low = Min({100, percent})
  OBVIOUS
<1>2. low \in Int
  <2>1. \E x \in {100, percent} : \A y \in {100, percent} : x <= y
    OBVIOUS
  <2>2. QED
    BY <1>1, <2>1 DEF Min
<1>3. \E x \in {0, low} : \A y \in {0, low} : x >= y
  BY <1>2
<1>4. Max({0, low}) \in {0, low} /\ Max({0, low}) >= 0
  BY <1>2, <1>3 DEF Max
<1>5. QED
  BY <1>1, <1>2, <1>4 DEF Clamp

\* Sources get older.
LEMMA FreshnessIs ==
    ASSUME NEW age \in Int, NEW limit \in Nat \ {0}
    PROVE  FreshnessFactor(age, limit) \in Nat
<1>1. PICK x : x = (100 * age) \div limit
  OBVIOUS
<1>2. x \in Int
  BY <1>1
<1>3. 100 - x \in Int
  BY <1>2
<1>4. QED
  BY <1>1, <1>3, ClampIs DEF FreshnessFactor

\* The distance of two places.
LEMMA GapIs ==
    ASSUME NEW x \in Int, NEW y \in Int
    PROVE  Gap(x, y) \in Nat
  BY DEF Gap

\* Observations of the wind, one at most.
IsWind(ws) ==
    /\ \A w \in ws : w.x \in Int /\ w.at \in Int /\ w.speed \in Nat /\ w.from \in Nat
    /\ \A v, w \in ws : v = w

\* The wind that is read is a number.
LEMMA SelectedIs ==
    ASSUME NEW ws, IsWind(ws), NEW place \in Int, NEW reference \in Int,
           NEW w, w = SelectWeather(ws, place, reference)
    PROVE  w.at \in Int /\ w.speed \in Nat /\ w.from \in Nat
<1> DEFINE reach == {v \in ws : v.at <= reference /\ Gap(v.x, place) <= SearchRadius}
           newest == {v \in reach : \A u \in reach : u.at <= v.at}
           near == {v \in newest : \A u \in newest : Gap(v.x, place) <= Gap(u.x, place)}
<1>1. CASE reach = {}
  BY <1>1 DEF SelectWeather, NoWeather
<1>2. CASE reach # {}
  <2>1. PICK v : v \in reach
    BY <1>2
  <2>2. v \in ws /\ v.at \in Int /\ v.x \in Int
    BY <2>1 DEF IsWind
  <2>3. Gap(v.x, place) \in Nat
    BY <2>2, GapIs
  <2>4. v \in near /\ near \subseteq ws
    BY <2>1, <2>2, <2>3 DEF IsWind
  <2>5. w = CHOOSE x \in near : \A u \in near : x.id <= u.id
    BY <1>2 DEF SelectWeather
  <2>6. w = v
    BY <2>4, <2>5 DEF IsWind
  <2>7. QED
    BY <2>2, <2>6 DEF IsWind
<1>3. QED
  BY <1>1, <1>2

\* How well the wind blows from the fire to what it threatens.
LEMMA AlignmentIs ==
    ASSUME NEW weather, weather.speed \in Nat, weather.from \in Nat,
           NEW exposed, IsFiniteSet(exposed), NEW place
    PROVE  WindAlignment(weather, exposed, place) \in Nat
<1> DEFINE spread == (weather.from + 180) % 360
           along(a) == IF a.x = place THEN 100 ELSE Alignment(spread, Bearing(place, a.x))
           S == {along(a) : a \in exposed}
<1>1. \A a : along(a) \in 0 .. 100
  BY DEF Alignment
<1>2. IsFiniteSet(S) /\ S \subseteq Int /\ S \subseteq Nat
  <2>1. PICK T : T = 0 .. 100
    OBVIOUS
  <2>2. S \subseteq T
    BY <1>1, <2>1
  <2> HIDE DEF S
  <2>3. IsFiniteSet(T)
    <3>1. 0 \in Int /\ 100 \in Int
      OBVIOUS
    <3>2. IsFiniteSet(0 .. 100)
      BY ONLY <3>1, FS_Interval
    <3>3. QED
      BY <2>1, <3>2
  <2>4. T \subseteq Int /\ T \subseteq Nat
    BY <2>1
  <2>5. QED
    BY <2>2, <2>3, <2>4, FS_Subset
<1>3. CASE weather = NoWeather \/ exposed = {}
  BY <1>3 DEF WindAlignment
<1>4. CASE ~(weather = NoWeather \/ exposed = {})
  <2>1. PICK m, k, n : /\ m = Max(S) /\ k = Min({weather.speed, FullWind}) /\ n = m * k
    OBVIOUS
  <2>2. S # {}
    <3>1. PICK a \in exposed : TRUE
      BY <1>4
    <3>2. along(a) \in S
      BY <3>1
    <3>3. QED
      BY <3>2
  <2>3. WindAlignment(weather, exposed, place) = n \div FullWind
    BY <1>4, <2>1 DEF WindAlignment
  <2> HIDE DEF S
  <2>4. m \in Nat
    BY <1>2, <2>1, <2>2, GreatestOf
  <2>5. k \in Nat
    <3>1. {weather.speed, FullWind} \subseteq Nat
      BY RiskAssumption
    <3>2. QED
      BY <2>1, <3>1, MinIs
  <2>6. n \in Nat
    BY <2>1, <2>4, <2>5
  <2>7. FullWind \in Nat \ {0}
    BY RiskAssumption
  <2>8. QED
    BY <2>3, <2>6, <2>7
<1>5. QED
  BY <1>3, <1>4

\* The population of some communities is summed.
LEMMA PopulationIs ==
    ASSUME NEW S, IsFiniteSet(S), \A a \in S : a.population \in Nat
    PROVE  MapThenSumSet(LAMBDA a : a.population, S) \in Nat
<1> DEFINE fits(f) == f = [s \in SUBSET S |-> IF s = {} THEN 0
                             ELSE (CHOOSE x \in s : TRUE).population
                                    + f[s \ {CHOOSE x \in s : TRUE}]]
           w == [a \in S |-> a.population]
<1>1. MapThenSumSet(LAMBDA a : a.population, S) = (CHOOSE f : fits(f))[S]
  BY DEF MapThenSumSet, MapThenFoldSet
<1>2. \A x \in S : w[x] = x.population
  OBVIOUS
<1>3. Weighs(w, S)
  BY <1>2 DEF Weighs
<1> HIDE DEF w
<1>4. ASSUME NEW f PROVE fits(f) <=> AddsUp(w, f, S)
  <2>1. \A s \in SUBSET S : s # {} => w[CHOOSE x \in s : TRUE] = (CHOOSE x \in s : TRUE).population
    BY <1>2
  <2>2. QED
    BY <2>1 DEF AddsUp, OnSubsets
<1> HIDE DEF fits
<1>5. fits(CHOOSE f : fits(f))
  BY <1>3, <1>4, SumIs
<1>6. (CHOOSE f : fits(f))[S] = SumOf(w, S)
  BY <1>3, <1>4, <1>5, SumIs
<1>7. SumOf(w, S) \in Nat
  BY <1>3, SumStep
<1>8. QED
  BY <1>1, <1>6, <1>7

\* So is the confidence of some detections,
LEMMA ConfidenceIs ==
    ASSUME NEW S, IsFiniteSet(S), \A d \in S : d.confidence \in Nat
    PROVE  MapThenSumSet(LAMBDA d : d.confidence, S) \in Nat
<1> DEFINE fits(f) == f = [s \in SUBSET S |-> IF s = {} THEN 0
                             ELSE (CHOOSE x \in s : TRUE).confidence
                                    + f[s \ {CHOOSE x \in s : TRUE}]]
           w == [d \in S |-> d.confidence]
<1>1. MapThenSumSet(LAMBDA d : d.confidence, S) = (CHOOSE f : fits(f))[S]
  BY DEF MapThenSumSet, MapThenFoldSet
<1>2. \A x \in S : w[x] = x.confidence
  OBVIOUS
<1>3. Weighs(w, S)
  BY <1>2 DEF Weighs
<1> HIDE DEF w
<1>4. ASSUME NEW f PROVE fits(f) <=> AddsUp(w, f, S)
  <2>1. \A s \in SUBSET S : s # {} => w[CHOOSE x \in s : TRUE] = (CHOOSE x \in s : TRUE).confidence
    BY <1>2
  <2>2. QED
    BY <2>1 DEF AddsUp, OnSubsets
<1> HIDE DEF fits
<1>5. fits(CHOOSE f : fits(f))
  BY <1>3, <1>4, SumIs
<1>6. (CHOOSE f : fits(f))[S] = SumOf(w, S)
  BY <1>3, <1>4, <1>5, SumIs
<1>7. SumOf(w, S) \in Nat
  BY <1>3, SumStep
<1>8. QED
  BY <1>1, <1>6, <1>7

\* and the weighted factors.
LEMMA ScoreIs ==
    ASSUME NEW factors, \A f \in Factors : factors[f] \in Nat
    PROVE  Score(factors) \in Nat
<1> DEFINE fits(g) == g = [s \in SUBSET Factors |-> IF s = {} THEN 0
                             ELSE Weight[CHOOSE x \in s : TRUE] * factors[CHOOSE x \in s : TRUE]
                                    + g[s \ {CHOOSE x \in s : TRUE}]]
           w == [f \in Factors |-> Weight[f] * factors[f]]
           total == MapThenSumSet(LAMBDA f : Weight[f] * factors[f], Factors)
<1>1. total = (CHOOSE f : fits(f))[Factors]
  BY DEF MapThenSumSet, MapThenFoldSet
<1>2. \A x \in Factors : w[x] = Weight[x] * factors[x]
  OBVIOUS
<1>3. Weighs(w, Factors)
  <2>1. ASSUME NEW x \in Factors PROVE w[x] \in Nat
    <3>1. PICK m, n : m = Weight[x] /\ n = factors[x]
      OBVIOUS
    <3>2. m \in Nat
      BY <3>1 DEF Factors, Weight
    <3>3. m * n \in Nat
      BY <3>1, <3>2
    <3>4. QED
      BY <1>2, <3>1, <3>3
  <2>2. IsFiniteSet(Factors)
    <3>1. PICK A : A = {"proximity"}
      OBVIOUS
    <3>2. PICK B : B = A \cup {"population"}
      OBVIOUS
    <3>3. PICK C : C = B \cup {"critical_facilities"}
      OBVIOUS
    <3>4. PICK D : D = C \cup {"wind_alignment"}
      OBVIOUS
    <3>5. PICK E : E = D \cup {"detection_confidence"}
      OBVIOUS
    <3>6. IsFiniteSet(A) /\ IsFiniteSet(B) /\ IsFiniteSet(C) /\ IsFiniteSet(D) /\ IsFiniteSet(E)
      BY <3>1, <3>2, <3>3, <3>4, <3>5, FS_Singleton, FS_AddElement
    <3>7. Factors = E \cup {"source_freshness"}
      BY <3>1, <3>2, <3>3, <3>4, <3>5 DEF Factors
    <3>8. QED
      BY <3>6, <3>7, FS_AddElement
  <2>3. QED
    BY <2>1, <2>2 DEF Weighs
<1> HIDE DEF w
<1>4. ASSUME NEW g PROVE fits(g) <=> AddsUp(w, g, Factors)
  <2>1. \A s \in SUBSET Factors : s # {} =>
           w[CHOOSE x \in s : TRUE] = Weight[CHOOSE x \in s : TRUE] * factors[CHOOSE x \in s : TRUE]
    BY <1>2
  <2>2. QED
    BY <2>1 DEF AddsUp, OnSubsets
<1> HIDE DEF fits
<1>5. fits(CHOOSE f : fits(f))
  BY <1>3, <1>4, SumIs
<1>6. (CHOOSE f : fits(f))[Factors] = SumOf(w, Factors)
  BY <1>3, <1>4, <1>5, SumIs
<1>7. total \in Nat
  BY <1>1, <1>3, <1>6, SumStep
<1> HIDE DEF total
<1>8. total \div 100 \in Nat
  BY <1>7
<1>9. QED
  BY <1>8 DEF Score, total

\* What the risk is read from.
IsScene(detections, weather, exposed, place, reference) ==
    /\ IsFiniteSet(detections) /\ \A d \in detections : d.at \in Int /\ d.confidence \in Nat
    /\ \E d \in detections : d.at <= reference
    /\ weather.at \in Int /\ weather.speed \in Nat /\ weather.from \in Nat
    /\ IsFiniteSet(exposed)
    /\ \A a \in exposed : a.x \in Int /\ (a.kind = "community" => a.population \in Nat)
    /\ place \in Int /\ reference \in Int

\* The factors are naturals.
LEMMA FactorsAre ==
    ASSUME NEW detections, NEW weather, NEW exposed, NEW place, NEW reference,
           IsScene(detections, weather, exposed, place, reference),
           NEW k, k = RiskFactors(detections, weather, exposed, place, reference)
    PROVE  \A f \in Factors : k[f] \in Nat
<1> DEFINE current == {d \in detections : d.at <= reference}
           gaps == {Gap(a.x, place) : a \in exposed}
           towns == {a \in exposed : a.kind = "community"}
           people == MapThenSumSet(LAMBDA a : a.population, towns)
           places == {a \in exposed : a.kind \in {"hospital", "fire_station", "shelter"}}
           sure == MapThenSumSet(LAMBDA d : d.confidence, current)
           times == {d.at : d \in current}
           ages == {FreshnessFactor(reference - Max(times), FireLimit),
                    IF weather = NoWeather THEN 0
                    ELSE FreshnessFactor(reference - weather.at, WeatherLimit)}
<1>1. /\ k["proximity"] = IF exposed = {} THEN 0
                          ELSE Clamp(100 - (100 * Min(gaps)) \div Buffer)
      /\ k["population"] = Clamp((100 * people) \div FullPopulation)
      /\ k["critical_facilities"] = Clamp((100 * Cardinality(places)) \div FullFacilities)
      /\ k["wind_alignment"] = WindAlignment(weather, exposed, place)
      /\ k["detection_confidence"] = sure \div Cardinality(current)
      /\ k["source_freshness"] = Min(ages)
  BY DEF RiskFactors
<1>2. /\ IsFiniteSet(current) /\ current # {} /\ IsFiniteSet(towns) /\ IsFiniteSet(places)
  BY FS_Subset DEF IsScene
<1>3. gaps \subseteq Nat /\ (exposed # {} => gaps # {})
  BY GapIs DEF IsScene
<1>4. people \in Nat
  BY <1>2, PopulationIs DEF IsScene
<1>5. sure \in Nat
  BY <1>2, ConfidenceIs DEF IsScene
<1>6. IsFiniteSet(times) /\ times # {} /\ times \subseteq Int
  <2>1. times # {} /\ times \subseteq Int
    BY <1>2 DEF IsScene
  <2>2. PICK f, S : f = [d \in current |-> d.at] /\ S = current
    OBVIOUS
  <2>3. times = {f[d] : d \in S}
    BY <2>2
  <2>4. IsFiniteSet({f[d] : d \in S})
    BY <1>2, <2>2, ImageFinite
  <2>5. QED
    BY <2>1, <2>3, <2>4
<1> HIDE DEF gaps, people, places, sure, times
<1>7. /\ Buffer \in Nat \ {0} /\ FullPopulation \in Nat \ {0} /\ FullFacilities \in Nat \ {0}
      /\ FireLimit \in Nat \ {0} /\ WeatherLimit \in Nat \ {0}
  BY RiskAssumption
<1>8. k["proximity"] \in Nat
  <2>1. CASE exposed = {}
    BY <1>1, <2>1
  <2>2. CASE exposed # {}
    <3>1. PICK g : g = Min(gaps)
      OBVIOUS
    <3>2. g \in Nat
      BY <1>3, <2>2, <3>1, MinIs
    <3>3. 100 - (100 * g) \div Buffer \in Int
      BY <1>7, <3>2
    <3>4. QED
      BY <1>1, <2>2, <3>1, <3>3, ClampIs
  <2>3. QED
    BY <2>1, <2>2
<1>9. k["population"] \in Nat
  <2>1. (100 * people) \div FullPopulation \in Int
    BY <1>4, <1>7
  <2>2. QED
    BY <1>1, <2>1, ClampIs
<1>10. k["critical_facilities"] \in Nat
  <2>1. PICK n : n = Cardinality(places)
    OBVIOUS
  <2>2. n \in Nat
    BY <1>2, <2>1, FS_CardinalityType
  <2>3. (100 * n) \div FullFacilities \in Int
    BY <1>7, <2>2
  <2>4. QED
    BY <1>1, <2>1, <2>3, ClampIs
<1>11. k["wind_alignment"] \in Nat
  BY <1>1, AlignmentIs DEF IsScene
<1>12. k["detection_confidence"] \in Nat
  <2>1. PICK n : n = Cardinality(current)
    OBVIOUS
  <2>2. n \in Nat \ {0}
    BY <1>2, <2>1, FS_CardinalityType, FS_EmptySet
  <2>3. sure \div n \in Nat
    BY <1>5, <2>2
  <2>4. QED
    BY <1>1, <2>1, <2>3
<1>13. k["source_freshness"] \in Nat
  <2>1. PICK m : m = Max(times)
    OBVIOUS
  <2>2. m \in Int
    BY <1>6, <2>1, GreatestOf
  <2>3. reference - m \in Int /\ reference - weather.at \in Int
    BY <2>2 DEF IsScene
  <2>4. ages \subseteq Nat /\ ages # {}
    BY <1>7, <2>1, <2>3, FreshnessIs
  <2> HIDE DEF ages
  <2>5. QED
    BY <1>1, <2>4, MinIs
<1>14. QED
  BY <1>8, <1>9, <1>10, <1>11, <1>12, <1>13 DEF Factors

-----------------------------------------------------------------------------
(* What live planning asks the solver is a request, and stays the same.    *)

\* What a version may overlay.
VersionFits(version) ==
    /\ version.closed \subseteq Edges
    /\ version.winds \in Seq([speed : Nat, from : 0 .. 359])
    /\ \A r \in DOMAIN version.units : version.units[r] \in BOOLEAN

\* Of one element at most, all are the same.
LEMMA OneAtMost ==
    ASSUME NEW S, IsFiniteSet(S), Cardinality(S) <= 1
    PROVE  \A v, w \in S : v = w
<1> SUFFICES ASSUME NEW v \in S, NEW w \in S PROVE v = w
  OBVIOUS
<1>1. PICK n : n = Cardinality(S)
  OBVIOUS
<1>2. PICK T : T = S \ {v}
  OBVIOUS
<1>3. IsFiniteSet(T) /\ Cardinality(T) = n - 1 /\ n \in Nat /\ n <= 1
  BY <1>1, <1>2, FS_RemoveElement, FS_CardinalityType
<1>4. Cardinality(T) \in Nat
  BY <1>3, FS_CardinalityType
<1>5. Cardinality(T) = 0
  BY <1>3, <1>4
<1>6. T = {}
  BY <1>3, <1>5, FS_EmptySet
<1>7. QED
  BY <1>2, <1>6

\* The wind of a version.
LEMMA WeatherIs ==
    ASSUME LiveInv, NEW s \in DOMAIN scenarios, NEW version, VersionFits(version),
           Plannable(s, version)
    PROVE  IsWind(Weather(s, version))
<1>1. PICK ws, pinned : ws = Weather(s, version) /\ pinned = Pinned(s).weather
  OBVIOUS
<1>2. IsSnapshot(Pinned(s))
  BY PinnedUnitsKnown, LiveAssumption
<1>3. /\ pinned \subseteq [id : Nat, x : Int, at : Int, speed : Nat, from : 0 .. 359]
      /\ IsFiniteSet(pinned)
  BY <1>1, <1>2 DEF IsSnapshot
<1>4. \A v, w \in pinned : v = w
  BY <1>1, <1>3, OneAtMost DEF Plannable
<1>5. CASE version.winds = <<>>
  <2>1. ws = pinned
    BY <1>1, <1>5 DEF Weather
  <2>2. QED
    BY <1>1, <1>3, <1>4, <2>1 DEF IsWind
<1>6. CASE version.winds # <<>>
  <2>1. PICK wind : wind = version.winds[1]
    OBVIOUS
  <2>2. wind \in [speed : Nat, from : 0 .. 359]
    <3>1. PICK f, T : f = version.winds /\ T = [speed : Nat, from : 0 .. 359]
      OBVIOUS
    <3>2. f \in Seq(T) /\ f # <<>>
      BY <1>6, <3>1 DEF VersionFits
    <3>3. f[1] \in T
      BY <3>2
    <3>4. QED
      BY <2>1, <3>1, <3>3
  <2>3. ws = {[w EXCEPT !.speed = wind.speed, !.from = wind.from] : w \in pinned}
    BY <1>1, <1>6, <2>1 DEF Weather
  <2>4. \A v, w \in ws : v = w
    BY <1>4, <2>3
  <2>5. ASSUME NEW w \in ws PROVE w.x \in Int /\ w.at \in Int /\ w.speed \in Nat /\ w.from \in Nat
    <3>1. PICK v \in pinned : w = [v EXCEPT !.speed = wind.speed, !.from = wind.from]
      BY <2>3
    <3>2. v \in [id : Nat, x : Int, at : Int, speed : Nat, from : 0 .. 359]
      BY <1>3
    <3>3. QED
      BY <2>2, <3>1, <3>2
  <2>6. QED
    BY <1>1, <2>4, <2>5 DEF IsWind
<1>7. QED
  BY <1>5, <1>6

\* Its risk.
LEMMA RiskIs ==
    ASSUME LiveInv, NEW s \in DOMAIN scenarios, NEW version, VersionFits(version),
           Plannable(s, version)
    PROVE  Risk(s, version) \in Nat
<1>1. PICK p, ws : p = Pinned(s) /\ ws = Weather(s, version)
  OBVIOUS
<1>2. PICK w : w = SelectWeather(ws, p.place, p.reference)
  OBVIOUS
<1>3. IsSnapshot(p)
  BY <1>1, PinnedUnitsKnown, LiveAssumption
<1>4. w.at \in Int /\ w.speed \in Nat /\ w.from \in Nat
  <2>1. p.place \in Int /\ p.reference \in Int
    BY <1>3 DEF IsSnapshot
  <2>2. QED
    BY <1>1, <1>2, <2>1, WeatherIs, SelectedIs
<1>5. IsScene(p.detections, w, p.assets, p.place, p.reference)
  <2>1. \E d \in p.detections : d.at <= p.reference
    BY <1>1 DEF Plannable
  <2>2. \A d \in p.detections : d.at \in Int /\ d.confidence \in Nat
    BY <1>3 DEF IsSnapshot
  <2>3. IsFiniteSet(p.detections) /\ IsFiniteSet(p.assets)
    BY <1>3 DEF IsSnapshot
  <2>4. /\ \A a \in p.assets : a.x \in Int /\ (a.kind = "community" => a.population \in Nat)
        /\ p.place \in Int /\ p.reference \in Int
    BY <1>3 DEF IsSnapshot
  <2>5. QED
    BY <1>4, <2>1, <2>2, <2>3, <2>4 DEF IsScene
<1>6. PICK k : k = RiskFactors(p.detections, w, p.assets, p.place, p.reference)
  OBVIOUS
<1>7. Score(k) \in Nat
  BY <1>5, <1>6, FactorsAre, ScoreIs
<1>8. Risk(s, version) = Score(k)
  BY <1>1, <1>2, <1>6 DEF Risk
<1>9. QED
  BY <1>7, <1>8

\* A route, cached or not.
LEMMA RouteForIs ==
    ASSUME CachedAsSearched, NEW a \in Nodes, NEW b \in Nodes, NEW closed \in SUBSET Edges
    PROVE  RouteFor(a, b, closed) = Route(a, b, closed)
<1>1. RouteFor(a, b, closed) = Searched[<<a, b, closed>>]
  BY DEF RouteFor, CachedAsSearched
<1>2. <<a, b, closed>> \in Trips
  BY DEF Trips
<1>3. BestRoutes[<<a, b, closed>>] = Route(a, b, closed)
  BY <1>2 DEF BestRoutes
<1>4. QED
  BY <1>1, <1>3, SearchedAreBest

\* The parts of a version's problem.
LEMMA ProblemHolds ==
    ASSUME NEW s, NEW version, NEW limit, NEW q, q = Problem(s, version, limit),
           NEW units, units = Units(s, version),
           NEW demands, demands = Demands(s, version, limit)
    PROVE  /\ q.resources = units /\ q.tasks = demands /\ q.locks = {} /\ q.weight = 1
           /\ q.eligible = Eligible(q)
           /\ \A p \in Pairs(q) : q.routes[p] = RouteFor(Nearest(units[p[1]].at),
                                        Nearest(demands[p[2]].at), version.closed)
<1> DEFINE routes == [p \in (DOMAIN units) \X (DOMAIN demands) |->
                         RouteFor(Nearest(units[p[1]].at), Nearest(demands[p[2]].at),
                                  version.closed)]
           o == [ resources |-> units, tasks |-> demands, locks |-> {}, weight |-> 1,
                  routes |-> routes ]
<1>1. q = Prepared(o)
  BY DEF Problem
<1>2. o.resources = units /\ o.tasks = demands /\ o.locks = {} /\ o.routes = routes /\ o.weight = 1
  OBVIOUS
<1> HIDE DEF o
<1>3. /\ q.resources = units /\ q.tasks = demands /\ q.locks = {} /\ q.routes = routes
      /\ q.weight = 1 /\ q.eligible = Eligible(o)
  BY <1>1, <1>2 DEF Prepared
<1>4. Eligible(o) = Eligible(q)
  BY <1>2, <1>3 DEF Eligible, Pairs
<1>5. QED
  BY <1>3, <1>4 DEF Pairs

\* A version's units are there as it says, and else as they were.
AsOffered(units, p, version) ==
    \A r \in DOMAIN units :
        units[r].available = IF r \in DOMAIN version.units THEN version.units[r]
                             ELSE p.units[r].available

\* The units of a version.
LEMMA UnitsAre ==
    ASSUME LiveInv, NEW s \in DOMAIN scenarios, NEW version,
           NEW units, units = Units(s, version), NEW p, p = Pinned(s)
    PROVE  /\ IsFiniteSet(DOMAIN units) /\ DOMAIN units = DOMAIN p.units
           /\ AsOffered(units, p, version)
           /\ \A r \in DOMAIN units :
                 /\ units[r].capacity = p.units[r].capacity /\ units[r].skills = p.units[r].skills
                 /\ units[r].at = p.units[r].at
                 /\ units[r].capacity \in Nat \ {0} /\ units[r].at \in Int
                 /\ p.units[r].available \in BOOLEAN
<1>1. IsSnapshot(p)
  BY PinnedUnitsKnown, LiveAssumption
<1>2. DOMAIN units = DOMAIN p.units
  BY DEF Units
<1>3. IsFiniteSet(DOMAIN p.units)
  BY <1>1 DEF IsSnapshot
<1>4. ASSUME NEW r \in DOMAIN units
      PROVE  /\ units[r].capacity = p.units[r].capacity /\ units[r].skills = p.units[r].skills
             /\ units[r].at = p.units[r].at
             /\ units[r].available = IF r \in DOMAIN version.units THEN version.units[r]
                                     ELSE p.units[r].available
             /\ units[r].capacity \in Nat \ {0} /\ units[r].at \in Int
             /\ p.units[r].available \in BOOLEAN
  <2>1. PICK u, a : /\ u = p.units[r]
                    /\ a = IF r \in DOMAIN version.units THEN version.units[r] ELSE u.available
    OBVIOUS
  <2>2. units[r] = [u EXCEPT !.available = a]
    BY <1>2, <2>1 DEF Units
  <2>3. /\ {"skills", "capacity", "available", "at"} \subseteq DOMAIN u
        /\ u.capacity \in Nat \ {0} /\ u.at \in Int /\ u.available \in BOOLEAN
    BY <1>1, <1>2, <2>1 DEF IsSnapshot
  <2>4. /\ units[r].capacity = u.capacity /\ units[r].skills = u.skills
        /\ units[r].at = u.at /\ units[r].available = a
    BY <2>2, <2>3
  <2>5. QED
    BY <2>1, <2>3, <2>4
<1>5. AsOffered(units, p, version)
  BY <1>4 DEF AsOffered
<1>6. QED
  BY <1>2, <1>3, <1>4, <1>5

\* What its destinations demand.
LEMMA DemandsAre ==
    ASSUME LiveInv, NEW s \in DOMAIN scenarios, NEW version, VersionFits(version),
           Plannable(s, version), NEW limit \in Nat,
           NEW demands, demands = Demands(s, version, limit)
    PROVE  /\ IsFiniteSet(DOMAIN demands)
           /\ \A t \in DOMAIN demands :
                 /\ demands[t].need \in Nat \ {0} /\ demands[t].penalty \in Nat
                 /\ demands[t].at \in Int /\ demands[t].deadline = limit
<1>1. PICK A, k : A = Pinned(s).assets /\ k = 10 * Risk(s, version)
  OBVIOUS
<1>2. IsFiniteSet(A) /\ \A a \in A : a.x \in Int /\ a.need \in Nat \ {0}
  BY <1>1, PinnedUnitsKnown, LiveAssumption DEF IsSnapshot
<1>3. k \in Nat
  BY <1>1, RiskIs
<1>4. DOMAIN demands = {a.id : a \in A}
  BY <1>1 DEF Demands
<1>5. IsFiniteSet(DOMAIN demands)
  <2>1. PICK f : f = [a \in A |-> a.id]
    OBVIOUS
  <2>2. PICK T : T = DOMAIN demands
    OBVIOUS
  <2>3. \A t \in T : \E a \in A : f[a] = t
    BY <1>4, <2>1, <2>2
  <2>4. IsFiniteSet(T)
    BY <1>2, <2>3, ImageFinite
  <2>5. QED
    BY <2>2, <2>4
<1>6. ASSUME NEW t \in DOMAIN demands
      PROVE  /\ demands[t].need \in Nat \ {0} /\ demands[t].penalty \in Nat
             /\ demands[t].at \in Int /\ demands[t].deadline = limit
  <2>1. PICK a : a = CHOOSE x \in A : x.id = t
    OBVIOUS
  <2>2. a \in A
    BY <1>4, <2>1
  <2>3. demands[t] = [ skill |-> a.skill, need |-> a.need, at |-> a.x, deadline |-> limit,
                       penalty |-> k ]
    BY <1>1, <1>4, <2>1 DEF Demands
  <2>4. QED
    BY <1>2, <1>3, <2>2, <2>3
<1>7. QED
  BY <1>5, <1>6

\* So its problem is a request, with the routes there are.
LEMMA ProblemIs ==
    ASSUME LiveInv, CachedAsSearched, NEW s \in DOMAIN scenarios, NEW version,
           VersionFits(version), Plannable(s, version), NEW limit \in Nat,
           NEW q, q = Problem(s, version, limit)
    PROVE  /\ IsRequest(q)
           /\ \A p \in Pairs(q) :
                 /\ Nearest(q.resources[p[1]].at) \in Nodes
                 /\ Nearest(q.tasks[p[2]].at) \in Nodes
                 /\ q.routes[p] = Route(Nearest(q.resources[p[1]].at),
                                        Nearest(q.tasks[p[2]].at), version.closed)
<1>1. PICK units, demands : units = Units(s, version) /\ demands = Demands(s, version, limit)
  OBVIOUS
<1>2. /\ q.resources = units /\ q.tasks = demands /\ q.weight = 1 /\ q.eligible = Eligible(q)
      /\ \A p \in Pairs(q) : q.routes[p] = RouteFor(Nearest(units[p[1]].at),
                                   Nearest(demands[p[2]].at), version.closed)
  BY <1>1, ProblemHolds
<1>3. /\ IsFiniteSet(DOMAIN units)
      /\ \A r \in DOMAIN units :
            /\ units[r].capacity \in Nat \ {0} /\ units[r].at \in Int
            /\ units[r].available \in BOOLEAN
  <2>1. PICK p : p = Pinned(s)
    OBVIOUS
  <2>2. /\ IsFiniteSet(DOMAIN units) /\ DOMAIN units = DOMAIN p.units
    BY <1>1, <2>1, UnitsAre
  <2>3. AsOffered(units, p, version)
    BY <1>1, <2>1, UnitsAre
  <2>4. \A r \in DOMAIN units :
           /\ units[r].capacity \in Nat \ {0} /\ units[r].at \in Int
           /\ p.units[r].available \in BOOLEAN
    BY <1>1, <2>1, UnitsAre
  <2>5. ASSUME NEW r \in DOMAIN units PROVE units[r].available \in BOOLEAN
    <3>1. CASE r \in DOMAIN version.units
      <4>1. version.units[r] \in BOOLEAN
        BY <3>1 DEF VersionFits
      <4>2. QED
        BY <2>3, <3>1, <4>1 DEF AsOffered
    <3>2. CASE r \notin DOMAIN version.units
      BY <2>3, <2>4, <3>2 DEF AsOffered
    <3>3. QED
      BY <3>1, <3>2
  <2>6. QED
    BY <2>2, <2>5, <2>4
<1>4. /\ IsFiniteSet(DOMAIN demands)
      /\ \A t \in DOMAIN demands :
            /\ demands[t].need \in Nat \ {0} /\ demands[t].penalty \in Nat
            /\ demands[t].at \in Int
  BY <1>1, DemandsAre
<1>5. ASSUME NEW p \in Pairs(q)
      PROVE  /\ Nearest(q.resources[p[1]].at) \in Nodes
             /\ Nearest(q.tasks[p[2]].at) \in Nodes
             /\ q.routes[p] = Route(Nearest(q.resources[p[1]].at),
                                    Nearest(q.tasks[p[2]].at), version.closed)
             /\ q.routes[p].minutes \in Nat /\ q.routes[p].reachable \in BOOLEAN
  <2>1. p[1] \in DOMAIN units /\ p[2] \in DOMAIN demands
    BY <1>2 DEF Pairs
  <2>2. PICK a, b, c : /\ a = Nearest(units[p[1]].at) /\ b = Nearest(demands[p[2]].at)
                       /\ c = version.closed
    OBVIOUS
  <2>3. a \in Nodes /\ b \in Nodes /\ c \in SUBSET Edges
    BY <1>3, <1>4, <2>1, <2>2, NearestIs, LiveAssumption DEF VersionFits
  <2>4. q.routes[p] = Route(a, b, c)
    BY <1>2, <2>2, <2>3, RouteForIs
  <2>5. QED
    BY <1>2, <2>2, <2>3, <2>4, RouteMinutes
<1>6. IsRequest(q)
  BY <1>2, <1>3, <1>4, <1>5 DEF IsRequest
<1>7. QED
  BY <1>5, <1>6

-----------------------------------------------------------------------------
(* The reasons live planning states for an uncovered destination are true. *)

\* What each of them says.
LEMMA LimitingIs ==
    ASSUME NEW q, IsRequest(q), NEW answer, NEW t \in DOMAIN q.tasks,
           NEW E, E = ServersOf(q.eligible, t),
           NEW why, why = Limiting(q, answer, t)
    PROVE  /\ "capacity" \in why <=> CapacityOf(q, E) < q.tasks[t].need
           /\ "solver-status" \in why <=> ~Solved(answer)
           /\ "objective-tradeoff" \in why <=>
                 /\ Solved(answer) /\ CapacityOf(q, E) >= q.tasks[t].need
                 /\ CapacityOf(q, IdleFor(q, answer, t)) >= q.tasks[t].need
           /\ "resource-contention" \in why <=>
                 /\ Solved(answer) /\ CapacityOf(q, E) >= q.tasks[t].need
                 /\ CapacityOf(q, IdleFor(q, answer, t)) < q.tasks[t].need
<1>1. PICK m, n, k : /\ m = CapacityOf(q, E) /\ n = q.tasks[t].need
                     /\ k = CapacityOf(q, IdleFor(q, answer, t))
  OBVIOUS
<1>2. m \in Nat /\ n \in Nat /\ k \in Nat
  <2>1. E \subseteq DOMAIN q.resources
    BY ServersAre
  <2>2. PICK I : I = IdleFor(q, answer, t)
    OBVIOUS
  <2>3. I \subseteq E
    BY <2>2 DEF IdleFor
  <2>4. QED
    BY <1>1, <2>1, <2>2, <2>3, CapacityGrows DEF IsRequest
<1>3. PICK own : own = {Ineligibility(q, <<r, t>>) : r \in DOMAIN q.resources} \ {"none"}
  OBVIOUS
<1>4. own \subseteq {"availability", "compatibility", "route", "deadline"}
  BY <1>3, IneligibilityIs
<1>5. why = own \cup {x \in {"capacity"} : ~(m >= n)}
                \cup {x \in {"solver-status"} : ~Solved(answer)}
                \cup {x \in {"objective-tradeoff"} : Solved(answer) /\ m >= n /\ k >= n}
                \cup {x \in {"resource-contention"} : Solved(answer) /\ m >= n /\ ~(k >= n)}
  BY <1>1, <1>3 DEF Limiting, EnoughIdle
<1>6. (~(m >= n) <=> m < n) /\ (~(k >= n) <=> k < n)
  BY <1>2
<1>7. QED
  BY <1>1, <1>4, <1>5, <1>6

\* What a tradeoff in a best plan says.
LEMMA TradeoffCosts ==
    ASSUME NEW q, IsRequest(q), NEW best \in BestPlans(q), NEW t \in DOMAIN q.tasks,
           t \notin Covered(best), NEW pairs \in Plans(q), best \subseteq pairs,
           t \in Covered(pairs)
    PROVE  CostOf(q, pairs) - CostOf(q, best) >= q.tasks[t].penalty
<1>1. PICK U, X, R, w : /\ U = DOMAIN q.tasks \ Covered(best) /\ X = DOMAIN q.tasks \ Covered(pairs)
                        /\ R = U \ {t} /\ w = PenaltyIn(q)
  OBVIOUS
<1>2. t \in U /\ X \subseteq R /\ R \subseteq U /\ U \subseteq DOMAIN q.tasks
  BY <1>1 DEF Covered
<1>3. /\ Weighs(w, U) /\ PenaltyOf(q, U) = SumOf(w, U)
      /\ Weighs(w, R) /\ Weighs(w, X) /\ PenaltyOf(q, X) = SumOf(w, X)
  <2>1. X \subseteq DOMAIN q.tasks /\ R \subseteq DOMAIN q.tasks
    BY <1>2
  <2>2. QED
    BY <1>1, <1>2, <2>1, PenaltyIs
<1>4. SumOf(w, U) = w[t] + SumOf(w, R) /\ w[t] = q.tasks[t].penalty
  <2>1. w[t] = q.tasks[t].penalty
    BY <1>1 DEF PenaltyIn
  <2>2. SumOf(w, U) = w[t] + SumOf(w, U \ {t})
    BY <1>2, <1>3, SumRemove
  <2>3. QED
    BY <1>1, <2>1, <2>2
<1>5. SumOf(w, X) <= SumOf(w, R)
  BY <1>2, <1>3, SumOfPart
<1>6. /\ SumOf(w, X) \in Nat /\ SumOf(w, R) \in Nat /\ SumOf(w, U) \in Nat
      /\ q.tasks[t].penalty \in Nat
  BY <1>3, SumStep DEF IsRequest
<1>7. best \subseteq Pairs(q) /\ pairs \subseteq Pairs(q)
  BY DEF BestPlans, Plans, IsRequest, Eligible
<1>8. CostOf(q, best) \in Nat /\ CostOf(q, pairs) \in Nat
  BY <1>7, ObjectiveIsNat
<1>9. Objective(q, best) <= Objective(q, pairs)
  BY BestIsLeast
<1>10. /\ Objective(q, best) = CostOf(q, best) + SumOf(w, U)
       /\ Objective(q, pairs) = CostOf(q, pairs) + SumOf(w, X)
  BY <1>1, <1>3 DEF Objective
<1>11. PICK a, b, x, r, u, p : /\ a = CostOf(q, best) /\ b = CostOf(q, pairs)
                               /\ x = SumOf(w, X) /\ r = SumOf(w, R) /\ u = SumOf(w, U)
                               /\ p = q.tasks[t].penalty
  OBVIOUS
<1>12. /\ a \in Nat /\ b \in Nat /\ x \in Nat /\ r \in Nat /\ u \in Nat /\ p \in Nat
       /\ a + u <= b + x /\ u = p + r /\ x <= r
  BY <1>4, <1>5, <1>6, <1>8, <1>9, <1>10, <1>11
<1>13. b - a >= p
  BY <1>12
<1>14. QED
  BY <1>11, <1>13

\* Sending all who may go covers a destination they suffice for.
LEMMA AllCover ==
    ASSUME NEW q, IsRequest(q), q.locks = {}, NEW t \in DOMAIN q.tasks,
           NEW E, E = ServersOf(q.eligible, t), CapacityOf(q, E) >= q.tasks[t].need
    PROVE  E \X {t} \in Plans(q)
<1>1. PICK nobody : nobody = {}
  OBVIOUS
<1>2. nobody \in Plans(q)
  BY <1>1 DEF Plans, IsPlan
<1>3. t \notin Covered(nobody) /\ nobody \cup (E \X {t}) = E \X {t}
  BY <1>1 DEF Covered
<1>4. \A p \in nobody : p[1] \notin E
  BY <1>1
<1>5. nobody \cup (E \X {t}) \in Plans(q)
  BY <1>2, <1>3, <1>4, CoverOneTask
<1>6. QED
  BY <1>3, <1>5

\* Nobody supplies nothing.
LEMMA NobodySupplies ==
    ASSUME NEW q, IsRequest(q)
    PROVE  CapacityOf(q, {}) = 0
<1>1. {} \subseteq DOMAIN q.resources
  OBVIOUS
<1>2. QED
  BY <1>1, CapacityIs, SumStep

\* What a contention says.
LEMMA ContentionIs ==
    ASSUME NEW q, IsRequest(q), q.locks = {}, NEW answer, answer.pairs \in Plans(q),
           NEW t \in DOMAIN q.tasks, t \notin Covered(answer.pairs),
           NEW E, E = ServersOf(q.eligible, t), CapacityOf(q, E) >= q.tasks[t].need,
           CapacityOf(q, IdleFor(q, answer, t)) < q.tasks[t].need,
           NEW named, named = Competing(q, answer, t)
    PROVE  /\ named # {}
           /\ \E pairs \in Plans(q) :
                 t \in Covered(pairs) /\ Sent(pairs) \cap Sent(answer.pairs \ named) = {}
           /\ \A pairs \in Plans(q) : answer.pairs \subseteq pairs => t \notin Covered(pairs)
<1>1. PICK A, I, need : /\ A = answer.pairs /\ I = IdleFor(q, answer, t)
                        /\ need = q.tasks[t].need
  OBVIOUS
<1>2. /\ E \subseteq DOMAIN q.resources /\ I \subseteq E /\ need \in Nat \ {0}
      /\ CapacityOf(q, E) \in Nat /\ CapacityOf(q, I) \in Nat
  <2>1. E \subseteq DOMAIN q.resources
    BY ServersAre
  <2>2. I \subseteq E
    BY <1>1 DEF IdleFor
  <2>3. QED
    BY <1>1, <2>1, <2>2, CapacityGrows DEF IsRequest
<1>3. I = E \ {p[1] : p \in A}
  BY <1>1 DEF IdleFor, AssignedIn
<1>4. named = {p \in A : p[1] \in E}
  BY <1>1 DEF Competing
<1>5. named # {}
  <2> SUFFICES ASSUME named = {} PROVE FALSE
    OBVIOUS
  <2>1. I = E
    BY <1>3, <1>4
  <2>2. QED
    BY <1>1, <1>2, <2>1
<1>6. \E pairs \in Plans(q) :
         t \in Covered(pairs) /\ Sent(pairs) \cap Sent(answer.pairs \ named) = {}
  <2>1. PICK all : all = E \X {t}
    OBVIOUS
  <2>2. all \in Plans(q)
    BY <2>1, AllCover
  <2>3. E # {}
    BY <1>1, <1>2, NobodySupplies
  <2>4. t \in Covered(all)
    <3>1. PICK r : r \in E
      BY <2>3
    <3>2. <<r, t>> \in all /\ <<r, t>>[2] = t
      BY <2>1, <3>1
    <3>3. QED
      BY <3>2 DEF Covered
  <2>5. Sent(all) \subseteq E
    BY <2>1 DEF Sent
  <2>6. Sent(A \ named) \cap E = {}
    BY <1>4 DEF Sent
  <2>7. QED
    BY <1>1, <2>2, <2>4, <2>5, <2>6
<1>7. ASSUME NEW pairs \in Plans(q), A \subseteq pairs, t \in Covered(pairs) PROVE FALSE
  <2>1. pairs \subseteq q.eligible /\ IsPlan(q, pairs)
    BY DEF Plans
  <2>2. PICK S : S = ServersOf(pairs, t)
    OBVIOUS
  <2>3. PICK p \in pairs : p[2] = t
    BY <1>7 DEF Covered
  <2>4. CapacityOf(q, S) >= need
    BY <1>1, <2>1, <2>2, <2>3 DEF IsPlan
  <2>5. S \subseteq I
    <3> SUFFICES ASSUME NEW r \in S, \E o \in A : o[1] = r PROVE FALSE
      BY <1>3, <2>1, <2>2, SentAreServers
    <3>1. PICK o \in A : o[1] = r
      OBVIOUS
    <3>2. PICK x : x = <<r, t>>
      OBVIOUS
    <3>3. x \in pairs /\ x[1] = r /\ x[2] = t
      BY <2>1, <2>2, <3>2, SentAreServers
    <3>4. o = x
      BY <1>7, <2>1, <3>1, <3>3 DEF IsPlan
    <3>5. QED
      BY <1>1, <3>1, <3>3, <3>4 DEF Covered
  <2>6. I \subseteq DOMAIN q.resources
    BY <1>2
  <2>7. CapacityOf(q, S) \in Nat /\ CapacityOf(q, S) <= CapacityOf(q, I)
    BY <2>5, <2>6, CapacityGrows
  <2>8. QED
    BY <1>1, <1>2, <2>4, <2>7
<1>8. QED
  BY <1>1, <1>5, <1>6, <1>7

\* What LimitsExplained says of an answer.
TrueLimits(q, answer) ==
    \A t \in Uncovered(q, answer) :
        LET why == Limiting(q, answer, t)
            named == Competing(q, answer, t)
        IN /\ why # {}
           /\ "capacity" \in why <=> \A pairs \in Plans(q) : t \notin Covered(pairs)
           /\ "objective-tradeoff" \in why /\ answer.status = "OPTIMAL" =>
                 \A pairs \in Plans(q) :
                    answer.pairs \subseteq pairs /\ t \in Covered(pairs) =>
                       CostOf(q, pairs) - CostOf(q, answer.pairs) >= q.tasks[t].penalty
           /\ "resource-contention" \in why =>
                 /\ named # {}
                 /\ \E pairs \in Plans(q) :
                       t \in Covered(pairs) /\ Sent(pairs) \cap Sent(answer.pairs \ named) = {}
                 /\ \A pairs \in Plans(q) : answer.pairs \subseteq pairs =>
                       t \notin Covered(pairs)

\* Every reason stated is true.
LEMMA LimitsAreTrue ==
    ASSUME NEW q, IsRequest(q), q.locks = {}, NEW answer \in Answers(q)
    PROVE  TrueLimits(q, answer)
<1> SUFFICES ASSUME NEW t \in DOMAIN q.tasks, t \notin Covered(answer.pairs),
                    NEW why, why = Limiting(q, answer, t),
                    NEW named, named = Competing(q, answer, t)
             PROVE  /\ why # {}
                    /\ "capacity" \in why <=> \A pairs \in Plans(q) : t \notin Covered(pairs)
                    /\ "objective-tradeoff" \in why /\ answer.status = "OPTIMAL" =>
                          \A pairs \in Plans(q) :
                             answer.pairs \subseteq pairs /\ t \in Covered(pairs) =>
                                CostOf(q, pairs) - CostOf(q, answer.pairs) >= q.tasks[t].penalty
                    /\ "resource-contention" \in why =>
                          /\ named # {}
                          /\ \E pairs \in Plans(q) :
                                t \in Covered(pairs)
                                /\ Sent(pairs) \cap Sent(answer.pairs \ named) = {}
                          /\ \A pairs \in Plans(q) : answer.pairs \subseteq pairs =>
                                t \notin Covered(pairs)
  BY DEF TrueLimits, Uncovered
<1>1. PICK E, able, idle : /\ E = ServersOf(q.eligible, t)
                           /\ able = (CapacityOf(q, E) >= q.tasks[t].need)
                           /\ idle = (CapacityOf(q, IdleFor(q, answer, t)) >= q.tasks[t].need)
  OBVIOUS
<1>2. /\ (CapacityOf(q, E) < q.tasks[t].need) <=> ~able
      /\ (CapacityOf(q, IdleFor(q, answer, t)) < q.tasks[t].need) <=> ~idle
      /\ q.tasks[t].need \in Nat \ {0}
  <2>1. E \subseteq DOMAIN q.resources
    BY <1>1, ServersAre
  <2>2. PICK I : I = IdleFor(q, answer, t)
    OBVIOUS
  <2>3. I \subseteq E
    BY <1>1, <2>2 DEF IdleFor
  <2>4. PICK m, n, k : m = CapacityOf(q, E) /\ n = q.tasks[t].need /\ k = CapacityOf(q, I)
    OBVIOUS
  <2>5. m \in Nat /\ k \in Nat /\ n \in Nat \ {0}
    BY <2>1, <2>3, <2>4, CapacityGrows DEF IsRequest
  <2>6. (m < n <=> ~(m >= n)) /\ (k < n <=> ~(k >= n))
    BY <2>5
  <2>7. QED
    BY <1>1, <2>2, <2>4, <2>5, <2>6
<1>3. /\ "capacity" \in why <=> ~able
      /\ "solver-status" \in why <=> ~Solved(answer)
      /\ "objective-tradeoff" \in why <=> Solved(answer) /\ able /\ idle
      /\ "resource-contention" \in why <=> Solved(answer) /\ able /\ ~idle
  BY <1>1, <1>2, LimitingIs
<1>4. why # {}
  BY <1>3
<1>5. "capacity" \in why <=> \A pairs \in Plans(q) : t \notin Covered(pairs)
  <2>1. (\A pairs \in Plans(q) : t \notin Covered(pairs)) <=> E = {} \/ ~able
    BY <1>1, <1>2, CoverableIs
  <2>2. E = {} => ~able
    <3> SUFFICES ASSUME E = {}, able PROVE FALSE
      OBVIOUS
    <3>1. 0 >= q.tasks[t].need
      BY <1>1, NobodySupplies
    <3>2. QED
      BY <1>2, <3>1
  <2>3. QED
    BY <1>3, <2>1, <2>2
<1>6. ASSUME "objective-tradeoff" \in why, answer.status = "OPTIMAL", NEW pairs \in Plans(q),
             answer.pairs \subseteq pairs, t \in Covered(pairs)
      PROVE  CostOf(q, pairs) - CostOf(q, answer.pairs) >= q.tasks[t].penalty
  BY <1>6, AnswerIs, TradeoffCosts
<1>7. ASSUME "resource-contention" \in why
      PROVE  /\ named # {}
             /\ \E pairs \in Plans(q) :
                   t \in Covered(pairs) /\ Sent(pairs) \cap Sent(answer.pairs \ named) = {}
             /\ \A pairs \in Plans(q) : answer.pairs \subseteq pairs => t \notin Covered(pairs)
  <2>1. Solved(answer) /\ able /\ ~idle
    BY <1>3, <1>7
  <2>2. answer.pairs \in Plans(q)
    BY <2>1, AnswerIs
  <2>3. /\ CapacityOf(q, E) >= q.tasks[t].need
        /\ CapacityOf(q, IdleFor(q, answer, t)) < q.tasks[t].need
    BY <1>1, <1>2, <2>1
  <2>4. QED
    BY <1>1, <2>2, <2>3, ContentionIs
<1>8. QED
  BY <1>4, <1>5, <1>6, <1>7

-----------------------------------------------------------------------------
(* A harder version, or a shorter limit, never makes a plan look better.   *)

\* A request is tighter than another: nothing more may go, and nowhere faster.
Tighter(o, q) ==
    /\ CapacityIn(o) = CapacityIn(q) /\ DOMAIN o.resources = DOMAIN q.resources
    /\ PenaltyIn(o) = PenaltyIn(q) /\ DOMAIN o.tasks = DOMAIN q.tasks
    /\ \A t \in DOMAIN o.tasks : o.tasks[t].need = q.tasks[t].need
    /\ o.locks = {} /\ q.locks = {}
    /\ o.eligible \subseteq q.eligible
    /\ \A p \in o.eligible : TravelCost(q, p) <= TravelCost(o, p)

\* Its best plan is no better.
LEMMA TighterCosts ==
    ASSUME NEW q, NEW o, IsRequest(q), IsRequest(o), Tighter(o, q),
           NEW best \in BestPlans(q), NEW other \in BestPlans(o)
    PROVE  Objective(o, other) >= Objective(q, best)
<1>1. /\ other \in Plans(o) /\ other \subseteq o.eligible /\ IsPlan(o, other)
      /\ other \subseteq q.eligible
  BY DEF BestPlans, Plans, Tighter
<1>2. other \subseteq Pairs(q) /\ other \subseteq Pairs(o)
  BY <1>1 DEF IsRequest, Eligible
<1>3. ASSUME NEW S, S \subseteq DOMAIN q.resources PROVE CapacityOf(o, S) = CapacityOf(q, S)
  <2>1. CapacityOf(q, S) = SumOf(CapacityIn(q), S)
    BY <1>3, CapacityIs
  <2>2. S \subseteq DOMAIN o.resources
    BY <1>3 DEF Tighter
  <2>3. CapacityOf(o, S) = SumOf(CapacityIn(o), S)
    BY <2>2, CapacityIs
  <2>4. QED
    BY <2>1, <2>3 DEF Tighter
<1>4. IsPlan(q, other)
  <2>1. \A p \in other : CapacityOf(q, ServersOf(other, p[2])) >= q.tasks[p[2]].need
    <3> SUFFICES ASSUME NEW p \in other
                 PROVE  CapacityOf(q, ServersOf(other, p[2])) >= q.tasks[p[2]].need
      OBVIOUS
    <3>1. PICK S, t : S = ServersOf(other, t) /\ t = p[2]
      OBVIOUS
    <3>2. S \subseteq DOMAIN q.resources
      BY <1>1, <3>1, SentAreServers
    <3>3. CapacityOf(o, S) >= o.tasks[t].need
      BY <1>1, <3>1 DEF IsPlan
    <3>4. t \in DOMAIN o.tasks
      BY <1>2, <3>1 DEF Pairs
    <3>5. o.tasks[t].need = q.tasks[t].need
      BY <3>4 DEF Tighter
    <3>6. QED
      BY <1>3, <3>1, <3>2, <3>3, <3>5
  <2>2. QED
    BY <1>1, <2>1 DEF IsPlan, Tighter
<1>5. other \in Plans(q)
  BY <1>1, <1>4 DEF Plans
<1>6. CostOf(q, other) <= CostOf(o, other)
  <2>1. /\ Weighs(CostIn(q), other) /\ CostOf(q, other) = SumOf(CostIn(q), other)
        /\ Weighs(CostIn(o), other) /\ CostOf(o, other) = SumOf(CostIn(o), other)
    BY <1>2, CostIs
  <2>2. \A p \in other : CostIn(q)[p] <= CostIn(o)[p]
    BY <1>1, <1>2 DEF CostIn, Tighter
  <2>3. QED
    BY <2>1, <2>2, SumLess
<1>7. PICK U : U = DOMAIN q.tasks \ Covered(other)
  OBVIOUS
<1>8. /\ U = DOMAIN o.tasks \ Covered(other)
      /\ U \subseteq DOMAIN q.tasks /\ U \subseteq DOMAIN o.tasks
  BY <1>7 DEF Tighter
<1>9. PenaltyOf(q, U) = PenaltyOf(o, U)
  <2>1. PenaltyOf(q, U) = SumOf(PenaltyIn(q), U) /\ PenaltyOf(o, U) = SumOf(PenaltyIn(o), U)
    BY <1>8, PenaltyIs
  <2>2. QED
    BY <2>1 DEF Tighter
<1>10. /\ Objective(q, other) = CostOf(q, other) + PenaltyOf(q, U)
       /\ Objective(o, other) = CostOf(o, other) + PenaltyOf(o, U)
  BY <1>7, <1>8 DEF Objective
<1>11. Objective(q, best) <= Objective(q, other)
  BY <1>5, BestIsLeast
<1>12. best \subseteq Pairs(q)
  BY DEF BestPlans, Plans, IsRequest, Eligible
<1>13. /\ Objective(q, best) \in Nat /\ CostOf(q, other) \in Nat /\ CostOf(o, other) \in Nat
       /\ PenaltyOf(q, U) \in Nat
  BY <1>2, <1>7, <1>12, ObjectiveIsNat
<1>14. PICK a, b, c, d : /\ a = Objective(q, best) /\ b = CostOf(q, other)
                         /\ c = CostOf(o, other) /\ d = PenaltyOf(q, U)
  OBVIOUS
<1>15. a \in Nat /\ b \in Nat /\ c \in Nat /\ d \in Nat /\ a <= b + d /\ b <= c
  BY <1>6, <1>10, <1>11, <1>13, <1>14
<1>16. c + d >= a
  BY <1>15
<1>17. QED
  BY <1>9, <1>10, <1>14, <1>16

\* Rounding up keeps the order.
LEMMA CeilGrows ==
    ASSUME NEW m \in Nat, NEW n \in Nat, m <= n
    PROVE  CeilMinutes(m) \in Nat /\ CeilMinutes(n) \in Nat /\ CeilMinutes(m) <= CeilMinutes(n)
  BY DEF CeilMinutes

\* The problem of a harder version under a shorter limit is tighter.
LEMMA HarderIsTighter ==
    ASSUME LiveInv, CachedAsSearched, NEW s \in DOMAIN scenarios,
           NEW one, VersionFits(one), Plannable(s, one),
           NEW other, VersionFits(other), Plannable(s, other), Harder(other, one),
           NEW l \in Nat, NEW k \in Nat, k <= l,
           NEW q, q = Problem(s, one, l), NEW o, o = Problem(s, other, k)
    PROVE  Tighter(o, q)
<1>1. PICK p, qu, ou, qd, od : /\ p = Pinned(s)
                               /\ qu = Units(s, one) /\ ou = Units(s, other)
                               /\ qd = Demands(s, one, l) /\ od = Demands(s, other, k)
  OBVIOUS
<1>2. /\ q.resources = qu /\ q.tasks = qd /\ q.locks = {} /\ q.weight = 1
      /\ o.resources = ou /\ o.tasks = od /\ o.locks = {} /\ o.weight = 1
  BY <1>1, ProblemHolds
<1>3. /\ q.eligible = Eligible(q) /\ o.eligible = Eligible(o)
  BY <1>1, ProblemHolds
<1>4. /\ DOMAIN qu = DOMAIN p.units /\ DOMAIN ou = DOMAIN p.units
      /\ AsOffered(qu, p, one) /\ AsOffered(ou, p, other)
  BY <1>1, UnitsAre
<1>5. \A r \in DOMAIN p.units :
         /\ ou[r].capacity = qu[r].capacity /\ ou[r].skills = qu[r].skills /\ ou[r].at = qu[r].at
  BY <1>1, <1>4, UnitsAre
<1>6. ASSUME NEW r \in DOMAIN p.units, ou[r].available PROVE qu[r].available
  <2>1. CASE r \in DOMAIN other.units
    <3>1. other.units[r]
      BY <1>4, <1>6, <2>1 DEF AsOffered
    <3>2. r \in DOMAIN one.units /\ one.units[r]
      BY <2>1, <3>1 DEF Harder
    <3>3. QED
      BY <1>4, <3>2 DEF AsOffered
  <2>2. CASE r \notin DOMAIN other.units
    <3>1. r \notin DOMAIN one.units
      BY <2>2 DEF Harder
    <3>2. QED
      BY <1>4, <1>6, <2>2, <3>1 DEF AsOffered
  <2>3. QED
    BY <2>1, <2>2
<1>7. Risk(s, other) = Risk(s, one)
  <2>1. Weather(s, other) = Weather(s, one)
    BY DEF Weather, Harder
  <2>2. QED
    BY <2>1 DEF Risk
<1>8. DOMAIN od = DOMAIN qd
  BY <1>1 DEF Demands
<1>9. ASSUME NEW t \in DOMAIN qd
      PROVE  /\ od[t].skill = qd[t].skill /\ od[t].need = qd[t].need /\ od[t].at = qd[t].at
             /\ od[t].penalty = qd[t].penalty /\ od[t].deadline = k /\ qd[t].deadline = l
  <2>1. PICK A, x : A = Pinned(s).assets /\ x = 10 * Risk(s, one)
    OBVIOUS
  <2>2. PICK a : a = CHOOSE y \in A : y.id = t
    OBVIOUS
  <2>3. DOMAIN qd = {a1.id : a1 \in A}
    BY <1>1, <2>1 DEF Demands
  <2>4. /\ qd[t] = [ skill |-> a.skill, need |-> a.need, at |-> a.x, deadline |-> l,
                     penalty |-> x ]
        /\ od[t] = [ skill |-> a.skill, need |-> a.need, at |-> a.x, deadline |-> k,
                     penalty |-> x ]
    BY <1>1, <1>7, <1>9, <2>1, <2>2, <2>3 DEF Demands
  <2>5. QED
    BY <2>4
<1>10. Pairs(o) = Pairs(q) /\ Pairs(q) = (DOMAIN p.units) \X (DOMAIN qd)
  BY <1>2, <1>4, <1>8 DEF Pairs
<1>11. ASSUME NEW x \in Pairs(o), o.routes[x].reachable
       PROVE  /\ q.routes[x].reachable /\ q.routes[x].minutes <= o.routes[x].minutes
              /\ q.routes[x].minutes \in Nat /\ o.routes[x].minutes \in Nat
  <2>1. x \in Pairs(q) /\ x[1] \in DOMAIN p.units /\ x[2] \in DOMAIN qd
    BY <1>10
  <2>2. PICK a, b, C, D : /\ a = Nearest(qu[x[1]].at) /\ b = Nearest(qd[x[2]].at)
                          /\ C = one.closed /\ D = other.closed
    OBVIOUS
  <2>3. q.routes[x] = Route(a, b, C)
    BY <1>2, <2>1, <2>2, ProblemIs
  <2>4. o.routes[x] = Route(a, b, D)
    <3>1. o.routes[x] = Route(Nearest(o.resources[x[1]].at), Nearest(o.tasks[x[2]].at),
                              other.closed)
      BY ProblemIs
    <3>2. o.resources[x[1]].at = qu[x[1]].at /\ o.tasks[x[2]].at = qd[x[2]].at
      BY <1>2, <1>5, <1>9, <2>1
    <3>3. QED
      BY <2>2, <3>1, <3>2
  <2>5. C \subseteq D
    BY <2>2 DEF Harder
  <2>6. QED
    BY <1>11, <2>3, <2>4, <2>5, FewerClosed, RouteMinutes
<1>12. ASSUME NEW x \in o.eligible
       PROVE  x \in q.eligible /\ TravelCost(q, x) <= TravelCost(o, x)
  <2>1. /\ x \in Pairs(o)
        /\ o.resources[x[1]].available /\ o.tasks[x[2]].skill \in o.resources[x[1]].skills
        /\ o.routes[x].reachable /\ o.routes[x].minutes <= 2 * o.tasks[x[2]].deadline
    BY <1>3 DEF Eligible
  <2>2. x[1] \in DOMAIN p.units /\ x[2] \in DOMAIN qd
    BY <1>10, <2>1
  <2>3. q.resources[x[1]].available
    BY <1>2, <1>6, <2>1, <2>2
  <2>4. q.tasks[x[2]].skill \in q.resources[x[1]].skills
    BY <1>2, <1>5, <1>9, <2>1, <2>2
  <2>5. PICK m, n : m = q.routes[x].minutes /\ n = o.routes[x].minutes
    OBVIOUS
  <2>6. q.routes[x].reachable /\ m \in Nat /\ n \in Nat /\ m <= n
    BY <1>11, <2>1, <2>5
  <2>7. n <= 2 * k
    BY <1>2, <1>9, <2>1, <2>2, <2>5
  <2>8. m <= 2 * l
    BY <2>6, <2>7
  <2>9. x \in Pairs(q) /\ q.routes[x].minutes <= 2 * q.tasks[x[2]].deadline
    BY <1>2, <1>9, <1>10, <2>1, <2>2, <2>5, <2>8
  <2>10. x \in q.eligible
    BY <1>3, <2>3, <2>4, <2>6, <2>9 DEF Eligible
  <2>11. PICK c, d : c = CeilMinutes(m) /\ d = CeilMinutes(n)
    OBVIOUS
  <2>12. c \in Nat /\ d \in Nat /\ c <= d
    BY <2>6, <2>11, CeilGrows
  <2>13. TravelCost(q, x) = 1 * c /\ TravelCost(o, x) = 1 * d
    BY <1>2, <2>5, <2>11 DEF TravelCost
  <2>14. QED
    BY <2>10, <2>12, <2>13
<1>13. CapacityIn(o) = CapacityIn(q) /\ DOMAIN o.resources = DOMAIN q.resources
  BY <1>2, <1>4, <1>5 DEF CapacityIn
<1>14. PenaltyIn(o) = PenaltyIn(q) /\ DOMAIN o.tasks = DOMAIN q.tasks
  BY <1>2, <1>8, <1>9 DEF PenaltyIn
<1>15. \A t \in DOMAIN o.tasks : o.tasks[t].need = q.tasks[t].need
  BY <1>2, <1>8, <1>9
<1>16. QED
  BY <1>2, <1>12, <1>13, <1>14, <1>15 DEF Tighter

\* The versions stored can be planned with; an answer stored answers the problem
\* of its version, which is planned from the same inputs ever after.
VersionsFit ==
    \A s \in DOMAIN scenarios : \A v \in DOMAIN scenarios[s].versions :
        VersionFits(scenarios[s].versions[v])

AnswerFits(s, version, limit, answer) ==
    /\ limit \in Nat
    /\ VersionFits(version)
    /\ Plannable(s, version)
    /\ answer \in Answers(Problem(s, version, limit))

PlansInv ==
    /\ VersionsFit
    /\ \A i \in DOMAIN recommendations : \A rec, version :
          rec = recommendations[i] /\ version = Version(rec) =>
             AnswerFits(rec.scenario, version, rec.limit, rec.answer)

\* Scenarios keep their snapshot and every version they have.
VersionsStay ==
    \A s \in DOMAIN scenarios :
        /\ s \in DOMAIN scenarios' /\ scenarios'[s].pinned = scenarios[s].pinned
        /\ \A v \in DOMAIN scenarios[s].versions :
              /\ v \in DOMAIN scenarios'[s].versions
              /\ scenarios'[s].versions[v] = scenarios[s].versions[v]

\* What a request for a version makes of the last one can be planned with.
LEMMA EffectiveFits ==
    ASSUME NEW last, last \in LiveVersion, VersionFits(last),
           NEW overlay \in Overlays, NEW version, version = Effective(last, overlay),
           version.closed \subseteq Edges
    PROVE  VersionFits(version)
<1>1. DOMAIN last = {"closed", "winds", "units"}
  BY DEF LiveVersion, NoOverlay
<1>2. /\ version.winds = IF overlay.winds = Keep THEN last.winds ELSE overlay.winds
      /\ version.units = IF overlay.units = Keep THEN last.units ELSE overlay.units
  BY <1>1 DEF Effective
<1>3. IsOverlay(overlay)
  BY LiveAssumption
<1>4. version.winds \in Seq([speed : Nat, from : 0 .. 359])
  BY <1>2, <1>3 DEF IsOverlay, VersionFits
<1>5. \A r \in DOMAIN version.units : version.units[r] \in BOOLEAN
  BY <1>2, <1>3 DEF IsOverlay, VersionFits
<1>6. QED
  BY <1>4, <1>5 DEF VersionFits

\* Every operation keeps the versions there are, and adds one that fits at most.
LEMMA VersionsStep ==
    ASSUME LiveInv, VersionsFit, [LiveNext]_liveVars
    PROVE  VersionsStay /\ VersionsFit'
<1>1. CASE UNCHANGED scenarios
  BY <1>1 DEF VersionsStay, VersionsFit
<1>2. CASE CreateScenario
  <2> DEFINE new == [pinned |-> snapshot, versions |-> <<NoOverlay>>]
             n == Len(scenarios)
  <2>1. scenarios' = Append(scenarios, new)
    BY <1>2 DEF CreateScenario
  <2>2. new.versions = <<NoOverlay>> /\ DOMAIN <<NoOverlay>> = {1} /\ <<NoOverlay>>[1] = NoOverlay
    OBVIOUS
  <2>3. VersionFits(NoOverlay)
    BY DEF VersionFits, NoOverlay
  <2> HIDE DEF new
  <2>4. IsSeq(scenarios)
    BY DEF LiveInv, IsSeq
  <2>5. /\ \A s \in DOMAIN scenarios : s \in DOMAIN scenarios' /\ scenarios'[s] = scenarios[s]
        /\ scenarios'[n + 1] = new
        /\ \A s \in DOMAIN scenarios' : s = n + 1 \/ s \in DOMAIN scenarios
    <3>1. PICK g, m : g = scenarios' /\ m = n
      OBVIOUS
    <3>2. /\ g[m + 1] = new
          /\ \A s \in DOMAIN scenarios : s \in DOMAIN g /\ g[s] = scenarios[s]
          /\ \A s \in DOMAIN g : s = m + 1 \/ s \in DOMAIN scenarios
      BY <2>1, <2>4, <3>1, SomeAppend
    <3>3. QED
      BY <3>1, <3>2
  <2> HIDE DEF n
  <2>6. VersionsStay
    BY <2>5 DEF VersionsStay
  <2>7. ASSUME NEW s \in DOMAIN scenarios', NEW v \in DOMAIN scenarios'[s].versions
        PROVE  VersionFits(scenarios'[s].versions[v])
    <3>1. CASE s = n + 1
      BY <2>2, <2>3, <2>5, <2>7, <3>1
    <3>2. CASE s \in DOMAIN scenarios
      BY <2>5, <2>7, <3>2 DEF VersionsFit
    <3>3. QED
      BY <2>5, <3>1, <3>2
  <2>8. QED
    BY <2>6, <2>7 DEF VersionsFit
<1>3. ASSUME NEW s \in DOMAIN scenarios, NEW overlay \in Overlays, AddVersion(s, overlay)
      PROVE  VersionsStay /\ VersionsFit'
  <2>1. PICK f, last, version : /\ f = scenarios[s].versions /\ last = Last(f)
                                /\ version = Effective(last, overlay)
    OBVIOUS
  <2>2. /\ version \in LiveVersion
        /\ DOMAIN scenarios' = DOMAIN scenarios
        /\ scenarios'[s].pinned = scenarios[s].pinned
        /\ scenarios'[s].versions = Append(f, version)
        /\ \A z \in DOMAIN scenarios : z # s => scenarios'[z] = scenarios[z]
    BY <1>3, <2>1, AfterAddVersion
  <2>3. f \in Seq(LiveVersion) /\ Len(f) \in Nat \ {0} /\ DOMAIN f = 1 .. Len(f)
    BY <2>1, SeenScenarios
  <2>4. last \in LiveVersion /\ VersionFits(last)
    <3>1. last = f[Len(f)] /\ Len(f) \in DOMAIN f
      BY <2>1, <2>3 DEF Last
    <3>2. VersionFits(f[Len(f)])
      BY <2>1, <3>1 DEF VersionsFit
    <3>3. QED
      BY <2>3, <3>1, <3>2
  <2>5. version.closed \subseteq Edges
    BY <1>3, <2>1 DEF AddVersion, Known
  <2>6. VersionFits(version)
    BY <2>1, <2>4, <2>5, EffectiveFits
  <2>7. PICK g, n : g = Append(f, version) /\ n = Len(f)
    OBVIOUS
  <2>8. /\ \A v \in DOMAIN f : v \in DOMAIN g /\ g[v] = f[v]
        /\ \A v \in DOMAIN g : g[v] = version \/ (v \in DOMAIN f /\ g[v] = f[v])
    <3>1. /\ g[n + 1] = version
          /\ \A v \in DOMAIN f : v \in DOMAIN g /\ g[v] = f[v]
          /\ \A v \in DOMAIN g : v = n + 1 \/ v \in DOMAIN f
      BY <2>2, <2>3, <2>7, SeqAppend
    <3>2. QED
      BY <3>1
  <2>9. \A v \in DOMAIN g : VersionFits(g[v])
    BY <2>1, <2>6, <2>8 DEF VersionsFit
  <2>10. VersionsStay
    BY <2>1, <2>2, <2>7, <2>8 DEF VersionsStay
  <2>11. ASSUME NEW z \in DOMAIN scenarios', NEW v \in DOMAIN scenarios'[z].versions
         PROVE  VersionFits(scenarios'[z].versions[v])
    <3>1. CASE z = s
      BY <2>2, <2>7, <2>9, <2>11, <3>1
    <3>2. CASE z # s
      BY <2>2, <2>11, <3>2 DEF VersionsFit
    <3>3. QED
      BY <3>1, <3>2
  <2>12. QED
    BY <2>10, <2>11 DEF VersionsFit
<1>4. QED
  BY <1>1, <1>2, <1>3 DEF LiveNext, Refresh, Recommend, Decide, liveVars

\* A problem stays the same, and so does what answers it.
LEMMA AnswerStays ==
    ASSUME LiveInv, CachedAsSearched, CachedAsSearched', VersionsStay,
           NEW s \in DOMAIN scenarios, NEW version, NEW limit, NEW answer,
           AnswerFits(s, version, limit, answer)
    PROVE  AnswerFits(s, version, limit, answer)'
<1>1. Pinned(s)' = Pinned(s)
  BY DEF Pinned, VersionsStay
<1>2. Plannable(s, version)'
  BY <1>1 DEF AnswerFits, Plannable
<1>3. PICK units, demands : /\ units = Units(s, version) /\ demands = Demands(s, version, limit)
  OBVIOUS
<1>4. Units(s, version)' = units
  BY <1>1, <1>3 DEF Units
<1>5. Weather(s, version)' = Weather(s, version)
  BY <1>1 DEF Weather
<1>6. Risk(s, version)' = Risk(s, version)
  BY <1>1, <1>5 DEF Risk
<1>7. Demands(s, version, limit)' = demands
  BY <1>1, <1>3, <1>6 DEF Demands
<1> DEFINE routes == [p \in (DOMAIN units) \X (DOMAIN demands) |->
                         RouteFor(Nearest(units[p[1]].at), Nearest(demands[p[2]].at),
                                  version.closed)]
<1>8. ASSUME NEW p \in (DOMAIN units) \X (DOMAIN demands)
      PROVE  RouteFor(Nearest(units[p[1]].at), Nearest(demands[p[2]].at), version.closed)'
               = RouteFor(Nearest(units[p[1]].at), Nearest(demands[p[2]].at), version.closed)
  <2>1. PICK a, b, c : /\ a = Nearest(units[p[1]].at) /\ b = Nearest(demands[p[2]].at)
                       /\ c = version.closed
    OBVIOUS
  <2>2. units[p[1]].at \in Int
    <3>1. PICK pinned : pinned = Pinned(s)
      OBVIOUS
    <3>2. QED
      BY <1>3, <3>1, UnitsAre
  <2>3. demands[p[2]].at \in Int
    BY <1>3, DemandsAre DEF AnswerFits
  <2>4. a \in Nodes /\ b \in Nodes /\ c \in SUBSET Edges
    BY <2>1, <2>2, <2>3, NearestIs, LiveAssumption DEF AnswerFits, VersionFits
  <2>5. RouteFor(a, b, c) = Searched[<<a, b, c>>]
    BY <2>4 DEF RouteFor, CachedAsSearched
  <2>6. RouteFor(a, b, c)' = Searched[<<a, b, c>>]
    BY <2>4 DEF RouteFor, CachedAsSearched
  <2>7. QED
    BY <2>1, <2>5, <2>6
<1>9. routes' = routes
  BY <1>8
<1>10. Problem(s, version, limit) =
         Prepared([ resources |-> units, tasks |-> demands, locks |-> {}, weight |-> 1,
                    routes |-> routes ])
  BY <1>3 DEF Problem
<1>11. Problem(s, version, limit)' =
         Prepared([ resources |-> units, tasks |-> demands, locks |-> {}, weight |-> 1,
                    routes |-> routes' ])
  BY <1>4, <1>7 DEF Problem
<1>12. Problem(s, version, limit)' = Problem(s, version, limit)
  BY <1>9, <1>10, <1>11
<1>13. QED
  BY <1>2, <1>12 DEF AnswerFits

\* Every operation keeps what is stored planned as it was.
LEMMA PlansInvStep ==
    ASSUME LiveInv, CachedAsSearched, PlansInv, [LiveNext]_liveVars
    PROVE  PlansInv'
<1>1. CachedAsSearched'
  BY CachedStep
<1>2. VersionsStay /\ VersionsFit'
  BY VersionsStep DEF PlansInv
<1>3. ASSUME NEW i \in DOMAIN recommendations, NEW rec, NEW version,
             rec = recommendations[i], version = Version(rec)'
      PROVE  AnswerFits(rec.scenario, version, rec.limit, rec.answer)'
  <2>1. rec.scenario \in DOMAIN scenarios
        /\ rec.version \in DOMAIN scenarios[rec.scenario].versions
    BY <1>3 DEF LiveInv
  <2>2. version = Version(rec)
    BY <1>2, <1>3, <2>1 DEF Version, VersionsStay
  <2>3. AnswerFits(rec.scenario, version, rec.limit, rec.answer)
    BY <1>3, <2>2 DEF PlansInv
  <2>4. PICK s, limit, answer : s = rec.scenario /\ limit = rec.limit /\ answer = rec.answer
    OBVIOUS
  <2>5. AnswerFits(s, version, limit, answer)'
    BY <1>1, <1>2, <2>1, <2>3, <2>4, AnswerStays
  <2>6. QED
    BY <2>4, <2>5
<1>4. ASSUME UNCHANGED recommendations PROVE PlansInv'
  BY <1>2, <1>3, <1>4 DEF PlansInv
<1>5. ASSUME NEW s \in DOMAIN scenarios, NEW limit \in Limits, Recommend(s, limit)
      PROVE  PlansInv'
  <2>1. PICK f, last, n : f = scenarios[s].versions /\ last = Last(f) /\ n = Len(f)
    OBVIOUS
  <2>2. n \in DOMAIN f /\ last = f[n]
    <3>1. f \in Seq(LiveVersion) /\ Len(f) \in Nat \ {0} /\ DOMAIN f = 1 .. Len(f)
      BY <2>1, SeenScenarios
    <3>2. QED
      BY <2>1, <3>1 DEF Last
  <2>3. UNCHANGED scenarios /\ Plannable(s, last)
    BY <1>5, <2>1 DEF Recommend
  <2>4. PICK answer \in Allocations(Problem(s, last, limit)) :
           recommendations' = Append(recommendations,
             [scenario |-> s, version |-> n, limit |-> limit, answer |-> answer])
    BY <1>5, <2>1 DEF Recommend
  <2>5. AnswerFits(s, last, limit, answer)
    <3>1. answer \in Answers(Problem(s, last, limit))
      BY <2>4 DEF Allocations
    <3>2. limit \in Nat
      BY LiveAssumption
    <3>3. VersionFits(last)
      BY <2>1, <2>2 DEF PlansInv, VersionsFit
    <3>4. QED
      BY <2>3, <3>1, <3>2, <3>3 DEF AnswerFits
  <2>6. AnswerFits(s, last, limit, answer)'
    BY <1>1, <1>2, <2>5, AnswerStays
  <2>7. PICK new : new = [scenario |-> s, version |-> n, limit |-> limit, answer |-> answer]
    OBVIOUS
  <2>8. Version(new)' = last
    BY <2>1, <2>2, <2>3, <2>7 DEF Version
  <2>9. PICK m : m = Len(recommendations)
    OBVIOUS
  <2>10. /\ recommendations'[m + 1] = new
         /\ \A i \in DOMAIN recommendations : recommendations'[i] = recommendations[i]
         /\ \A i \in DOMAIN recommendations' : i = m + 1 \/ i \in DOMAIN recommendations
    <3>1. PICK g : g = recommendations'
      OBVIOUS
    <3>2. IsSeq(recommendations) /\ g = Append(recommendations, new)
      BY <2>4, <2>7, <3>1 DEF LiveInv
    <3>3. /\ g[m + 1] = new
          /\ \A i \in DOMAIN recommendations : g[i] = recommendations[i]
          /\ \A i \in DOMAIN g : i = m + 1 \/ i \in DOMAIN recommendations
      BY <2>9, <3>2, SomeAppend
    <3>4. QED
      BY <3>1, <3>3
  <2>11. ASSUME NEW i \in DOMAIN recommendations', NEW rec, NEW version,
                rec = recommendations'[i], version = Version(rec)'
         PROVE  AnswerFits(rec.scenario, version, rec.limit, rec.answer)'
    <3>1. CASE i = m + 1
      <4>1. rec = new /\ version = last
        BY <2>8, <2>10, <2>11, <3>1
      <4>2. rec.scenario = s /\ rec.limit = limit /\ rec.answer = answer
        BY <2>7, <4>1
      <4>3. QED
        BY <2>6, <4>1, <4>2
    <3>2. CASE i \in DOMAIN recommendations
      BY <1>3, <2>10, <2>11, <3>2
    <3>3. QED
      BY <2>10, <3>1, <3>2
  <2>12. QED
    BY <1>2, <2>11 DEF PlansInv
<1>6. QED
  BY <1>4, <1>5 DEF LiveNext, Refresh, CreateScenario, AddVersion, Decide, liveVars

\* The problem a stored recommendation was answered on.
LEMMA StoredIs ==
    ASSUME LiveInv, CachedAsSearched, PlansInv, NEW i \in DOMAIN recommendations,
           NEW rec, rec = recommendations[i], NEW version, version = Version(rec),
           NEW q, q = ProblemOf(rec)
    PROVE  /\ rec.scenario \in DOMAIN scenarios /\ rec.limit \in Nat
           /\ VersionFits(version) /\ Plannable(rec.scenario, version)
           /\ q = Problem(rec.scenario, version, rec.limit)
           /\ IsRequest(q) /\ q.locks = {} /\ rec.answer \in Answers(q)
<1>1. PICK s, limit : s = rec.scenario /\ limit = rec.limit
  OBVIOUS
<1>2. s \in DOMAIN scenarios
  BY <1>1 DEF LiveInv
<1>3. AnswerFits(s, version, limit, rec.answer)
  BY <1>1 DEF PlansInv
<1>4. q = Problem(s, version, limit)
  BY <1>1 DEF ProblemOf
<1>5. limit \in Nat /\ VersionFits(version) /\ Plannable(s, version) /\ rec.answer \in Answers(q)
  BY <1>3, <1>4 DEF AnswerFits
<1>6. IsRequest(q)
  BY <1>2, <1>4, <1>5, ProblemIs
<1>7. q.locks = {}
  <2>1. PICK units, demands : units = Units(s, version) /\ demands = Demands(s, version, limit)
    OBVIOUS
  <2>2. QED
    BY <1>4, <2>1, ProblemHolds
<1>8. QED
  BY <1>1, <1>2, <1>4, <1>5, <1>6, <1>7

\* The reasons stored with recommendations are true.
LEMMA StoredLimits == LiveInv /\ CachedAsSearched /\ PlansInv => LimitsExplained
<1> SUFFICES ASSUME LiveInv, CachedAsSearched, PlansInv PROVE LimitsExplained
  OBVIOUS
<1>1. ASSUME NEW i \in DOMAIN recommendations
      PROVE  TrueLimits(ProblemOf(recommendations[i]), recommendations[i].answer)
  <2>1. PICK rec, version, q : /\ rec = recommendations[i] /\ version = Version(rec)
                               /\ q = ProblemOf(rec)
    OBVIOUS
  <2>2. IsRequest(q) /\ q.locks = {} /\ rec.answer \in Answers(q)
    BY <2>1, StoredIs
  <2>3. QED
    BY <2>1, <2>2, LimitsAreTrue
<1>2. QED
  BY <1>1 DEF LimitsExplained, TrueLimits

\* Of two stored, the one for the harder version looks no better.
LEMMA StoredCosts == LiveInv /\ CachedAsSearched /\ PlansInv => RestrictionCosts
<1> SUFFICES ASSUME LiveInv, CachedAsSearched, PlansInv,
                    NEW i \in DOMAIN recommendations, NEW j \in DOMAIN recommendations,
                    NEW one, one = recommendations[i], NEW other, other = recommendations[j],
                    {one.answer.status, other.answer.status} = {"OPTIMAL"},
                    one.scenario = other.scenario, other.limit <= one.limit,
                    Harder(Version(other), Version(one))
             PROVE  Objective(ProblemOf(other), other.answer.pairs)
                      >= Objective(ProblemOf(one), one.answer.pairs)
  BY DEF RestrictionCosts
<1>1. PICK s, a, b, q, o, l, k : /\ s = one.scenario /\ a = Version(one) /\ b = Version(other)
                                 /\ q = ProblemOf(one) /\ o = ProblemOf(other)
                                 /\ l = one.limit /\ k = other.limit
  OBVIOUS
<1>2. /\ s \in DOMAIN scenarios /\ l \in Nat /\ VersionFits(a) /\ Plannable(s, a)
      /\ q = Problem(s, a, l) /\ IsRequest(q) /\ one.answer \in Answers(q)
  BY <1>1, StoredIs
<1>3. /\ k \in Nat /\ VersionFits(b) /\ Plannable(s, b)
      /\ o = Problem(s, b, k) /\ IsRequest(o) /\ other.answer \in Answers(o)
  BY <1>1, StoredIs
<1>4. Harder(b, a) /\ k <= l
  BY <1>1
<1>5. Tighter(o, q)
  BY <1>2, <1>3, <1>4, HarderIsTighter
<1>6. one.answer.status = "OPTIMAL" /\ other.answer.status = "OPTIMAL"
  OBVIOUS
<1>7. one.answer.pairs \in BestPlans(q) /\ other.answer.pairs \in BestPlans(o)
  BY <1>2, <1>3, <1>6, AnswerIs
<1>8. QED
  BY <1>1, <1>2, <1>3, <1>5, <1>7, TighterCosts

\* Plans mean what they say, whatever the incident, the roads and the requests
\* (allocation.py, recommendations.py, decisions.py): the limits stated are true, a
\* harder version never looks better, and edits stay within the solver's rules.
THEOREM PlansAreSound == LiveSpec => []PlansSound
<1>1. LiveInit => LiveInv /\ CachedAsSearched /\ PlansInv
  <2> SUFFICES ASSUME LiveInit PROVE LiveInv /\ CachedAsSearched /\ PlansInv
    OBVIOUS
  <2>1. DOMAIN scenarios = {} /\ DOMAIN recommendations = {} /\ DOMAIN cache = {}
    BY DEF LiveInit
  <2>2. QED
    BY <2>1, LiveInitially DEF CachedAsSearched, PlansInv, VersionsFit
<1>2. LiveInv /\ CachedAsSearched /\ PlansInv /\ [LiveNext]_liveVars
        => LiveInv' /\ CachedAsSearched' /\ PlansInv'
  BY LiveInvStep, CachedStep, PlansInvStep
<1>3. LiveInv /\ CachedAsSearched /\ PlansInv => PlansSound
  <2>1. EditsArePlans
    BY EditsOf DEF EditsArePlans, ProblemOf
  <2>2. QED
    BY <2>1, StoredLimits, StoredCosts DEF PlansSound
<1>4. QED
  BY <1>1, <1>2, <1>3, PTL DEF LiveSpec
===============================================================================
