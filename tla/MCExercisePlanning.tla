-------------------------- MODULE MCExercisePlanning --------------------------
(* Instances of ExercisePlanning: one town on a road from the depot, a     *)
(* shelter behind it with a longer way round.                              *)
EXTENDS ExercisePlanning

Road(a, b, minutes) == [from |-> a, to |-> b, minutes |-> minutes]

\* Depot 1, town 2, shelter 3; minutes in halves.
TownRoads == <<Road(1, 2, 3), Road(2, 3, 4), Road(1, 3, 10), Road(2, 1, 3), Road(3, 2, 4)>>

TownNodes == [n \in 1 .. 3 |-> 10 * n]

TownWeights ==
    [ fastest  |-> [travel |-> 4, base |-> 1, critical |-> 3, population |-> 0, divisor |-> 10],
      coverage |-> [travel |-> 1, base |-> 2, critical |-> 6, population |-> 1, divisor |-> 10] ]

Unit(skill, capacity, at, bus) ==
    [skills |-> {skill}, capacity |-> capacity, available |-> TRUE, at |-> at, bus |-> bus]

Task(skill, need, deadline, base, at) ==
    [ skill |-> skill, need |-> need, deadline |-> deadline, base |-> base,
      critical |-> at = 30, population |-> 25, at |-> at ]

TownUnits ==
    [ bus1 |-> Unit("transport", 1, 11, TRUE), bus2 |-> Unit("transport", 1, 19, TRUE),
      crew |-> Unit("crew", 1, 10, FALSE) ]

\* Guided checkpoints with one or two tasks each.
Guided(closed1, closed2) ==
    [ resources |-> TownUnits,
      checkpoints |->
         [ c \in 0 .. FinalCheckpoint |->
             CASE c = 0 -> [closed |-> {}, tasks |->
                              "evacuation" :> Task("transport", 1, 3, 4, 20)]
               [] c = 1 -> [closed |-> closed1, tasks |->
                              "evacuation" :> Task("transport", 2, 3, 6, 20)
                              @@ CorridorTask :> Task("crew", 1, 6, 2, 30)]
               [] c = 2 -> [closed |-> closed2, tasks |->
                              ShelterTask :> Task("transport", 1, 5, 3, 30)
                              @@ "evacuation" :> Task("transport", 1, 2, 2, 20)] ],
      closures |-> {1, 2}, sandbox |-> {2} ]

\* The shelter stays within reach, or hangs on the road the crew clears.
TownDefinitions == {Guided({2}, {2}), Guided({2, 3}, {1, 2, 3})}

TownMultipliers == [standard |-> 1, high |-> 2, top |-> 24]

\* A sandbox of its own: two units that cover half a task each, a van that
\* covers any, a crew of twice what its task needs.
SandboxUnits ==
    [ bus1 |-> Unit("transport", 1, 10, TRUE), bus2 |-> Unit("transport", 1, 20, FALSE),
      van |-> Unit("transport", 3, 20, FALSE), crew |-> Unit("crew", 2, 10, FALSE) ]

SandboxTasks ==
    ShelterTask :> Task("transport", 2, 5, 5, 30)
    @@ "evacuation" :> Task("transport", 2, 2, 2, 20)
    @@ CorridorTask :> Task("crew", 1, 1, 1, 20)
    @@ "triage" :> Task("medical", 1, 5, 1, 10)

\* The guided part offers next to no choice.
SandboxDefinitions ==
    { [ resources |-> SandboxUnits,
        checkpoints |->
           [ c \in 0 .. FinalCheckpoint |->
               CASE c < 2 -> [closed |-> {}, tasks |->
                                CorridorTask :> Task("crew", 1, 9, 1, 20)]
                 [] c = 2 -> [closed |-> {}, tasks |-> SandboxTasks] ],
        closures |-> {1, 2, 3}, sandbox |-> {2} ] }

\* Locks alone, joint and in conflict; and priorities the integers cannot hold.
SandboxControls ==
    [ checkpoint : {2}, objective : Objectives, closed : {{}, {1, 3}, {2, 3}, {4}},
      unavailable : {{}, {"van"}, {"bus2", "van"}, {"bus1", "crew"}},
      presets : {<<>>, "evacuation" :> "high"},
      locks : {{}, {<<"bus1", ShelterTask>>}, {<<"bus1", ShelterTask>>, <<"bus1", "evacuation">>},
               {<<"bus1", ShelterTask>>, <<"bus2", "evacuation">>},
               {<<"van", "evacuation">>}, {<<"crew", CorridorTask>>}} ]
    \cup
    [ checkpoint : {1, 2}, objective : Objectives, closed : {{}}, unavailable : {{}, {"boat"}},
      presets : {"evacuation" :> "top"}, locks : {{}} ]
-----------------------------------------------------------------------------
(* Whole guided exercises in the towns, whatever the solver answers; and    *)
(* after best plans all the way, one look at the sandbox.                  *)

VARIABLE script

Scripted ==
    /\ UNCHANGED script
    /\ script = "guided" => preview' = NoPreview
    /\ script = "sandbox" => \A i \in DOMAIN runs' : runs'[i].answer.status = "OPTIMAL"

PlayInit ==
    /\ Init
    /\ script = IF definition \in SandboxDefinitions THEN "sandbox" ELSE "guided"

\* The disjuncts of Next, each as far as the script goes.
PlayNext ==
    \/ Create /\ Scripted
    \/ \E payload \in PayloadsOf("select-objective") :
          Move("select-objective", payload) /\ Scripted
    \/ \E payload \in PayloadsOf("advance") : Move("advance", payload) /\ Scripted
    \/ \E payload \in PayloadsOf("approve-plan") : Move("approve-plan", payload) /\ Scripted
    \/ GeneratePlan /\ Scripted
    \/ \E r \in Buses(definition) : ApplyOverride(r) /\ Scripted
    \/ script = "sandbox" /\ \E k \in Controls : SandboxPlan(k) /\ Scripted

Play == PlayInit /\ [][PlayNext]_<<vars, script>>

AllDefinitions == TownDefinitions \cup SandboxDefinitions
=============================================================================
