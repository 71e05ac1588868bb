-------------------------- MODULE MCExerciseClient --------------------------
(* An instance of ExerciseClient: few commands with much going wrong, or an  *)
(* operator with tries enough to get to the end.                             *)
EXTENDS ExerciseClient

VARIABLE script

Troubled == [attempts |-> 4, mishaps |-> 3, garbled |-> 0]
Patient == [attempts |-> 8, mishaps |-> 1, garbled |-> 1]

WithinScript ==
    attempts <= script.attempts /\ mishaps <= script.mishaps /\ garbled <= script.garbled

Scripted == UNCHANGED script /\ WithinScript'

PlayInit == Init /\ script \in {Troubled, Patient}

\* The disjuncts of Next, each as far as the script goes.
PlayNext ==
    \/ \E name \in Commands \cup {Create} :
          \/ Press(name) /\ Scripted
          \/ PressAgain(name) /\ Scripted
    \/ \E c \in calls :
          \/ Answer(c) /\ Scripted
          \/ Lose(c) /\ Scripted
          \/ CutRefusal(c) /\ Scripted
          \/ Garble(c) /\ Scripted
          \/ Serve(c) /\ Scripted
    \/ OtherTab /\ Scripted
    \/ Read /\ Scripted
    \/ Show /\ Scripted
    \/ FailGet /\ Scripted
    \/ Reconnect /\ Scripted
    \/ Restart /\ Scripted
    \/ Reload /\ Scripted

Play == PlayInit /\ [][PlayNext]_<<vars, script>> /\ Fairness

\* An operator who goes on completes an exercise: no conflict, late query or
\* lost answer leaves the tab with a version the server refuses for ever.
OperatorFinishes == (script = Patient /\ attempts = 0) ~> Finished
=============================================================================
