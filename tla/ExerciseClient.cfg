\* Lost and cut answers, late queries, reloads, double clicks, a duplicate of
\* the tab and a new exercise, until the exercise is completed.
SPECIFICATION Play
CONSTANTS
    Commands = {"select-objective", "advance"}
    MaxVersion = 3
    MaxSessions = 3
    MaxAttempts = 8
    MaxMishaps = 3
    MaxGarbled = 1
    MaxRestarts = 1
INVARIANT ClientSound
PROPERTY OperatorFinishes
CHECK_DEADLOCK FALSE
