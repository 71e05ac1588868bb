SPECIFICATION PlanningSpec
CONSTANTS
    MaxSnap = 2
    MaxGen = 2
    MaxSent = 4
    MaxSlips = 2
INVARIANT SessionSound
PROPERTY StaleStaysMarked
CHECK_DEADLOCK FALSE
