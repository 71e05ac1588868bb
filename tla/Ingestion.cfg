\* One worker with a loop for each live source; the same with every kind of
\* response; two workers on one source with a replay and a clock set back.
SPECIFICATION Play
CONSTANTS
    Runners <- Loops
    SourceOf <- LoopSource
    ProcessOf <- LoopProcess
    Responses <- AllResponses
    MaxTries = 2
    WindowLength = 1
    StaleAfter = 1
    MaxClock = 2
    MaxRuns = 3
    MaxFaults = 1
    MaxSetbacks = 1
INVARIANT StoreSound
PROPERTIES EveryRowCounted NothingGoesBack RunsEnd
CHECK_DEADLOCK FALSE
