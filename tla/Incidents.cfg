\* Clusters that split and merge, next to incidents left behind; and seeding,
\* replays, weather and exposure.
SPECIFICATION Play
CONSTANTS
    Radius = 3
    TemporalWindow = 2
    MinimumPoints = 2
    Buffer = 180
    SearchRadius = 180
    FireLimit = 2
    WeatherLimit = 1
    FullPopulation = 1000
    FullFacilities = 5
    FullWind = 10
    Histories <- LineOrWind
    Assets <- BothSides
    Packages <- TwoPackages
    IncidentIds = {1, 2, 3}
    Arrivals = 3
    MaxTime = 3
    MaxVersion = 3
    MayReplay = TRUE
INVARIANTS EachDetectionOnce ShownTrue
PROPERTIES IncidentsContinue RepeatIsIdle
CHECK_DEADLOCK FALSE
