\* Two scenarios of one incident, decided while snapshots come in; and one
\* scenario under every closure, wind, unit and limit asked.
SPECIFICATION Plan
CONSTANTS
    Roads <- RingRoads
    NodeAt <- RingNodes
    Buffer = 5
    SearchRadius = 5
    FireLimit = 1
    WeatherLimit = 1
    FullPopulation = 5000
    FullFacilities = 2
    FullWind = 10
    IntMax = 1000000
    Snapshots <- TwoSnapshots
    Overlays <- SomeOverlays
    Keep = Keep
    Limits = {3, 5, 9}
    Statuses = {"OPTIMAL", "FEASIBLE", "UNKNOWN"}
    MaxScenarios = 2
    MaxVersions = 3
    MaxRecommendations = 2
    MaxDecisions = 2
INVARIANTS PlansSound CachedRoutesHold
PROPERTY ImplementsDispatch
CHECK_DEADLOCK FALSE
