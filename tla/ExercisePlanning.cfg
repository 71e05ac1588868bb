\* Guided exercises, and sandbox plans after one.
SPECIFICATION Play
CONSTANTS
    Objectives = {"fastest", "coverage"}
    NoObjective = "none"
    Roads <- TownRoads
    NodeAt <- TownNodes
    IntMax = 55
    Definitions <- AllDefinitions
    Weights <- TownWeights
    Multipliers <- TownMultipliers
    Controls <- SandboxControls
    GuidedStatuses = {"OPTIMAL", "UNKNOWN"}
    SandboxStatuses = {"OPTIMAL", "FEASIBLE", "UNKNOWN"}
    SnapLimit = 1
    NoPreview = NoPreview
    MaxVersion = 9
INVARIANTS ValidationSound ExplanationsTrue OverrideSound WorkflowSound
PROPERTIES ImplementsWorkflow OverrideFreezesInputs
CHECK_DEADLOCK FALSE
