\* An exercise's opening and its closing, two calls at a time.
SPECIFICATION Play
CONSTANTS
    fastest = fastest
    coverage = coverage
    k1 = k1
    k2 = k2
    k3 = k3
    k4 = k4
    c1 = c1
    c2 = c2
    Objectives = {fastest, coverage}
    NoObjective = NoObjective
    Calls = {c1, c2}
    Keys = {k1, k2, k3, k4}
    CreateKey = k1
    Requests <- PlayedRequests
    Scripts <- PlayedScripts
    MaxVersion = 9
INVARIANTS AuditTrail ExactlyOnce OffersHonoured
PROPERTIES ExpiredIsFinal ImplementsWorkflow EveryCallEnds
