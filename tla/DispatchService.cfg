\* Planning, staleness and conflicts, two calls and the worker's loops at a time.
SPECIFICATION Follow
CONSTANTS
    engine = engine
    k1 = k1
    k2 = k2
    c1 = c1
    c2 = c2
    firms = firms
    nws = nws
    r1 = r1
    r2 = r2
    Calls = {c1, c2}
    Sources = {firms, nws}
    Keys = {k1, k2}
    Requests <- AllRequests
    Scripts <- RacingScripts
    Resources = {engine}
    UnknownResource = UnknownResource
    Releases = {r1, r2}
    FirstRelease = r1
    MaxSnapshot = 2
    MaxScenarios = 1
    MaxVersions = 3
    MaxRecommendations = 2
SYMMETRY Symmetry
INVARIANTS LockingSound ExactlyOnce DispatchSound
PROPERTIES ImplementsDispatch SupersededIsFinal
