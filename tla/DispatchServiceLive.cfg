\* Contention of two calls and one loop for every lock there is.
SPECIFICATION Follow
CONSTANTS
    engine = engine
    k1 = k1
    k2 = k2
    c1 = c1
    c2 = c2
    firms = firms
    nws = nws
    r1 = r1
    r2 = r2
    Calls = {c1, c2}
    Sources = {firms}
    Keys = {k1, k2}
    Requests <- AllRequests
    Scripts <- ContendingScripts
    Resources = {engine}
    UnknownResource = UnknownResource
    Releases = {r1}
    FirstRelease = r1
    MaxSnapshot = 1
    MaxScenarios = 1
    MaxVersions = 2
    MaxRecommendations = 1
PROPERTY EveryTaskEnds
