\* One client that sends its requests again.
SPECIFICATION Play
CONSTANTS
    fastest = fastest
    coverage = coverage
    k1 = k1
    k2 = k2
    k3 = k3
    k4 = k4
    c1 = c1
    c2 = c2
    Objectives = {fastest, coverage}
    NoObjective = NoObjective
    Calls = {c1}
    Keys = {k1}
    CreateKey = k1
    Requests <- RetriedRequests
    Scripts <- RetriedScripts
    MaxVersion = 3
INVARIANT RetriesReplay
