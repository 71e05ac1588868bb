\* Kills, crashes and failed calls at every step of two builders, beside
\* another writer of the manifest and files that others put at an output.
SPECIFICATION FairSpec
CONSTANTS
    Builders = {b1, b2}
    Outputs = {roads, other}
    Digests = {g1, g2}
    MaxBuilds = 4
    MaxFaults = 3
    MaxRevision = 2
    MaxMeddling = 1
INVARIANT FilesSound
PROPERTIES ImplementsRelease NothingLost EventuallyPinned
CHECK_DEADLOCK FALSE
