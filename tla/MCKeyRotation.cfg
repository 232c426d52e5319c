CONSTANTS
    Procs = {p1, p2}
    Keys = {k1, k2, k3}
    NoKey = NoKey
    MaxUnlinkFaults = 2
    MaxCrashes = 2
SPECIFICATION Spec
CONSTRAINT NoOverlapYet
SYMMETRY KeySymmetry
INVARIANTS
    IdentityExplained
    IdentityFollowsChain
    KeyFilesKept
PROPERTIES
    ConfirmedEndsLive
\* A process stops where it would generate a key and Keys is used up.
CHECK_DEADLOCK FALSE
