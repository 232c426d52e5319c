CONSTANTS
    MAX_BATCH_EVENTS = 2
    MaxSeq = 3
    MaxRotations = 1
    MaxRestarts = 1
    MaxOSCrashes = 1
    MaxFaults = 1
    MaxRevocations = 1
    p1 = p1
    p2 = p2
    Recorders = {p1, p2}
    Subjects = {a1, a2}
    NoSubject = NoSubject
    ShipLimit = 2
    MaxRows = 4
    MaxDeaths = 1
    MaxRefusals = 1
SPECIFICATION MCSpec
INVARIANTS
    WatermarkIsDelivered
    HonestDeviceNotAccused
    StreamsComplete
PROPERTIES
    EvidenceImmutable
    EventuallyShipped
\* Everything recorded, shipped and counted: nothing is left to do.
CHECK_DEADLOCK FALSE
