CONSTANTS
    Nothing = Nothing
    CallIds = {i1, i2}
    Windows = {0, 2, 9}
    MaxItems = 5
    bash = bash
    read = read
    Outputs <- MCOutputs
    Tools <- MCTools
    Noisy <- MCNoisy
    Openings <- MCOpenings
    CallLists <- MCCallLists
    MaxRounds = 2
    Procs = {p1, p2}
    Agents = {a1, a2}
    Limits = {1, 2}
    Attempts = 2
    MaxVerdicts = 3
    MaxFaults = 1
    MaxTraceBatch = 2
    UnavailableAfter = 2
    MaxSteps = 3
    MaxRuns = 1
    MaxStoreFaults = 1
    Checkpoints = {k1, k2}
    MaxLeaves = 8
    Device = Device
    NextDevice = NextDevice
    Tenant = Tenant
    Rekor = Rekor
    Other = Other
    NoKey = NoKey
    Options <- MCOptions
    MaxEdits = 3
SPECIFICATION Spec
INVARIANTS
    RequestIsValid
    BodyKeepsItsMeaning
    OutboxTellsTheTruth
    VerifiedMeansRecorded
    ProofsAreSound
    AcceptedMeansRecorded
PROPERTIES
    VerdictsSettle
CHECK_DEADLOCK FALSE
