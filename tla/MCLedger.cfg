SPECIFICATION FairSpec
CONSTANTS
    RECORD_FAILURE = RECORD_FAILURE
    Writers = {recorder, cli}
    Strict = {cli}
    Events = {e1, e2, e3}
    EVERY_EVENTS = 2
    MaxFaults = 2
    MaxCrashes = 1
INVARIANTS
    ChainVerifies
    Accounted
    CheckpointsOnChain
PROPERTIES
    ImplementsLog
    AppendTerminates
CHECK_DEADLOCK FALSE
