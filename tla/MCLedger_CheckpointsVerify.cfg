SPECIFICATION Spec
CONSTANTS
    RECORD_FAILURE = RECORD_FAILURE
    Writers = {recorder, cli}
    Strict = {cli}
    Events = {e1, e2, e3}
    EVERY_EVENTS = 2
    MaxFaults = 1
    MaxCrashes = 0
INVARIANTS
    CheckpointsVerify
CHECK_DEADLOCK FALSE
