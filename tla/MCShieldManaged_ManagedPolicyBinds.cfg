CONSTANTS
    None = None
    AdminPolicies <- MCAdmin
    Edits <- MCEdits
    MaxVersion = 4
    MaxLost = 1
    Nothing = Nothing
    FeedCap = 3
    Retain = 2
    OutboxCap = 2
    BatchSize = 2
    MaxTime = 4
    MaxChanges = 2
    MaxFaults = 2
SPECIFICATION MCSpec
INVARIANTS
    ManagedPolicyBinds
CHECK_DEADLOCK FALSE
