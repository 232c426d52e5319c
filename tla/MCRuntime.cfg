CONSTANTS
    Nothing = Nothing
    j1 = j1
    j2 = j2
    s1 = s1
    q1 = q1
    q2 = q2
    sys = sys
    m1 = m1
    m2 = m2
    pa = pa
    pb = pb
    Procs = {w1}
    Requests <- MCRequests
    Req <- MCReq
    Providers <- MCProviders
    Adapter <- MCAdapter
    Score <- MCScore
    Threshold = 2
    MaxRetries = 1
    Capacity = 2
    MaxFaults = 1
    Prefetch = 2
    Concurrency = 1
    MaxCrashes = 1
SPECIFICATION Spec
INVARIANTS
    AnswersTheRequest
    FallbackIsClean
    PendingIsHeld
CHECK_DEADLOCK FALSE
