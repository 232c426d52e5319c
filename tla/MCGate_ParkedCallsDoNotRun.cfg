CONSTANTS
    safe = safe
    risky = risky
    Threads = {c1}
    Runs = {r1}
    Boss = boss
    Subs = {}
    Tools <- MCTools
    Mandates <- MCScopes
    Threshold = 2
    MaxRuns = 1
    DefaultClosed = TRUE
    MaxVersion <- TwoEach
    t1 = t1
    t2 = t2
    t3 = t3
    None = None
    Callers = {d1, d2}
    Trajectories = {t1, t2, t3}
    Proposed <- MCProposed
    Ceilings <- MCCeilings
    MaxTracked = 2
    RateWindow = 1
    MaxNow = 2
    MaxPermits = 3
    MaxSpent = 1
SPECIFICATION MCSpec
INVARIANTS
    ParkedCallsDoNotRun
CHECK_DEADLOCK FALSE
