CONSTANTS
    safe = safe
    risky = risky
    Threads = {c1, c2}
    Runs = {r1, r2}
    Boss = boss
    Subs = {sub}
    Tools <- MCTools
    Mandates <- MCAllMandates
    Threshold = 2
    MaxRuns = 1
    DefaultClosed = TRUE
    MaxVersion <- TwoEach
    t1 = t1
    t2 = t2
    t3 = t3
    None = None
    Callers = {d1, d2}
    Trajectories = {t1, t2, t3}
    Proposed <- MCProposed
    Ceilings <- MCCeilings
    MaxTracked = 2
    RateWindow = 1
    MaxNow = 2
    MaxPermits = 3
    MaxSpent = 1
SYMMETRY Symmetry
SPECIFICATION MCSpec
INVARIANTS
    WhatRunsWasLet
    LatchIsJust
PROPERTIES
    HaltEndsWithItsCause
    BudgetsHold
CHECK_DEADLOCK FALSE
