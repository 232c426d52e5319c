SPECIFICATION Spec
CONSTANTS
    m = m  w = w  h1 = h1  h2 = h2  f1 = f1  f2 = f2
    b1 = b1  b2 = b2  c1 = c1
    Nothing = Nothing
    Main = m
    Watcher = w
    Handlers <- MCHandlers
    Flights <- MCFlights
    BrowserRows <- MCBrowser
    OtherRows <- MCOther
    OldRows = {c1}
    KeptText = {c1}
    AppsOff = {}
    MaxItems = 2
    MaxQueued = 2
    MaxTrouble = 1
    MaxFaults = 1
INVARIANTS NoFalseAlarm SealedWhenAnswered RowsArriveOnce
CHECK_DEADLOCK FALSE
SYMMETRY MCSymmetry
