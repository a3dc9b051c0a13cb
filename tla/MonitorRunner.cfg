CONSTANTS
    Monitors = {m1}
    Workers = {w1}
    Requests = {q1}
    None = None
    INTERVAL = 1
    COOLDOWN = 2
    PrefChoices <- MCPrefs
    MaxTime = 3
    MaxFaults = 1
    MaxEdits = 1
SPECIFICATION Spec
INVARIANT InFlightExact
INVARIANT HistoryAgreesWithRow
PROPERTY LatestResultStands
PROPERTY ImplementsLedger
PROPERTY AlertsSpaced
CHECK_DEADLOCK FALSE
