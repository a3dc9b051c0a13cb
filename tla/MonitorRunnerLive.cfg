CONSTANTS
    Monitors = {m1}
    Workers = {w1, w2}
    Requests = {q1}
    None = None
    INTERVAL = 1
    COOLDOWN = 0
    PrefChoices <- MCAllOn
    MaxTime = 2
    MaxFaults = 0
    MaxEdits = 0
SPECIFICATION FairSpec
PROPERTY DueIsChecked
PROPERTY NewsIsTold
CHECK_DEADLOCK FALSE
