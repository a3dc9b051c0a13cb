CONSTANTS
    Monitors = {m1}
    Tests = {t1}
    Editors = {e1}
    Workers = {w1}
    TestWorkers = {v1}
    Intervals <- MCIntervals
    None = None
    MaxEdits = 3
    MaxFaults = 0
SPECIFICATION Spec
INVARIANT EnabledIsScheduled
CHECK_DEADLOCK FALSE
