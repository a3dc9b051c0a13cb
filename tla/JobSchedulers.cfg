CONSTANTS
    Monitors = {m1}
    Tests = {t1}
    Editors = {e1, e2}
    Workers = {w1}
    TestWorkers = {v1}
    Intervals <- MCIntervals
    None = None
    MaxEdits = 3
    MaxFaults = 2
SPECIFICATION FairSpec
INVARIANT SchedulesAsPlanned
PROPERTY DriftsOnlyByLateSync
PROPERTY BootRepairs
PROPERTY LeftoversGo
CHECK_DEADLOCK FALSE
