CONSTANTS
    MaxChecks = 3
    Retention = 2
    Window = 2
    Limit = 1
    MaxRecords = 2
    MaxNow = 1
SPECIFICATION HistorySpec
INVARIANT ListShowsLatest
CHECK_DEADLOCK FALSE
