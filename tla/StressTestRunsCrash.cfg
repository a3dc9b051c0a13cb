CONSTANTS
    Tests = {t1}
    Runs = {r1}
    Requests = {q1}
    Crons = {c1}
    Worker = worker
    None = None
    Failures <- CrashOnly
    MaxFaults = 1
SPECIFICATION FairSpec
PROPERTY ResultsLand
CHECK_DEADLOCK FALSE
