CONSTANTS
    Tests = {t1}
    Runs = {r1, r2}
    Requests = {q1}
    Crons = {c1}
    Worker = worker
    None = None
    Failures <- QueueOnly
    MaxFaults = 1
SPECIFICATION FairSpec
PROPERTY RunsEnd
CHECK_DEADLOCK FALSE
