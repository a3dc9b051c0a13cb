CONSTANTS
    Tests = {t1}
    Runs = {r1, r2}
    Requests = {q1, q2}
    Crons = {c1}
    Worker = worker
    None = None
    Failures <- NoFailure
    MaxFaults = 0
SPECIFICATION Spec
INVARIANT OneRunAtATime
CHECK_DEADLOCK FALSE
