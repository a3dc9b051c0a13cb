CONSTANTS
    Tests = {t1}
    Runs = {r1, r2, r3}
    Requests = {q1, q2}
    Crons = {c1}
    Worker = worker
    None = None
    Failures <- AnyFailure
    MaxFaults = 2
SYMMETRY MCSymmetry
SPECIFICATION Spec
INVARIANT ExecutedOnce
INVARIANT RunningMeansRunning
PROPERTY OverlapOnlyByRace
PROPERTY OrphanedOnlyByFailure
PROPERTY ImplementsRunLedger
CHECK_DEADLOCK FALSE
