CONSTANTS
    ProbeKinds = {"http", "redis", "postgres", "mysql", "sqlite", "tcp", "ssl", "dns", "smtp", "kafka", "grpc"}
    ExitCodes = {0, 99}
    Channels = {"webhook", "slack", "email"}
    MaxChecks = 2
    Retention = 2
    Window = 1
    Limit = 2
    MaxRecords = 4
    MaxNow = 3
    Registrars = {g1, g2}
    Readers = {r1, r2}
    Plain = {"notifyOnDown"}
    Nullable = {"webhookUrl"}
    Notes = {n1, n2}
    Markers = {k1, k2}
    MaxReads = 3
    Editors = {e1, e2}
    Columns = {"name", "enabled"}
    Drafts <- MCDrafts
    Stored <- MCStored
    Changes <- MCChanges
    Patches <- MCPatches
SPECIFICATION Spec
INVARIANT UpMeansAnswered
INVARIANT OnlyKnownStrays
INVARIANT NothingLeftBehind
INVARIANT ChildIsTimed
INVARIANT KilledNeverPasses
INVARIANT SettingsAsWanted
INVARIANT OnlyKnownGaps
INVARIANT EditsStandWithoutOverlap
PROPERTY TrimKeepsNewest
PROPERTY ReadAtMovesOnlyByCrossing
PROPERTY ProbeReturns
PROPERTY K6RunEnds
PROPERTY DeliveryReturns
CHECK_DEADLOCK FALSE
