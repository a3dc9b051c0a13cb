\* Two open reads and two open writes.
CONSTANTS
    list = list
    item = item
    profile = profile
    uncached = uncached
    monitors = monitors
    users = users
    None = None
    Readers = {r1, r2}
    Writers = {w1, w2}
    Keys <- MCKeys
    Groups <- MCGroups
    GroupOf <- MCGroupOf
    Ttl <- MCTtl
    MaxEntries = 2
    MaxWrites <- MCMaxWrites
SPECIFICATION FairSpec
INVARIANT TypeOK
INVARIANT SingleFlight
INVARIANT StoreWithinLimits
INVARIANT StaleIsAccountedFor
PROPERTY OutlivesOnlyByLateFill
PROPERTY EvictsOnlyForRoom
PROPERTY ImplementsLaggingReads
PROPERTY WaitsForOneLoad
PROPERTY EventuallyFresh
PROPERTY EveryWrapReturns
