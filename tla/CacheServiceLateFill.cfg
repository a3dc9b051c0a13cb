\* As CacheService.cfg, for what the services expect of invalidatePrefix.
CONSTANTS
    list = list
    item = item
    profile = profile
    uncached = uncached
    monitors = monitors
    users = users
    None = None
    Readers = {r1, r2}
    Writers = {w1, w2}
    Keys <- MCKeys
    Groups <- MCGroups
    GroupOf <- MCGroupOf
    Ttl <- MCTtl
    MaxEntries = 2
    MaxWrites <- MCMaxWrites
SPECIFICATION Spec
INVARIANT NothingOutlivesItsInvalidation
