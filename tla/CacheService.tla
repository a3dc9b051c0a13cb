---------------------------- MODULE CacheService ----------------------------
(***************************************************************************)
(* The in-process read-through cache of src/src/cache/cache.service.ts,     *)
(* used together with the database rows it fronts.                          *)
(*                                                                          *)
(* Readers call `wrap`; writers do what every service of the program does:  *)
(* commit to the database, then call `invalidatePrefix` (or `del`) when the *)
(* database answers.  Between two awaits the code runs alone, so one action *)
(* is one stretch of code between two awaits, or one database access.       *)
(*                                                                          *)
(* A cached value is the version of the group of rows it was computed from; *)
(* a time to live is a countdown, and an entry at 0 has expired.            *)
(***************************************************************************)
EXTENDS Integers, FiniteSets, Functions

CONSTANTS
    Readers,     \* calls of wrap that may be open at the same time
    Writers,     \* calls of mutating operations that may be open at the same time
    Keys,        \* cache keys
    Groups,      \* key prefixes, each invalidated as a whole
    GroupOf,     \* the prefix of each key
    Ttl,         \* the ttlMs each key is wrapped with
    MaxEntries,  \* CACHE_MAX_ENTRIES
    MaxWrites,   \* bound: commits of each group
    None         \* no promise pending, no key wrapped, no group written

ASSUME CacheAssumption ==
    /\ GroupOf \in [Keys -> Groups]
    /\ Ttl \in [Keys -> Nat]
    /\ MaxEntries \in Nat
    /\ MaxWrites \in [Groups -> Nat]
    /\ None \notin Readers

VARIABLES
    db,       \* committed version of each group
    done,     \* newest version of each group whose invalidation has run (history)
    store,    \* CacheService.store: a partial function from keys to entries
    before,   \* insertion order of store: <<j, k>> when j was inserted earlier
    pending,  \* CacheService.pending: the reader whose factory a key waits for
    served,   \* newest version a cached wrap of each key has returned (history)
    pc, key, ver,  \* where each reader is, the key it wraps, the value it holds
    wpc, group, wver  \* where each writer is, what it writes, its version

cacheVars  == <<store, before, pending>>
readerVars == <<pc, key, ver>>
writerVars == <<wpc, group, wver>>
vars == <<db, done, cacheVars, served, readerVars, writerVars>>

Version == Nat
Entry   == [ver : Version, left : Nat]

\* A reader owns the pending promise of its key in exactly these places.
Loading == {"loading", "loaded", "failed", "stored"}

TypeOK ==
    /\ db \in [Groups -> Version]
    /\ done \in [Groups -> Version]
    /\ \A g \in Groups : done[g] <= db[g]
    /\ DOMAIN store \subseteq Keys
    /\ \A k \in DOMAIN store : store[k] \in Entry
    /\ store = [k \in DOMAIN store |-> store[k]]
    /\ before \subseteq (DOMAIN store) \X (DOMAIN store)
    /\ pending \in [Keys -> Readers \cup {None}]
    /\ served \in [Keys -> Version]
    /\ pc \in [Readers -> {"idle", "waiting", "bypass"} \cup Loading]
    /\ key \in [Readers -> Keys \cup {None}]
    /\ ver \in [Readers -> Version]
    /\ wpc \in [Writers -> {"idle", "committed"}]
    /\ group \in [Writers -> Groups \cup {None}]
    /\ wver \in [Writers -> Version]

-----------------------------------------------------------------------------
(* The store. *)

Cached(k)  == k \in DOMAIN store
LiveIgnoringExpiry(k) == Cached(k)  \* mutation of Live: get never checks expiresAt
Live(k)    == Cached(k) /\ store[k].left > 0
Expired    == {k \in DOMAIN store : store[k].left = 0}

\* this.store.delete for every key of D
Delete(D) ==
    /\ store' = Restrict(store, DOMAIN store \ D)
    /\ before' = {p \in before : p[1] \notin D /\ p[2] \notin D}

\* Mutation of Overflow: an off-by-one in the comparison with maxEntries.
OverflowOffByOne(present, order) ==
    {k \in present : Cardinality({j \in present : <<k, j>> \in order}) > MaxEntries}

\* evictOverflow drops from the front of the Map until MaxEntries are left:
\* the keys with at least MaxEntries younger ones.
Overflow(present, order) ==
    {k \in present : Cardinality({j \in present : <<k, j>> \in order}) >= MaxEntries}

\* Mutation of Set: no evictExpired before the insertion.
SetWithoutPurge(k, v) ==
    LET present == DOMAIN store \cup {k}
        order   == before \cup (IF Cached(k) THEN {} ELSE (DOMAIN store) \X {k})
        final   == present \ Overflow(present, order)
    IN  /\ store' = [j \in final |-> IF j = k THEN [ver |-> v, left |-> Ttl[k]]
                                              ELSE store[j]]
        /\ before' = {p \in order : p[1] \in final /\ p[2] \in final}

\* set(k, v): expired entries first, then the new entry (a key already there
\* keeps its place in the order), then the overflow.
Set(k, v) ==
    LET kept    == DOMAIN store \ Expired
        present == kept \cup {k}
        order   == {p \in before : p[1] \in kept /\ p[2] \in kept}
                     \cup (IF k \in kept THEN {} ELSE kept \X {k})
        final   == present \ Overflow(present, order)
    IN  /\ store' = [j \in final |-> IF j = k THEN [ver |-> v, left |-> Ttl[k]]
                                              ELSE store[j]]
        /\ before' = {p \in order : p[1] \in final /\ p[2] \in final}

-----------------------------------------------------------------------------
Init ==
    /\ db = [g \in Groups |-> 0]
    /\ done = [g \in Groups |-> 0]
    /\ store = << >>
    /\ before = {}
    /\ pending = [k \in Keys |-> None]
    /\ served = [k \in Keys |-> 0]
    /\ pc = [r \in Readers |-> "idle"]
    /\ key = [r \in Readers |-> None]
    /\ ver = [r \in Readers |-> 0]
    /\ wpc = [w \in Writers |-> "idle"]
    /\ group = [w \in Writers |-> None]
    /\ wver = [w \in Writers |-> 0]

(* Readers. *)

\* The synchronous part of wrap misses; get has dropped k if it had expired.
Miss(r, k) ==
    /\ pc[r] = "idle"
    /\ Ttl[k] > 0
    /\ ~ Live(k)
    /\ Delete({k})

Hit(r, k) ==
    /\ pc[r] = "idle"
    /\ Ttl[k] > 0
    /\ Live(k)
    /\ served' = [served EXCEPT ![k] = store[k].ver]
    /\ UNCHANGED <<db, done, cacheVars, readerVars, writerVars>>

\* Another call is already loading k: await its promise.
Join(r, k) ==
    /\ Miss(r, k)
    /\ pending[k] # None
    /\ pc' = [pc EXCEPT ![r] = "waiting"]
    /\ key' = [key EXCEPT ![r] = k]
    /\ UNCHANGED <<db, done, pending, served, ver, writerVars>>

\* Mutation of Load: wrap without the look at the pending map.
LoadWithoutJoining(r, k) ==
    /\ Miss(r, k)
    /\ pending' = [pending EXCEPT ![k] = r]
    /\ pc' = [pc EXCEPT ![r] = "loading"]
    /\ key' = [key EXCEPT ![r] = k]
    /\ UNCHANGED <<db, done, served, ver, writerVars>>

\* Nobody is: call the factory and publish its promise.
Load(r, k) ==
    /\ Miss(r, k)
    /\ pending[k] = None
    /\ pending' = [pending EXCEPT ![k] = r]
    /\ pc' = [pc EXCEPT ![r] = "loading"]
    /\ key' = [key EXCEPT ![r] = k]
    /\ UNCHANGED <<db, done, served, ver, writerVars>>

\* The database evaluates the factory's query; the answer travels back.
Read(r) ==
    /\ pc[r] = "loading"
    /\ pc' = [pc EXCEPT ![r] = "loaded"]
    /\ ver' = [ver EXCEPT ![r] = db[GroupOf[key[r]]]]
    /\ UNCHANGED <<db, done, cacheVars, served, key, writerVars>>

\* Mutation of ReadFails: the clean-up in .then instead of .finally, so that a
\* failed load leaves its promise behind.
ReadFailsWithoutFinally(r) ==
    /\ pc[r] = "loading"
    /\ pc' = [pc EXCEPT ![r] = "idle"]
    /\ key' = [key EXCEPT ![r] = None]
    /\ UNCHANGED <<db, done, cacheVars, served, ver, writerVars>>

ReadFails(r) ==
    /\ pc[r] = "loading"
    /\ pc' = [pc EXCEPT ![r] = "failed"]
    /\ UNCHANGED <<db, done, cacheVars, served, key, ver, writerVars>>

\* .then: keep the value, whatever was invalidated meanwhile.
StoreValue(r) ==
    /\ pc[r] = "loaded"
    /\ Set(key[r], ver[r])
    /\ pc' = [pc EXCEPT ![r] = "stored"]
    /\ UNCHANGED <<db, done, pending, served, key, ver, writerVars>>

\* .finally, on both outcomes; the promise settles and every call that
\* awaits it returns its value or throws its error.
Settle(r) ==
    /\ pc[r] \in {"stored", "failed"}
    /\ LET k == key[r]
           callers == {r} \cup {q \in Readers : pc[q] = "waiting" /\ key[q] = k}
       IN  /\ pending' = [pending EXCEPT ![k] = None]
           /\ served' = IF pc[r] = "stored" THEN [served EXCEPT ![k] = ver[r]]
                                            ELSE served
           /\ pc' = [q \in Readers |-> IF q \in callers THEN "idle" ELSE pc[q]]
           /\ key' = [q \in Readers |-> IF q \in callers THEN None ELSE key[q]]
    /\ ver' = [ver EXCEPT ![r] = 0]
    /\ UNCHANGED <<db, done, store, before, writerVars>>

\* ttlMs <= 0: the factory alone, nothing cached and nothing shared.
Bypass(r, k) ==
    /\ pc[r] = "idle"
    /\ Ttl[k] = 0
    /\ pc' = [pc EXCEPT ![r] = "bypass"]
    /\ UNCHANGED <<db, done, cacheVars, served, key, ver, writerVars>>

BypassReturns(r) ==
    /\ pc[r] = "bypass"
    /\ pc' = [pc EXCEPT ![r] = "idle"]
    /\ UNCHANGED <<db, done, cacheVars, served, key, ver, writerVars>>

-----------------------------------------------------------------------------
(* Writers: the commit, then, when the database has answered, the          *)
(* invalidation of every key of the prefix.                                *)

\* Mutation of Commit: the write is not awaited and is lost.
CommitNotAwaited(w, g) ==
    /\ wpc[w] = "idle"
    /\ wpc' = [wpc EXCEPT ![w] = "committed"]
    /\ group' = [group EXCEPT ![w] = g]
    /\ wver' = [wver EXCEPT ![w] = db[g] + 1]
    /\ UNCHANGED <<db, done, cacheVars, served, readerVars>>

Commit(w, g) ==
    /\ wpc[w] = "idle"
    /\ db[g] < MaxWrites[g]
    /\ db' = [db EXCEPT ![g] = @ + 1]
    /\ wpc' = [wpc EXCEPT ![w] = "committed"]
    /\ group' = [group EXCEPT ![w] = g]
    /\ wver' = [wver EXCEPT ![w] = db[g] + 1]
    /\ UNCHANGED <<done, cacheVars, served, readerVars>>

\* Mutation of KeysOf: only one key of the prefix.
OneKeyOf(g) == {CHOOSE k \in Keys : GroupOf[k] = g}

KeysOf(g) == {k \in Keys : GroupOf[k] = g}

InvalidatePrefix(w) ==
    /\ wpc[w] = "committed"
    /\ LET g == group[w]
       IN  /\ Delete(KeysOf(g))
           /\ done' = [done EXCEPT ![g] = IF wver[w] > @ THEN wver[w] ELSE @]
    /\ wpc' = [wpc EXCEPT ![w] = "idle"]
    /\ group' = [group EXCEPT ![w] = None]
    /\ wver' = [wver EXCEPT ![w] = 0]
    /\ UNCHANGED <<db, pending, served, readerVars>>

-----------------------------------------------------------------------------
(* The environment: time passes; the process dies and comes back empty.    *)

Tick ==
    /\ \E k \in DOMAIN store : Live(k)
    /\ store' = [k \in DOMAIN store |->
                    [store[k] EXCEPT !.left = IF @ > 0 THEN @ - 1 ELSE 0]]
    /\ UNCHANGED <<db, done, before, pending, served, readerVars, writerVars>>

\* Mutation of Restart: a store that survives the process.
RestartKeepingStore ==
    /\ pending' = [k \in Keys |-> None]
    /\ pc' = [r \in Readers |-> "idle"]
    /\ key' = [r \in Readers |-> None]
    /\ ver' = [r \in Readers |-> 0]
    /\ wpc' = [w \in Writers |-> "idle"]
    /\ group' = [w \in Writers |-> None]
    /\ wver' = [w \in Writers |-> 0]
    /\ UNCHANGED <<db, done, store, before, served>>

Restart ==
    /\ Delete(Keys)
    /\ pending' = [k \in Keys |-> None]
    /\ pc' = [r \in Readers |-> "idle"]
    /\ key' = [r \in Readers |-> None]
    /\ ver' = [r \in Readers |-> 0]
    /\ wpc' = [w \in Writers |-> "idle"]
    /\ group' = [w \in Writers |-> None]
    /\ wver' = [w \in Writers |-> 0]
    /\ UNCHANGED <<db, done, served>>

Begin(r) == \E k \in Keys : Hit(r, k) \/ Join(r, k) \/ Load(r, k) \/ Bypass(r, k)

Continue(r) ==
    Read(r) \/ ReadFails(r) \/ StoreValue(r) \/ Settle(r) \/ BypassReturns(r)

Write(w) == \E g \in Groups : Commit(w, g)

Next ==
    \/ \E r \in Readers : Begin(r) \/ Continue(r)
    \/ \E w \in Writers : Write(w) \/ InvalidatePrefix(w)
    \/ Tick
    \/ Restart

\* The clock runs, the database answers or fails every query it was sent, and
\* the event loop runs every continuation.  Nothing obliges a client to call.
Fairness ==
    /\ WF_vars(Tick)
    /\ \A r \in Readers : WF_vars(Continue(r))
    /\ \A w \in Writers : WF_vars(InvalidatePrefix(w))

Spec == Init /\ [][Next]_vars
FairSpec == Spec /\ Fairness

-----------------------------------------------------------------------------
(* Properties. *)

\* A group is owed an invalidation while a writer has committed a version of
\* it that it has not invalidated yet.
Owed(g, v) == \E w \in Writers : wpc[w] = "committed" /\ group[w] = g /\ wver[w] > v

\* A live entry older than a write whose invalidation has already run.
Outlived(k) == Live(k) /\ store[k].ver < done[GroupOf[k]]

\* wrap coalesces: of all the calls that miss a key at most one runs the
\* factory, the pending map names exactly that one, and a call that awaits a
\* promise awaits one that will settle.
SingleFlight ==
    /\ \A r \in Readers : pc[r] \in Loading => key[r] \in Keys /\ pending[key[r]] = r
    /\ \A k \in Keys : pending[k] # None =>
           pc[pending[k]] \in Loading /\ key[pending[k]] = k
    /\ \A r \in Readers : pc[r] = "waiting" => key[r] \in Keys /\ pending[key[r]] # None

\* The store never exceeds MaxEntries, whatever mix of live and expired entries
\* it holds, and its insertion order stays total, so that the oldest entry is
\* well defined.
StoreWithinLimits ==
    /\ Cardinality(DOMAIN store) <= MaxEntries
    /\ \A j, k \in DOMAIN store :
           j # k => (<<j, k>> \in before) # (<<k, j>> \in before)

\* Every stale value in the store is accounted for: either the write that made
\* it stale still owes its invalidation, or the value was filled by a load that
\* the invalidation overtook.  A crash between commit and invalidation adds no
\* third case, because the store dies with the process.
StaleIsAccountedFor ==
    \A k \in DOMAIN store :
        Live(k) /\ store[k].ver < db[GroupOf[k]] =>
            Outlived(k) \/ Owed(GroupOf[k], store[k].ver)

\* An entry gets to outlive an invalidation in one way only: a load that read
\* the database before the write stores its value after the invalidation.  In
\* particular invalidatePrefix reaches every key of its prefix.
OutlivesOnlyByLateFill ==
    [][\A k \in Keys : Outlived(k)' /\ ~ Outlived(k) =>
           \E r \in Readers : key[r] = k /\ pc[r] = "loaded" /\ pc'[r] = "stored"]_vars

\* A live entry leaves the store only when its prefix is invalidated, when the
\* process dies, or to make room in a store that MaxEntries live entries fill,
\* it being the oldest of them: expired entries are dropped before live ones.
Invalidated(k) == \E w \in Writers : wpc[w] = "committed" /\ wpc'[w] = "idle"
                                       /\ group[w] = GroupOf[k]
Died == \A r \in Readers : pc'[r] = "idle"
EvictsOnlyForRoom ==
    [][\A k \in Keys : Live(k) /\ k \notin DOMAIN store' =>
          \/ Invalidated(k)
          \/ store' = << >> /\ Died
          \/ /\ Cardinality({j \in DOMAIN store : Live(j)}) >= MaxEntries
             /\ \A j \in DOMAIN store : Live(j) => <<j, k>> \notin before]_vars

\* Reads of one key never go back in time: once a wrap has returned a version,
\* no later return of a wrap of that key is older.  It holds because loads of
\* a key do not overlap, although invalidation ignores the pending promise.
MonotonicReads ==
    [][\A k \in Keys : Ttl[k] > 0 => served'[k] >= served[k]]_vars

\* For its readers the cache is a replica that lags behind the database and never
\* goes back, whatever joins, expires, is evicted or is invalidated in between.
Replica == INSTANCE LaggingReads WITH seen <- served
ImplementsLaggingReads == Replica!Spec

\* A call that awaits a load awaits that one to its end: nobody replaces the
\* promise it holds, the load only ever comes nearer to its end, and the step
\* that settles the load lets every call go that awaits it.
StepsLeft(p) == CASE p = "loading" -> 3 [] p = "loaded" -> 2 [] p \in {"stored", "failed"} -> 1
                  [] OTHER -> 0
Progresses(l) == pc'[l] = pc[l] \/ StepsLeft(pc'[l]) < StepsLeft(pc[l])
WaitsForOneLoad ==
    [][\A r \in Readers : pc[r] = "waiting" =>
           LET k == key[r]
               l == pending[k]
           IN  /\ Progresses(l)
               /\ IF pc'[l] = "idle"
                  THEN pc'[r] = "idle"
                  ELSE pc'[r] = "waiting" /\ key'[r] = k /\ pending'[k] = l]_vars

\* Once the writes stop, what the cache serves becomes current for good: a
\* late fill is served for at most one time to live.
EventuallyFresh ==
    <>[](\A k \in Keys : Live(k) => store[k].ver = db[GroupOf[k]])

\* Every wrap returns or throws: a failed factory does not poison its key.
EveryWrapReturns ==
    \A r \in Readers : []<>(pc[r] = "idle")

\* What the services rely on when they invalidate after a write (the specs call
\* it "invalidates monitor cache after create"): afterwards no cached value is
\* older than that write.
NothingOutlivesItsInvalidation == \A k \in Keys : ~ Outlived(k)
=============================================================================
