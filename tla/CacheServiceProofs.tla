------------------------- MODULE CacheServiceProofs -------------------------
(***************************************************************************)
(* Proofs about CacheService, for any readers, writers, keys and times to   *)
(* live.                                                                    *)
(*                                                                          *)
(* Three arguments.  The reader that the pending map names for a key is the *)
(* only one that may fill it, so loads of a key do not overlap and the      *)
(* versions it returns do not go back.  And a value in the store, or on its *)
(* way there, is the committed version, or one whose successor is either    *)
(* invalidated already or owed an invalidation by the writer of it.  And    *)
(* set adds one entry to a store that has room or drops the oldest of one   *)
(* too many.                                                                *)
(***************************************************************************)
EXTENDS CacheService, FiniteSetTheorems, TLAPS

\* A writer between commit and invalidation knows what it wrote.
WriterNamed(w) ==
    wpc[w] = "committed" => group[w] \in Groups /\ wver[w] <= db[group[w]]

\* TypeOK by the part of the state.
StoreOK ==
    /\ DOMAIN store \subseteq Keys
    /\ \A k \in DOMAIN store : store[k] \in Entry
    /\ store = [k \in DOMAIN store |-> store[k]]
    /\ before \subseteq (DOMAIN store) \X (DOMAIN store)

ReadersOK ==
    /\ pending \in [Keys -> Readers \cup {None}]
    /\ served \in [Keys -> Version]
    /\ pc \in [Readers -> {"idle", "waiting", "bypass"} \cup Loading]
    /\ key \in [Readers -> Keys \cup {None}]
    /\ ver \in [Readers -> Version]

WritersOK ==
    /\ db \in [Groups -> Version]
    /\ done \in [Groups -> Version]
    /\ \A g \in Groups : done[g] <= db[g]
    /\ wpc \in [Writers -> {"idle", "committed"}]
    /\ group \in [Writers -> Groups \cup {None}]
    /\ wver \in [Writers -> Version]

\* Types, single flight and what a writer knows, which are inductive together.
TypeInv == TypeOK /\ SingleFlight /\ \A w \in Writers : WriterNamed(w)

\* A version of a group that is not current has been invalidated, or is owed it.
Accounted(g, v) == v < db[g] => v < done[g] \/ Owed(g, v)

AllAccounted ==
    /\ \A k \in DOMAIN store : Accounted(GroupOf[k], store[k].ver)
    /\ \A r \in Readers : pc[r] = "loaded" => Accounted(GroupOf[key[r]], ver[r])

\* While a key is being loaded nothing is cached under it, and what is cached, or
\* is about to be, is no older than what was served.
Monotonic ==
    /\ \A k \in Keys : served[k] <= db[GroupOf[k]]
    /\ \A k \in DOMAIN store : served[k] <= store[k].ver /\ store[k].ver <= db[GroupOf[k]]
    /\ \A r \in Readers :
           /\ pc[r] \in {"loading", "loaded", "failed"} => key[r] \notin DOMAIN store
           /\ pc[r] \in {"loaded", "stored"} =>
                  served[key[r]] <= ver[r] /\ ver[r] <= db[GroupOf[key[r]]]
           /\ pc[r] = "stored" /\ key[r] \in DOMAIN store => store[key[r]].ver = ver[r]

-----------------------------------------------------------------------------
\* TypeOK is the conjunction of its parts.
LEMMA TypeParts == TypeOK <=> StoreOK /\ ReadersOK /\ WritersOK
    BY DEF TypeOK, StoreOK, ReadersOK, WritersOK

\* What the store holds.
LEMMA StoreTypes ==
    ASSUME TypeInv
    PROVE  /\ DOMAIN store \subseteq Keys
           /\ \A k \in DOMAIN store : store[k] \in Entry
           /\ \A k \in DOMAIN store : store[k].ver \in Nat /\ store[k].left \in Nat
           /\ store = [k \in DOMAIN store |-> store[k]]
           /\ before \subseteq (DOMAIN store) \X (DOMAIN store)
    BY DEF TypeInv, TypeOK, Entry, Version

\* Where readers are, and what they hold.
LEMMA ReaderTypes ==
    ASSUME TypeInv
    PROVE  /\ pc \in [Readers -> {"idle", "waiting", "bypass"} \cup Loading]
           /\ key \in [Readers -> Keys \cup {None}]
           /\ ver \in [Readers -> Nat]
           /\ pending \in [Keys -> Readers \cup {None}]
           /\ served \in [Keys -> Nat]
           /\ None \notin Readers
    BY CacheAssumption DEF TypeInv, TypeOK, Version

\* The versions of the database, and where writers are.
LEMMA WriterTypes ==
    ASSUME TypeInv
    PROVE  /\ db \in [Groups -> Nat] /\ done \in [Groups -> Nat]
           /\ wpc \in [Writers -> {"idle", "committed"}]
           /\ group \in [Writers -> Groups \cup {None}]
           /\ wver \in [Writers -> Nat]
           /\ GroupOf \in [Keys -> Groups]
    BY CacheAssumption DEF TypeInv, TypeOK, Version

\* Deleting keys (invalidatePrefix, an expired entry in get, a restart) keeps the
\* other entries as they are.
LEMMA DeleteStore ==
    ASSUME TypeInv, NEW D, Delete(D)
    PROVE  /\ DOMAIN store' = DOMAIN store \ D
           /\ DOMAIN store' \subseteq DOMAIN store
           /\ \A k \in DOMAIN store' : store'[k] = store[k]
           /\ store' = [k \in DOMAIN store' |-> store'[k]]
           /\ before' \subseteq (DOMAIN store') \X (DOMAIN store')
<1>1. store' = [k \in DOMAIN store \ D |-> store[k]]
    BY DEF Delete, Restrict
<1>2. before' = {p \in before : p[1] \notin D /\ p[2] \notin D}
    BY DEF Delete
<1> QED  BY <1>1, <1>2, StoreTypes

\* set keeps what it does not drop, and adds one entry if there is room at all.
LEMMA SetStore ==
    ASSUME TypeInv, NEW k \in Keys, NEW v \in Nat, Set(k, v)
    PROVE  /\ DOMAIN store' \subseteq DOMAIN store \cup {k}
           /\ \A j \in DOMAIN store' :
                  store'[j] = IF j = k THEN [ver |-> v, left |-> Ttl[k]] ELSE store[j]
           /\ store' = [j \in DOMAIN store' |-> store'[j]]
           /\ before' \subseteq (DOMAIN store') \X (DOMAIN store')
<1> DEFINE kept    == DOMAIN store \ Expired
           present == kept \cup {k}
           order   == {p \in before : p[1] \in kept /\ p[2] \in kept}
                        \cup (IF k \in kept THEN {} ELSE kept \X {k})
           final   == present \ Overflow(present, order)
<1>1. /\ store' = [j \in final |-> IF j = k THEN [ver |-> v, left |-> Ttl[k]]
                                            ELSE store[j]]
      /\ before' = {p \in order : p[1] \in final /\ p[2] \in final}
    BY DEF Set
<1>2. order \subseteq present \X present
    BY StoreTypes
<1>3. final \subseteq DOMAIN store \cup {k}
    OBVIOUS
<1> HIDE DEF order, final, present
<1>4. before' \subseteq final \X final
    BY <1>1, <1>2
<1> QED  BY <1>1, <1>3, <1>4

\* No step spoils the store: what it deletes goes from the order as well, and
\* what it adds is an entry.
LEMMA StoreStep ==
    ASSUME TypeInv, [Next]_vars
    PROVE  StoreOK'
<1>1. ASSUME NEW r \in Readers, NEW k \in Keys, Hit(r, k)  PROVE StoreOK'
    BY <1>1, StoreTypes DEF StoreOK, Hit, cacheVars
<1>2. ASSUME NEW r \in Readers, NEW k \in Keys, Join(r, k)  PROVE StoreOK'
    BY <1>2, DeleteStore, StoreTypes DEF StoreOK, Join, cacheVars, Miss
<1>3. ASSUME NEW r \in Readers, NEW k \in Keys, Load(r, k)  PROVE StoreOK'
    BY <1>3, DeleteStore, StoreTypes DEF StoreOK, Load, cacheVars, Miss
<1>4. ASSUME NEW r \in Readers, NEW k \in Keys, Bypass(r, k)  PROVE StoreOK'
    BY <1>4, StoreTypes DEF StoreOK, Bypass, cacheVars
<1>5. ASSUME NEW r \in Readers, Read(r)  PROVE StoreOK'
    BY <1>5, StoreTypes DEF StoreOK, Read, cacheVars
<1>6. ASSUME NEW r \in Readers, ReadFails(r)  PROVE StoreOK'
    BY <1>6, StoreTypes DEF StoreOK, ReadFails, cacheVars
<1>7. ASSUME NEW r \in Readers, StoreValue(r)  PROVE StoreOK'
    <2>1. key[r] \in Keys /\ ver[r] \in Nat /\ Ttl[key[r]] \in Nat
        BY <1>7, ReaderTypes, CacheAssumption DEF TypeInv, SingleFlight, Loading,
               StoreValue
    <2>2. [ver |-> ver[r], left |-> Ttl[key[r]]] \in Entry
        BY <2>1 DEF Entry, Version
    <2>3. Set(key[r], ver[r])
        BY <1>7 DEF StoreValue
    <2> QED  BY <2>1, <2>2, <2>3, SetStore, StoreTypes DEF StoreOK
<1>8. ASSUME NEW r \in Readers, Settle(r)  PROVE StoreOK'
    BY <1>8, StoreTypes DEF StoreOK, Settle, cacheVars
<1>9. ASSUME NEW r \in Readers, BypassReturns(r)  PROVE StoreOK'
    BY <1>9, StoreTypes DEF StoreOK, BypassReturns, cacheVars
<1>10. ASSUME NEW w \in Writers, NEW g \in Groups, Commit(w, g)  PROVE StoreOK'
    BY <1>10, StoreTypes DEF StoreOK, Commit, cacheVars
<1>11. ASSUME NEW w \in Writers, InvalidatePrefix(w)  PROVE StoreOK'
    BY <1>11, DeleteStore, StoreTypes DEF StoreOK, InvalidatePrefix, cacheVars
<1>12. CASE Tick
    <2>1. store' = [k \in DOMAIN store |->
                       [store[k] EXCEPT !.left =
                            IF store[k].left > 0 THEN store[k].left - 1 ELSE 0]]
        BY <1>12 DEF Tick
    <2>2. ASSUME NEW k \in DOMAIN store
          PROVE  [store[k] EXCEPT !.left =
                      IF store[k].left > 0 THEN store[k].left - 1 ELSE 0] \in Entry
        BY StoreTypes DEF Entry
    <2>3. before' = before
        BY <1>12 DEF Tick
    <2> QED  BY <2>1, <2>2, <2>3, StoreTypes DEF StoreOK
<1>13. CASE Restart
    BY <1>13, DeleteStore, CacheAssumption, StoreTypes DEF StoreOK, Restart, cacheVars
<1>14. CASE UNCHANGED vars
    BY <1>14, StoreTypes DEF StoreOK, cacheVars, vars
<1> QED
    BY <1>1, <1>2, <1>3, <1>4, <1>5, <1>6, <1>7, <1>8, <1>9, <1>10, <1>11, <1>12, <1>13,
           <1>14 DEF Next, Begin, Continue, Write

\* A reader holds a key, a version and a place, and pending names readers.
LEMMA ReadersStep ==
    ASSUME TypeInv, [Next]_vars
    PROVE  ReadersOK'
<1>1. ASSUME NEW r \in Readers, NEW k \in Keys, Hit(r, k)  PROVE ReadersOK'
    <2>1. store[k].ver \in Nat
        BY <1>1, StoreTypes DEF Hit, Live, Cached
    <2>2. served' \in [Keys -> Nat]
        BY <1>1, <2>1, ReaderTypes DEF Hit
    <2> QED  BY <1>1, <2>2, ReaderTypes DEF ReadersOK, Version, Hit, cacheVars,
            readerVars
<1>2. ASSUME NEW r \in Readers, NEW k \in Keys, Join(r, k)  PROVE ReadersOK'
    BY <1>2, ReaderTypes, StoreTypes DEF ReadersOK, Loading, Version, Join, cacheVars,
           readerVars, Miss
<1>3. ASSUME NEW r \in Readers, NEW k \in Keys, Load(r, k)  PROVE ReadersOK'
    BY <1>3, ReaderTypes, StoreTypes DEF ReadersOK, Loading, Version, Load, cacheVars,
           readerVars, Miss
<1>4. ASSUME NEW r \in Readers, NEW k \in Keys, Bypass(r, k)  PROVE ReadersOK'
    <2>1. pc' \in [Readers -> {"idle", "waiting", "bypass"} \cup Loading]
        BY <1>4, ReaderTypes DEF Bypass
    <2>2. /\ pending' \in [Keys -> Readers \cup {None}] /\ served' \in [Keys -> Nat]
          /\ key' \in [Readers -> Keys \cup {None}] /\ ver' \in [Readers -> Nat]
        BY <1>4, ReaderTypes DEF Bypass, cacheVars
    <2> QED  BY <2>1, <2>2 DEF ReadersOK, Version
<1>5. ASSUME NEW r \in Readers, Read(r)  PROVE ReadersOK'
    <2>1. key[r] \in Keys
        BY <1>5 DEF TypeInv, SingleFlight, Loading, Read
    <2>2. db[GroupOf[key[r]]] \in Nat
        BY <2>1, WriterTypes
    <2>3. pc' \in [Readers -> {"idle", "waiting", "bypass"} \cup Loading]
        BY <1>5, ReaderTypes DEF Read, Loading
    <2>4. ver' \in [Readers -> Nat]
        BY <1>5, <2>2, ReaderTypes DEF Read
    <2> QED  BY <1>5, <2>3, <2>4, ReaderTypes DEF ReadersOK, Version, Read, cacheVars
<1>6. ASSUME NEW r \in Readers, ReadFails(r)  PROVE ReadersOK'
    BY <1>6, ReaderTypes, StoreTypes DEF ReadersOK, Loading, Version, ReadFails,
           cacheVars, readerVars
<1>7. ASSUME NEW r \in Readers, StoreValue(r)  PROVE ReadersOK'
    BY <1>7, ReaderTypes, StoreTypes DEF ReadersOK, Loading, Version, StoreValue,
           cacheVars, readerVars
<1>8. ASSUME NEW r \in Readers, Settle(r)  PROVE ReadersOK'
    BY <1>8, ReaderTypes, StoreTypes DEF ReadersOK, Loading, Version, Settle, cacheVars,
           readerVars
<1>9. ASSUME NEW r \in Readers, BypassReturns(r)  PROVE ReadersOK'
    BY <1>9, ReaderTypes, StoreTypes DEF ReadersOK, Loading, Version, BypassReturns,
           cacheVars, readerVars
<1>10. ASSUME NEW w \in Writers, NEW g \in Groups, Commit(w, g)  PROVE ReadersOK'
    BY <1>10, ReaderTypes, StoreTypes DEF ReadersOK, Loading, Version, Commit,
           cacheVars, readerVars
<1>11. ASSUME NEW w \in Writers, InvalidatePrefix(w)  PROVE ReadersOK'
    BY <1>11, ReaderTypes, StoreTypes DEF ReadersOK, Loading, Version, InvalidatePrefix,
           cacheVars, readerVars
<1>12. CASE Tick
    BY <1>12, ReaderTypes, StoreTypes DEF ReadersOK, Loading, Version, Tick, cacheVars,
           readerVars
<1>13. CASE Restart
    BY <1>13, ReaderTypes, StoreTypes DEF ReadersOK, Loading, Version, Restart,
           cacheVars, readerVars
<1>14. CASE UNCHANGED vars
    BY <1>14, ReaderTypes, StoreTypes DEF ReadersOK, Loading, Version, cacheVars,
           readerVars, vars
<1> QED
    BY <1>1, <1>2, <1>3, <1>4, <1>5, <1>6, <1>7, <1>8, <1>9, <1>10, <1>11, <1>12, <1>13,
           <1>14 DEF Next, Begin, Continue, Write

\* Commits count up, and done follows db.
LEMMA WritersStep ==
    ASSUME TypeInv, [Next]_vars
    PROVE  WritersOK'
<1>1. ASSUME NEW r \in Readers, NEW k \in Keys, Hit(r, k)  PROVE WritersOK'
    BY <1>1, WriterTypes DEF TypeInv, WriterNamed, WritersOK, Version, TypeOK, Hit,
           writerVars
<1>2. ASSUME NEW r \in Readers, NEW k \in Keys, Join(r, k)  PROVE WritersOK'
    BY <1>2, WriterTypes DEF TypeInv, WriterNamed, WritersOK, Version, TypeOK, Join,
           writerVars, Miss
<1>3. ASSUME NEW r \in Readers, NEW k \in Keys, Load(r, k)  PROVE WritersOK'
    BY <1>3, WriterTypes DEF TypeInv, WriterNamed, WritersOK, Version, TypeOK, Load,
           writerVars, Miss
<1>4. ASSUME NEW r \in Readers, NEW k \in Keys, Bypass(r, k)  PROVE WritersOK'
    BY <1>4, WriterTypes DEF TypeInv, WriterNamed, WritersOK, Version, TypeOK, Bypass,
           writerVars
<1>5. ASSUME NEW r \in Readers, Read(r)  PROVE WritersOK'
    BY <1>5, WriterTypes DEF TypeInv, WriterNamed, WritersOK, Version, TypeOK, Read,
           writerVars
<1>6. ASSUME NEW r \in Readers, ReadFails(r)  PROVE WritersOK'
    BY <1>6, WriterTypes DEF TypeInv, WriterNamed, WritersOK, Version, TypeOK,
           ReadFails, writerVars
<1>7. ASSUME NEW r \in Readers, StoreValue(r)  PROVE WritersOK'
    BY <1>7, WriterTypes DEF TypeInv, WriterNamed, WritersOK, Version, TypeOK,
           StoreValue, writerVars
<1>8. ASSUME NEW r \in Readers, Settle(r)  PROVE WritersOK'
    BY <1>8, WriterTypes DEF TypeInv, WriterNamed, WritersOK, Version, TypeOK, Settle,
           writerVars
<1>9. ASSUME NEW r \in Readers, BypassReturns(r)  PROVE WritersOK'
    BY <1>9, WriterTypes DEF TypeInv, WriterNamed, WritersOK, Version, TypeOK,
           BypassReturns, writerVars
<1>10. ASSUME NEW w \in Writers, NEW g \in Groups, Commit(w, g)  PROVE WritersOK'
    BY <1>10, WriterTypes DEF TypeInv, WriterNamed, WritersOK, Version, TypeOK, Commit,
           writerVars
<1>11. ASSUME NEW w \in Writers, InvalidatePrefix(w)  PROVE WritersOK'
    BY <1>11, WriterTypes DEF TypeInv, WriterNamed, WritersOK, Version, TypeOK,
           InvalidatePrefix, writerVars
<1>12. CASE Tick
    BY <1>12, WriterTypes DEF TypeInv, WriterNamed, WritersOK, Version, TypeOK, Tick,
           writerVars
<1>13. CASE Restart
    BY <1>13, WriterTypes DEF TypeInv, WriterNamed, WritersOK, Version, TypeOK, Restart,
           writerVars
<1>14. CASE UNCHANGED vars
    BY <1>14, WriterTypes DEF TypeInv, WriterNamed, WritersOK, Version, TypeOK,
           writerVars, vars
<1> QED
    BY <1>1, <1>2, <1>3, <1>4, <1>5, <1>6, <1>7, <1>8, <1>9, <1>10, <1>11, <1>12, <1>13,
           <1>14 DEF Next, Begin, Continue, Write

\* Load takes the free pending slot of its key and Settle gives it up, on success
\* and on failure, with everybody who waited for it.
LEMMA SingleStep ==
    ASSUME TypeInv, [Next]_vars
    PROVE  SingleFlight'
<1>1. ASSUME NEW r \in Readers, NEW k \in Keys, Hit(r, k)  PROVE SingleFlight'
    BY <1>1, ReaderTypes DEF TypeInv, SingleFlight, Loading, Hit, cacheVars, readerVars,
           writerVars
<1>2. ASSUME NEW r \in Readers, NEW k \in Keys, Join(r, k)  PROVE SingleFlight'
    BY <1>2, ReaderTypes DEF TypeInv, SingleFlight, Loading, Join, cacheVars,
           readerVars, writerVars, Miss
<1>3. ASSUME NEW r \in Readers, NEW k \in Keys, Load(r, k)  PROVE SingleFlight'
    BY <1>3, ReaderTypes DEF TypeInv, SingleFlight, Loading, Load, cacheVars,
           readerVars, writerVars, Miss
<1>4. ASSUME NEW r \in Readers, NEW k \in Keys, Bypass(r, k)  PROVE SingleFlight'
    BY <1>4, ReaderTypes DEF TypeInv, SingleFlight, Loading, Bypass, cacheVars,
           readerVars, writerVars
<1>5. ASSUME NEW r \in Readers, Read(r)  PROVE SingleFlight'
    BY <1>5, ReaderTypes DEF TypeInv, SingleFlight, Loading, Read, cacheVars,
           readerVars, writerVars
<1>6. ASSUME NEW r \in Readers, ReadFails(r)  PROVE SingleFlight'
    BY <1>6, ReaderTypes DEF TypeInv, SingleFlight, Loading, ReadFails, cacheVars,
           readerVars, writerVars
<1>7. ASSUME NEW r \in Readers, StoreValue(r)  PROVE SingleFlight'
    BY <1>7, ReaderTypes DEF TypeInv, SingleFlight, Loading, StoreValue, cacheVars,
           readerVars, writerVars
<1>8. ASSUME NEW r \in Readers, Settle(r)  PROVE SingleFlight'
    BY <1>8, ReaderTypes DEF TypeInv, SingleFlight, Loading, Settle, cacheVars,
           readerVars, writerVars
<1>9. ASSUME NEW r \in Readers, BypassReturns(r)  PROVE SingleFlight'
    BY <1>9, ReaderTypes DEF TypeInv, SingleFlight, Loading, BypassReturns, cacheVars,
           readerVars, writerVars
<1>10. ASSUME NEW w \in Writers, NEW g \in Groups, Commit(w, g)  PROVE SingleFlight'
    BY <1>10, ReaderTypes DEF TypeInv, SingleFlight, Loading, Commit, cacheVars,
           readerVars, writerVars
<1>11. ASSUME NEW w \in Writers, InvalidatePrefix(w)  PROVE SingleFlight'
    BY <1>11, ReaderTypes DEF TypeInv, SingleFlight, Loading, InvalidatePrefix,
           cacheVars, readerVars, writerVars
<1>12. CASE Tick
    BY <1>12, ReaderTypes DEF TypeInv, SingleFlight, Loading, Tick, cacheVars,
           readerVars, writerVars
<1>13. CASE Restart
    BY <1>13, ReaderTypes DEF TypeInv, SingleFlight, Loading, Restart, cacheVars,
           readerVars, writerVars
<1>14. CASE UNCHANGED vars
    BY <1>14, ReaderTypes DEF TypeInv, SingleFlight, Loading, cacheVars, readerVars,
           writerVars, vars
<1> QED
    BY <1>1, <1>2, <1>3, <1>4, <1>5, <1>6, <1>7, <1>8, <1>9, <1>10, <1>11, <1>12, <1>13,
           <1>14 DEF Next, Begin, Continue, Write

\* A writer remembers what it committed until it has invalidated it.
LEMMA NamedStep ==
    ASSUME TypeInv, NEW x \in Writers, [Next]_vars
    PROVE  WriterNamed(x)'
<1>1. ASSUME NEW r \in Readers, NEW k \in Keys, Hit(r, k)  PROVE WriterNamed(x)'
    BY <1>1, WriterTypes DEF TypeInv, WriterNamed, Hit, cacheVars, readerVars,
           writerVars
<1>2. ASSUME NEW r \in Readers, NEW k \in Keys, Join(r, k)  PROVE WriterNamed(x)'
    BY <1>2, WriterTypes DEF TypeInv, WriterNamed, Join, cacheVars, readerVars,
           writerVars, Miss
<1>3. ASSUME NEW r \in Readers, NEW k \in Keys, Load(r, k)  PROVE WriterNamed(x)'
    BY <1>3, WriterTypes DEF TypeInv, WriterNamed, Load, cacheVars, readerVars,
           writerVars, Miss
<1>4. ASSUME NEW r \in Readers, NEW k \in Keys, Bypass(r, k)  PROVE WriterNamed(x)'
    BY <1>4, WriterTypes DEF TypeInv, WriterNamed, Bypass, cacheVars, readerVars,
           writerVars
<1>5. ASSUME NEW r \in Readers, Read(r)  PROVE WriterNamed(x)'
    BY <1>5, WriterTypes DEF TypeInv, WriterNamed, Read, cacheVars, readerVars,
           writerVars
<1>6. ASSUME NEW r \in Readers, ReadFails(r)  PROVE WriterNamed(x)'
    BY <1>6, WriterTypes DEF TypeInv, WriterNamed, ReadFails, cacheVars, readerVars,
           writerVars
<1>7. ASSUME NEW r \in Readers, StoreValue(r)  PROVE WriterNamed(x)'
    BY <1>7, WriterTypes DEF TypeInv, WriterNamed, StoreValue, cacheVars, readerVars,
           writerVars
<1>8. ASSUME NEW r \in Readers, Settle(r)  PROVE WriterNamed(x)'
    BY <1>8, WriterTypes DEF TypeInv, WriterNamed, Settle, cacheVars, readerVars,
           writerVars
<1>9. ASSUME NEW r \in Readers, BypassReturns(r)  PROVE WriterNamed(x)'
    BY <1>9, WriterTypes DEF TypeInv, WriterNamed, BypassReturns, cacheVars, readerVars,
           writerVars
<1>10. ASSUME NEW w \in Writers, NEW g \in Groups, Commit(w, g)  PROVE WriterNamed(x)'
    BY <1>10, WriterTypes DEF TypeInv, WriterNamed, Commit, cacheVars, readerVars,
           writerVars
<1>11. ASSUME NEW w \in Writers, InvalidatePrefix(w)  PROVE WriterNamed(x)'
    BY <1>11, WriterTypes DEF TypeInv, WriterNamed, InvalidatePrefix, cacheVars,
           readerVars, writerVars
<1>12. CASE Tick
    BY <1>12, WriterTypes DEF TypeInv, WriterNamed, Tick, cacheVars, readerVars,
           writerVars
<1>13. CASE Restart
    BY <1>13, WriterTypes DEF TypeInv, WriterNamed, Restart, cacheVars, readerVars,
           writerVars
<1>14. CASE UNCHANGED vars
    BY <1>14, WriterTypes DEF TypeInv, WriterNamed, cacheVars, readerVars, writerVars,
           vars
<1> QED
    BY <1>1, <1>2, <1>3, <1>4, <1>5, <1>6, <1>7, <1>8, <1>9, <1>10, <1>11, <1>12, <1>13,
           <1>14 DEF Next, Begin, Continue, Write

\* Entries that stay as they are, or go, are still accounted for.
LEMMA AccountedKept ==
    ASSUME AllAccounted, UNCHANGED <<db, done, wpc, group, wver>>,
           \A k \in DOMAIN store' : k \in DOMAIN store /\ store'[k].ver = store[k].ver,
           \A r \in Readers : pc'[r] = "loaded" =>
               pc[r] = "loaded" /\ key'[r] = key[r] /\ ver'[r] = ver[r]
    PROVE  AllAccounted'
    BY DEF AllAccounted, Accounted, Owed

\* The same for what was and will be served.
LEMMA MonotonicKept ==
    ASSUME Monotonic, UNCHANGED <<db, served>>,
           \A k \in DOMAIN store' : k \in DOMAIN store /\ store'[k].ver = store[k].ver,
           \A r \in Readers : pc'[r] \in Loading =>
               pc'[r] = pc[r] /\ key'[r] = key[r] /\ ver'[r] = ver[r]
    PROVE  Monotonic'
    BY DEF Monotonic, Loading

\* A commit makes the others stale and owes; the invalidation pays for every key
\* of its prefix; a value on its way stays accounted for by done.
LEMMA AccountedStep ==
    ASSUME TypeInv, AllAccounted, [Next]_vars
    PROVE  AllAccounted'
<1>1. ASSUME NEW r \in Readers, NEW k \in Keys, Hit(r, k)  PROVE AllAccounted'
    BY <1>1, StoreTypes, ReaderTypes, WriterTypes DEF TypeInv, SingleFlight,
           WriterNamed, AllAccounted, Accounted, Owed, Loading, Hit, cacheVars,
           readerVars, writerVars
<1>2. ASSUME NEW r \in Readers, NEW k \in Keys, Join(r, k)  PROVE AllAccounted'
    <2>d. Delete({k})
        BY <1>2 DEF Join, Miss
    <2>1. \A j \in DOMAIN store' : j \in DOMAIN store /\ store'[j] = store[j]
        BY <2>d, DeleteStore
    <2> QED  BY <1>2, <2>1, AccountedKept, ReaderTypes DEF Join, writerVars, Loading
<1>3. ASSUME NEW r \in Readers, NEW k \in Keys, Load(r, k)  PROVE AllAccounted'
    <2>d. Delete({k})
        BY <1>3 DEF Load, Miss
    <2>1. \A j \in DOMAIN store' : j \in DOMAIN store /\ store'[j] = store[j]
        BY <2>d, DeleteStore
    <2> QED  BY <1>3, <2>1, AccountedKept, ReaderTypes DEF Load, writerVars, Loading
<1>4. ASSUME NEW r \in Readers, NEW k \in Keys, Bypass(r, k)  PROVE AllAccounted'
    BY <1>4, StoreTypes, ReaderTypes, WriterTypes DEF TypeInv, SingleFlight,
           WriterNamed, AllAccounted, Accounted, Owed, Loading, Bypass, cacheVars,
           readerVars, writerVars
<1>5. ASSUME NEW r \in Readers, Read(r)  PROVE AllAccounted'
    BY <1>5, StoreTypes, ReaderTypes, WriterTypes DEF TypeInv, SingleFlight,
           WriterNamed, AllAccounted, Accounted, Owed, Loading, Read, cacheVars,
           readerVars, writerVars
<1>6. ASSUME NEW r \in Readers, ReadFails(r)  PROVE AllAccounted'
    BY <1>6, StoreTypes, ReaderTypes, WriterTypes DEF TypeInv, SingleFlight,
           WriterNamed, AllAccounted, Accounted, Owed, Loading, ReadFails, cacheVars,
           readerVars, writerVars
<1>7. ASSUME NEW r \in Readers, StoreValue(r)  PROVE AllAccounted'
    <2>1. key[r] \in Keys /\ ver[r] \in Nat /\ Set(key[r], ver[r])
        BY <1>7, ReaderTypes DEF TypeInv, SingleFlight, Loading, StoreValue
    <2>2. \A k \in DOMAIN store' :
              store'[k].ver = IF k = key[r] THEN ver[r] ELSE store[k].ver
        BY <2>1, SetStore
    <2>3. DOMAIN store' \subseteq DOMAIN store \cup {key[r]}
        BY <2>1, SetStore
    <2>4. /\ UNCHANGED <<db, done, key, ver, wpc, group, wver>>
          /\ \A q \in Readers : pc'[q] = "loaded" => pc[q] = "loaded"
        BY <1>7, ReaderTypes DEF StoreValue, writerVars
    <2>5. pc[r] = "loaded"
        BY <1>7 DEF StoreValue
    <2> QED  BY <2>2, <2>3, <2>4, <2>5 DEF AllAccounted, Accounted, Owed
<1>8. ASSUME NEW r \in Readers, Settle(r)  PROVE AllAccounted'
    BY <1>8, StoreTypes, ReaderTypes, WriterTypes DEF TypeInv, SingleFlight,
           WriterNamed, AllAccounted, Accounted, Owed, Loading, Settle, cacheVars,
           readerVars, writerVars
<1>9. ASSUME NEW r \in Readers, BypassReturns(r)  PROVE AllAccounted'
    BY <1>9, StoreTypes, ReaderTypes, WriterTypes DEF TypeInv, SingleFlight,
           WriterNamed, AllAccounted, Accounted, Owed, Loading, BypassReturns,
           cacheVars, readerVars, writerVars
<1>10. ASSUME NEW w \in Writers, NEW g \in Groups, Commit(w, g)  PROVE AllAccounted'
    BY <1>10, StoreTypes, ReaderTypes, WriterTypes DEF TypeInv, SingleFlight,
           WriterNamed, AllAccounted, Accounted, Owed, Loading, Commit, cacheVars,
           readerVars, writerVars
<1>11. ASSUME NEW w \in Writers, InvalidatePrefix(w)  PROVE AllAccounted'
    <2> DEFINE g == group[w]
    <2>1. g \in Groups /\ wver[w] <= db[g]
        BY <1>11 DEF TypeInv, WriterNamed, InvalidatePrefix
    <2>2. /\ DOMAIN store' = DOMAIN store \ KeysOf(g)
          /\ \A k \in DOMAIN store' : store'[k] = store[k]
        BY <1>11, DeleteStore DEF InvalidatePrefix
    <2>3. done' = [done EXCEPT ![g] = IF wver[w] > done[g] THEN wver[w] ELSE done[g]] /\ db' = db
        BY <1>11 DEF InvalidatePrefix
    <2>4. ASSUME NEW h \in Groups, NEW v \in Nat, Accounted(h, v)
          PROVE  Accounted(h, v)'
        <3>1. CASE h = g
            BY <1>11, <2>1, <2>3, <2>4, <3>1, WriterTypes DEF Accounted, Owed,
                   InvalidatePrefix
        <3>2. CASE h # g
            BY <1>11, <2>1, <2>3, <2>4, <3>2, WriterTypes DEF Accounted, Owed,
                   InvalidatePrefix
        <3> QED  BY <3>1, <3>2
    <2>5. UNCHANGED <<pc, key, ver>>
        BY <1>11 DEF InvalidatePrefix, readerVars
    <2>6. \A r \in Readers : pc[r] = "loaded" => key[r] \in Keys /\ ver[r] \in Nat
        BY ReaderTypes DEF TypeInv, SingleFlight, Loading
    <2>7. ASSUME NEW k \in DOMAIN store'
          PROVE  Accounted(GroupOf[k], store[k].ver)'
        <3>1. k \in DOMAIN store /\ store'[k] = store[k]
            BY <2>2
        <3>2. GroupOf[k] \in Groups /\ store[k].ver \in Nat
            BY <3>1, StoreTypes, WriterTypes
        <3>3. Accounted(GroupOf[k], store[k].ver)
            BY <3>1 DEF AllAccounted
        <3> DEFINE v == store[k].ver
        <3> HIDE DEF v
        <3>4. v \in Nat /\ v = store[k].ver
            BY <3>2 DEF v
        <3>5. v' = v
            BY <3>1 DEF v
        <3> QED  BY <2>4, <3>1, <3>2, <3>3, <3>4, <3>5 DEF Accounted, Owed
    <2>8. ASSUME NEW r \in Readers, pc'[r] = "loaded"
          PROVE  Accounted(GroupOf[key[r]], ver[r])'
        <3>1. pc[r] = "loaded" /\ GroupOf[key[r]] \in Groups /\ ver[r] \in Nat
            BY <2>5, <2>6, <2>8, WriterTypes
        <3>2. Accounted(GroupOf[key[r]], ver[r])
            BY <3>1 DEF AllAccounted
        <3> QED  BY <2>4, <2>5, <3>1, <3>2 DEF Accounted, Owed
    <2> QED  BY <2>7, <2>8 DEF AllAccounted
<1>12. CASE Tick
    <2>1. \A k \in DOMAIN store' : k \in DOMAIN store /\ store'[k].ver = store[k].ver
        BY <1>12, StoreTypes DEF Tick, Entry
    <2> QED  BY <1>12, <2>1, AccountedKept DEF Tick, readerVars, writerVars
<1>13. CASE Restart
    <2>1. DOMAIN store' = {} /\ \A q \in Readers : pc'[q] = "idle"
        BY <1>13, DeleteStore, StoreTypes DEF Restart
    <2> QED  BY <2>1 DEF AllAccounted
<1>14. CASE UNCHANGED vars
    BY <1>14, StoreTypes, ReaderTypes, WriterTypes DEF TypeInv, SingleFlight,
           WriterNamed, AllAccounted, Accounted, Owed, Loading, cacheVars, readerVars,
           writerVars, vars
<1> QED
    BY <1>1, <1>2, <1>3, <1>4, <1>5, <1>6, <1>7, <1>8, <1>9, <1>10, <1>11, <1>12, <1>13,
           <1>14 DEF Next, Begin, Continue, Write

\* A load reads the newest version there is, and nobody fills its key before it.
LEMMA MonotonicStep ==
    ASSUME TypeInv, Monotonic, [Next]_vars
    PROVE  Monotonic'
<1>1. ASSUME NEW r \in Readers, NEW k \in Keys, Hit(r, k)  PROVE Monotonic'
    <2>1. /\ store[k].ver \in Nat /\ served[k] <= store[k].ver
          /\ store[k].ver <= db[GroupOf[k]] /\ k \in DOMAIN store
        BY <1>1 DEF Monotonic, Hit, Live, Cached, TypeInv, TypeOK, Entry, Version
    <2>2. /\ UNCHANGED <<db, store, pc, key, ver>>
          /\ served' = [served EXCEPT ![k] = store[k].ver]
        BY <1>1 DEF Hit, cacheVars, readerVars
    <2>3. \A r2 \in Readers : pc[r2] \in {"loaded", "stored"} /\ key[r2] = k =>
              pc[r2] = "stored" /\ store[k].ver = ver[r2]
        BY <2>1 DEF Monotonic
    <2> QED  BY <2>1, <2>2, <2>3, ReaderTypes, StoreTypes DEF Monotonic
<1>2. ASSUME NEW r \in Readers, NEW k \in Keys, Join(r, k)  PROVE Monotonic'
    <2>d. Delete({k})
        BY <1>2 DEF Join, Miss
    <2>1. \A j \in DOMAIN store' : j \in DOMAIN store /\ store'[j] = store[j]
        BY <2>d, DeleteStore
    <2> QED  BY <1>2, <2>1, MonotonicKept, ReaderTypes DEF Join, writerVars, Loading
<1>3. ASSUME NEW r \in Readers, NEW k \in Keys, Load(r, k)  PROVE Monotonic'
    <2>d. Delete({k})
        BY <1>3 DEF Load, Miss
    <2>1. /\ DOMAIN store' = DOMAIN store \ {k}
          /\ \A j \in DOMAIN store' : j \in DOMAIN store /\ store'[j] = store[j]
        BY <2>d, DeleteStore
    <2>2. /\ pc' = [pc EXCEPT ![r] = "loading"] /\ key' = [key EXCEPT ![r] = k]
          /\ UNCHANGED <<db, served, ver>>
        BY <1>3 DEF Load
    <2> QED  BY <2>1, <2>2, ReaderTypes, StoreTypes DEF Monotonic
<1>4. ASSUME NEW r \in Readers, NEW k \in Keys, Bypass(r, k)  PROVE Monotonic'
    BY <1>4, StoreTypes, ReaderTypes, WriterTypes DEF TypeInv, SingleFlight, Monotonic,
           Loading, Bypass, cacheVars, readerVars, writerVars
<1>5. ASSUME NEW r \in Readers, Read(r)  PROVE Monotonic'
    BY <1>5, StoreTypes, ReaderTypes, WriterTypes DEF TypeInv, SingleFlight, Monotonic,
           Loading, Read, cacheVars, readerVars, writerVars
<1>6. ASSUME NEW r \in Readers, ReadFails(r)  PROVE Monotonic'
    BY <1>6, StoreTypes, ReaderTypes, WriterTypes DEF TypeInv, SingleFlight, Monotonic,
           Loading, ReadFails, cacheVars, readerVars, writerVars
<1>7. ASSUME NEW r \in Readers, StoreValue(r)  PROVE Monotonic'
    <2>1. key[r] \in Keys /\ ver[r] \in Nat /\ Set(key[r], ver[r]) /\ pc[r] = "loaded"
        BY <1>7, ReaderTypes DEF TypeInv, SingleFlight, Loading, StoreValue
    <2>2. \A k \in DOMAIN store' :
              store'[k].ver = IF k = key[r] THEN ver[r] ELSE store[k].ver
        BY <2>1, SetStore
    <2>3. DOMAIN store' \subseteq DOMAIN store \cup {key[r]}
        BY <2>1, SetStore
    <2>4. pc' = [pc EXCEPT ![r] = "stored"] /\ UNCHANGED <<db, served, key, ver>>
        BY <1>7 DEF StoreValue
    <2>5. \A q \in Readers : pc[q] \in Loading /\ key[q] = key[r] => q = r
        BY <2>1 DEF TypeInv, SingleFlight, Loading
    <2> QED  BY <2>1, <2>2, <2>3, <2>4, <2>5, ReaderTypes, StoreTypes DEF Monotonic,
            Loading
<1>8. ASSUME NEW r \in Readers, Settle(r)  PROVE Monotonic'
    BY <1>8, StoreTypes, ReaderTypes, WriterTypes DEF TypeInv, SingleFlight, Monotonic,
           Loading, Settle, cacheVars, readerVars, writerVars
<1>9. ASSUME NEW r \in Readers, BypassReturns(r)  PROVE Monotonic'
    BY <1>9, StoreTypes, ReaderTypes, WriterTypes DEF TypeInv, SingleFlight, Monotonic,
           Loading, BypassReturns, cacheVars, readerVars, writerVars
<1>10. ASSUME NEW w \in Writers, NEW g \in Groups, Commit(w, g)  PROVE Monotonic'
    BY <1>10, StoreTypes, ReaderTypes, WriterTypes DEF TypeInv, SingleFlight, Monotonic,
           Loading, Commit, cacheVars, readerVars, writerVars
<1>11. ASSUME NEW w \in Writers, InvalidatePrefix(w)  PROVE Monotonic'
    <2>1. \A k \in DOMAIN store' : k \in DOMAIN store /\ store'[k] = store[k]
        BY <1>11, DeleteStore DEF InvalidatePrefix
    <2> QED  BY <1>11, <2>1, MonotonicKept DEF InvalidatePrefix, readerVars
<1>12. CASE Tick
    <2>1. \A k \in DOMAIN store' : k \in DOMAIN store /\ store'[k].ver = store[k].ver
        BY <1>12, StoreTypes DEF Tick, Entry
    <2> QED  BY <1>12, <2>1, MonotonicKept DEF Tick, readerVars, writerVars
<1>13. CASE Restart
    <2>1. DOMAIN store' = {} /\ \A q \in Readers : pc'[q] = "idle"
        BY <1>13, DeleteStore, StoreTypes DEF Restart
    <2>2. UNCHANGED <<db, served>>
        BY <1>13 DEF Restart
    <2> QED  BY <2>1, <2>2 DEF Monotonic
<1>14. CASE UNCHANGED vars
    BY <1>14, StoreTypes, ReaderTypes, WriterTypes DEF TypeInv, SingleFlight, Monotonic,
           Loading, cacheVars, readerVars, writerVars, vars
<1> QED
    BY <1>1, <1>2, <1>3, <1>4, <1>5, <1>6, <1>7, <1>8, <1>9, <1>10, <1>11, <1>12, <1>13,
           <1>14 DEF Next, Begin, Continue, Write

-----------------------------------------------------------------------------
\* The inductive invariant.
IInv == TypeInv /\ AllAccounted /\ Monotonic

\* The invariant holds of an empty cache.
LEMMA InitInv == Init => IInv
<1> SUFFICES ASSUME Init  PROVE IInv
    OBVIOUS
<1>1. DOMAIN store = {} /\ before = {}
    BY DEF Init
<1>2. TypeOK
    BY <1>1 DEF Init, TypeOK, Version, Loading
<1>3. SingleFlight /\ \A w \in Writers : WriterNamed(w)
    BY DEF Init, SingleFlight, WriterNamed, Loading
<1>4. AllAccounted /\ Monotonic
    BY <1>1, CacheAssumption DEF Init, AllAccounted, Monotonic
<1> QED  BY <1>2, <1>3, <1>4 DEF IInv, TypeInv

\* The invariant is inductive.
LEMMA StepInv == IInv /\ [Next]_vars => IInv'
<1> SUFFICES ASSUME IInv, [Next]_vars  PROVE IInv'
    OBVIOUS
<1>1. TypeOK' <=> (StoreOK /\ ReadersOK /\ WritersOK)'
    BY DEF TypeOK, StoreOK, ReadersOK, WritersOK
<1>2. TypeOK'
    BY <1>1, StoreStep, ReadersStep, WritersStep DEF IInv
<1>3. SingleFlight' /\ \A w \in Writers : WriterNamed(w)'
    BY SingleStep, NamedStep DEF IInv
<1>4. AllAccounted' /\ Monotonic'
    BY AccountedStep, MonotonicStep DEF IInv
<1> QED  BY <1>2, <1>3, <1>4 DEF IInv, TypeInv

\* The invariant of the module holds of every behaviour of the code.
THEOREM Invariance == Spec => []IInv
    BY InitInv, StepInv, PTL DEF Spec

\* Type correctness of the store, of wrap and of the writers.
THEOREM TypeCorrect == Spec => []TypeOK
<1>1. IInv => TypeOK
    BY DEF IInv, TypeInv
<1> QED  BY <1>1, Invariance, PTL

\* wrap coalesces: at most one factory runs per key, for any number of callers.
THEOREM LoadsAreSingle == Spec => []SingleFlight
<1>1. IInv => SingleFlight
    BY DEF IInv, TypeInv
<1> QED  BY <1>1, Invariance, PTL

\* Whatever is stale in the store is owed an invalidation, or was filled by a load
\* that the invalidation overtook.
THEOREM StaleAccounted == Spec => []StaleIsAccountedFor
<1>1. IInv => StaleIsAccountedFor
    BY DEF IInv, AllAccounted, Accounted, StaleIsAccountedFor, Outlived
<1> QED  BY <1>1, Invariance, PTL

-----------------------------------------------------------------------------
(* Action properties. *)

\* Reads of one key never go back in time, although invalidatePrefix leaves the
\* pending map alone.
THEOREM ReadsAreMonotonic == Spec => MonotonicReads
<1> DEFINE Forward == \A k \in Keys : Ttl[k] > 0 => served'[k] >= served[k]
<1>1. ASSUME IInv, [Next]_vars  PROVE [Forward]_vars
    <2>t. TypeInv /\ served \in [Keys -> Nat]
        BY <1>1, ReaderTypes DEF IInv
    <2>1. ASSUME NEW r \in Readers, NEW k \in Keys, Hit(r, k)  PROVE Forward
        <3>1. served[k] <= store[k].ver /\ store[k].ver \in Nat
            BY <1>1, <2>1, <2>t, StoreTypes DEF IInv, Monotonic, Hit, Live, Cached
        <3> QED  BY <2>1, <2>t, <3>1 DEF Hit
    <2>2. ASSUME NEW r \in Readers, Settle(r)  PROVE Forward
        <3>1. CASE pc[r] = "stored"
            <4>1. served[key[r]] <= ver[r] /\ ver[r] \in Nat
                BY <1>1, <2>t, <3>1, ReaderTypes DEF IInv, Monotonic
            <4>2. served' = [served EXCEPT ![key[r]] = ver[r]]
                BY <2>2, <3>1 DEF Settle
            <4> QED  BY <2>t, <4>1, <4>2
        <3>2. CASE pc[r] # "stored"
            <4>1. served' = served
                BY <2>2, <3>2 DEF Settle
            <4> QED  BY <2>t, <4>1
        <3> QED  BY <3>1, <3>2
    <2>3. CASE served' = served
        BY <2>t, <2>3
    <2>4. \/ served' = served
          \/ \E r \in Readers : Settle(r) \/ \E k \in Keys : Hit(r, k)
        BY <1>1 DEF Next, Begin, Continue, Write, Join, Load, Bypass, Read, ReadFails,
               StoreValue, BypassReturns, Commit, InvalidatePrefix, Tick, Restart, vars
    <2> QED  BY <2>1, <2>2, <2>3, <2>4
<1> QED  BY <1>1, Invariance, PTL DEF Spec, MonotonicReads

\* An entry outlives an invalidation by a late fill and in no other way.
THEOREM OutlivesByLateFill == Spec => OutlivesOnlyByLateFill
<1> DEFINE Late ==
      \A k \in Keys : Outlived(k)' /\ ~ Outlived(k) =>
          \E r \in Readers : key[r] = k /\ pc[r] = "loaded" /\ pc'[r] = "stored"
<1>1. ASSUME IInv, [Next]_vars  PROVE [Late]_vars
    <2> SUFFICES ASSUME NEW k \in Keys, Outlived(k)', ~ Outlived(k)
                 PROVE  \E r \in Readers :
                            key[r] = k /\ pc[r] = "loaded" /\ pc'[r] = "stored"
        OBVIOUS
    <2>t. TypeInv
        BY <1>1 DEF IInv
    <2>1. ASSUME done' = done, store' = store  PROVE FALSE
        BY <2>1 DEF Outlived, Live, Cached
    <2>2. ASSUME done' = done, NEW D, Delete(D)  PROVE FALSE
        BY <2>t, <2>2, DeleteStore DEF Outlived, Live, Cached
    <2>3. ASSUME NEW w \in Writers, InvalidatePrefix(w)  PROVE FALSE
        <3>1. PICK D : Delete(D) /\ D = KeysOf(group[w])
            BY <2>3 DEF InvalidatePrefix
        <3>d. /\ DOMAIN store' = DOMAIN store \ D
              /\ \A j \in DOMAIN store' : store'[j] = store[j]
            BY <2>t, <3>1, DeleteStore
        <3>2. k \in DOMAIN store' /\ k \in DOMAIN store /\ store'[k] = store[k]
            BY <3>d DEF Outlived, Live, Cached
        <3>3. GroupOf[k] # group[w]
            BY <3>1, <3>d, <3>2 DEF KeysOf
        <3>4. done'[GroupOf[k]] = done[GroupOf[k]]
            BY <2>t, <2>3, <3>3, WriterTypes DEF InvalidatePrefix
        <3> QED  BY <3>2, <3>4 DEF Outlived, Live, Cached
    <2>4. ASSUME Tick  PROVE FALSE
        <3>1. /\ k \in DOMAIN store /\ store'[k].ver = store[k].ver
              /\ store'[k].left > 0 => store[k].left > 0
            BY <2>t, <2>4, StoreTypes DEF Tick, Entry, Outlived, Live, Cached
        <3> QED  BY <2>4, <3>1 DEF Outlived, Live, Cached, Tick
    <2>5. ASSUME NEW r \in Readers, StoreValue(r)
          PROVE  key[r] = k /\ pc[r] = "loaded" /\ pc'[r] = "stored"
        <3>1. key[r] \in Keys /\ ver[r] \in Nat /\ Set(key[r], ver[r])
            BY <2>t, <2>5, ReaderTypes DEF TypeInv, SingleFlight, Loading, StoreValue
        <3>2. CASE key[r] # k
            <4>1. k \in DOMAIN store' /\ k \in DOMAIN store /\ store'[k] = store[k]
                BY <2>t, <3>1, <3>2, SetStore DEF Outlived, Live, Cached
            <4> QED  BY <2>5, <4>1 DEF Outlived, Live, Cached, StoreValue
        <3>3. CASE key[r] = k
            BY <2>t, <2>5, <3>3, ReaderTypes DEF StoreValue
        <3> QED  BY <3>2, <3>3
    <2>6. \/ done' = done /\ store' = store
          \/ done' = done /\ \E D : Delete(D)
          \/ \E w \in Writers : InvalidatePrefix(w)
          \/ Tick
          \/ \E r \in Readers : StoreValue(r)
        BY <1>1 DEF Next, Begin, Continue, Write, Hit, Join, Load, Miss, Bypass, Read,
               ReadFails, Settle, BypassReturns, Commit, Restart, vars, cacheVars
    <2> QED  BY <2>1, <2>2, <2>3, <2>4, <2>5, <2>6
<1> QED  BY <1>1, Invariance, PTL DEF Spec, OutlivesOnlyByLateFill

-----------------------------------------------------------------------------
(* The size of the store, and what it drops. *)

\* A strict total order.
StrictOrder(O, S) ==
    /\ \A j \in S : <<j, j>> \notin O
    /\ \A i, j, k \in S : <<i, j>> \in O /\ <<j, k>> \in O => <<i, k>> \in O
    /\ \A j, k \in S : j # k => <<j, k>> \in O \/ <<k, j>> \in O

\* The store holds no more than it may, and knows the order of its insertions.
InRoom ==
    /\ IsFiniteSet(DOMAIN store)
    /\ Cardinality(DOMAIN store) <= MaxEntries
    /\ StrictOrder(before, DOMAIN store)

\* Finitely many keys have an oldest one: the one with the fewest older ones.
LEMMA OldestExists ==
    ASSUME NEW S, IsFiniteSet(S), S # {}, NEW O, StrictOrder(O, S)
    PROVE  \E m \in S : \A j \in S \ {m} : <<m, j>> \in O
<1> DEFINE Older(k) == {j \in S : <<j, k>> \in O}
           T == {Older(k) : k \in S}
<1>1. IsWellFoundedOn(StrictSubsetOrdering(S), SUBSET S)
    BY FS_StrictSubsetOrderingWellFounded, FS_FiniteSubsetsOfFinite
<1>2. T \subseteq SUBSET S /\ T # {}
    OBVIOUS
<1>3. PICK x \in T : \A y \in T : <<y, x>> \notin StrictSubsetOrdering(S)
    <2> HIDE DEF T
    <2> QED BY <1>1, <1>2, WFMin
<1>4. PICK m \in S : x = Older(m)
    OBVIOUS
<1>5. ASSUME NEW j \in Older(m) PROVE FALSE
    <2>1. Older(j) \subseteq Older(m)
        BY DEF StrictOrder
    <2>2. j \in Older(m) /\ j \notin Older(j)
        BY DEF StrictOrder
    <2>3. <<Older(j), Older(m)>> \in StrictSubsetOrdering(S)
        BY <2>1, <2>2 DEF StrictSubsetOrdering
    <2> QED BY <1>3, <1>4, <2>3
<1> QED BY <1>5 DEF StrictOrder

\* evictOverflow: what is left of one key too many fits.
LEMMA RoomMade ==
    ASSUME NEW S, IsFiniteSet(S), NEW O, StrictOrder(O, S), Cardinality(S) <= MaxEntries + 1
    PROVE  Cardinality(S \ Overflow(S, O)) <= MaxEntries
<1>0. MaxEntries \in Nat /\ Cardinality(S) \in Nat
    BY CacheAssumption, FS_CardinalityType
<1>1. CASE Cardinality(S) <= MaxEntries
    <2>1. (S \ Overflow(S, O)) \in SUBSET S
        OBVIOUS
    <2>2. /\ IsFiniteSet(S \ Overflow(S, O))
          /\ Cardinality(S \ Overflow(S, O)) <= Cardinality(S)
        BY <2>1, FS_Subset
    <2>3. Cardinality(S \ Overflow(S, O)) \in Nat
        BY <2>2, FS_CardinalityType
    <2> QED BY <1>0, <1>1, <2>2, <2>3
<1>2. CASE Cardinality(S) = MaxEntries + 1
    <2>1. S # {}
        BY <1>0, <1>2, FS_EmptySet
    <2>2. PICK m \in S : \A j \in S \ {m} : <<m, j>> \in O
        BY <2>1, OldestExists
    <2>3. {j \in S : <<m, j>> \in O} = S \ {m}
        BY <2>2 DEF StrictOrder
    <2>4. IsFiniteSet(S \ {m}) /\ Cardinality(S \ {m}) = MaxEntries
        BY <1>0, <1>2, FS_RemoveElement
    <2>5. Cardinality(S \ {m}) >= MaxEntries
        BY <1>0, <2>4
    <2>6. m \in Overflow(S, O)
        BY <2>3, <2>5 DEF Overflow
    <2>7. (S \ Overflow(S, O)) \in SUBSET (S \ {m})
        BY <2>6
    <2>8. Cardinality(S \ Overflow(S, O)) <= Cardinality(S \ {m})
        BY <2>4, <2>7, FS_Subset
    <2> QED BY <2>4, <2>8
<1> QED BY <1>0, <1>1, <1>2

\* What set has before it evicts: the entries that live and the new one, in order.
LEMMA InsertOrder ==
    ASSUME TypeInv, InRoom, NEW k, NEW kept, kept \subseteq DOMAIN store
    PROVE  LET order == {p \in before : p[1] \in kept /\ p[2] \in kept}
                          \cup (IF k \in kept THEN {} ELSE kept \X {k})
           IN  /\ IsFiniteSet(kept) /\ Cardinality(kept) <= MaxEntries
               /\ IsFiniteSet(kept \cup {k})
               /\ Cardinality(kept \cup {k}) <= MaxEntries + 1
               /\ StrictOrder(order, kept \cup {k})
<1> DEFINE order == {p \in before : p[1] \in kept /\ p[2] \in kept}
                      \cup (IF k \in kept THEN {} ELSE kept \X {k})
<1>0. MaxEntries \in Nat
    BY CacheAssumption
<1>1. IsFiniteSet(kept) /\ Cardinality(kept) <= Cardinality(DOMAIN store)
    BY FS_Subset DEF InRoom
<1>2. Cardinality(kept) \in Nat /\ Cardinality(DOMAIN store) \in Nat
    BY <1>1, FS_CardinalityType DEF InRoom
<1>3. Cardinality(kept) <= MaxEntries
    BY <1>0, <1>1, <1>2 DEF InRoom
<1>4. /\ IsFiniteSet(kept \cup {k})
      /\ Cardinality(kept \cup {k}) =
            IF k \in kept THEN Cardinality(kept) ELSE Cardinality(kept) + 1
    BY <1>1, FS_AddElement
<1>5. Cardinality(kept \cup {k}) <= MaxEntries + 1
    BY <1>0, <1>2, <1>3, <1>4
<1>6. \A i, j \in kept : <<i, j>> \in order <=> <<i, j>> \in before
    OBVIOUS
<1>7. k \notin kept =>
        /\ \A j \in kept : <<j, k>> \in order /\ <<k, j>> \notin order
        /\ <<k, k>> \notin order
    OBVIOUS
<1>8. StrictOrder(before, kept)
    BY DEF InRoom, StrictOrder
<1> HIDE DEF order
<1>9. StrictOrder(order, kept \cup {k})
    BY <1>6, <1>7, <1>8 DEF StrictOrder
<1> QED BY <1>1, <1>3, <1>4, <1>5, <1>9 DEF order

\* Less of an order is an order.
LEMMA OrderOfLess ==
    ASSUME NEW S, NEW O, StrictOrder(O, S), NEW T, T \subseteq S, NEW P,
           \A i, j \in T : <<i, j>> \in P <=> <<i, j>> \in O
    PROVE  StrictOrder(P, T)
    BY DEF StrictOrder

\* Deleting makes no disorder.
LEMMA DeleteInRoom ==
    ASSUME TypeInv, InRoom, NEW D, Delete(D)
    PROVE  InRoom'
<1>1. DOMAIN store' \subseteq DOMAIN store /\ DOMAIN store' = DOMAIN store \ D
    BY DeleteStore
<1>2. IsFiniteSet(DOMAIN store') /\ Cardinality(DOMAIN store') <= Cardinality(DOMAIN store)
    BY <1>1, FS_Subset DEF InRoom
<1>3. Cardinality(DOMAIN store') \in Nat /\ Cardinality(DOMAIN store) \in Nat
    BY <1>2, FS_CardinalityType DEF InRoom
<1>4. Cardinality(DOMAIN store') <= MaxEntries
    BY <1>2, <1>3, CacheAssumption DEF InRoom
<1>5. \A i, j \in DOMAIN store' : <<i, j>> \in before' <=> <<i, j>> \in before
    BY <1>1 DEF Delete
<1>6. StrictOrder(before', DOMAIN store')
    BY <1>1, <1>5, OrderOfLess DEF InRoom
<1> QED BY <1>2, <1>4, <1>6 DEF InRoom

\* Nor does setting, which evicts what is too much.
LEMMA SetInRoom ==
    ASSUME TypeInv, InRoom, NEW k, NEW v, Set(k, v)
    PROVE  InRoom'
<1> DEFINE kept    == DOMAIN store \ Expired
           present == kept \cup {k}
           order   == {p \in before : p[1] \in kept /\ p[2] \in kept}
                        \cup (IF k \in kept THEN {} ELSE kept \X {k})
           final   == present \ Overflow(present, order)
<1>1. /\ IsFiniteSet(present) /\ Cardinality(present) <= MaxEntries + 1
      /\ StrictOrder(order, present)
    BY InsertOrder
<1>2. DOMAIN store' = final /\ before' = {p \in order : p[1] \in final /\ p[2] \in final}
    BY DEF Set
<1>3. Cardinality(final) <= MaxEntries
    BY <1>1, RoomMade
<1>4. final \subseteq present
    OBVIOUS
<1>5. IsFiniteSet(final)
    BY <1>1, <1>4, FS_Subset
<1> HIDE DEF final, order
<1>6. StrictOrder(before', final)
    BY <1>1, <1>2, <1>4, OrderOfLess
<1> QED BY <1>2, <1>3, <1>5, <1>6 DEF InRoom

\* Every step either deletes, sets or leaves the keys and their order alone.
LEMMA StoreSteps ==
    ASSUME [Next]_vars
    PROVE  \/ \E D : Delete(D)
           \/ \E k, v : Set(k, v)
           \/ DOMAIN store' = DOMAIN store /\ before' = before
<1>1. CASE Tick
    BY <1>1 DEF Tick
<1>2. CASE [Next]_vars /\ ~Tick
    BY <1>2 DEF Next, Begin, Continue, Write, Hit, Join, Load, Miss, Bypass, Read, StoreValue,
            ReadFails, Settle, BypassReturns, Commit, InvalidatePrefix, Restart, vars, cacheVars
<1> QED BY <1>1, <1>2

\* However long the cache runs there is room.
LEMMA RoomInvariance == Spec => []InRoom
<1>1. Init => InRoom
    <2> SUFFICES ASSUME Init PROVE InRoom
        OBVIOUS
    <2>1. DOMAIN store = {}
        BY DEF Init
    <2> QED BY <2>1, FS_EmptySet, CacheAssumption DEF InRoom, StrictOrder
<1>2. IInv /\ InRoom /\ [Next]_vars => InRoom'
    <2> SUFFICES ASSUME TypeInv, InRoom, [Next]_vars PROVE InRoom'
        BY DEF IInv
    <2>1. CASE DOMAIN store' = DOMAIN store /\ before' = before
        BY <2>1 DEF InRoom
    <2> QED BY <2>1, StoreSteps, DeleteInRoom, SetInRoom
<1> QED BY <1>1, <1>2, Invariance, PTL DEF Spec

\* For any limit, times to live and keys: the store holds at most MaxEntries
\* entries, 0 among the limits, and there is always an oldest one to drop.
THEOREM StoreStaysWithin == Spec => []StoreWithinLimits
<1>1. InRoom => StoreWithinLimits
    <2> SUFFICES ASSUME InRoom PROVE StoreWithinLimits
        OBVIOUS
    <2>1. ASSUME NEW j \in DOMAIN store, NEW k \in DOMAIN store, j # k
          PROVE  (<<j, k>> \in before) # (<<k, j>> \in before)
        <3>1. <<j, k>> \in before \/ <<k, j>> \in before
            BY <2>1 DEF InRoom, StrictOrder
        <3>2. ~(<<j, k>> \in before /\ <<k, j>> \in before)
            BY DEF InRoom, StrictOrder
        <3> QED BY <3>1, <3>2, Zenon
    <2> QED BY <2>1 DEF InRoom, StoreWithinLimits
<1> QED BY <1>1, RoomInvariance, PTL

\* What set drops of the live entries is the oldest of MaxEntries of them.
LEMMA SetDropsOldest ==
    ASSUME TypeInv, InRoom, NEW n \in Keys, NEW v, Set(n, v),
           NEW k \in Keys, Live(k), k \notin DOMAIN store'
    PROVE  /\ Cardinality({j \in DOMAIN store : Live(j)}) >= MaxEntries
           /\ \A j \in DOMAIN store : Live(j) => <<j, k>> \notin before
<1> DEFINE kept    == DOMAIN store \ Expired
           present == kept \cup {n}
           order   == {p \in before : p[1] \in kept /\ p[2] \in kept}
                        \cup (IF n \in kept THEN {} ELSE kept \X {n})
           younger == {j \in present : <<k, j>> \in order}
<1>0. MaxEntries \in Nat
    BY CacheAssumption
<1>1. {j \in DOMAIN store : Live(j)} = kept
    BY StoreTypes DEF Live, Cached, Expired
<1>2. k \in kept
    BY <1>1 DEF Live, Cached
<1>3. k \in Overflow(present, order)
    BY <1>2 DEF Set
<1>4. Cardinality(younger) >= MaxEntries
    BY <1>3 DEF Overflow
<1>5. /\ IsFiniteSet(kept) /\ Cardinality(kept) <= MaxEntries
      /\ StrictOrder(order, present)
    BY InsertOrder
<1>6. Cardinality(kept) \in Nat
    BY <1>5, FS_CardinalityType
<1>7. IsFiniteSet(kept \ {k}) /\ Cardinality(kept \ {k}) = Cardinality(kept) - 1
    BY <1>2, <1>5, FS_RemoveElement
<1>8. k \notin younger
    BY <1>2, <1>5 DEF StrictOrder
<1>9. younger \subseteq (kept \ {k}) \cup {n}
    BY <1>8
<1>10. /\ IsFiniteSet((kept \ {k}) \cup {n})
       /\ Cardinality((kept \ {k}) \cup {n}) =
             IF n \in kept \ {k} THEN Cardinality(kept \ {k})
                                 ELSE Cardinality(kept \ {k}) + 1
    BY <1>7, FS_AddElement
<1> HIDE DEF younger
<1>11. /\ IsFiniteSet(younger)
       /\ Cardinality(younger) <= Cardinality((kept \ {k}) \cup {n})
       /\ Cardinality(younger) = Cardinality((kept \ {k}) \cup {n}) =>
             younger = (kept \ {k}) \cup {n}
    BY <1>9, <1>10, FS_Subset
<1>12. Cardinality(younger) \in Nat
    BY <1>11, FS_CardinalityType
<1> HIDE DEF kept, order
<1>13. Cardinality(kept) >= MaxEntries
    BY <1>0, <1>4, <1>6, <1>7, <1>10, <1>11, <1>12
<1>14. younger = (kept \ {k}) \cup {n}
    BY <1>0, <1>4, <1>5, <1>6, <1>7, <1>10, <1>11, <1>12
<1>15. ASSUME NEW j \in DOMAIN store, Live(j), <<j, k>> \in before PROVE FALSE
    <2>1. j \in kept
        BY <1>1, <1>15
    <2>2. j # k
        BY <1>15 DEF InRoom, StrictOrder
    <2>3. <<k, j>> \in order
        BY <1>14, <2>1, <2>2 DEF younger
    <2>4. <<j, k>> \in order
        BY <1>2, <1>15, <2>1 DEF order
    <2> QED BY <1>2, <1>5, <2>1, <2>2, <2>3, <2>4 DEF StrictOrder
<1> QED BY <1>1, <1>13, <1>15

\* For any limit: a live entry goes only when its prefix is invalidated, with the
\* process, or as the oldest of MaxEntries live ones.
THEOREM EvictsForRoom == Spec => EvictsOnlyForRoom
<1> DEFINE ForRoom ==
      \A k \in Keys : Live(k) /\ k \notin DOMAIN store' =>
          \/ Invalidated(k)
          \/ store' = << >> /\ Died
          \/ /\ Cardinality({j \in DOMAIN store : Live(j)}) >= MaxEntries
             /\ \A j \in DOMAIN store : Live(j) => <<j, k>> \notin before
<1>1. ASSUME IInv, InRoom, [Next]_vars PROVE [ForRoom]_vars
    <2> SUFFICES ASSUME NEW k \in Keys, Live(k), k \notin DOMAIN store'
                 PROVE  \/ Invalidated(k)
                        \/ store' = << >> /\ Died
                        \/ /\ Cardinality({j \in DOMAIN store : Live(j)}) >= MaxEntries
                           /\ \A j \in DOMAIN store : Live(j) => <<j, k>> \notin before
        OBVIOUS
    <2>t. TypeInv
        BY <1>1 DEF IInv
    <2>1. ASSUME NEW r \in Readers, NEW j \in Keys, Miss(r, j) PROVE FALSE
        <3>1. DOMAIN store' = DOMAIN store \ {j} /\ ~Live(j)
            BY <2>1, <2>t, DeleteStore DEF Miss
        <3> QED BY <3>1 DEF Live, Cached
    <2>2. ASSUME NEW w \in Writers, InvalidatePrefix(w) PROVE Invalidated(k)
        <3>1. Delete(KeysOf(group[w])) /\ wpc[w] = "committed"
            BY <2>2 DEF InvalidatePrefix
        <3>2. DOMAIN store' = DOMAIN store \ KeysOf(group[w])
            BY <2>t, <3>1, DeleteStore
        <3>3. group[w] = GroupOf[k]
            BY <3>2 DEF Live, Cached, KeysOf
        <3>4. wpc'[w] = "idle"
            BY <2>t, <2>2, WriterTypes DEF InvalidatePrefix
        <3> QED BY <3>1, <3>3, <3>4 DEF Invalidated
    <2>3. ASSUME Restart PROVE store' = << >> /\ Died
        <3>1. DOMAIN store \ Keys = {}
            BY <2>t, StoreTypes
        <3>2. store' = [x \in {} |-> store[x]]
            BY <2>3, <3>1 DEF Restart, Delete, Restrict
        <3>3. store' = << >>
            BY <3>2
        <3>4. Died
            BY <2>3 DEF Restart, Died
        <3> QED BY <3>3, <3>4
    <2>4. ASSUME NEW r \in Readers, StoreValue(r)
          PROVE  /\ Cardinality({j \in DOMAIN store : Live(j)}) >= MaxEntries
                 /\ \A j \in DOMAIN store : Live(j) => <<j, k>> \notin before
        <3>1. key[r] \in Keys /\ Set(key[r], ver[r])
            BY <2>t, <2>4 DEF TypeInv, SingleFlight, Loading, StoreValue
        <3> QED BY <1>1, <2>t, <3>1, SetDropsOldest
    <2>5. DOMAIN store' # DOMAIN store
        BY DEF Live, Cached
    <2>6. \/ \E r \in Readers, j \in Keys : Miss(r, j)
          \/ \E w \in Writers : InvalidatePrefix(w)
          \/ Restart
          \/ \E r \in Readers : StoreValue(r)
          \/ DOMAIN store' = DOMAIN store
        <3>1. CASE Tick
            BY <3>1 DEF Tick
        <3>2. CASE [Next]_vars /\ ~Tick
            BY <3>2 DEF Next, Begin, Continue, Write, Hit, Join, Load, Bypass, Read,
                    ReadFails, Settle, BypassReturns, Commit, vars, cacheVars
        <3> QED BY <1>1, <3>1, <3>2
    <2> QED BY <2>1, <2>2, <2>3, <2>4, <2>5, <2>6
<1> QED BY <1>1, Invariance, RoomInvariance, PTL DEF Spec, EvictsOnlyForRoom

-----------------------------------------------------------------------------
(* What callers are promised. *)

\* A step that serves nothing and commits nothing is none of the replica's.
LEMMA NothingGiven == UNCHANGED <<db, served>> => [Replica!Next]_<<db, served>>
    OBVIOUS

\* To serve a key a version between the last one served and the committed one is a
\* step of the replica.
LEMMA GivesStep ==
    ASSUME NEW k \in Keys, NEW v \in Nat, served \in [Keys -> Nat],
           served[k] <= v, v <= db[GroupOf[k]], db[GroupOf[k]] \in Nat,
           served' = [served EXCEPT ![k] = v], db' = db
    PROVE  [Replica!Next]_<<db, served>>
<1>1. v \in served[k]..db[GroupOf[k]]
    OBVIOUS
<1>2. Replica!Give(k)
    BY <1>1 DEF Replica!Give
<1> QED  BY <1>2 DEF Replica!Next

\* Every step of the cache is a step of the replica, or none.
LEMMA ReplicaStep == IInv /\ [Next]_vars => [Replica!Next]_<<db, served>>
<1> SUFFICES ASSUME IInv, [Next]_vars  PROVE [Replica!Next]_<<db, served>>
    OBVIOUS
<1>t. TypeInv /\ served \in [Keys -> Nat] /\ \A k \in Keys : db[GroupOf[k]] \in Nat
    BY ReaderTypes, WriterTypes DEF IInv
<1>1. ASSUME NEW r \in Readers, NEW k \in Keys, Hit(r, k)
      PROVE  [Replica!Next]_<<db, served>>
    <2>1. /\ served[k] <= store[k].ver /\ store[k].ver \in Nat
          /\ store[k].ver <= db[GroupOf[k]]
        BY <1>1, <1>t, StoreTypes DEF IInv, Monotonic, Hit, Live, Cached
    <2>2. served' = [served EXCEPT ![k] = store[k].ver] /\ db' = db
        BY <1>1 DEF Hit
    <2> QED  BY <1>t, <2>1, <2>2, GivesStep
<1>2. ASSUME NEW r \in Readers, Settle(r), pc[r] = "stored"
      PROVE  [Replica!Next]_<<db, served>>
    <2>1. key[r] \in Keys
        BY <1>2, <1>t DEF TypeInv, SingleFlight, Loading
    <2>2. /\ served[key[r]] <= ver[r] /\ ver[r] \in Nat
          /\ ver[r] <= db[GroupOf[key[r]]]
        BY <1>2, <1>t, ReaderTypes DEF IInv, Monotonic
    <2>3. served' = [served EXCEPT ![key[r]] = ver[r]] /\ db' = db
        BY <1>2 DEF Settle
    <2> QED  BY <1>t, <2>1, <2>2, <2>3, GivesStep
<1>3. ASSUME NEW w \in Writers, NEW g \in Groups, Commit(w, g)
      PROVE  [Replica!Next]_<<db, served>>
    <2>1. Replica!Commit(g)
        BY <1>3 DEF Commit, Replica!Commit
    <2> QED  BY <2>1 DEF Replica!Next
<1>4. \/ UNCHANGED <<db, served>>
      \/ \E r \in Readers : Settle(r) /\ pc[r] = "stored"
      \/ \E r \in Readers, k \in Keys : Hit(r, k)
      \/ \E w \in Writers, g \in Groups : Commit(w, g)
    BY DEF Next, Begin, Continue, Write, Join, Load, Bypass, Read, ReadFails, StoreValue,
           Settle, BypassReturns, InvalidatePrefix, Tick, Restart, vars
<1> QED  BY <1>1, <1>2, <1>3, <1>4, NothingGiven

\* For its readers the cache is a replica that lags behind and never goes back.
THEOREM RefinesLaggingReads == Spec => ImplementsLaggingReads
<1>1. Init => Replica!Init
    BY DEF Init, Replica!Init
<1> QED  BY <1>1, ReplicaStep, Invariance, PTL DEF Spec, ImplementsLaggingReads, Replica!Spec

\* What a reader that awaits a load may see happen, in one step.
LEMMA WaitStep ==
    ASSUME IInv, [Next]_vars, NEW r \in Readers, pc[r] = "waiting"
    PROVE  LET k == key[r]
               l == pending[k]
           IN  /\ Progresses(l)
               /\ IF pc'[l] = "idle"
                  THEN pc'[r] = "idle"
                  ELSE pc'[r] = "waiting" /\ key'[r] = k /\ pending'[k] = l
<1> DEFINE k == key[r]
           l == pending[k]
           Kept == pc'[r] = "waiting" /\ key'[r] = k /\ pending'[k] = l
<1> SUFFICES Progresses(l) /\ IF pc'[l] = "idle" THEN pc'[r] = "idle" ELSE Kept
    OBVIOUS
<1>t. /\ pc \in [Readers -> {"idle", "waiting", "bypass"} \cup Loading]
      /\ key \in [Readers -> Keys \cup {None}]
      /\ pending \in [Keys -> Readers \cup {None}]
      /\ SingleFlight
    BY ReaderTypes DEF IInv, TypeInv
<1>l. k \in Keys /\ l \in Readers /\ pc[l] \in Loading /\ key[l] = k /\ l # r
    BY <1>t DEF SingleFlight, Loading
<1> HIDE DEF k, l
<1>k. k = key[r] /\ l = pending[k]
    BY DEF k, l
\* It is enough that the load stays where it is or goes on, and is not replaced.
<1>u. ASSUME UNCHANGED <<pc, key, pending>>
      PROVE  Progresses(l) /\ IF pc'[l] = "idle" THEN pc'[r] = "idle" ELSE Kept
    BY <1>u, <1>l, <1>k DEF Progresses, Loading
\* A reader that was idle is neither of the two.
<1>b. ASSUME NEW q \in Readers, pc[q] \in {"idle", "bypass"}, NEW x, NEW y,
             pc' = [pc EXCEPT ![q] = x], key' = [key EXCEPT ![q] = y] \/ key' = key,
             pending'[k] = pending[k]
      PROVE  Progresses(l) /\ IF pc'[l] = "idle" THEN pc'[r] = "idle" ELSE Kept
    <2>1. q # r /\ q # l
        BY <1>b, <1>l DEF Loading
    <2>2. pc'[l] = pc[l] /\ pc'[r] = "waiting" /\ key'[r] = key[r]
        BY <1>b, <1>t, <1>l, <2>1
    <2> QED  BY <1>b, <1>l, <1>k, <2>2 DEF Progresses, Loading
\* A load that goes on is another one, or the one that is awaited.
<1>c. ASSUME NEW q \in Readers, NEW x, x # "idle", StepsLeft(x) < StepsLeft(pc[q]),
             pc[q] # "waiting", pc' = [pc EXCEPT ![q] = x], UNCHANGED <<key, pending>>
      PROVE  Progresses(l) /\ IF pc'[l] = "idle" THEN pc'[r] = "idle" ELSE Kept
    <2>1. pc'[l] = IF l = q THEN x ELSE pc[l]
        BY <1>c, <1>t, <1>l
    <2>2. pc'[r] = "waiting"
        BY <1>c, <1>t, <1>l
    <2>3. pc'[l] # "idle"
        BY <1>c, <1>l, <2>1 DEF Loading
    <2>4. Progresses(l)
        BY <1>c, <2>1, Zenon DEF Progresses
    <2> QED  BY <1>c, <1>l, <1>k, <2>2, <2>3, <2>4
<1>1. ASSUME NEW q \in Readers, NEW j \in Keys, Hit(q, j)
      PROVE  UNCHANGED <<pc, key, pending>>
    BY <1>1 DEF Hit, cacheVars, readerVars
<1>2. ASSUME NEW q \in Readers, NEW j \in Keys, Join(q, j)
      PROVE  Progresses(l) /\ IF pc'[l] = "idle" THEN pc'[r] = "idle" ELSE Kept
    BY <1>2, <1>b DEF Join, Miss
<1>3. ASSUME NEW q \in Readers, NEW j \in Keys, Load(q, j)
      PROVE  Progresses(l) /\ IF pc'[l] = "idle" THEN pc'[r] = "idle" ELSE Kept
    <2>1. j # k
        BY <1>3, <1>l, <1>k, CacheAssumption DEF Load
    <2>2. pending'[k] = pending[k]
        BY <1>3, <1>t, <1>l, <2>1 DEF Load
    <2> QED  BY <1>3, <1>b, <2>2 DEF Load, Miss
<1>4. ASSUME NEW q \in Readers, NEW j \in Keys, Bypass(q, j)
      PROVE  Progresses(l) /\ IF pc'[l] = "idle" THEN pc'[r] = "idle" ELSE Kept
    BY <1>4, <1>b DEF Bypass, cacheVars
<1>5. ASSUME NEW q \in Readers, Read(q) \/ ReadFails(q) \/ StoreValue(q)
      PROVE  Progresses(l) /\ IF pc'[l] = "idle" THEN pc'[r] = "idle" ELSE Kept
    BY <1>5, <1>c DEF Read, ReadFails, StoreValue, StepsLeft, cacheVars
<1>6. ASSUME NEW q \in Readers, Settle(q)
      PROVE  Progresses(l) /\ IF pc'[l] = "idle" THEN pc'[r] = "idle" ELSE Kept
    <2> DEFINE callers == {q} \cup {p \in Readers : pc[p] = "waiting" /\ key[p] = key[q]}
    <2>1. /\ pc[q] \in {"stored", "failed"}
          /\ pending' = [pending EXCEPT ![key[q]] = None]
          /\ pc' = [p \in Readers |-> IF p \in callers THEN "idle" ELSE pc[p]]
          /\ key' = [p \in Readers |-> IF p \in callers THEN None ELSE key[p]]
        BY <1>6 DEF Settle
    <2>2. pending[key[q]] = q /\ key[q] \in Keys
        BY <1>t, <2>1 DEF SingleFlight, Loading
    <2>3. CASE key[q] = k
        <3>1. l = q /\ r \in callers
            BY <1>k, <2>2, <2>3
        <3>2. pc'[l] = "idle" /\ pc'[r] = "idle"
            BY <1>l, <2>1, <3>1
        <3>3. StepsLeft("idle") < StepsLeft(pc[l])
            BY <2>1, <3>1 DEF StepsLeft
        <3> QED  BY <3>2, <3>3 DEF Progresses
    <2>4. CASE key[q] # k
        <3>1. l \notin callers /\ r \notin callers
            BY <1>k, <1>l, <2>1, <2>4 DEF Loading
        <3>2. pc'[l] = pc[l] /\ pc'[r] = pc[r] /\ key'[r] = key[r]
            BY <1>l, <2>1, <3>1
        <3>3. pending'[k] = pending[k]
            BY <1>t, <1>l, <2>1, <2>4
        <3> QED  BY <1>k, <1>l, <3>2, <3>3 DEF Progresses, Loading
    <2> QED  BY <2>3, <2>4
<1>7. ASSUME NEW q \in Readers, BypassReturns(q)
      PROVE  Progresses(l) /\ IF pc'[l] = "idle" THEN pc'[r] = "idle" ELSE Kept
    BY <1>7, <1>b DEF BypassReturns, cacheVars
<1>8. ASSUME Restart
      PROVE  Progresses(l) /\ IF pc'[l] = "idle" THEN pc'[r] = "idle" ELSE Kept
    <2>1. pc'[l] = "idle" /\ pc'[r] = "idle"
        BY <1>8, <1>l DEF Restart
    <2>2. StepsLeft("idle") < StepsLeft(pc[l])
        BY <1>l DEF StepsLeft, Loading
    <2> QED  BY <2>1, <2>2 DEF Progresses
<1>9. ASSUME NEW w \in Writers, (\E g \in Groups : Commit(w, g)) \/ InvalidatePrefix(w)
      PROVE  UNCHANGED <<pc, key, pending>>
    BY <1>9 DEF Commit, InvalidatePrefix, cacheVars, readerVars
<1>10. ASSUME Tick \/ UNCHANGED vars  PROVE UNCHANGED <<pc, key, pending>>
    BY <1>10 DEF Tick, vars, cacheVars, readerVars
<1> QED
    BY <1>u, <1>1, <1>2, <1>3, <1>4, <1>5, <1>6, <1>7, <1>8, <1>9, <1>10
    DEF Next, Begin, Continue, Write

\* A call that awaits a load awaits that one, which goes on or settles, and is let
\* go by the step that settles it.
THEOREM WaitersFollowTheirLoad == Spec => WaitsForOneLoad
<1> DEFINE Follows ==
      \A r \in Readers : pc[r] = "waiting" =>
          LET k == key[r]
              l == pending[k]
          IN  /\ Progresses(l)
              /\ IF pc'[l] = "idle"
                 THEN pc'[r] = "idle"
                 ELSE pc'[r] = "waiting" /\ key'[r] = k /\ pending'[k] = l
<1>1. IInv /\ [Next]_vars => [Follows]_vars
    BY WaitStep
<1> QED  BY <1>1, Invariance, PTL DEF Spec, WaitsForOneLoad
=============================================================================
