--------------------------- MODULE MCCacheService ---------------------------
(***************************************************************************)
(* Instance of CacheService: two keys under the monitors prefix, and two of *)
(* a user, whose row nothing writes; one of these is wrapped with a time to *)
(* live of 0.  The store has room for two of the three keys it may hold.    *)
(***************************************************************************)
EXTENDS CacheService

CONSTANTS list, item, profile, uncached, monitors, users

MCKeys      == {list, item, profile, uncached}
MCGroups    == {monitors, users}
MCGroupOf   == [k \in MCKeys |-> IF k \in {list, item} THEN monitors ELSE users]
MCTtl       == [k \in MCKeys |->
                   CASE k = uncached -> 0 [] k = profile -> 2 [] OTHER -> 1]
MCMaxWrites == [g \in MCGroups |-> IF g = monitors THEN 2 ELSE 0]
=============================================================================
