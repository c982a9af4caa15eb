------------------------ MODULE SlidingExpirationCache ------------------------
(***************************************************************************)
(* SlidingExpirationCache: a map whose items expire when they are not      *)
(* used.  An item leaves the map under the lock; the goroutine that took   *)
(* it out disposes of it afterwards.                                       *)
(***************************************************************************)
EXTENDS FiniteSets

CONSTANTS
  Keys,
  Items,
  Goroutines,   \* those that use the cache, its cleanup goroutine included
  NoItem

VARIABLES
  cache,      \* the item of each key, or NoItem
  expired,    \* the keys whose expiration time has passed
  disposing   \* the items each goroutine has yet to dispose of

cacheVars == <<cache, expired, disposing>>

CacheTypeOK ==
  /\ cache \in [Keys -> Items \cup {NoItem}] /\ expired \subseteq Keys
  /\ disposing \in [Goroutines -> SUBSET Items]

CacheInit ==
  /\ cache = [k \in Keys |-> NoItem] /\ expired = {}
  /\ disposing = [g \in Goroutines |-> {}]

GetAllEntries == {cache[k] : k \in Keys} \ {NoItem}

ItemExpires(k) ==
  /\ cache[k] # NoItem /\ k \notin expired
  /\ expired' = expired \cup {k} /\ UNCHANGED <<cache, disposing>>

\* MUTANT of TakeExpired: the items are listed for disposal and stay in the map.
ListExpired(g, ks) ==
  /\ expired' = expired \ ks /\ UNCHANGED cache
  /\ disposing' = [disposing EXCEPT ![g] = {cache[k] : k \in ks \cap expired}]

\* The items of the expired keys among ks leave the map, to be disposed of by g.
TakeExpired(g, ks) ==
  LET taken == ks \cap expired IN
  /\ cache' = [k \in Keys |-> IF k \in taken THEN NoItem ELSE cache[k]]
  /\ expired' = expired \ taken
  /\ disposing' = [disposing EXCEPT ![g] = {cache[k] : k \in taken}]

\* The first half of Get.
CleanupIfExpired(g, k) == TakeExpired(g, {k})

\* One turn of the cleanup goroutine.
CleanupExpiredItems(g) == expired # {} /\ TakeExpired(g, Keys)

\* The second half of Get, which extends the expiration of an item it finds.
Found(k) == cache[k] # NoItem /\ expired' = expired \ {k} /\ UNCHANGED <<cache, disposing>>
NotFound(k) == cache[k] = NoItem /\ UNCHANGED cacheVars

\* ComputeIfAbsent after a Get that found nothing; the map may have got an item in
\* between, which is overwritten.
StoreComputed(k, item) ==
  /\ cache' = [cache EXCEPT ![k] = item]
  /\ expired' = expired \ {k} /\ UNCHANGED disposing

\* Clear copies the entries and then, under the lock again, empties the map.
CopyEntries(g) ==
  /\ disposing' = [disposing EXCEPT ![g] = GetAllEntries] /\ UNCHANGED <<cache, expired>>

EmptyMap ==
  /\ cache' = [k \in Keys |-> NoItem] /\ expired' = {} /\ UNCHANGED disposing

Disposed(g, item) ==
  /\ disposing' = [disposing EXCEPT ![g] = @ \ {item}] /\ UNCHANGED <<cache, expired>>

=============================================================================
