-------------------------- MODULE PooledConnections --------------------------
(***************************************************************************)
(* Clients that open, use and close connections: the host is selected by   *)
(* a strategy, the connection comes from the driver or from an internal    *)
(* pool kept in a sliding expiration cache, and the connection tracker     *)
(* remembers it.                                                           *)
(***************************************************************************)
EXTENDS ConnectionTracker, SlidingExpirationCache

CONSTANTS
  Configurations,
  Cleaner,      \* the cache's cleanup goroutine
  Releaser      \* a goroutine that calls ReleaseResources

ASSUME CompositionAssumption ==
  /\ Goroutines = Clients \cup {Cleaner, Releaser} /\ Clients \cap {Cleaner, Releaser} = {}
  /\ Keys = Hosts /\ Items = Pools /\ None \notin Conns
  /\ Configurations \subseteq
       [pooled : BOOLEAN, strategy : Strategies, hosts : SUBSET Hosts, track : BOOLEAN,
        clients : SUBSET Clients, conns : SUBSET Conns,
        expiries : Nat, failovers : Nat, changes : Nat]

VARIABLES
  cfg,      \* [pooled, strategy, hosts, track, clients, conns] and the budgets
            \* [expiries, failovers, changes]
  pc,       \* what each goroutine does next
  host,     \* the host each client has selected
  pool,     \* the pool it has looked up
  conn,     \* the connection it has, or is about to have
  closing,  \* the connection it is closing
  victims   \* for the property: what the client's invalidation has to close

clientVars == <<cfg, pc, host, pool, conn, closing, victims>>
vars == <<selection, poolVars, trackerVars, cacheVars, clientVars>>

Labels ==
  {"ready", "lookup", "dispose", "find", "compute", "get", "reset", "relock", "open",
   "track", "using", "invalidate", "close", "giveback", "empty"}

TypeOK ==
  /\ SelectionTypeOK /\ PoolTypeOK /\ TrackerTypeOK /\ CacheTypeOK
  /\ pc \in [Goroutines -> Labels]
  /\ host \in [Clients -> Hosts \cup {None}] /\ pool \in [Clients -> Pools \cup {NoPool}]
  /\ conn \in [Clients -> Conns \cup {None}] /\ closing \in [Clients -> Conns \cup {None}]
  /\ \A c \in Clients : /\ pc[c] \in {"find", "compute", "get"} => host[c] # None
                        /\ pc[c] \in {"reset", "track", "using"} => conn[c] # None

Init ==
  /\ cfg \in Configurations
  /\ SelectionInit(cfg.strategy, cfg.hosts) /\ PoolInit /\ CacheInit
  /\ TrackerInit(HostOrder[1])
  /\ pc = [g \in Goroutines |-> "ready"]
  /\ host = [c \in Clients |-> None] /\ pool = [c \in Clients |-> NoPool]
  /\ conn = [c \in Clients |-> None] /\ closing = [c \in Clients |-> None]
  /\ victims = [c \in Clients |-> {}]

Goto(g, label) == pc' = [pc EXCEPT ![g] = label]
At(g, label) == pc[g] = label

\* Names that nothing refers to any more are used again.
FreshConns ==
  {x \in cfg.conns : /\ ~ conns[x].open /\ \A c \in Clients : x \notin {conn[c], closing[c]} \cup victims[c]
                     /\ \A h \in Hosts : x \notin tracked[h]}
FreshPools ==
  {p \in Pools : /\ p \notin GetAllEntries \cup {pool[c] : c \in Clients}
                 /\ \A g \in Goroutines : p \notin disposing[g]
                 /\ \A x \in Conns : conns[x].pool = p => x \in FreshConns}
First(S) == CHOOSE x \in S : TRUE

-----------------------------------------------------------------------------
(* Connecting.                                                             *)

\* ConnectionProviderManager: the pooled provider, when one is set, or the driver's;
\* both have the same selectors.
ConnectsBy == IF cfg.pooled THEN "lookup" ELSE "open"

SelectByStrategy(c) == GetHostInfoByStrategy /\ host' = [host EXCEPT ![c] = selected']

SelectHost(c) ==
  /\ c \in cfg.clients /\ At(c, "ready") /\ SelectByStrategy(c)
  /\ Goto(c, IF selected' = None THEN "ready" ELSE ConnectsBy)
  /\ IF cfg.track THEN NewPlugin(c) ELSE UNCHANGED trackerVars
  /\ UNCHANGED <<poolVars, cacheVars, cfg, pool, conn, closing, victims>>

\* ComputeIfAbsent's Get: an expired pool is taken out and closed first.
LookUp(c) ==
  /\ At(c, "lookup") /\ CleanupIfExpired(c, host[c])
  /\ Goto(c, IF disposing'[c] = {} THEN "find" ELSE "dispose")
  /\ UNCHANGED <<selection, poolVars, trackerVars, cfg, host, pool, conn, closing, victims>>

\* The disposal function closes the pool.
Dispose(g) ==
  /\ At(g, "dispose")
  /\ \E p \in disposing[g] : ClosePool(p) /\ Disposed(g, p)
  /\ Goto(g, IF disposing'[g] # {} THEN "dispose" ELSE IF g \in Clients THEN "find" ELSE "ready")
  /\ UNCHANGED <<selection, trackerVars, cfg, host, pool, conn, closing, victims>>

FindPool(c) ==
  /\ At(c, "find")
  /\ \/ Found(host[c]) /\ pool' = [pool EXCEPT ![c] = cache[host[c]]] /\ Goto(c, "get")
     \/ NotFound(host[c]) /\ UNCHANGED pool /\ Goto(c, "compute")
  /\ UNCHANGED <<selection, poolVars, trackerVars, cfg, host, conn, closing, victims>>

ComputePool(c) ==
  /\ At(c, "compute") /\ FreshPools # {}
  /\ LET p == First(FreshPools) IN
     /\ CreatePool(p) /\ StoreComputed(host[c], p) /\ pool' = [pool EXCEPT ![c] = p]
  /\ Goto(c, "get")
  /\ UNCHANGED <<selection, trackerVars, cfg, host, conn, closing, victims>>

Fail(c) ==
  /\ host' = [host EXCEPT ![c] = None] /\ pool' = [pool EXCEPT ![c] = NoPool]
  /\ conn' = [conn EXCEPT ![c] = None] /\ Goto(c, "ready")
  /\ UNCHANGED <<cfg, closing, victims>>

\* InternalConnPool.Get, up to the first Unlock.
GetConn(c) ==
  /\ At(c, "get")
  /\ \/ GetClosed(pool[c]) /\ Fail(c)
     \/ /\ TakeIdle(pool[c]) /\ conn' = [conn EXCEPT ![c] = Head(pools[pool[c]].idleConns)]
        /\ Goto(c, "reset") /\ UNCHANGED <<cfg, host, pool, closing, victims>>
     \/ /\ NoneIdle(pool[c]) /\ Goto(c, "open")
        /\ UNCHANGED <<cfg, host, pool, conn, closing, victims>>
  /\ UNCHANGED <<selection, trackerVars, cacheVars>>

Connected(c) ==
  /\ Goto(c, IF cfg.track THEN "track" ELSE "using") /\ pool' = [pool EXCEPT ![c] = NoPool]

ResetWorks(c) ==
  /\ At(c, "reset") /\ ReuseConn(conn[c]) /\ Connected(c)
  /\ UNCHANGED <<selection, trackerVars, cacheVars, cfg, host, conn, closing, victims>>

\* The connection is too old, or its session cannot be reset.
ResetFails(c) ==
  /\ At(c, "reset") /\ CloseConn(conn[c])
  /\ conn' = [conn EXCEPT ![c] = None] /\ Goto(c, "relock")
  /\ UNCHANGED <<selection, trackerVars, cacheVars, cfg, host, pool, closing, victims>>

Relock(c) ==
  /\ At(c, "relock")
  /\ \/ RelockClosed(pool[c]) /\ Fail(c)
     \/ RelockOpen(pool[c]) /\ Goto(c, "get") /\ UNCHANGED <<cfg, host, pool, conn, closing, victims>>
  /\ UNCHANGED <<selection, trackerVars, cacheVars>>

\* The driver opens a connection, if it can.
Open(c) ==
  /\ At(c, "open")
  /\ \/ UNCHANGED poolVars /\ Fail(c)
     \/ /\ FreshConns # {} /\ OpenConn(First(FreshConns), pool[c])
        /\ conn' = [conn EXCEPT ![c] = First(FreshConns)] /\ Connected(c)
        /\ UNCHANGED <<cfg, host, closing, victims>>
  /\ UNCHANGED <<selection, trackerVars, cacheVars>>

\* AuroraConnectionTrackerPlugin.Connect, after the connection was made.
Track(c) ==
  /\ At(c, "track") /\ Goto(c, "using") /\ TrackConnection(host[c], conn[c])
  /\ UNCHANGED <<selection, poolVars, cacheVars, cfg, host, pool, conn, closing, victims>>

-----------------------------------------------------------------------------
(* Using and closing.                                                      *)

\* What clients hold on these hosts.
HeldOn(hosts) ==
  {conn[d] : d \in {e \in Clients : pc[e] \in {"using", "invalidate"} /\ host[e] \in hosts}}

Invalidates(c) ==
  /\ victims' = [victims EXCEPT ![c] = HeldOn(todo'[c])] /\ Goto(c, "invalidate")

\* AuroraConnectionTrackerPlugin.Execute: the writer is remembered, then the call
\* returns; the host list may change meanwhile; a failover error has the writer
\* checked.
Execute(c) ==
  /\ cfg.track /\ At(c, "using")
  /\ \/ RememberWriter(c) /\ UNCHANGED <<pc, victims>>
     \/ NotifyHostListChanged(c) /\ Invalidates(c)
     \/ currentWriter[c] # None /\ CheckWriterChanged(c) /\ Invalidates(c)
  /\ UNCHANGED <<selection, poolVars, cacheVars, cfg, host, pool, conn, closing>>

InvalidateNext(c) ==
  /\ At(c, "invalidate")
  /\ \E h \in Hosts : \/ /\ \E x \in Conns : Dequeue(c, h, x) /\ closing' = [closing EXCEPT ![c] = x]
                         /\ Goto(c, "close") /\ UNCHANGED victims
                      \/ /\ QueueEmpty(c, h) /\ UNCHANGED <<closing>>
                         /\ Goto(c, IF todo[c] = {h} THEN "using" ELSE "invalidate")
                         /\ victims' = [victims EXCEPT ![c] = IF todo[c] = {h} THEN {} ELSE @]
  /\ UNCHANGED <<selection, poolVars, cacheVars, cfg, host, pool, conn>>

\* The application closes its connection.
CloseOwn(c) ==
  /\ At(c, "using") /\ Goto(c, "close")
  /\ closing' = [closing EXCEPT ![c] = conn[c]] /\ conn' = [conn EXCEPT ![c] = None]
  /\ host' = [host EXCEPT ![c] = None]
  /\ UNCHANGED <<selection, poolVars, trackerVars, cacheVars, cfg, pool, victims>>

Closed(c) ==
  /\ closing' = [closing EXCEPT ![c] = None]
  /\ Goto(c, IF conn[c] = None THEN "ready" ELSE "invalidate")

\* Close of a driver's connection, or of a handle that was given back before, ends
\* here; other handles go on.
Close(c) ==
  /\ At(c, "close")
  /\ LET x == closing[c] IN
     \/ conns[x].pool = NoPool /\ CloseConn(x) /\ Closed(c)
     \/ conns[x].pool # NoPool /\ conns[x].returned /\ UNCHANGED poolVars /\ Closed(c)
     \/ /\ conns[x].pool # NoPool /\ ~ conns[x].returned /\ MarkReturned(x)
        /\ Goto(c, "giveback") /\ UNCHANGED closing
  /\ UNCHANGED <<selection, trackerVars, cacheVars, cfg, host, pool, conn, victims>>

GiveBackConn(c) ==
  /\ At(c, "giveback") /\ GiveBack(closing[c]) /\ Closed(c)
  /\ UNCHANGED <<selection, trackerVars, cacheVars, cfg, host, pool, conn, victims>>

-----------------------------------------------------------------------------
(* The cache's goroutines and the environment.                             *)

CleanUp ==
  /\ At(Cleaner, "ready") /\ CleanupExpiredItems(Cleaner) /\ Goto(Cleaner, "dispose")
  /\ UNCHANGED <<selection, poolVars, trackerVars, cfg, host, pool, conn, closing, victims>>

Spend(budget) == cfg[budget] > 0 /\ cfg' = [cfg EXCEPT ![budget] = @ - 1]

\* ReleaseResources: Clear.
Release ==
  /\ At(Releaser, "ready") /\ cfg.pooled /\ Spend("expiries")
  /\ CopyEntries(Releaser) /\ Goto(Releaser, "empty")
  /\ UNCHANGED <<selection, poolVars, trackerVars, host, pool, conn, closing, victims>>

ReleaseMap ==
  /\ At(Releaser, "empty") /\ EmptyMap
  /\ Goto(Releaser, IF disposing[Releaser] = {} THEN "ready" ELSE "dispose")
  /\ UNCHANGED <<selection, poolVars, trackerVars, cfg, host, pool, conn, closing, victims>>

PoolExpires ==
  /\ cfg.pooled /\ \E k \in Keys : ItemExpires(k) /\ Spend("expiries")
  /\ UNCHANGED <<selection, poolVars, trackerVars, pc, host, pool, conn, closing, victims>>

Failover ==
  /\ cfg.track /\ Spend("failovers") /\ \E w \in Hosts : ClusterFailover(w)
  /\ UNCHANGED <<selection, poolVars, cacheVars, pc, host, pool, conn, closing, victims>>

Collect ==
  /\ \E h \in Hosts : \E x \in Conns : CollectPointer(h, x)
  /\ UNCHANGED <<selection, poolVars, cacheVars, clientVars>>

ClusterChanges ==
  /\ Spend("changes")
  /\ \/ \E h \in Hosts : ChangeAvailability(h) \/ EntryExpires(h)
     \/ \E w \in WeightSets : ChangeWeights(w)
  /\ UNCHANGED <<poolVars, trackerVars, cacheVars, pc, host, pool, conn, closing, victims>>

ClientStep(c) ==
  \/ SelectHost(c) \/ LookUp(c) \/ Dispose(c) \/ FindPool(c)
  \/ ComputePool(c) \/ GetConn(c) \/ ResetWorks(c) \/ ResetFails(c) \/ Relock(c) \/ Open(c)
  \/ Track(c) \/ Execute(c) \/ InvalidateNext(c) \/ CloseOwn(c) \/ Close(c) \/ GiveBackConn(c)

Next ==
  \/ \E c \in Clients : ClientStep(c)
  \/ \E g \in {Cleaner, Releaser} : Dispose(g)
  \/ CleanUp \/ Release \/ ReleaseMap \/ PoolExpires
  \/ Failover \/ Collect \/ ClusterChanges

\* Goroutines go on; that clients connect and close again is up to them.
Connecting(c) ==
  \/ LookUp(c) \/ Dispose(c) \/ FindPool(c) \/ ComputePool(c) \/ GetConn(c)
  \/ ResetWorks(c) \/ ResetFails(c) \/ Relock(c) \/ Open(c) \/ Track(c)
  \/ Close(c) \/ GiveBackConn(c) \/ InvalidateNext(c)

\* Get tries one idle connection after the other as long as others give some back
\* and none can be reset; that a session can be reset in the end is up to the
\* database.
Spec ==
  /\ Init /\ [][Next]_vars
  /\ \A c \in Clients : WF_vars(Connecting(c)) /\ SF_vars(ResetWorks(c))

-----------------------------------------------------------------------------
\* A connection is used by one client, and none that is used lies in a pool
\* (InternalConnPool.Get, internalPooledConn.Close).  Without the tracker: its
\* invalidation closes the handles of others, and so returns what they still use.
OneHolder ==
  ~ cfg.track =>
    /\ \A c, d \in Clients : c # d /\ conn[c] # None => conn[c] \notin {conn[d], closing[d]}
    /\ \A p \in Pools :
         /\ \A c \in Clients : conn[c] \notin Idle(p)
         /\ Len(pools[p].idleConns) = Cardinality(Idle(p))

\* The connections a closed pool had are closed, and those it gave out stay open
\* only in the hands of a client (InternalConnPool.Close, internalPooledConn.Close).
KeepsNoConnection ==
  \A p \in Pools : pools[p].closed =>
    /\ pools[p].idleConns = <<>>
    /\ \A x \in Conns : conns[x].pool = p /\ conns[x].open =>
         \E c \in Clients : x \in {conn[c], closing[c]}

\* A pool in the cache is open and its mutex is free: whatever expires or is released
\* leaves the map before its disposal, which Clear does from a copy of the entries it
\* made earlier (SlidingExpirationCache).  So a mutex that Get left locked is met only
\* by those who had looked the pool up before.
CachedPoolsOpen ==
  \A k \in Keys : cache[k] # NoItem => ~ pools[cache[k]].closed /\ ~ pools[cache[k]].locked

\* A pool that was closed is out of the way: it keeps no connection, and nobody finds
\* it in the cache, whenever it is closed (InternalPooledConnectionProvider.Connect).
ClosedPoolDrained == KeepsNoConnection /\ CachedPoolsOpen

\* The client waits for a mutex that Get left locked.
Blocked(c) ==
  \E p \in Pools : /\ pools[p].locked
                  /\ \/ p = pool[c] \/ p \in disposing[c]
                     \/ closing[c] # None /\ conns[closing[c]].pool = p

\* "If pool is closed, close the real conn" (internalPooledConn.Close): nobody finds
\* the mutex of a pool locked for good.  Get leaves it locked when the pool is closed
\* during its network calls.
MutexReleased == \A p \in Pools : ~ pools[p].locked

\* Connecting and closing come to an end, whatever expires or is released meanwhile,
\* unless they meet a mutex that was left locked (InternalConnPool.Get,
\* SlidingExpirationCache.ComputeIfAbsent).
ConnectsAndCloses ==
  \A c \in Clients : ~ At(c, "ready") ~> pc[c] \in {"ready", "using", "invalidate"} \/ Blocked(c)

\* Once the tracker has invalidated the hosts that changed roles, the connections
\* clients held to them are closed (OpenedConnectionTracker.invalidateConnections).
InvalidationCloses ==
  [][\A c \in Clients : todo[c] # {} /\ todo'[c] = {} => \A x \in victims[c] : ~ conns[x].open]_vars

=============================================================================
