----------------------- MODULE PooledConnectionsProofs -----------------------
(***************************************************************************)
(* Proofs for PooledConnections, for any hosts, pools, connections,        *)
(* clients and configurations: its types, that a connection of a pool has  *)
(* one holder, that a closed pool keeps no connection, that a pool in the  *)
(* cache is open and unlocked, that the selectors respect the weights and  *)
(* that round robin gives the hosts their turns.                           *)
(***************************************************************************)
EXTENDS PooledConnections, HostSelectionProofs, SequenceTheorems

-----------------------------------------------------------------------------
(* The inductive invariant: what a client's program counter says about the *)
(* other variables, and where a connection is that was handed back.        *)

ClientTypes ==
  /\ pc \in [Goroutines -> Labels]
  /\ host \in [Clients -> Hosts \cup {None}] /\ pool \in [Clients -> Pools \cup {NoPool}]
  /\ conn \in [Clients -> Conns \cup {None}] /\ closing \in [Clients -> Conns \cup {None}]

\* What the client knows at each label.
HostKnown(c) == pc[c] \notin {"ready", "close", "giveback"} \/ conn[c] # None => host[c] \in Hosts
PoolKnown(c) == pc[c] \in {"get", "reset", "relock"} => pool[c] \in Pools
ConnKnown(c) ==
  /\ pc[c] \in {"reset", "track", "using", "invalidate"} => conn[c] \in Conns
  /\ pc[c] \notin {"reset", "track", "using", "invalidate", "close", "giveback"} => conn[c] = None
ClosingKnown(c) ==
  IF pc[c] \in {"close", "giveback"} THEN closing[c] \in Conns ELSE closing[c] = None

\* Only the tracker invalidates, with a host list it has seen.
TrackerKnown(c) ==
  IF cfg.track THEN pc[c] # "ready" => view[c] \in Hosts
  ELSE /\ pc[c] \notin {"track", "invalidate"}
       /\ pc[c] \in {"close", "giveback"} => conn[c] = None

ClientKnows(c) ==
  /\ pc[c] # "empty" /\ HostKnown(c) /\ PoolKnown(c) /\ ConnKnown(c) /\ ClosingKnown(c)
  /\ TrackerKnown(c)
ClientsKnow == \A c \in Clients : ClientKnows(c)

ConfigSet ==
  [pooled : BOOLEAN, strategy : Strategies, hosts : SUBSET Hosts, track : BOOLEAN,
   clients : SUBSET Clients, conns : SUBSET Conns, expiries : Nat, failovers : Nat, changes : Nat]
ConfigKnown == cfg \in ConfigSet /\ (strategy = "highestWeight" => weights # Invalid)
ExpiredKnown == \A k \in expired : cache[k] # NoItem

Known ==
  /\ SelectionTypeOK /\ PoolTypeOK /\ TrackerTypeOK /\ CacheTypeOK /\ ClientTypes
  /\ ClientsKnow /\ ConfigKnown /\ ExpiredKnown

\* The connection the client has in hand between its holder and the pool.
Returning(c) ==
  CASE pc[c] = "giveback" -> closing[c]
    [] pc[c] = "reset" -> conn[c]
    [] OTHER -> None

\* A connection in a pool is open, belongs to it and lies there once.
Distinct(s) == \A i, j \in DOMAIN s : s[i] = s[j] => i = j
IdleKept ==
  \A p \in Pools :
    /\ \A x \in Idle(p) : conns[x].pool = p /\ conns[x].open /\ conns[x].returned
    /\ Distinct(pools[p].idleConns)

\* A connection on its way to a pool or from it is in no pool and in no other hand.
ReturningKept ==
  \A c \in Clients : Returning(c) # None =>
    /\ conns[Returning(c)].open /\ conns[Returning(c)].returned
    /\ conns[Returning(c)].pool \in Pools
    /\ \A p \in Pools : Returning(c) \notin Idle(p)
    /\ \A d \in Clients \ {c} : Returning(d) # Returning(c)

\* A connection that was handed back is in a pool or on its way.
ReturnedKept ==
  \A x \in Conns : conns[x].open /\ conns[x].returned /\ conns[x].pool \in Pools =>
    x \in Idle(conns[x].pool) \/ \E c \in Clients : Returning(c) = x

\* An open connection of a pool is in it or with a client.
Accounted ==
  \A x \in Conns : conns[x].open /\ conns[x].pool \in Pools =>
    x \in Idle(conns[x].pool) \/ \E c \in Clients : x \in {conn[c], closing[c]}

ClosedEmpty == \A p \in Pools : pools[p].closed => pools[p].idleConns = <<>>
ClosedGone == \A x \in Conns : conns[x].open \/ conns[x] = NoConn

Kept == IdleKept /\ ReturningKept /\ ReturnedKept /\ Accounted /\ ClosedEmpty /\ ClosedGone

\* Without the tracker, a connection is with one client or in a pool.
Separate ==
  ~ cfg.track =>
    /\ \A c, d \in Clients : c # d =>
         /\ conn[c] # None => conn[c] \notin {conn[d], closing[d]}
         /\ closing[c] # None => closing[c] # closing[d]
    /\ \A p \in Pools : \A c \in Clients : conn[c] \notin Idle(p) /\ closing[c] \notin Idle(p)

-----------------------------------------------------------------------------
(* Sequences and sets *)

LEMMA AppendSet ==
  ASSUME NEW S, NEW s \in Seq(S), NEW x \in S
  PROVE  /\ Append(s, x) \in Seq(S)
         /\ ToSet(Append(s, x)) = ToSet(s) \cup {x}
         /\ Distinct(s) /\ x \notin ToSet(s) => Distinct(Append(s, x))
<1>1. /\ Append(s, x) \in Seq(S) /\ Len(Append(s, x)) = Len(s) + 1
      /\ \A i \in 1..Len(s) : Append(s, x)[i] = s[i]
      /\ Append(s, x)[Len(s) + 1] = x
  BY AppendProperties
<1>2. DOMAIN Append(s, x) = 1..(Len(s) + 1) /\ DOMAIN s = 1..Len(s) /\ Len(s) \in Nat
  BY <1>1
<1>3. ToSet(Append(s, x)) = ToSet(s) \cup {x}
  BY <1>1, <1>2 DEF ToSet
<1>4. ASSUME Distinct(s), x \notin ToSet(s) PROVE Distinct(Append(s, x))
  <2>. SUFFICES ASSUME NEW i \in DOMAIN Append(s, x), NEW j \in DOMAIN Append(s, x),
                       Append(s, x)[i] = Append(s, x)[j]
                PROVE  i = j
    BY DEF Distinct
  <2>1. \A k \in 1..Len(s) : s[k] # x
    BY <1>2, <1>4 DEF ToSet
  <2>2. \A k, l \in 1..Len(s) : s[k] = s[l] => k = l
    BY <1>2, <1>4 DEF Distinct
  <2>. QED  BY <1>1, <1>2, <2>1, <2>2
<1>. QED  BY <1>1, <1>3, <1>4

\* Taking the first of a sequence without duplicates takes it out.
LEMMA TailSet ==
  ASSUME NEW S, NEW s \in Seq(S), s # <<>>,
         Distinct(s)
  PROVE  /\ Head(s) \in ToSet(s) /\ Tail(s) \in Seq(S)
         /\ ToSet(Tail(s)) = ToSet(s) \ {Head(s)}
         /\ Distinct(Tail(s))
<1>0. \A i, j \in DOMAIN s : s[i] = s[j] => i = j
  BY DEF Distinct
<1>1. /\ Head(s) = s[1] /\ Tail(s) \in Seq(S) /\ Len(Tail(s)) = Len(s) - 1
      /\ \A i \in 1..Len(Tail(s)) : Tail(s)[i] = s[i + 1]
  BY HeadTailProperties
<1>2. /\ DOMAIN s = 1..Len(s) /\ Len(s) \in Nat \ {0}
      /\ DOMAIN Tail(s) = 1..(Len(s) - 1)
  BY <1>1, EmptySeq
<1>3. ToSet(Tail(s)) = {s[i] : i \in 2..Len(s)}
  <2>1. ASSUME NEW i \in 2..Len(s) PROVE s[i] \in ToSet(Tail(s))
    <3>1. i - 1 \in DOMAIN Tail(s) /\ Tail(s)[i - 1] = s[i]
      BY <1>1, <1>2
    <3>. QED  BY <3>1 DEF ToSet
  <2>2. ASSUME NEW i \in DOMAIN Tail(s) PROVE Tail(s)[i] \in {s[j] : j \in 2..Len(s)}
    BY <1>1, <1>2
  <2>. QED  BY <2>1, <2>2 DEF ToSet
<1>4. ToSet(s) = {s[i] : i \in 1..Len(s)}
  BY <1>2 DEF ToSet
<1>5. \A i \in 2..Len(s) : s[i] # s[1]
  BY <1>0, <1>2
<1>6. ToSet(Tail(s)) = ToSet(s) \ {Head(s)} /\ Head(s) \in ToSet(s)
  BY <1>1, <1>2, <1>3, <1>4, <1>5
<1>7. ASSUME NEW i \in DOMAIN Tail(s), NEW j \in DOMAIN Tail(s), Tail(s)[i] = Tail(s)[j]
      PROVE  i = j
  <2>1. i + 1 \in DOMAIN s /\ j + 1 \in DOMAIN s /\ s[i + 1] = s[j + 1]
    BY <1>1, <1>2, <1>7
  <2>. QED  BY <1>0, <1>2, <2>1
<1>. QED  BY <1>1, <1>6, <1>7 DEF Distinct

\* A sequence without duplicates is as long as its set is large.
LEMMA DistinctLen ==
  ASSUME NEW S, NEW s \in Seq(S), Distinct(s)
  PROVE  Len(s) = Cardinality(ToSet(s))
<1>1. Len(s) \in Nat /\ DOMAIN s = 1..Len(s) /\ s \in [1..Len(s) -> ToSet(s)]
  BY DEF ToSet
<1>2. s \in Bijection(1..Len(s), ToSet(s))
  <2>1. s \in Injection(1..Len(s), ToSet(s))
    BY <1>1 DEF Injection, IsInjective, Distinct
  <2>2. s \in Surjection(1..Len(s), ToSet(s))
    BY <1>1 DEF Surjection, ToSet
  <2>. QED  BY <2>1, <2>2 DEF Bijection
<1>3. ExistsBijection(1..Len(s), ToSet(s))
  BY <1>2 DEF ExistsBijection
<1>. QED  BY <1>1, <1>3, FS_CountingElements

LEMMA FirstElement ==
  ASSUME NEW S, S # {}
  PROVE  First(S) \in S
BY DEF First

-----------------------------------------------------------------------------
(* Types *)

LEMMA KnownTypes == Known => TypeOK
<1>. SUFFICES ASSUME Known PROVE TypeOK
  OBVIOUS
<1>1. None \notin Hosts /\ None \notin Conns
  BY SelectionAssumption, CompositionAssumption
<1>2. ASSUME NEW c \in Clients
      PROVE  /\ pc[c] \in {"find", "compute", "get"} => host[c] # None
             /\ pc[c] \in {"reset", "track", "using"} => conn[c] # None
  BY <1>1 DEF Known, ClientsKnow, ClientKnows, HostKnown, ConnKnown
<1>. QED  BY <1>2 DEF Known, TypeOK, ClientTypes

LEMMA InitKnown == Init => Known
<1>. SUFFICES ASSUME Init PROVE Known
  OBVIOUS
<1>1. HostOrder[1] \in Hosts
  <2>1. Len(HostOrder) >= 1
    BY SelectionAssumption DEF ToSet
  <2>. QED  BY <2>1, SelectionAssumption
<1>2. cfg \in ConfigSet
  BY CompositionAssumption DEF Init, ConfigSet
<1>3. SelectionTypeOK
  <2>1. cfg.strategy \in Strategies /\ cfg.hosts \subseteq Hosts
    BY <1>2 DEF ConfigSet
  <2>. QED  BY <2>1, NoInfoType, SelectionAssumption
            DEF Init, SelectionInit, SelectionTypeOK, NoTurn, NoWeights
<1>4. strategy = "highestWeight" => weights # Invalid
  BY SelectionAssumption, NoInfoType DEF Init, SelectionInit
<1>5. PoolTypeOK
  BY DEF Init, PoolInit, PoolTypeOK, NewConnPool, NoConn
<1>6. TrackerTypeOK /\ CacheTypeOK /\ ExpiredKnown
  BY <1>1 DEF Init, TrackerInit, TrackerTypeOK, CacheInit, CacheTypeOK, ExpiredKnown
<1>7. ClientTypes
  BY DEF Init, ClientTypes, Labels
<1>8. ClientsKnow
  BY CompositionAssumption
     DEF Init, ClientsKnow, ClientKnows, HostKnown, PoolKnown, ConnKnown, ClosingKnown, TrackerKnown
<1>. QED  BY <1>2, <1>3, <1>4, <1>5, <1>6, <1>7, <1>8 DEF Known, ConfigKnown

\* What an action leaves alone keeps its type.
LEMMA SelectionKept == Known /\ UNCHANGED selection => SelectionTypeOK' /\ UNCHANGED <<strategy, weights>>
BY DEF Known, selection, SelectionTypeOK
LEMMA PoolsKept == Known /\ UNCHANGED poolVars => PoolTypeOK'
BY DEF Known, poolVars, PoolTypeOK
LEMMA TrackerKept == Known /\ UNCHANGED trackerVars => TrackerTypeOK'
BY DEF Known, trackerVars, TrackerTypeOK
LEMMA CacheKept == Known /\ UNCHANGED cacheVars => CacheTypeOK' /\ ExpiredKnown'
BY DEF Known, cacheVars, CacheTypeOK, ExpiredKnown
LEMMA ConfigKept == Known /\ UNCHANGED <<cfg, strategy, weights>> => ConfigKnown'
BY DEF Known, ConfigKnown

\* A client's step touches no other client.
Untouched(d) == UNCHANGED <<pc[d], host[d], pool[d], conn[d], closing[d], view[d], cfg>>

LEMMA UntouchedKnows ==
  ASSUME NEW d \in Clients, ClientKnows(d), Untouched(d)
  PROVE  ClientKnows(d)'
BY DEF Untouched, ClientKnows, HostKnown, PoolKnown, ConnKnown, ClosingKnown, TrackerKnown

LEMMA StepIsLocal ==
  ASSUME Known, NEW c \in Clients, NEW d \in Clients, d # c, ClientStep(c)
  PROVE  Untouched(d)
<1>. /\ ClientTypes /\ c \in Goroutines /\ d \in Goroutines
     /\ view \in [Clients -> Hosts \cup {None}]
  BY CompositionAssumption DEF Known, TrackerTypeOK
<1>. USE DEF ClientTypes, Untouched, Goto
<1>1. CASE SelectHost(c)
  BY <1>1 DEF SelectHost, SelectByStrategy, NewPlugin, trackerVars
<1>2. CASE LookUp(c)
  BY <1>2 DEF LookUp, trackerVars
<1>3. CASE Dispose(c)
  BY <1>3 DEF Dispose, trackerVars
<1>4. CASE FindPool(c)
  BY <1>4 DEF FindPool, trackerVars
<1>5. CASE ComputePool(c)
  BY <1>5 DEF ComputePool, trackerVars
<1>6. CASE GetConn(c)
  BY <1>6 DEF GetConn, Fail, trackerVars
<1>7. CASE ResetWorks(c)
  BY <1>7 DEF ResetWorks, Connected, trackerVars
<1>8. CASE ResetFails(c)
  BY <1>8 DEF ResetFails, trackerVars
<1>9. CASE Relock(c)
  BY <1>9 DEF Relock, Fail, trackerVars
<1>10. CASE Open(c)
  BY <1>10 DEF Open, Fail, Connected, trackerVars
<1>11. CASE Track(c)
  BY <1>11 DEF Track, TrackConnection
<1>12. CASE Execute(c)
  BY <1>12 DEF Execute, RememberWriter, NotifyHostListChanged, CheckWriterChanged, Invalidates
<1>13. CASE InvalidateNext(c)
  <2>1. UNCHANGED <<cfg, host, pool, conn, view>>
    BY <1>13 DEF InvalidateNext, Dequeue, QueueEmpty
  <2>2. \/ UNCHANGED closing /\ \E l : pc' = [pc EXCEPT ![c] = l]
        \/ \E x : closing' = [closing EXCEPT ![c] = x] /\ \E l : pc' = [pc EXCEPT ![c] = l]
    BY <1>13 DEF InvalidateNext
  <2>. QED  BY <2>1, <2>2
<1>14. CASE CloseOwn(c)
  BY <1>14 DEF CloseOwn, trackerVars
<1>15. CASE Close(c)
  BY <1>15 DEF Close, Closed, trackerVars
<1>16. CASE GiveBackConn(c)
  BY <1>16 DEF GiveBackConn, Closed, trackerVars
<1>. QED  BY <1>1, <1>2, <1>3, <1>4, <1>5, <1>6, <1>7, <1>8, <1>9, <1>10, <1>11, <1>12, <1>13,
             <1>14, <1>15, <1>16 DEF ClientStep

\* Selection and configuration.
LEMMA StepSelection ==
  ASSUME Known, NEW c \in Clients, ClientStep(c)
  PROVE  SelectionTypeOK' /\ ConfigKnown'
<1>1. CASE SelectHost(c)
  <2>1. SelectionTypeOK' /\ UNCHANGED <<strategy, weights, cfg>>
    BY <1>1, SelectionTypes DEF Known, ConfigKnown, SelectHost, SelectByStrategy
  <2>. QED  BY <2>1, ConfigKept
<1>2. CASE ~ SelectHost(c)
  <2>1. UNCHANGED <<selection, cfg>>
    BY <1>2 DEF ClientStep, LookUp, Dispose, FindPool, ComputePool, GetConn, ResetWorks, ResetFails,
                Relock, Open, Fail, Track, Execute, InvalidateNext, CloseOwn, Close, GiveBackConn
  <2>. QED  BY <2>1, SelectionKept, ConfigKept
<1>. QED  BY <1>1, <1>2

LEMMA StepTracker ==
  ASSUME Known, NEW c \in Clients, ClientStep(c)
  PROVE  TrackerTypeOK'
<1>. USE DEF Known, TrackerTypeOK
<1>1. CASE SelectHost(c)
  BY <1>1 DEF SelectHost, NewPlugin, trackerVars
<1>2. CASE Track(c)
  <2>1. conn[c] \in Conns
    BY <1>2 DEF Track, At, ClientsKnow, ClientKnows, ConnKnown
  <2>. QED  BY <1>2, <2>1 DEF Track, TrackConnection
<1>3. CASE Execute(c)
  <2>1. view[c] \in Hosts
    BY <1>3 DEF Execute, At, ClientsKnow, ClientKnows, TrackerKnown
  <2>2. CASE RememberWriter(c)
    BY <2>2 DEF RememberWriter
  <2>3. CASE NotifyHostListChanged(c)
    BY <2>1, <2>3 DEF NotifyHostListChanged, Invalidate
  <2>4. CASE currentWriter[c] # None /\ CheckWriterChanged(c)
    <3>1. currentWriter[c] \in Hosts
      BY <2>4
    <3>. QED  BY <2>4, <3>1 DEF CheckWriterChanged, Invalidate
  <2>. QED  BY <1>3, <2>2, <2>3, <2>4 DEF Execute
<1>4. CASE InvalidateNext(c)
  <2>1. PICK h \in Hosts : (\E x \in Conns : Dequeue(c, h, x)) \/ QueueEmpty(c, h)
    BY <1>4 DEF InvalidateNext
  <2>. QED  BY <2>1 DEF Dequeue, QueueEmpty
<1>5. CASE UNCHANGED trackerVars
  BY <1>5, TrackerKept
<1>. QED
  BY <1>1, <1>2, <1>3, <1>4, <1>5
     DEF ClientStep, LookUp, Dispose, FindPool, ComputePool, GetConn, ResetWorks, ResetFails,
         Relock, Open, CloseOwn, Close, GiveBackConn

\* The first half of Get, and of a cleanup.
LEMMA TakeExpiredTypes ==
  ASSUME Known, NEW g \in Goroutines, NEW ks \in SUBSET Keys, TakeExpired(g, ks)
  PROVE  CacheTypeOK' /\ ExpiredKnown'
BY DEF Known, TakeExpired, CacheTypeOK, ExpiredKnown

LEMMA DisposeTypes ==
  ASSUME Known, NEW g \in Goroutines, Dispose(g)
  PROVE  CacheTypeOK' /\ ExpiredKnown' /\ PoolTypeOK'
<1>1. PICK p \in disposing[g] : ClosePool(p) /\ Disposed(g, p)
  BY DEF Dispose
<1>2. p \in Pools
  BY CompositionAssumption DEF Known, CacheTypeOK
<1>3. CacheTypeOK' /\ ExpiredKnown'
  BY <1>1 DEF Known, Disposed, CacheTypeOK, ExpiredKnown
<1>4. PoolTypeOK'
  BY <1>1, <1>2 DEF Known, ClosePool, PoolTypeOK, NoConn
<1>. QED  BY <1>3, <1>4

LEMMA FreshTypes ==
  ASSUME Known
  PROVE  /\ FreshPools # {} => First(FreshPools) \in FreshPools /\ First(FreshPools) \in Pools
         /\ FreshConns # {} => First(FreshConns) \in FreshConns /\ First(FreshConns) \in Conns
<1>1. FreshPools \subseteq Pools /\ FreshConns \subseteq Conns
  BY DEF FreshPools, FreshConns, Known, ConfigKnown, ConfigSet
<1>2. /\ FreshPools # {} => First(FreshPools) \in FreshPools
      /\ FreshConns # {} => First(FreshConns) \in FreshConns
  BY FirstElement
<1>. QED  BY <1>1, <1>2

LEMMA StepCache ==
  ASSUME Known, NEW c \in Clients, ClientStep(c)
  PROVE  CacheTypeOK' /\ ExpiredKnown'
<1>0. c \in Goroutines /\ Keys = Hosts /\ Items = Pools
  BY CompositionAssumption
<1>1. CASE LookUp(c)
  <2>1. {host[c]} \in SUBSET Keys
    BY <1>0, <1>1 DEF Known, ClientsKnow, ClientKnows, HostKnown, LookUp, At
  <2>. QED  BY <1>0, <1>1, <2>1, TakeExpiredTypes DEF LookUp, CleanupIfExpired
<1>2. CASE Dispose(c)
  BY <1>0, <1>2, DisposeTypes
<1>3. CASE FindPool(c)
  BY <1>3 DEF Known, FindPool, Found, NotFound, cacheVars, CacheTypeOK, ExpiredKnown
<1>4. CASE ComputePool(c)
  <2>1. First(FreshPools) \in Pools /\ host[c] \in Keys
    BY <1>0, <1>4, FreshTypes DEF ComputePool, Known, ClientsKnow, ClientKnows, HostKnown, At
  <2>. QED  BY <1>0, <1>4, <2>1 DEF Known, ComputePool, StoreComputed, CacheTypeOK, ExpiredKnown
<1>5. CASE UNCHANGED cacheVars
  BY <1>5, CacheKept
<1>. QED
  BY <1>1, <1>2, <1>3, <1>4, <1>5
     DEF ClientStep, SelectHost, GetConn, ResetWorks, ResetFails, Relock, Open, Track, Execute,
         InvalidateNext, CloseOwn, Close, GiveBackConn

LEMMA StepPools ==
  ASSUME Known, NEW c \in Clients, ClientStep(c)
  PROVE  PoolTypeOK'
<1>0. PoolTypeOK /\ ClientKnows(c)
  BY DEF Known, ClientsKnow
<1>1. CASE Dispose(c)
  BY <1>1, DisposeTypes, CompositionAssumption
<1>2. CASE ComputePool(c)
  BY <1>0, <1>2, FreshTypes DEF ComputePool, CreatePool, PoolTypeOK, NewConnPool
<1>3. CASE GetConn(c)
  <2>1. pool[c] \in Pools
    BY <1>0, <1>3 DEF GetConn, At, ClientKnows, PoolKnown
  <2>2. CASE TakeIdle(pool[c])
    <3>1. pools[pool[c]].idleConns \in Seq(Conns) /\ pools[pool[c]].idleConns # <<>>
      BY <1>0, <2>1, <2>2 DEF PoolTypeOK, TakeIdle
    <3>2. Tail(pools[pool[c]].idleConns) \in Seq(Conns)
      BY <3>1, HeadTailProperties
    <3>. QED  BY <1>0, <2>1, <2>2, <3>2 DEF PoolTypeOK, TakeIdle
  <2>3. CASE UNCHANGED poolVars
    BY <2>3, PoolsKept
  <2>. QED  BY <1>3, <2>2, <2>3 DEF GetConn, GetClosed, NoneIdle
<1>4. CASE ResetWorks(c)
  BY <1>0, <1>4 DEF ResetWorks, ReuseConn, At, ClientKnows, ConnKnown, PoolTypeOK
<1>5. CASE ResetFails(c)
  BY <1>0, <1>5 DEF ResetFails, CloseConn, NoConn, At, ClientKnows, ConnKnown, PoolTypeOK
<1>6. CASE Relock(c)
  BY <1>0, <1>6, ZenonT(60)
     DEF Relock, RelockOpen, RelockClosed, poolVars, At, ClientKnows, PoolKnown, PoolTypeOK
<1>7. CASE Open(c)
  <2>1. pool[c] \in Pools \cup {NoPool}
    BY DEF Known, ClientTypes
  <2>2. CASE FreshConns # {} /\ OpenConn(First(FreshConns), pool[c])
    <3>1. First(FreshConns) \in Conns
      BY <2>2, FreshTypes
    <3>. QED  BY <1>0, <2>1, <2>2, <3>1 DEF OpenConn, PoolTypeOK
  <2>3. CASE UNCHANGED poolVars
    BY <2>3, PoolsKept
  <2>. QED  BY <1>7, <2>2, <2>3 DEF Open
<1>8. CASE Close(c)
  <2>1. closing[c] \in Conns
    BY <1>0, <1>8 DEF Close, At, ClientKnows, ClosingKnown
  <2>2. CASE CloseConn(closing[c])
    BY <1>0, <2>1, <2>2 DEF CloseConn, NoConn, PoolTypeOK
  <2>3. CASE MarkReturned(closing[c])
    BY <1>0, <2>1, <2>3 DEF MarkReturned, PoolTypeOK
  <2>4. CASE UNCHANGED poolVars
    BY <2>4, PoolsKept
  <2>. QED  BY <1>8, <2>2, <2>3, <2>4 DEF Close
<1>9. CASE GiveBackConn(c)
  <2>1. closing[c] \in Conns
    BY <1>0, <1>9 DEF GiveBackConn, At, ClientKnows, ClosingKnown
  <2>2. CASE CloseConn(closing[c])
    BY <1>0, <2>1, <2>2 DEF CloseConn, NoConn, PoolTypeOK
  <2>3. CASE /\ pools' = [pools EXCEPT ![conns[closing[c]].pool].idleConns = Append(@, closing[c])]
             /\ UNCHANGED conns
    <3>. DEFINE p == conns[closing[c]].pool
    <3>1. CASE p \in Pools
      <4>1. Append(pools[p].idleConns, closing[c]) \in Seq(Conns)
        BY <1>0, <2>1, <3>1 DEF PoolTypeOK
      <4>2. pools' = [pools EXCEPT ![p].idleConns = Append(pools[p].idleConns, closing[c])]
        BY <2>3
      <4>. HIDE DEF p
      <4>. QED  BY <1>0, <2>3, <3>1, <4>1, <4>2, ZenonT(60) DEF PoolTypeOK
    <3>2. CASE p \notin Pools
      BY <1>0, <2>3, <3>2 DEF PoolTypeOK
    <3>. QED  BY <3>1, <3>2
  <2>. QED  BY <1>9, <2>2, <2>3 DEF GiveBackConn, GiveBack
<1>10. CASE UNCHANGED poolVars
  BY <1>10, PoolsKept
<1>. QED
  BY <1>1, <1>2, <1>3, <1>4, <1>5, <1>6, <1>7, <1>8, <1>9, <1>10
     DEF ClientStep, SelectHost, LookUp, FindPool, Track, Execute, InvalidateNext, CloseOwn

\* What the client itself knows after its step.
LEMMA StepClient ==
  ASSUME Known, NEW c \in Clients, ClientStep(c)
  PROVE  ClientTypes' /\ ClientKnows(c)'
<1>0. ClientTypes /\ ClientKnows(c) /\ c \in Goroutines /\ cfg' = cfg
  <2>1. cfg' = cfg
    BY DEF ClientStep, SelectHost, LookUp, Dispose, FindPool, ComputePool, GetConn, ResetWorks, ResetFails,
           Relock, Open, Fail, Track, Execute, InvalidateNext, CloseOwn, Close, GiveBackConn
  <2>. QED  BY <2>1, CompositionAssumption DEF Known, ClientsKnow
<1>1. view \in [Clients -> Hosts \cup {None}] /\ writer \in Hosts
  BY DEF Known, TrackerTypeOK
<1>2. None \notin Hosts /\ None \notin Conns
  BY SelectionAssumption, CompositionAssumption
<1>. USE <1>0, <1>1, <1>2
         DEF ClientTypes, ClientKnows, HostKnown, PoolKnown, ConnKnown, ClosingKnown, TrackerKnown,
             Labels, Goto, At
<1>3. CASE SelectHost(c)
  <2>1. selected' \in Hosts \cup {None}
    BY <1>3, StepSelection DEF SelectionTypeOK
  <2>. QED  BY <1>3, <2>1 DEF SelectHost, SelectByStrategy, ConnectsBy, NewPlugin, trackerVars
<1>4. CASE LookUp(c)
  BY <1>4 DEF LookUp, trackerVars
<1>5. CASE Dispose(c)
  BY <1>5 DEF Dispose, trackerVars
<1>6. CASE FindPool(c)
  <2>1. cache[host[c]] # NoItem => cache[host[c]] \in Pools
    BY <1>6, CompositionAssumption DEF Known, CacheTypeOK, FindPool
  <2>2. CASE Found(host[c]) /\ pool' = [pool EXCEPT ![c] = cache[host[c]]] /\ pc' = [pc EXCEPT ![c] = "get"]
    BY <1>6, <2>1, <2>2 DEF FindPool, Found, trackerVars
  <2>3. CASE UNCHANGED pool /\ pc' = [pc EXCEPT ![c] = "compute"]
    BY <1>6, <2>3 DEF FindPool, trackerVars
  <2>. QED  BY <1>6, <2>2, <2>3 DEF FindPool
<1>7. CASE ComputePool(c)
  <2>1. First(FreshPools) \in Pools
    BY <1>7, FreshTypes DEF ComputePool
  <2>. QED  BY <1>7, <2>1 DEF ComputePool, trackerVars
<1>8. CASE GetConn(c)
  <2>1. CASE TakeIdle(pool[c]) /\ conn' = [conn EXCEPT ![c] = Head(pools[pool[c]].idleConns)] /\ Goto(c, "reset")
             /\ UNCHANGED <<cfg, host, pool, closing, victims>>
    <3>1. pools[pool[c]].idleConns \in Seq(Conns) /\ pools[pool[c]].idleConns # <<>>
      BY <1>8, <2>1 DEF Known, PoolTypeOK, TakeIdle, GetConn
    <3>2. Head(pools[pool[c]].idleConns) \in Conns
      BY <3>1
    <3>. QED  BY <1>8, <2>1, <3>2 DEF GetConn, trackerVars
  <2>2. CASE Fail(c)
    BY <1>8, <2>2 DEF GetConn, Fail, trackerVars
  <2>3. CASE Goto(c, "open") /\ UNCHANGED <<cfg, host, pool, conn, closing, victims>>
    BY <1>8, <2>3 DEF GetConn, trackerVars
  <2>. QED  BY <1>8, <2>1, <2>2, <2>3 DEF GetConn
<1>9. CASE ResetWorks(c)
  BY <1>9 DEF ResetWorks, Connected, trackerVars
<1>10. CASE ResetFails(c)
  BY <1>10 DEF ResetFails, trackerVars
<1>11. CASE Relock(c)
  BY <1>11 DEF Relock, Fail, trackerVars
<1>12. CASE Open(c)
  <2>1. FreshConns # {} => First(FreshConns) \in Conns
    BY FreshTypes
  <2>. QED  BY <1>12, <2>1 DEF Open, Fail, Connected, trackerVars
<1>13. CASE Track(c)
  BY <1>13 DEF Track, TrackConnection
<1>14. CASE Execute(c)
  BY <1>14 DEF Execute, RememberWriter, NotifyHostListChanged, CheckWriterChanged, Invalidates
<1>15. CASE InvalidateNext(c)
  <2>1. UNCHANGED <<host, pool, conn, view>>
    BY <1>15 DEF InvalidateNext, Dequeue, QueueEmpty
  <2>2. \/ UNCHANGED closing /\ \E l \in {"using", "invalidate"} : pc' = [pc EXCEPT ![c] = l]
        \/ \E x \in Conns : closing' = [closing EXCEPT ![c] = x] /\ pc' = [pc EXCEPT ![c] = "close"]
    BY <1>15 DEF InvalidateNext
  <2>3. pc[c] = "invalidate"
    BY <1>15 DEF InvalidateNext
  <2>. QED  BY <2>1, <2>2, <2>3
<1>16. CASE CloseOwn(c)
  BY <1>16 DEF CloseOwn, trackerVars
<1>17. CASE Close(c)
  BY <1>17 DEF Close, Closed, trackerVars
<1>18. CASE GiveBackConn(c)
  BY <1>18 DEF GiveBackConn, Closed, trackerVars
<1>. QED  BY <1>3, <1>4, <1>5, <1>6, <1>7, <1>8, <1>9, <1>10, <1>11, <1>12, <1>13,
             <1>14, <1>15, <1>16, <1>17, <1>18 DEF ClientStep

LEMMA Spent ==
  ASSUME cfg \in ConfigSet, NEW b \in {"expiries", "failovers", "changes"}, Spend(b)
  PROVE  /\ cfg' \in ConfigSet /\ cfg'.track = cfg.track /\ cfg'.conns = cfg.conns
BY DEF ConfigSet, Spend

\* The cache's goroutines and the environment.
LEMMA OtherStepKnown ==
  ASSUME Known,
         \/ \E g \in {Cleaner, Releaser} : Dispose(g)
         \/ CleanUp \/ Release \/ ReleaseMap \/ PoolExpires \/ Failover \/ Collect \/ ClusterChanges
         \/ UNCHANGED vars
  PROVE  Known' /\ UNCHANGED <<host, pool, conn, closing, victims>> /\ cfg'.track = cfg.track
                /\ cfg'.conns = cfg.conns /\ \A c \in Clients : pc'[c] = pc[c]
<1>0. Cleaner \in Goroutines \ Clients /\ Releaser \in Goroutines \ Clients /\ ClientTypes
  BY CompositionAssumption DEF Known
<1>1. UNCHANGED <<host, pool, conn, closing, victims>>
  BY DEF Dispose, CleanUp, Release, ReleaseMap, PoolExpires, Failover, Collect, ClusterChanges,
         clientVars, vars
<1>2. pc' \in [Goroutines -> Labels] /\ \A c \in Clients : pc'[c] = pc[c]
  <2>. USE <1>0 DEF ClientTypes, Goto, Labels
  <2>1. CASE \E g \in {Cleaner, Releaser} : Dispose(g)
    BY <2>1 DEF Dispose
  <2>2. CASE CleanUp \/ Release \/ ReleaseMap
    <3>1. \E l \in Labels : \E g \in {Cleaner, Releaser} : pc' = [pc EXCEPT ![g] = l]
      BY <2>2 DEF CleanUp, Release, ReleaseMap
    <3>. QED  BY <3>1
  <2>3. CASE UNCHANGED pc
    BY <2>3
  <2>. QED  BY <2>1, <2>2, <2>3 DEF PoolExpires, Failover, Collect, ClusterChanges, clientVars, vars
<1>3. /\ cfg' \in ConfigSet /\ cfg'.track = cfg.track /\ cfg'.conns = cfg.conns
      /\ SelectionTypeOK' /\ UNCHANGED strategy
      /\ strategy = "highestWeight" => weights' # Invalid
  <2>0. cfg \in ConfigSet /\ SelectionTypeOK /\ (strategy = "highestWeight" => weights # Invalid)
    BY DEF Known, ConfigKnown
  <2>1. CASE ClusterChanges
    <3>1. cfg' \in ConfigSet /\ cfg'.track = cfg.track /\ cfg'.conns = cfg.conns
      BY <2>0, <2>1, Spent DEF ClusterChanges
    <3>2. \E h \in Hosts : \E w \in WeightSets :
            ChangeAvailability(h) \/ EntryExpires(h) \/ ChangeWeights(w)
      BY <2>1, SelectionAssumption DEF ClusterChanges
    <3>. QED  BY <2>0, <3>1, <3>2, ChangeTypes
  <2>2. CASE Release \/ PoolExpires \/ Failover
    <3>1. UNCHANGED selection /\ (Spend("expiries") \/ Spend("failovers"))
      BY <2>2 DEF Release, PoolExpires, Failover
    <3>. QED  BY <2>0, <3>1, Spent, SelectionKept
  <2>3. CASE UNCHANGED <<selection, cfg>>
    BY <2>0, <2>3, SelectionKept
  <2>. QED  BY <2>1, <2>2, <2>3
            DEF Dispose, CleanUp, ReleaseMap, Collect, clientVars, vars
<1>4. TrackerTypeOK' /\ UNCHANGED view
  <2>. USE DEF Known, TrackerTypeOK
  <2>1. CASE Failover
    BY <2>1 DEF Failover, ClusterFailover
  <2>2. CASE Collect
    BY <2>2 DEF Collect, CollectPointer
  <2>3. CASE UNCHANGED trackerVars
    BY <2>3 DEF trackerVars
  <2>. QED  BY <2>1, <2>2, <2>3
            DEF Dispose, CleanUp, Release, ReleaseMap, PoolExpires, ClusterChanges, vars
<1>5. CacheTypeOK' /\ ExpiredKnown' /\ PoolTypeOK'
  <2>1. CASE \E g \in {Cleaner, Releaser} : Dispose(g)
    BY <1>0, <2>1, DisposeTypes
  <2>2. CASE CleanUp
    BY <1>0, <2>2, TakeExpiredTypes, PoolsKept DEF CleanUp, CleanupExpiredItems
  <2>3. CASE Release
    <3>1. GetAllEntries \in SUBSET Items
      BY DEF GetAllEntries, Known, CacheTypeOK
    <3>2. CacheTypeOK' /\ ExpiredKnown'
      BY <1>0, <2>3, <3>1 DEF Release, CopyEntries, Known, CacheTypeOK, ExpiredKnown
    <3>. QED  BY <2>3, <3>2, PoolsKept DEF Release
  <2>4. CASE ReleaseMap
    <3>1. CacheTypeOK' /\ ExpiredKnown'
      BY <2>4 DEF ReleaseMap, EmptyMap, Known, CacheTypeOK, ExpiredKnown
    <3>. QED  BY <2>4, <3>1, PoolsKept DEF ReleaseMap
  <2>5. CASE PoolExpires
    <3>1. CacheTypeOK' /\ ExpiredKnown'
      BY <2>5 DEF PoolExpires, ItemExpires, Known, CacheTypeOK, ExpiredKnown
    <3>. QED  BY <2>5, <3>1, PoolsKept DEF PoolExpires
  <2>6. CASE UNCHANGED <<poolVars, cacheVars>>
    BY <2>6, PoolsKept, CacheKept
  <2>. QED  BY <2>1, <2>2, <2>3, <2>4, <2>5, <2>6 DEF Failover, Collect, ClusterChanges, vars
<1>6. ClientTypes'
  BY <1>0, <1>1, <1>2 DEF ClientTypes
<1>7. ASSUME NEW d \in Clients PROVE ClientKnows(d)'
  <2>1. ClientKnows(d)
    BY DEF Known, ClientsKnow
  <2>. QED  BY <1>1, <1>2, <1>3, <1>4, <2>1
            DEF ClientKnows, HostKnown, PoolKnown, ConnKnown, ClosingKnown, TrackerKnown
<1>. QED  BY <1>1, <1>2, <1>3, <1>4, <1>5, <1>6, <1>7 DEF Known, ConfigKnown, ClientsKnow

LEMMA StepKnown == Known /\ [Next]_vars => Known'
<1>. SUFFICES ASSUME Known, [Next]_vars PROVE Known'
  OBVIOUS
<1>1. ASSUME NEW c \in Clients, ClientStep(c) PROVE Known'
  <2>1. ASSUME NEW d \in Clients PROVE ClientKnows(d)'
    <3>1. CASE d = c
      BY <1>1, <3>1, StepClient
    <3>2. CASE d # c
      <4>1. Untouched(d) /\ ClientKnows(d)
        BY <1>1, <3>2, StepIsLocal DEF Known, ClientsKnow
      <4>. QED  BY <4>1, UntouchedKnows
    <3>. QED  BY <3>1, <3>2
  <2>. QED  BY <1>1, <2>1, StepSelection, StepTracker, StepCache, StepPools, StepClient
            DEF Known, ClientsKnow
<1>. QED  BY <1>1, OtherStepKnown DEF Next

\* In every reachable state of PooledConnections every variable has its type: selectors,
\* pools, tracker, cache and clients agree on what each operation of the code finds
\* (GetHostInfoByStrategy, InternalConnPool.Get, ComputeIfAbsent, Connect, Close).
THEOREM TypeCorrect == Spec => []TypeOK
<1>1. Init => Known
  BY InitKnown
<1>2. Known /\ [Next]_vars => Known'
  BY StepKnown
<1>3. Known => TypeOK
  BY KnownTypes
<1>. QED  BY <1>1, <1>2, <1>3, PTL DEF Spec

-----------------------------------------------------------------------------
(* Where the connections of the pools are *)

LEMMA InitKept == Init => Kept /\ Separate
<1>. SUFFICES ASSUME Init PROVE Kept /\ Separate
  OBVIOUS
<1>1. \A p \in Pools : Idle(p) = {} /\ pools[p].idleConns = <<>>
  BY DEF Init, PoolInit, NewConnPool, Idle, ToSet
<1>2. \A x \in Conns : conns[x] = NoConn
  BY DEF Init, PoolInit
<1>3. \A c \in Clients : Returning(c) = None /\ conn[c] = None /\ closing[c] = None
  BY CompositionAssumption DEF Init, Returning
<1>4. IdleKept /\ ClosedEmpty /\ ClosedGone
  BY <1>1, <1>2 DEF IdleKept, Distinct, ClosedEmpty, ClosedGone
<1>5. ReturningKept /\ ReturnedKept /\ Accounted
  BY <1>2, <1>3 DEF ReturningKept, ReturnedKept, Accounted, NoConn
<1>. QED  BY <1>1, <1>3, <1>4, <1>5 DEF Kept, Separate

LEMMA IdleTypes ==
  ASSUME Known
  PROVE  \A p \in Pools : Idle(p) \subseteq Conns /\ None \notin Idle(p)
BY CompositionAssumption DEF Known, PoolTypeOK, Idle, ToSet

\* The pool in which a connection lies is the one it belongs to.
LEMMA IdleOf ==
  ASSUME Kept, NEW p \in Pools, NEW x \in Idle(p)
  PROVE  /\ conns[x].pool = p /\ conns[x].open /\ conns[x].returned
         /\ \A q \in Pools : x \in Idle(q) => q = p
BY DEF Kept, IdleKept

\* Steps that move no connection of a pool.
LEMMA NothingMoved ==
  ASSUME Kept, UNCHANGED conns,
         \A p \in Pools : UNCHANGED pools[p].idleConns /\ (pools'[p].closed => pools[p].closed),
         \A d \in Clients : UNCHANGED Returning(d),
         \A d \in Clients : {conn[d], closing[d]} \subseteq {conn'[d], closing'[d], None},
         None \notin Conns
  PROVE  Kept'
<1>1. \A p \in Pools : Idle(p)' = Idle(p)
  BY DEF Idle
<1>2. IdleKept' /\ ClosedEmpty' /\ ClosedGone'
  BY <1>1 DEF Kept, IdleKept, Distinct, ClosedEmpty, ClosedGone
<1>3. ReturningKept' /\ ReturnedKept'
  BY <1>1 DEF Kept, ReturningKept, ReturnedKept
<1>4. Accounted'
  BY <1>1 DEF Kept, Accounted
<1>. QED  BY <1>2, <1>3, <1>4 DEF Kept

\* InternalConnPool.Close.
LEMMA DisposeKept ==
  ASSUME Known, Kept, NEW g \in Goroutines, Dispose(g),
         \A d \in Clients : UNCHANGED <<Returning(d), conn[d], closing[d]>>
  PROVE  Kept'
<1>1. PICK p \in disposing[g] : ClosePool(p)
  BY DEF Dispose
<1>2. p \in Pools
  BY CompositionAssumption DEF Known, CacheTypeOK
<1>3. /\ pools'[p] = [idleConns |-> <<>>, closed |-> TRUE, locked |-> FALSE]
      /\ \A q \in Pools \ {p} : pools'[q] = pools[q]
  BY <1>1, <1>2 DEF ClosePool, Known, PoolTypeOK
<1>4. Idle(p)' = {} /\ \A q \in Pools \ {p} : Idle(q)' = Idle(q)
  BY <1>3 DEF Idle, ToSet
<1>5. \A x \in Conns : conns'[x] = IF x \in Idle(p) THEN NoConn ELSE conns[x]
  BY <1>1 DEF ClosePool
<1>6. \A q \in Pools \ {p} : \A x \in Idle(q) : x \notin Idle(p)
  BY <1>2, IdleOf
<1>7. IdleKept' /\ ClosedEmpty' /\ ClosedGone'
  BY <1>2, <1>3, <1>4, <1>5, <1>6, IdleTypes DEF Kept, IdleKept, Distinct, ClosedEmpty, ClosedGone
<1>8. ReturningKept'
  <2>1. ASSUME NEW c \in Clients, Returning(c) # None PROVE Returning(c) \in Conns
    BY <2>1 DEF Known, ClientsKnow, ClientKnows, ConnKnown, ClosingKnown, Returning
  <2>. QED  BY <1>2, <1>4, <1>5, <2>1 DEF Kept, ReturningKept
<1>9. ReturnedKept' /\ Accounted'
  BY <1>2, <1>4, <1>5 DEF Kept, ReturnedKept, Accounted, NoConn
<1>. QED  BY <1>7, <1>8, <1>9 DEF Kept

\* The client's hand before and after a step; the other clients keep theirs.
LEMMA Hands ==
  ASSUME Known, NEW c \in Clients, ClientStep(c)
  PROVE  /\ \A d \in Clients \ {c} : UNCHANGED <<Returning(d), conn[d], closing[d]>>
         /\ \A d \in Clients : Returning(d) # None => Returning(d) \in Conns
         /\ Known'
<1>1. \A d \in Clients \ {c} : UNCHANGED <<pc[d], conn[d], closing[d]>>
  BY StepIsLocal DEF Untouched
<1>2. \A d \in Clients : Returning(d) # None => Returning(d) \in Conns
  BY DEF Known, ClientsKnow, ClientKnows, ConnKnown, ClosingKnown, Returning
<1>. QED  BY <1>1, <1>2, StepKnown DEF Returning, Next

\* A pool that was closed, and whose name is used again, has no connection any more.
LEMMA ComputePoolKept ==
  ASSUME Known, Kept, NEW c \in Clients, ClientStep(c), ComputePool(c)
  PROVE  Kept'
<1>. DEFINE p == First(FreshPools)
<1>1. p \in FreshPools /\ p \in Pools
  BY FreshTypes DEF ComputePool
<1>2. pools' = [pools EXCEPT ![p] = NewConnPool] /\ UNCHANGED <<conns, conn, closing>>
  BY DEF ComputePool, CreatePool
<1>3. \A x \in Conns : conns[x].pool = p => ~ conns[x].open
  BY <1>1 DEF FreshPools, FreshConns
<1>4. pc[c] = "compute" /\ pc'[c] = "get"
  BY CompositionAssumption DEF ComputePool, At, Goto, Known, ClientTypes
<1>. HIDE DEF p
<1>5. Idle(p) = {}
  BY <1>1, <1>3, IdleTypes DEF Kept, IdleKept
<1>6. pools[p].idleConns = <<>>
  <2>1. pools[p].idleConns \in Seq(Conns)
    BY <1>1 DEF Known, PoolTypeOK
  <2>2. ASSUME pools[p].idleConns # <<>> PROVE FALSE
    <3>1. 1 \in DOMAIN pools[p].idleConns
      BY <2>1, <2>2, EmptySeq
    <3>. QED  BY <1>5, <3>1 DEF Idle, ToSet
  <2>. QED  BY <2>2
<1>7. \A q \in Pools : UNCHANGED pools[q].idleConns /\ (pools'[q].closed => pools[q].closed)
  BY <1>1, <1>2, <1>6 DEF Known, PoolTypeOK, NewConnPool
<1>8. \A d \in Clients : UNCHANGED Returning(d)
  BY <1>4, Hands DEF Returning
<1>. QED  BY <1>2, <1>7, <1>8, NothingMoved, CompositionAssumption

\* Get takes the first idle connection.
LEMMA TakeIdleKept ==
  ASSUME Known, Kept, NEW c \in Clients, ClientStep(c), At(c, "get"), TakeIdle(pool[c]),
         conn' = [conn EXCEPT ![c] = Head(pools[pool[c]].idleConns)], Goto(c, "reset"),
         UNCHANGED closing
  PROVE  Kept'
<1>1. pool[c] \in Pools /\ conn[c] = None /\ closing[c] = None /\ pc[c] = "get"
  BY DEF Known, ClientsKnow, ClientKnows, PoolKnown, ConnKnown, ClosingKnown, At
<1>. PICK p \in Pools : p = pool[c]
  BY <1>1
<1>. PICK s : s = pools[p].idleConns
  OBVIOUS
<1>. PICK x : x = Head(s)
  OBVIOUS
<1>2. s \in Seq(Conns) /\ s # <<>> /\ Distinct(s)
  BY <1>1 DEF TakeIdle, Kept, IdleKept, Known, PoolTypeOK
<1>3. pools' = [pools EXCEPT ![p].idleConns = Tail(s)] /\ ~ pools[p].closed /\ UNCHANGED conns
  BY DEF TakeIdle
<1>4. conn'[c] = x /\ pc'[c] = "reset"
  BY CompositionAssumption DEF Known, ClientTypes, Goto
<1>5. /\ x \in ToSet(s) /\ ToSet(Tail(s)) = ToSet(s) \ {x} /\ Distinct(Tail(s)) /\ Tail(s) \in Seq(Conns)
  BY <1>2, TailSet
<1>6. /\ pools'[p].idleConns = Tail(s) /\ pools'[p].closed = pools[p].closed
      /\ \A q \in Pools \ {p} : pools'[q] = pools[q]
  BY <1>1, <1>3 DEF Known, PoolTypeOK
<1>7. /\ x \in Idle(p) /\ Idle(p)' = Idle(p) \ {x}
      /\ \A q \in Pools \ {p} : Idle(q)' = Idle(q)
  BY <1>5, <1>6 DEF Idle
<1>8. x \in Conns /\ x # None
  BY <1>1, <1>7, IdleTypes
<1>9. /\ conns[x].pool = p /\ conns[x].open /\ conns[x].returned
      /\ \A q \in Pools : x \in Idle(q) => q = p
  BY <1>1, <1>7, IdleOf
<1>10. Returning(c) = None /\ Returning(c)' = x
  BY <1>1, <1>4 DEF Returning
<1>11. IdleKept'
  BY <1>1, <1>3, <1>5, <1>6, <1>7 DEF Kept, IdleKept
<1>12. ReturningKept'
  BY <1>1, <1>3, <1>7, <1>9, <1>10, Hands DEF Kept, ReturningKept
<1>13. ReturnedKept'
  BY <1>3, <1>7, <1>9, <1>10, Hands, CompositionAssumption DEF Kept, ReturnedKept
<1>14. Accounted'
  BY <1>1, <1>3, <1>4, <1>7, <1>9, Hands, CompositionAssumption DEF Kept, Accounted
<1>15. ClosedEmpty' /\ ClosedGone'
  BY <1>1, <1>3, <1>6 DEF Kept, ClosedEmpty, ClosedGone
<1>. QED  BY <1>11, <1>12, <1>13, <1>14, <1>15 DEF Kept

\* A connection leaves the hand that holds it on its way, closed or used again.
LEMMA HandEmptied ==
  ASSUME Known, Kept, NEW c \in Clients, ClientStep(c), UNCHANGED pools,
         NEW x \in Conns, Returning(c) = x, Returning(c)' = None,
         \A y \in Conns \ {x} : conns'[y] = conns[y],
         \/ conns'[x] = NoConn
         \/ /\ conns'[x].pool = conns[x].pool /\ conns'[x].open /\ ~ conns'[x].returned
            /\ x \in {conn[c], closing[c]}',
         {conn[c], closing[c]} \subseteq {conn'[c], closing'[c], None, x}
  PROVE  Kept'
<1>0. NoPool \notin Pools /\ None \notin Conns
  BY PoolAssumption, CompositionAssumption
<1>1. \A p \in Pools : Idle(p)' = Idle(p) /\ x \notin Idle(p) /\ Idle(p) \subseteq Conns
  BY <1>0, IdleTypes DEF Idle, Kept, ReturningKept
<1>2. \A d \in Clients \ {c} : Returning(d) # x
  BY <1>0 DEF Kept, ReturningKept
<1>3. IdleKept' /\ ClosedEmpty' /\ ClosedGone'
  BY <1>1 DEF Kept, IdleKept, ClosedEmpty, ClosedGone
<1>4. ReturningKept'
  BY <1>1, <1>2, Hands DEF Kept, ReturningKept
<1>5. ReturnedKept' /\ Accounted'
  BY <1>0, <1>1, <1>2, Hands DEF Kept, ReturnedKept, Accounted, NoConn
<1>. QED  BY <1>3, <1>4, <1>5 DEF Kept

\* The driver opens a connection, for a pool or not.
LEMMA OpenKept ==
  ASSUME Known, Kept, NEW c \in Clients, ClientStep(c), At(c, "open"), FreshConns # {},
         OpenConn(First(FreshConns), pool[c]), conn' = [conn EXCEPT ![c] = First(FreshConns)],
         Connected(c), UNCHANGED closing
  PROVE  Kept'
<1>1. PICK x \in Conns : x = First(FreshConns) /\ ~ conns[x].open
  BY FreshTypes DEF FreshConns
<1>2. UNCHANGED pools /\ conns' = [conns EXCEPT ![x] = [pool |-> pool[c], open |-> TRUE, returned |-> FALSE]]
  BY <1>1 DEF OpenConn
<1>3. /\ conns'[x].open /\ ~ conns'[x].returned
      /\ \A y \in Conns \ {x} : conns'[y] = conns[y]
  BY <1>2 DEF Known, PoolTypeOK
<1>4. conn'[c] = x /\ conn[c] = None /\ closing[c] = None /\ None \notin Conns
  BY <1>1, CompositionAssumption DEF Known, ClientTypes, ClientsKnow, ClientKnows, ConnKnown, ClosingKnown, At
<1>5. Returning(c) = None /\ Returning(c)' = None
  BY CompositionAssumption DEF At, Connected, Goto, Known, ClientTypes, Returning
<1>6. \A p \in Pools : Idle(p)' = Idle(p) /\ x \notin Idle(p) /\ Idle(p) \subseteq Conns
  BY <1>1, <1>2, IdleTypes, IdleOf DEF Idle
<1>7. \A d \in Clients : Returning(d) # x
  BY <1>1, <1>4 DEF Kept, ReturningKept
<1>8. IdleKept' /\ ClosedEmpty' /\ ClosedGone'
  BY <1>2, <1>3, <1>6 DEF Kept, IdleKept, ClosedEmpty, ClosedGone
<1>9. ReturningKept'
  BY <1>3, <1>5, <1>6, <1>7, Hands DEF Kept, ReturningKept
<1>10. ReturnedKept'
  BY <1>3, <1>4, <1>5, <1>6, Hands DEF Kept, ReturnedKept
<1>11. Accounted'
  BY <1>3, <1>4, <1>6, Hands DEF Kept, Accounted
<1>. QED  BY <1>8, <1>9, <1>10, <1>11 DEF Kept

\* internalPooledConn.Close: the driver's connection is closed, a handle that was given
\* back is left alone, any other is marked.
LEMMA CloseKept ==
  ASSUME Known, Kept, NEW c \in Clients, ClientStep(c), Close(c)
  PROVE  Kept'
<1>1. PICK x \in Conns : x = closing[c]
  BY DEF Close, At, Known, ClientsKnow, ClientKnows, ClosingKnown
<1>2. Returning(c) = None /\ UNCHANGED conn /\ None \notin Conns /\ NoPool \notin Pools
  BY CompositionAssumption, PoolAssumption DEF Returning, Close, At
<1>3. CASE conns[x].pool = NoPool /\ CloseConn(x) /\ Closed(c)
  <2>1. UNCHANGED pools /\ conns'[x] = NoConn /\ \A y \in Conns \ {x} : conns'[y] = conns[y]
    BY <1>3 DEF CloseConn, Known, PoolTypeOK
  <2>2. Returning(c)' = None /\ closing'[c] = None
    BY <1>3, CompositionAssumption DEF Closed, Goto, Returning, Known, ClientTypes
  <2>3. \A p \in Pools : Idle(p)' = Idle(p) /\ x \notin Idle(p) /\ Idle(p) \subseteq Conns
    BY <1>2, <1>3, <2>1, IdleTypes, IdleOf DEF Idle
  <2>4. \A d \in Clients : Returning(d) # x
    BY <1>2, <1>3 DEF Kept, ReturningKept
  <2>5. IdleKept' /\ ClosedEmpty' /\ ClosedGone'
    BY <2>1, <2>3 DEF Kept, IdleKept, ClosedEmpty, ClosedGone
  <2>6. ReturningKept'
    BY <2>1, <2>2, <2>3, <2>4, Hands DEF Kept, ReturningKept
  <2>7. ReturnedKept'
    BY <1>2, <2>1, <2>2, <2>3, Hands DEF Kept, ReturnedKept, NoConn
  <2>8. Accounted'
    BY <1>1, <1>2, <2>1, <2>3, Hands DEF Kept, Accounted, NoConn
  <2>. QED  BY <2>5, <2>6, <2>7, <2>8 DEF Kept
<1>4. CASE conns[x].pool # NoPool /\ conns[x].returned /\ UNCHANGED poolVars /\ Closed(c)
  <2>1. UNCHANGED <<pools, conns>> /\ \A p \in Pools : Idle(p)' = Idle(p)
    BY <1>4 DEF poolVars, Idle
  <2>2. Returning(c)' = None
    BY <1>4, CompositionAssumption DEF Closed, Goto, Returning, Known, ClientTypes
  <2>3. \A d \in Clients : UNCHANGED Returning(d)
    BY <1>2, <2>2, Hands
  <2>4. IdleKept' /\ ClosedEmpty' /\ ClosedGone' /\ ReturningKept' /\ ReturnedKept'
    BY <2>1, <2>3
       DEF Kept, IdleKept, ClosedEmpty, ClosedGone, ReturningKept, ReturnedKept
  <2>5. Accounted'
    <3>. SUFFICES ASSUME NEW y \in Conns, conns[y].open, conns[y].pool \in Pools, y \notin Idle(conns[y].pool)
                  PROVE  \E d \in Clients : y \in {conn'[d], closing'[d]}
      BY <2>1 DEF Accounted
    <3>1. CASE y = x
      <4>1. PICK d \in Clients : Returning(d) = x
        BY <1>4, <3>1 DEF Kept, ReturnedKept
      <4>2. d # c /\ x \in {conn[d], closing[d]}
        BY <1>2, <4>1 DEF Returning
      <4>. QED  BY <3>1, <4>2, Hands
    <3>2. CASE y # x
      BY <1>1, <1>2, <3>2, Hands DEF Kept, Accounted
    <3>. QED  BY <3>1, <3>2
  <2>. QED  BY <2>4, <2>5 DEF Kept
<1>5. CASE conns[x].pool # NoPool /\ ~ conns[x].returned /\ MarkReturned(x) /\ Goto(c, "giveback")
           /\ UNCHANGED closing
  <2>1. conns[x].open /\ conns[x].pool \in Pools
    BY <1>5 DEF Kept, ClosedGone, NoConn, Known, PoolTypeOK
  <2>2. /\ UNCHANGED pools /\ conns'[x].returned /\ conns'[x].open
        /\ conns'[x].pool = conns[x].pool /\ \A y \in Conns \ {x} : conns'[y] = conns[y]
    BY <1>5, <2>1 DEF MarkReturned, Known, PoolTypeOK
  <2>3. Returning(c)' = x
    BY <1>1, <1>5, CompositionAssumption DEF Goto, Returning, Known, ClientTypes
  <2>4. \A p \in Pools : Idle(p)' = Idle(p) /\ x \notin Idle(p) /\ Idle(p) \subseteq Conns
    BY <1>5, <2>2, IdleTypes, IdleOf DEF Idle
  <2>5. \A d \in Clients : Returning(d) # x
    BY <1>2, <1>5 DEF Kept, ReturningKept
  <2>6. IdleKept' /\ ClosedEmpty' /\ ClosedGone'
    BY <2>1, <2>2, <2>4 DEF Kept, IdleKept, ClosedEmpty, ClosedGone
  <2>7. ReturningKept'
    BY <2>1, <2>2, <2>3, <2>4, <2>5, Hands DEF Kept, ReturningKept
  <2>8. ReturnedKept'
    BY <1>2, <2>2, <2>3, <2>4, Hands DEF Kept, ReturnedKept
  <2>9. Accounted'
    BY <1>1, <1>2, <1>5, <2>2, <2>4, Hands DEF Kept, Accounted
  <2>. QED  BY <2>6, <2>7, <2>8, <2>9 DEF Kept
<1>. QED  BY <1>1, <1>3, <1>4, <1>5 DEF Close

\* The connection goes back to its pool, or is closed.
LEMMA GiveBackKept ==
  ASSUME Known, Kept, NEW c \in Clients, ClientStep(c), GiveBackConn(c)
  PROVE  Kept'
<1>1. PICK x \in Conns : x = closing[c]
  BY DEF GiveBackConn, At, Known, ClientsKnow, ClientKnows, ClosingKnown
<1>2. Returning(c) = x /\ UNCHANGED conn /\ None \notin Conns
  BY <1>1, CompositionAssumption DEF Returning, GiveBackConn, At
<1>3. Returning(c)' = None /\ closing'[c] = None
  BY CompositionAssumption DEF GiveBackConn, Closed, Goto, Returning, Known, ClientTypes
<1>4. PICK p \in Pools : p = conns[x].pool
  BY <1>2 DEF Kept, ReturningKept
<1>5. CASE CloseConn(x)
  <2>1. UNCHANGED pools /\ conns'[x] = NoConn /\ \A y \in Conns \ {x} : conns'[y] = conns[y]
    BY <1>5 DEF CloseConn, Known, PoolTypeOK
  <2>2. {conn[c], closing[c]} \subseteq {conn'[c], closing'[c], None, x}
    BY <1>1, <1>2
  <2>. QED  BY <1>2, <1>3, <2>1, <2>2, HandEmptied
<1>6. CASE ~ pools[p].closed /\ pools' = [pools EXCEPT ![p].idleConns = Append(@, x)] /\ UNCHANGED conns
  <2>1. PICK s \in Seq(Conns) : s = pools[p].idleConns /\ Distinct(s)
    BY DEF Known, PoolTypeOK, Kept, IdleKept
  <2>2. /\ pools'[p].idleConns = Append(s, x) /\ pools'[p].closed = pools[p].closed
        /\ \A q \in Pools \ {p} : pools'[q] = pools[q]
    BY <1>6, <2>1 DEF Known, PoolTypeOK
  <2>3. /\ x \notin Idle(p) /\ conns[x].open /\ conns[x].returned
        /\ \A d \in Clients \ {c} : Returning(d) # x
    BY <1>2 DEF Kept, ReturningKept
  <2>4. ToSet(Append(s, x)) = Idle(p) \cup {x} /\ Distinct(Append(s, x))
    BY <2>1, <2>3, AppendSet DEF Idle
  <2>5. Idle(p)' = Idle(p) \cup {x} /\ \A q \in Pools \ {p} : Idle(q)' = Idle(q)
    BY <2>2, <2>4 DEF Idle
  <2>6. IdleKept'
    <3>. SUFFICES ASSUME NEW q \in Pools
                  PROVE  /\ \A y \in Idle(q)' : conns[y].pool = q /\ conns[y].open /\ conns[y].returned
                         /\ Distinct(pools'[q].idleConns)
      BY <1>6 DEF IdleKept
    <3>1. CASE q = p
      BY <1>4, <2>2, <2>3, <2>4, <2>5, <3>1 DEF Kept, IdleKept
    <3>2. CASE q # p
      BY <2>2, <2>5, <3>2 DEF Kept, IdleKept
    <3>. QED  BY <3>1, <3>2
  <2>7. ReturningKept'
    BY <1>3, <1>6, <2>3, <2>5, Hands DEF Kept, ReturningKept
  <2>8. ReturnedKept'
    BY <1>2, <1>4, <1>6, <2>5, Hands DEF Kept, ReturnedKept
  <2>9. Accounted'
    BY <1>1, <1>2, <1>4, <1>6, <2>5, Hands DEF Kept, Accounted
  <2>10. ClosedEmpty' /\ ClosedGone'
    BY <1>6, <2>2 DEF Kept, ClosedEmpty, ClosedGone
  <2>. QED  BY <2>6, <2>7, <2>8, <2>9, <2>10 DEF Kept
<1>. QED  BY <1>1, <1>4, <1>5, <1>6 DEF GiveBackConn, GiveBack

\* A client's step that moves no connection of a pool.
LEMMA QuietStepKept ==
  ASSUME Known, Kept, NEW c \in Clients, ClientStep(c), UNCHANGED poolVars, UNCHANGED Returning(c),
         {conn[c], closing[c]} \subseteq {conn'[c], closing'[c], None}
  PROVE  Kept'
<1>1. \A d \in Clients : UNCHANGED Returning(d) /\ {conn[d], closing[d]} \subseteq {conn'[d], closing'[d], None}
  BY Hands
<1>. QED  BY <1>1, NothingMoved, CompositionAssumption DEF poolVars

LEMMA ClientStepKept ==
  ASSUME Known, Kept, NEW c \in Clients, ClientStep(c)
  PROVE  Kept'
<1>0. ClientTypes /\ ClientKnows(c) /\ c \in Goroutines /\ c \in Clients /\ None \notin Conns
  BY CompositionAssumption DEF Known, ClientsKnow
<1>1. CASE SelectHost(c) \/ LookUp(c) \/ FindPool(c) \/ Track(c) \/ Execute(c)
  <2>1. /\ UNCHANGED <<poolVars, conn, closing>>
        /\ pc[c] \in {"ready", "lookup", "find", "track", "using"}
    BY <1>1 DEF SelectHost, LookUp, FindPool, Track, Execute, At
  <2>2. pc'[c] \notin {"reset", "giveback"}
    BY <1>0, <1>1, <2>1 DEF SelectHost, ConnectsBy, LookUp, FindPool, Track, Execute, Invalidates, Goto, ClientTypes
  <2>3. Returning(c) = None /\ Returning(c)' = None
    BY <2>1, <2>2 DEF Returning
  <2>. QED  BY <2>1, <2>3, QuietStepKept
<1>2. CASE Dispose(c)
  <2>1. UNCHANGED <<conn, closing>> /\ pc[c] = "dispose" /\ pc'[c] \notin {"reset", "giveback"}
    BY <1>0, <1>2 DEF Dispose, At, Goto, ClientTypes
  <2>2. Returning(c) = None /\ Returning(c)' = None
    BY <2>1 DEF Returning
  <2>. QED  BY <1>0, <1>2, <2>1, <2>2, Hands, DisposeKept
<1>3. CASE ComputePool(c)
  BY <1>3, ComputePoolKept
<1>4. CASE GetConn(c)
  <2>1. CASE TakeIdle(pool[c]) /\ conn' = [conn EXCEPT ![c] = Head(pools[pool[c]].idleConns)] /\ Goto(c, "reset")
             /\ UNCHANGED closing
    BY <1>4, <2>1, TakeIdleKept DEF GetConn
  <2>2. CASE UNCHANGED <<poolVars, closing>> /\ conn'[c] \in {conn[c], None}
             /\ pc'[c] \in {"ready", "open"}
    <3>1. Returning(c) = None /\ Returning(c)' = None /\ conn[c] = None
      BY <1>0, <1>4, <2>2 DEF GetConn, At, Returning, ClientKnows, ConnKnown
    <3>. QED  BY <2>2, <3>1, QuietStepKept
  <2>. QED  BY <1>0, <1>4, <2>1, <2>2 DEF GetConn, GetClosed, NoneIdle, Fail, Goto, ClientTypes
<1>5. CASE ResetWorks(c) \/ ResetFails(c)
  <2>1. PICK x \in Conns : x = conn[c] /\ Returning(c) = x
    BY <1>0, <1>5 DEF ResetWorks, ResetFails, At, ClientKnows, ConnKnown, Returning
  <2>2. Returning(c)' = None /\ UNCHANGED <<pools, closing>>
    BY <1>0, <1>5 DEF ResetWorks, ResetFails, Connected, Goto, ClientTypes, Returning, ReuseConn, CloseConn
  <2>3. \A y \in Conns \ {x} : conns'[y] = conns[y]
    BY <1>5, <2>1 DEF ResetWorks, ResetFails, ReuseConn, CloseConn, Known, PoolTypeOK
  <2>4. CASE ResetWorks(c)
    <3>1. conns[x].open
      BY <1>0, <2>1 DEF Kept, ReturningKept
    <3>2. conns'[x].pool = conns[x].pool /\ conns'[x].open /\ ~ conns'[x].returned
      BY <2>1, <2>4, <3>1 DEF ResetWorks, ReuseConn, Known, PoolTypeOK
    <3>3. UNCHANGED conn
      BY <2>4 DEF ResetWorks
    <3>. QED  BY <2>1, <2>2, <2>3, <3>2, <3>3, HandEmptied
  <2>5. CASE ResetFails(c)
    <3>1. conns'[x] = NoConn
      BY <2>1, <2>5 DEF ResetFails, CloseConn, Known, PoolTypeOK
    <3>. QED  BY <2>1, <2>2, <2>3, <3>1, HandEmptied
  <2>. QED  BY <1>5, <2>4, <2>5
<1>6. CASE Relock(c)
  <2>1. UNCHANGED closing /\ conn[c] = None /\ pool[c] \in Pools /\ Returning(c) = None
    BY <1>0, <1>6 DEF Relock, Fail, At, ClientKnows, ConnKnown, PoolKnown, Returning
  <2>2. Returning(c)' = None
    BY <1>0, <1>6 DEF Relock, Fail, Goto, ClientTypes, Returning
  <2>3. UNCHANGED conns /\ \A p \in Pools : UNCHANGED <<pools[p].idleConns, pools[p].closed>>
    BY <1>6, <2>1 DEF Relock, RelockOpen, RelockClosed, poolVars, Known, PoolTypeOK
  <2>4. \A d \in Clients : UNCHANGED Returning(d) /\ {conn[d], closing[d]} \subseteq {conn'[d], closing'[d], None}
    BY <2>1, <2>2, Hands
  <2>. QED  BY <1>0, <2>3, <2>4, NothingMoved
<1>7. CASE Open(c)
  <2>1. CASE UNCHANGED poolVars /\ Fail(c)
    <3>1. UNCHANGED closing /\ conn[c] = None /\ Returning(c) = None /\ Returning(c)' = None
      BY <1>0, <1>7, <2>1 DEF Open, Fail, At, Goto, ClientTypes, ClientKnows, ConnKnown, Returning
    <3>. QED  BY <2>1, <3>1, QuietStepKept
  <2>. QED  BY <1>7, <2>1, OpenKept DEF Open
<1>8. CASE InvalidateNext(c)
  <2>1. UNCHANGED <<poolVars, conn>> /\ closing[c] = None /\ Returning(c) = None
    BY <1>0, <1>8 DEF InvalidateNext, At, ClientKnows, ClosingKnown, Returning
  <2>2. pc'[c] \in {"close", "using", "invalidate"}
    BY <1>0, <1>8 DEF InvalidateNext, Goto, ClientTypes
  <2>3. Returning(c)' = None
    BY <2>2 DEF Returning
  <2>. QED  BY <2>1, <2>3, QuietStepKept
<1>9. CASE CloseOwn(c)
  <2>1. /\ UNCHANGED poolVars /\ closing[c] = None /\ Returning(c) = None /\ closing'[c] = conn[c]
        /\ Returning(c)' = None
    BY <1>0, <1>9 DEF CloseOwn, At, Goto, ClientTypes, ClientKnows, ClosingKnown, Returning
  <2>. QED  BY <2>1, QuietStepKept
<1>. QED  BY <1>1, <1>2, <1>3, <1>4, <1>5, <1>6, <1>7, <1>8, <1>9, CloseKept, GiveBackKept DEF ClientStep

LEMMA StepKept == Known /\ Kept /\ [Next]_vars => Kept'
<1>. SUFFICES ASSUME Known, Kept, [Next]_vars PROVE Kept'
  OBVIOUS
<1>1. ASSUME NEW c \in Clients, ClientStep(c) PROVE Kept'
  BY <1>1, ClientStepKept
<1>2. ASSUME \/ \E g \in {Cleaner, Releaser} : Dispose(g)
             \/ CleanUp \/ Release \/ ReleaseMap \/ PoolExpires \/ Failover \/ Collect \/ ClusterChanges
             \/ UNCHANGED vars
      PROVE  Kept'
  <2>1. \A d \in Clients : UNCHANGED <<pc[d], conn[d], closing[d]>>
    BY <1>2, OtherStepKnown
  <2>2. \A d \in Clients : UNCHANGED Returning(d)
    BY <2>1 DEF Returning
  <2>3. CASE \E g \in {Cleaner, Releaser} : Dispose(g)
    BY <2>1, <2>2, <2>3, DisposeKept, CompositionAssumption
  <2>4. CASE UNCHANGED poolVars
    BY <2>1, <2>2, <2>4, NothingMoved, CompositionAssumption DEF poolVars
  <2>. QED  BY <1>2, <2>3, <2>4
            DEF CleanUp, Release, ReleaseMap, PoolExpires, Failover, Collect, ClusterChanges, vars
<1>. QED  BY <1>1, <1>2 DEF Next

\* A pool that was closed keeps no connection, however closing, giving back and
\* opening interleave (InternalConnPool.Close, internalPooledConn.Close).
LEMMA PoolsDrained == Spec => []KeepsNoConnection
<1>1. Init => Known /\ Kept
  BY InitKnown, InitKept
<1>2. Known /\ Kept /\ [Next]_vars => (Known /\ Kept)'
  BY StepKnown, StepKept
<1>3. Known /\ Kept => KeepsNoConnection
  <2>. SUFFICES ASSUME Known, Kept, NEW p \in Pools, pools[p].closed
                PROVE  /\ pools[p].idleConns = <<>>
                       /\ \A x \in Conns : conns[x].pool = p /\ conns[x].open =>
                            \E c \in Clients : x \in {conn[c], closing[c]}
    BY DEF KeepsNoConnection
  <2>1. pools[p].idleConns = <<>>
    BY DEF Kept, ClosedEmpty
  <2>2. Idle(p) = {}
    BY <2>1 DEF Idle, ToSet
  <2>. QED  BY <2>1, <2>2 DEF Kept, Accounted
<1>. QED  BY <1>1, <1>2, <1>3, PTL DEF Spec

-----------------------------------------------------------------------------
(* The pools in the cache: what is closed has left the map.                *)

\* A pool is in the cache once, and whoever is about to close one has it no longer
\* there, except the Clear that has copied the entries and not yet emptied the map.
OneKey == \A k, l \in Keys : cache[k] = cache[l] /\ cache[k] # NoItem => k = l
LeftFirst ==
  \A g \in Goroutines, k \in Keys : pc[g] # "empty" /\ cache[k] # NoItem => cache[k] \notin disposing[g]

CacheSound == OneKey /\ LeftFirst /\ CachedPoolsOpen

LEMMA InitCacheSound == Init => CacheSound
BY DEF Init, CacheInit, CacheSound, OneKey, LeftFirst, CachedPoolsOpen

\* Steps that leave the map and the lists of disposals alone, and close no pool.
LEMMA CacheStill ==
  ASSUME Known, CacheSound, UNCHANGED <<cache, disposing>>,
         \A g \in Goroutines : pc[g] = "empty" => pc'[g] = "empty",
         \A p \in Pools :
           /\ pools'[p].closed => pools[p].closed
           /\ pools'[p].locked => pools[p].locked \/ pools[p].closed
  PROVE  CacheSound'
<1>1. \A k \in Keys : cache[k] # NoItem => cache[k] \in Pools
  BY CompositionAssumption DEF Known, CacheTypeOK
<1>2. OneKey' /\ LeftFirst'
  BY DEF CacheSound, OneKey, LeftFirst
<1>3. ASSUME NEW k \in Keys, cache'[k] # NoItem
      PROVE  ~ pools'[cache'[k]].closed /\ ~ pools'[cache'[k]].locked
  <2>1. PICK p \in Pools : p = cache[k] /\ p = cache'[k]
    BY <1>1, <1>3
  <2>2. ~ pools[p].closed /\ ~ pools[p].locked
    BY <1>3, <2>1 DEF CacheSound, CachedPoolsOpen
  <2>3. ~ pools'[p].closed /\ ~ pools'[p].locked
    BY <2>2, Zenon
  <2>. QED  BY <2>1, <2>3, Zenon
<1>. QED  BY <1>2, <1>3 DEF CacheSound, CachedPoolsOpen

\* Expired items leave the map as they are listed for disposal.
LEMMA TakeExpiredSound ==
  ASSUME Known, CacheSound, NEW g \in Goroutines, NEW ks \in SUBSET Keys, TakeExpired(g, ks),
         \A h \in Goroutines \ {g} : pc'[h] = pc[h], UNCHANGED pools
  PROVE  CacheSound'
<1>1. /\ \A k \in Keys : cache'[k] \in {cache[k], NoItem}
      /\ \A k \in ks \cap expired : cache'[k] = NoItem
      /\ disposing' = [disposing EXCEPT ![g] = {cache[k] : k \in ks \cap expired}]
  BY DEF TakeExpired
<1>2. disposing'[g] = {cache[k] : k \in ks \cap expired} /\ \A h \in Goroutines \ {g} : disposing'[h] = disposing[h]
  BY <1>1 DEF Known, CacheTypeOK
<1>3. OneKey'
  BY <1>1 DEF CacheSound, OneKey
<1>4. LeftFirst'
  <2>1. SUFFICES ASSUME NEW h \in Goroutines, NEW k \in Keys, pc'[h] # "empty", cache'[k] # NoItem,
                        cache'[k] \in disposing'[h]
                 PROVE  FALSE
    BY DEF LeftFirst
  <2>2. cache'[k] = cache[k] /\ cache[k] # NoItem /\ k \notin ks \cap expired
    BY <1>1, <2>1
  <2>3. CASE h = g
    <3>1. PICK l \in ks \cap expired : cache[l] = cache[k]
      BY <1>2, <2>1, <2>2, <2>3
    <3>. QED  BY <2>2, <3>1 DEF CacheSound, OneKey
  <2>4. CASE h # g
    BY <1>2, <2>1, <2>2, <2>4 DEF CacheSound, LeftFirst
  <2>. QED  BY <2>3, <2>4
<1>5. CachedPoolsOpen'
  BY <1>1 DEF CacheSound, CachedPoolsOpen
<1>. QED  BY <1>3, <1>4, <1>5 DEF CacheSound

\* The pool that is closed has left the map.
LEMMA DisposeSound ==
  ASSUME Known, CacheSound, NEW g \in Goroutines, Dispose(g)
  PROVE  CacheSound'
<1>1. PICK p \in disposing[g] : ClosePool(p) /\ Disposed(g, p)
  BY DEF Dispose
<1>2. pc[g] = "dispose" /\ \A h \in Goroutines : pc[h] = "empty" => pc'[h] = "empty"
  BY DEF Dispose, At, Goto, Known, ClientTypes
<1>3. UNCHANGED cache /\ \A h \in Goroutines : disposing'[h] \subseteq disposing[h]
  BY <1>1 DEF Disposed, Known, CacheTypeOK
<1>4. \A k \in Keys : cache[k] # NoItem => cache[k] # p /\ cache[k] \in Pools
  BY <1>1, <1>2, CompositionAssumption DEF CacheSound, LeftFirst, Known, CacheTypeOK
<1>5. \A q \in Pools \ {p} : pools'[q] = pools[q]
  BY <1>1 DEF ClosePool, Known, PoolTypeOK
<1>6. OneKey' /\ LeftFirst'
  BY <1>2, <1>3 DEF CacheSound, OneKey, LeftFirst
<1>7. CachedPoolsOpen'
  BY <1>3, <1>4, <1>5 DEF CacheSound, CachedPoolsOpen
<1>. QED  BY <1>6, <1>7 DEF CacheSound

\* The pool that is stored is new, open, and in nobody's list.
LEMMA ComputePoolSound ==
  ASSUME Known, CacheSound, NEW c \in Clients, ComputePool(c)
  PROVE  CacheSound'
<1>1. PICK p \in FreshPools : p \in Pools /\ CreatePool(p) /\ StoreComputed(host[c], p)
  BY FreshTypes DEF ComputePool
<1>2. /\ \A k \in Keys : cache[k] # NoItem => cache[k] # p
      /\ \A g \in Goroutines : p \notin disposing[g]
  BY <1>1 DEF FreshPools, GetAllEntries
<1>3. /\ \A k \in Keys : cache'[k] = IF k = host[c] THEN p ELSE cache[k]
      /\ UNCHANGED disposing
  BY <1>1 DEF StoreComputed, Known, CacheTypeOK
<1>4. \A g \in Goroutines : pc[g] = "empty" => pc'[g] = "empty"
  BY DEF ComputePool, At, Goto, Known, ClientTypes
<1>5. /\ ~ pools'[p].closed /\ ~ pools'[p].locked
      /\ \A q \in Pools \ {p} : pools'[q] = pools[q]
  BY <1>1 DEF CreatePool, NewConnPool, Known, PoolTypeOK
<1>6. OneKey'
  BY <1>2, <1>3 DEF CacheSound, OneKey
<1>7. LeftFirst'
  BY <1>2, <1>3, <1>4 DEF CacheSound, LeftFirst
<1>8. CachedPoolsOpen'
  <2>1. \A k \in Keys : cache[k] # NoItem => cache[k] \in Pools \ {p}
    BY <1>2, CompositionAssumption DEF Known, CacheTypeOK
  <2>. QED  BY <1>3, <1>5, <2>1 DEF CacheSound, CachedPoolsOpen
<1>. QED  BY <1>6, <1>7, <1>8 DEF CacheSound

LEMMA ClientStepSound ==
  ASSUME Known, CacheSound, NEW c \in Clients, ClientStep(c)
  PROVE  CacheSound'
<1>0. c \in Goroutines /\ Keys = Hosts /\ Items = Pools /\ ClientKnows(c) /\ PoolTypeOK
  BY CompositionAssumption DEF Known, ClientsKnow
<1>1. \A g \in Goroutines \ {c} : pc'[g] = pc[g]
  <2>1. pc \in [Goroutines -> Labels]
    BY DEF Known, ClientTypes
  <2>2. UNCHANGED pc \/ \E l : pc' = [pc EXCEPT ![c] = l]
    <3>1. CASE InvalidateNext(c)
      BY <3>1 DEF InvalidateNext, Goto
    <3>2. CASE Execute(c)
      BY <3>2 DEF Execute, Invalidates, Goto
    <3>3. CASE GetConn(c) \/ Relock(c) \/ Open(c)
      BY <3>3 DEF GetConn, Relock, Open, Fail, Connected, Goto
    <3>4. CASE Close(c) \/ GiveBackConn(c)
      BY <3>4 DEF Close, GiveBackConn, Closed, Goto
    <3>. QED  BY <3>1, <3>2, <3>3, <3>4
              DEF ClientStep, SelectHost, LookUp, Dispose, FindPool, ComputePool, ResetWorks, ResetFails,
                  Connected, Track, CloseOwn, Goto
  <2>. QED  BY <2>1, <2>2
<1>2. \A g \in Goroutines : pc[g] = "empty" => pc'[g] = "empty"
  BY <1>0, <1>1 DEF ClientKnows
<1>3. CASE LookUp(c)
  <2>1. {host[c]} \in SUBSET Keys
    BY <1>0, <1>3 DEF ClientKnows, HostKnown, LookUp, At
  <2>. QED  BY <1>0, <1>1, <1>3, <2>1, TakeExpiredSound DEF LookUp, CleanupIfExpired, poolVars
<1>4. CASE Dispose(c)
  BY <1>0, <1>4, DisposeSound
<1>5. CASE ComputePool(c)
  BY <1>5, ComputePoolSound
<1>6. CASE FindPool(c)
  BY <1>2, <1>6, CacheStill DEF FindPool, Found, NotFound, cacheVars, poolVars
<1>7. CASE GetConn(c)
  <2>1. pool[c] \in Pools
    BY <1>0, <1>7 DEF GetConn, At, ClientKnows, PoolKnown
  <2>2. \A p \in Pools : pools'[p].closed = pools[p].closed /\ pools'[p].locked = pools[p].locked
    <3>1. CASE TakeIdle(pool[c])
      BY <1>0, <2>1, <3>1 DEF TakeIdle, PoolTypeOK
    <3>2. CASE UNCHANGED pools
      BY <3>2
    <3>. QED  BY <1>7, <3>1, <3>2 DEF GetConn, GetClosed, NoneIdle, poolVars
  <2>. QED  BY <1>2, <1>7, <2>2, CacheStill DEF GetConn, cacheVars
<1>8. CASE Relock(c)
  <2>1. pool[c] \in Pools
    BY <1>0, <1>8 DEF Relock, At, ClientKnows, PoolKnown
  <2>2. \A p \in Pools : /\ pools'[p].closed = pools[p].closed
                         /\ pools'[p].locked => pools[p].locked \/ pools[p].closed
    BY <1>0, <1>8, <2>1 DEF Relock, RelockOpen, RelockClosed, poolVars, PoolTypeOK
  <2>. QED  BY <1>2, <1>8, <2>2, CacheStill DEF Relock, cacheVars
<1>9. CASE GiveBackConn(c)
  <2>1. \A p \in Pools : pools'[p].closed = pools[p].closed /\ pools'[p].locked = pools[p].locked
    <3>1. CASE UNCHANGED pools
      BY <3>1
    <3>2. CASE \E p, s : pools' = [pools EXCEPT ![p].idleConns = s]
      BY <1>0, <3>2 DEF PoolTypeOK
    <3>3. UNCHANGED pools \/ \E p, s : pools' = [pools EXCEPT ![p].idleConns = s]
      <4>1. PICK p : p = conns[closing[c]].pool
        OBVIOUS
      <4>2. UNCHANGED pools \/ pools' = [pools EXCEPT ![p].idleConns = Append(pools[p].idleConns, closing[c])]
        BY <1>9, <4>1 DEF GiveBackConn, GiveBack, CloseConn
      <4>. QED  BY <4>2
    <3>. QED  BY <3>1, <3>2, <3>3
  <2>. QED  BY <1>2, <1>9, <2>1, CacheStill DEF GiveBackConn, cacheVars
<1>10. CASE UNCHANGED <<cacheVars, pools>>
  BY <1>2, <1>10, CacheStill DEF cacheVars
<1>. QED
  BY <1>3, <1>4, <1>5, <1>6, <1>7, <1>8, <1>9, <1>10
     DEF ClientStep, SelectHost, ResetWorks, ReuseConn, ResetFails, CloseConn, Open, OpenConn, Track,
         Execute, InvalidateNext, CloseOwn, Close, MarkReturned, poolVars

LEMMA StepCacheSound == Known /\ CacheSound /\ [Next]_vars => CacheSound'
<1>. SUFFICES ASSUME Known, CacheSound, [Next]_vars PROVE CacheSound'
  OBVIOUS
<1>0. /\ Cleaner \in Goroutines /\ Releaser \in Goroutines /\ pc \in [Goroutines -> Labels]
      /\ Keys \in SUBSET Keys
  BY CompositionAssumption DEF Known, ClientTypes
<1>1. ASSUME NEW c \in Clients, ClientStep(c) PROVE CacheSound'
  BY <1>1, ClientStepSound
<1>2. ASSUME NEW g \in {Cleaner, Releaser}, Dispose(g) PROVE CacheSound'
  BY <1>0, <1>2, DisposeSound
<1>3. CASE CleanUp
  BY <1>0, <1>3, TakeExpiredSound DEF CleanUp, CleanupExpiredItems, Goto, poolVars
<1>4. CASE Release
  <2>1. /\ UNCHANGED <<cache, pools>> /\ pc'[Releaser] = "empty"
        /\ \A g \in Goroutines \ {Releaser} : pc'[g] = pc[g] /\ disposing'[g] = disposing[g]
    BY <1>0, <1>4 DEF Release, CopyEntries, Goto, poolVars, Known, CacheTypeOK
  <2>. QED  BY <2>1 DEF CacheSound, OneKey, LeftFirst, CachedPoolsOpen
<1>5. CASE ReleaseMap
  BY <1>5 DEF ReleaseMap, EmptyMap, CacheSound, OneKey, LeftFirst, CachedPoolsOpen
<1>6. CASE PoolExpires \/ Failover \/ Collect \/ ClusterChanges \/ UNCHANGED vars
  <2>1. UNCHANGED <<cache, disposing, pools, pc>>
    BY <1>6 DEF PoolExpires, ItemExpires, Failover, Collect, ClusterChanges, vars, cacheVars, poolVars, clientVars
  <2>. QED  BY <2>1, CacheStill
<1>. QED  BY <1>1, <1>2, <1>3, <1>4, <1>5, <1>6 DEF Next

\* The cache hands out open pools whose mutex is free, however expiry, Clear and
\* ComputeIfAbsent meet (SlidingExpirationCache, InternalPooledConnectionProvider).
THEOREM CachedPoolsAreOpen == Spec => []CachedPoolsOpen
<1>1. Init => Known /\ CacheSound
  BY InitKnown, InitCacheSound
<1>2. Known /\ CacheSound /\ [Next]_vars => (Known /\ CacheSound)'
  BY StepKnown, StepCacheSound
<1>3. CacheSound => CachedPoolsOpen
  BY DEF CacheSound
<1>. QED  BY <1>1, <1>2, <1>3, PTL DEF Spec

\* A pool that was closed keeps no connection and is not found in the cache, however
\* Get, Close of a connection, expiry and release meet (InternalConnPool.Close,
\* internalPooledConn.Close, SlidingExpirationCache).
THEOREM ClosedPoolsDrained == Spec => []ClosedPoolDrained
<1>1. KeepsNoConnection /\ CachedPoolsOpen => ClosedPoolDrained
  BY DEF ClosedPoolDrained
<1>. QED  BY <1>1, PoolsDrained, CachedPoolsAreOpen, PTL

-----------------------------------------------------------------------------
(* One holder *)

\* Without the tracker a client only closes what it used itself.
LEMMA StepSeparate == Known /\ Kept /\ Separate /\ [Next]_vars => Separate'
<1>. SUFFICES ASSUME Known, Kept, Separate, [Next]_vars, ~ cfg'.track PROVE Separate'
  BY DEF Separate
<1>1. ASSUME \A d \in Clients : UNCHANGED <<conn[d], closing[d]>>, ~ cfg.track,
             \A p \in Pools : Idle(p)' \subseteq Idle(p)
      PROVE  Separate'
  BY <1>1 DEF Separate
<1>2. ASSUME NEW g \in Goroutines, Dispose(g) PROVE \A p \in Pools : Idle(p)' \subseteq Idle(p)
  <2>1. PICK p \in disposing[g] : ClosePool(p)
    BY <1>2 DEF Dispose
  <2>2. p \in Pools
    BY CompositionAssumption DEF Known, CacheTypeOK
  <2>3. pools'[p].idleConns = <<>> /\ \A q \in Pools \ {p} : pools'[q] = pools[q]
    BY <2>1, <2>2 DEF ClosePool, Known, PoolTypeOK
  <2>. QED  BY <2>3 DEF Idle, ToSet
<1>3. ASSUME \/ \E g \in {Cleaner, Releaser} : Dispose(g)
             \/ CleanUp \/ Release \/ ReleaseMap \/ PoolExpires \/ Failover \/ Collect \/ ClusterChanges
             \/ UNCHANGED vars
      PROVE  Separate'
  <2>1. /\ \A d \in Clients : UNCHANGED <<conn[d], closing[d]>>
        /\ ~ cfg.track
    BY <1>3, OtherStepKnown
  <2>2. CASE \E g \in {Cleaner, Releaser} : Dispose(g)
    BY <1>1, <1>2, <2>1, <2>2, CompositionAssumption
  <2>3. CASE UNCHANGED poolVars
    BY <1>1, <2>1, <2>3 DEF poolVars, Idle
  <2>. QED  BY <1>3, <2>2, <2>3
            DEF CleanUp, Release, ReleaseMap, PoolExpires, Failover, Collect, ClusterChanges, vars
<1>4. ASSUME NEW c \in Clients, ClientStep(c) PROVE Separate'
  <2>0. /\ ClientTypes /\ ClientKnows(c) /\ c \in Goroutines /\ None \notin Conns
        /\ \A d \in Clients \ {c} : UNCHANGED <<conn[d], closing[d]>>
        /\ \A p \in Pools : Idle(p) \subseteq Conns
    BY <1>4, CompositionAssumption, Hands, IdleTypes DEF Known, ClientsKnow
  <2>1. ~ cfg.track
    <3>1. UNCHANGED cfg
      BY <1>4 DEF ClientStep, SelectHost, LookUp, Dispose, FindPool, ComputePool, GetConn, ResetWorks, ResetFails,
           Relock, Open, Fail, Track, Execute, InvalidateNext, CloseOwn, Close, GiveBackConn
    <3>. QED  BY <3>1
  \* The client's connection goes, or moves to the one it is closing.
  <2>2. ASSUME \A p \in Pools : Idle(p)' \subseteq Idle(p),
               conn'[c] \in {conn[c], None}, closing'[c] \in {conn[c], closing[c], None},
               closing'[c] # None => conn'[c] = None \/ closing'[c] = closing[c]
        PROVE  Separate'
    BY <2>0, <2>1, <2>2 DEF Separate
  <2>3. CASE SelectHost(c) \/ LookUp(c) \/ FindPool(c) \/ ResetWorks(c) \/ Relock(c) \/ Track(c) \/ Execute(c)
    <3>1. UNCHANGED closing /\ conn'[c] \in {conn[c], None}
      BY <2>0, <2>3 DEF SelectHost, LookUp, FindPool, ResetWorks, Relock, Fail, Track, Execute, ClientTypes
    <3>2. \A p \in Pools : UNCHANGED pools[p].idleConns
      <4>1. CASE UNCHANGED pools
        BY <4>1
      <4>2. CASE Relock(c)
        <5>1. pool[c] \in Pools
          BY <2>0, <4>2 DEF Relock, At, ClientKnows, PoolKnown
        <5>2. CASE pools' = [pools EXCEPT ![pool[c]].locked = TRUE]
          BY <5>1, <5>2 DEF Known, PoolTypeOK
        <5>. QED  BY <4>1, <4>2, <5>2 DEF Relock, RelockOpen, RelockClosed, poolVars
      <4>. QED  BY <2>3, <4>1, <4>2
                DEF SelectHost, LookUp, FindPool, ResetWorks, ReuseConn, Track, Execute, poolVars
    <3>. QED  BY <2>2, <3>1, <3>2 DEF Idle
  <2>4. CASE Dispose(c)
    <3>1. UNCHANGED <<conn, closing>>
      BY <2>4 DEF Dispose
    <3>. QED  BY <1>1, <1>2, <2>0, <2>1, <2>4, <3>1
  <2>5. CASE ComputePool(c)
    <3>1. First(FreshPools) \in Pools /\ UNCHANGED <<conn, closing>>
      BY <2>5, FreshTypes DEF ComputePool
    <3>2. \A p \in Pools : pools'[p].idleConns \in {pools[p].idleConns, <<>>}
      BY <2>5, <3>1 DEF ComputePool, CreatePool, NewConnPool, Known, PoolTypeOK
    <3>. QED  BY <2>2, <3>1, <3>2 DEF Idle, ToSet
  <2>6. CASE GetConn(c)
    <3>1. CASE TakeIdle(pool[c]) /\ conn' = [conn EXCEPT ![c] = Head(pools[pool[c]].idleConns)] /\ UNCHANGED closing
      <4>1. PICK p \in Pools : p = pool[c]
        BY <2>0, <2>6 DEF GetConn, At, ClientKnows, PoolKnown
      <4>2. PICK s \in Seq(Conns) : s = pools[p].idleConns /\ s # <<>> /\ Distinct(s)
        BY <3>1, <4>1 DEF TakeIdle, Kept, IdleKept, Known, PoolTypeOK
      <4>3. pools'[p].idleConns = Tail(s) /\ \A q \in Pools \ {p} : pools'[q] = pools[q]
        BY <3>1, <4>1, <4>2 DEF TakeIdle, Known, PoolTypeOK
      <4>4. PICK x \in Idle(p) : x = conn'[c]
        BY <2>0, <3>1, <4>1, <4>2, TailSet DEF Idle, ClientTypes
      <4>5. Idle(p)' = Idle(p) \ {x} /\ \A q \in Pools \ {p} : Idle(q)' = Idle(q)
        BY <2>0, <3>1, <4>1, <4>2, <4>3, <4>4, TailSet DEF Idle, ClientTypes
      <4>6. \A q \in Pools : x \notin Idle(q)'
        BY <4>4, <4>5, IdleOf
      <4>7. UNCHANGED closing /\ closing[c] = None
        BY <2>0, <2>6, <3>1 DEF GetConn, At, ClientKnows, ClosingKnown
      <4>8. \A d \in Clients : x # conn[d] /\ x # closing[d]
        BY <2>1, <4>4 DEF Separate
      <4>. QED  BY <2>0, <2>1, <4>4, <4>5, <4>6, <4>7, <4>8 DEF Separate
    <3>2. CASE UNCHANGED <<poolVars, closing>> /\ conn'[c] \in {conn[c], None}
      BY <2>2, <3>2 DEF poolVars, Idle
    <3>. QED  BY <2>0, <2>6, <3>1, <3>2 DEF GetConn, GetClosed, NoneIdle, Fail, ClientTypes
  <2>7. CASE ResetFails(c)
    <3>1. UNCHANGED <<pools, closing>> /\ conn'[c] = None
      BY <2>0, <2>7 DEF ResetFails, CloseConn, ClientTypes
    <3>. QED  BY <2>2, <3>1 DEF Idle
  <2>8. CASE Open(c)
    <3>1. UNCHANGED <<pools, closing>>
      BY <2>8 DEF Open, Fail, OpenConn, poolVars
    <3>2. CASE Fail(c)
      BY <2>0, <2>2, <3>1, <3>2 DEF Fail, ClientTypes, Idle
    <3>3. CASE FreshConns # {} /\ conn' = [conn EXCEPT ![c] = First(FreshConns)]
      <4>1. PICK x \in Conns : x = First(FreshConns) /\ ~ conns[x].open
                               /\ \A d \in Clients : x \notin {conn[d], closing[d]}
        BY <3>3, FreshTypes DEF FreshConns
      <4>2. \A p \in Pools : Idle(p)' = Idle(p) /\ x \notin Idle(p)
        BY <3>1, <4>1, IdleOf DEF Idle
      <4>3. conn'[c] = x
        BY <2>0, <3>3, <4>1 DEF ClientTypes
      <4>. QED  BY <2>0, <2>1, <3>1, <4>1, <4>2, <4>3 DEF Separate
    <3>. QED  BY <2>8, <3>2, <3>3 DEF Open
  <2>9. CASE InvalidateNext(c)
    BY <2>0, <2>1, <2>9 DEF InvalidateNext, At, ClientKnows, TrackerKnown
  <2>10. CASE CloseOwn(c)
    <3>1. UNCHANGED poolVars /\ conn'[c] = None /\ closing'[c] = conn[c]
      BY <2>0, <2>10 DEF CloseOwn, ClientTypes
    <3>. QED  BY <2>2, <3>1 DEF poolVars, Idle
  <2>11. CASE Close(c)
    <3>1. UNCHANGED <<pools, conn>> /\ closing'[c] \in {closing[c], None}
      BY <2>0, <2>11 DEF Close, CloseConn, MarkReturned, poolVars, Closed, ClientTypes
    <3>. QED  BY <2>2, <3>1 DEF Idle
  <2>12. CASE GiveBackConn(c)
    <3>1. PICK x \in Conns : x = closing[c] /\ Returning(c) = x
      BY <2>0, <2>12 DEF GiveBackConn, At, ClientKnows, ClosingKnown, Returning
    <3>2. UNCHANGED conn /\ conn[c] = None /\ closing'[c] = None
      BY <2>0, <2>1, <2>12 DEF GiveBackConn, Closed, At, ClientKnows, TrackerKnown, ClientTypes
    <3>3. \A p \in Pools : Idle(p)' \subseteq Idle(p) \cup {x}
      <4>1. CASE UNCHANGED pools
        BY <4>1 DEF Idle
      <4>2. CASE pools' = [pools EXCEPT ![conns[x].pool].idleConns = Append(@, x)]
        <5>1. PICK p \in Pools : p = conns[x].pool
          BY <2>0, <3>1 DEF Kept, ReturningKept
        <5>2. PICK s \in Seq(Conns) : s = pools[p].idleConns
          BY DEF Known, PoolTypeOK
        <5>3. pools'[p].idleConns = Append(s, x) /\ \A q \in Pools \ {p} : pools'[q] = pools[q]
          BY <4>2, <5>1, <5>2 DEF Known, PoolTypeOK
        <5>4. ToSet(Append(s, x)) = ToSet(s) \cup {x}
          BY AppendSet
        <5>. QED  BY <5>2, <5>3, <5>4 DEF Idle
      <4>. QED  BY <2>12, <3>1, <4>1, <4>2 DEF GiveBackConn, GiveBack, CloseConn
    <3>4. \A d \in Clients \ {c} : x # conn[d] /\ x # closing[d]
      BY <2>0, <2>1, <3>1 DEF Separate
    <3>. QED  BY <2>0, <2>1, <3>1, <3>2, <3>3, <3>4, IdleTypes, StepKnown, <1>4 DEF Separate
  <2>. QED  BY <1>4, <2>3, <2>4, <2>5, <2>6, <2>7, <2>8, <2>9, <2>10, <2>11, <2>12 DEF ClientStep
<1>. QED  BY <1>3, <1>4 DEF Next

\* Without the tracker, a connection is used by one client at a time, and no idle one
\* is used or counted twice, whatever pools expire and are released meanwhile
\* (InternalConnPool.Get, internalPooledConn.Close).
THEOREM OneHolderOnly == Spec => []OneHolder
<1>1. Init => Known /\ Kept /\ Separate
  BY InitKnown, InitKept
<1>2. Known /\ Kept /\ Separate /\ [Next]_vars => (Known /\ Kept /\ Separate)'
  BY StepKnown, StepKept, StepSeparate
<1>3. Known /\ Kept /\ Separate => OneHolder
  <2>. SUFFICES ASSUME Known, Kept, Separate PROVE OneHolder
    OBVIOUS
  <2>1. ASSUME NEW p \in Pools PROVE Len(pools[p].idleConns) = Cardinality(Idle(p))
    BY DistinctLen DEF Known, PoolTypeOK, Kept, IdleKept, Idle
  <2>. QED  BY <2>1 DEF OneHolder, Separate
<1>. QED  BY <1>1, <1>2, <1>3, PTL DEF Spec

-----------------------------------------------------------------------------
(* Turns *)

\* Every step keeps account: changes end the turn, and the others leave it.
LEMMA StepTurns == Known /\ InfosCounted /\ TurnKnown /\ [Next]_vars => (InfosCounted /\ TurnKnown)'
<1>. SUFFICES ASSUME Known, InfosCounted, TurnKnown, [Next]_vars
              PROVE  (InfosCounted /\ TurnKnown)'
  OBVIOUS
<1>1. SelectionTypeOK /\ Counted(NoInfo)
  BY SelectionAssumption DEF Known, Counted, NoInfo
<1>2. ASSUME UNCHANGED <<strategy, available, weights, entry, clusterInfo, turn>>,
             selected' = selected \/ turn.had = {}
      PROVE  (InfosCounted /\ TurnKnown)'
  <2>1. InfosCounted'
    BY <1>2 DEF InfosCounted, Counted
  <2>2. CASE turn.had = {}
    BY <1>2, <2>1, <2>2 DEF TurnKnown
  <2>3. CASE UNCHANGED selected
    BY <1>2, <2>1, <2>3 DEF TurnKnown, Shared, TurnCounted, TurnInfo, Stretch
  <2>. QED  BY <1>2, <2>2, <2>3
<1>3. ASSUME turn' = NoTurn,
             \A i \in Hosts : clusterInfo'[i] \in {clusterInfo[i], NoInfo, Refreshed(clusterInfo[i])}
      PROVE  (InfosCounted /\ TurnKnown)'
  <2>1. \A i \in Hosts : Counted(clusterInfo'[i])
    <3>. SUFFICES ASSUME NEW i \in Hosts PROVE Counted(clusterInfo'[i])
      OBVIOUS
    <3>1. Counted(clusterInfo[i])
      BY DEF InfosCounted
    <3>. QED  BY <1>1, <1>3, <3>1, RefreshedCounted
  <2>2. turn'.had = {}
    BY <1>3 DEF NoTurn
  <2>. QED  BY <2>1, <2>2 DEF InfosCounted, TurnKnown, Counted
<1>4. ASSUME GetHostInfoByStrategy PROVE (InfosCounted /\ TurnKnown)'
  <2>1. CASE SelectRandom \/ SelectHighestWeight \/ SelectWeightedRandom
    BY <1>2, <2>1 DEF SelectRandom, SelectHighestWeight, SelectWeightedRandom, TurnKnown
  <2>2. CASE SelectNone
    BY <1>2, <2>2 DEF SelectNone, TurnKnown
  <2>3. CASE SelectRoundRobinFails
    BY <1>1, <1>3, <2>3, InfoUsedType DEF SelectRoundRobinFails, SelectionTypeOK
  <2>. QED  BY <1>1, <1>4, <2>1, <2>2, <2>3, SelectTurns DEF GetHostInfoByStrategy
<1>5. CASE ClusterChanges
  <2>1. turn' = NoTurn
    BY <1>5 DEF ClusterChanges, ChangeAvailability, EntryExpires, ChangeWeights
  <2>2. \A i \in Hosts : clusterInfo'[i] \in {clusterInfo[i], NoInfo}
    BY <1>5 DEF ClusterChanges, ChangeAvailability, EntryExpires, ChangeWeights
  <2>. QED  BY <1>3, <2>1, <2>2
<1>6. CASE UNCHANGED selection
  BY <1>2, <1>6 DEF selection
<1>7. ASSUME NEW c \in Clients, ClientStep(c) PROVE GetHostInfoByStrategy \/ UNCHANGED selection
  BY <1>7 DEF ClientStep, SelectHost, SelectByStrategy, LookUp, Dispose, FindPool, ComputePool, GetConn,
              ResetWorks, ResetFails, Relock, Open, Fail, Track, Execute, InvalidateNext, CloseOwn,
              Close, GiveBackConn
<1>8. ASSUME \/ \E g \in {Cleaner, Releaser} : Dispose(g)
             \/ CleanUp \/ Release \/ ReleaseMap \/ PoolExpires \/ Failover \/ Collect \/ UNCHANGED vars
      PROVE  UNCHANGED selection
  BY <1>8 DEF Dispose, CleanUp, Release, ReleaseMap, PoolExpires, Failover, Collect, vars
<1>. QED  BY <1>4, <1>5, <1>6, <1>7, <1>8 DEF Next

\* While hosts and weights stay the same, every eligible host is selected as often in
\* a row as its weight says before the next one is, and all have had their turn before
\* one comes back, however selections and cache expiry interleave
\* (RoundRobinHostSelector.GetHost).
THEOREM RoundRobinFair == Spec => FairTurns
<1>1. Init => Known /\ InfosCounted /\ TurnKnown
  <2>. SUFFICES ASSUME Init PROVE Known /\ InfosCounted /\ TurnKnown
    OBVIOUS
  <2>1. turn.had = {} /\ \A i \in Hosts : clusterInfo[i] = NoInfo
    BY DEF Init, SelectionInit, NoTurn
  <2>2. Counted(NoInfo)
    BY SelectionAssumption DEF Counted, NoInfo
  <2>. QED  BY <2>1, <2>2, InitKnown DEF InfosCounted, TurnKnown
<1>2. Known /\ InfosCounted /\ TurnKnown /\ [Next]_vars => (Known /\ InfosCounted /\ TurnKnown)'
  BY StepKnown, StepTurns
<1>3. Known /\ InfosCounted /\ TurnKnown /\ SelectRoundRobin /\ turn.had # {} =>
        LET weight == Weight(clusterInfo'[entry'[selected']].weights, selected) IN
        \/ turn'.times = turn.times + 1 /\ selected' = selected /\ turn.times < weight
        \/ /\ turn.times = weight \/ Cardinality(turn.had) = 1
           /\ IF turn.had = available THEN selected' # selected \/ Cardinality(available) = 1
              ELSE selected' \notin turn.had
  <2>. SUFFICES ASSUME Known, InfosCounted, TurnKnown, SelectRoundRobin, turn.had # {}
                PROVE  LET weight == Weight(TurnInfo'.weights, selected) IN
                       \/ turn'.times = turn.times + 1 /\ selected' = selected /\ turn.times < weight
                       \/ /\ turn.times = weight \/ Cardinality(turn.had) = 1
                          /\ IF turn.had = available THEN selected' # selected \/ Cardinality(available) = 1
                             ELSE selected' \notin turn.had
    BY DEF TurnInfo
  <2>. DEFINE weight == Weight(TurnInfo.weights, selected)
  <2>1. /\ SelectionTypeOK /\ selected \in available /\ available \subseteq Hosts /\ Shared
        /\ turn \in [had : SUBSET Hosts, times : Nat]
    BY DEF Known, TurnKnown, SelectionTypeOK
  <2>2. /\ turn.times + TurnInfo.weightCounter <= weight
        /\ turn.had = {selected} \/ turn.times + TurnInfo.weightCounter = weight
    BY DEF TurnKnown, TurnCounted
  <2>3. weight \in Nat /\ TurnInfo.weightCounter \in Nat /\ turn.times \in Nat
    <3>1. TurnInfo \in ClusterInfos
      BY <2>1 DEF Shared, TurnInfo, SelectionTypeOK
    <3>. QED  BY <2>1, <3>1, InfoFields, WeightType
  <2>4. TurnInfo'.weights = TurnInfo.weights
    BY <2>1, TurnGoesOn
  <2>5. CASE /\ TurnInfo.weightCounter > 0 /\ selected' = selected
             /\ turn' = [turn EXCEPT !.times = turn.times + 1]
    <3>1. turn'.times = turn.times + 1 /\ turn.times < weight
      BY <2>1, <2>2, <2>3, <2>5
    <3>. QED  BY <2>4, <2>5, <3>1
  <2>6. CASE TurnInfo.weightCounter = 0 /\ selected' = NextInTurn(selected)
    <3>1. turn.times = weight \/ Cardinality(turn.had) = 1
      BY <2>2, <2>3, <2>6, FS_Singleton
    <3>2. PICK s \in available : turn.had = Stretch(s, selected)
      BY DEF TurnKnown
    <3>3. /\ selected' \in turn.had => turn.had = available
          /\ selected' = selected => available = {selected}
      BY <2>1, <2>6, <3>2, StretchGrows
    <3>4. Cardinality({selected}) = 1
      BY FS_Singleton
    <3>. QED  BY <2>4, <3>1, <3>3, <3>4
  <2>. QED  BY <2>1, <2>5, <2>6, TurnGoesOn
<1>. QED  BY <1>1, <1>2, <1>3, PTL DEF Spec, FairTurns

\* The weighted random selector gives every eligible host as many random numbers as
\* its weight, and every number leads to one host, whatever hosts and weights come
\* and go (WeightedRandomHostSelector.GetHost).
THEOREM WeightsAreRespected == Spec => []WeightsRespected
<1>1. TypeOK => WeightsRespected
  BY WeightsDivide DEF TypeOK
<1>. QED  BY <1>1, TypeCorrect, PTL

=============================================================================
