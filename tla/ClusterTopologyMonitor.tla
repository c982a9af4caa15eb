----------------------- MODULE ClusterTopologyMonitor -----------------------
(***************************************************************************)
(* The cluster topology monitor of                                         *)
(* awssql/driver_infrastructure/cluster_topology_monitor.go: one           *)
(* goroutine (Monitor) that owns a monitoring connection and, while it has *)
(* no verified writer ("panic mode"), one goroutine per cluster host       *)
(* (HostMonitoringRoutine) looking for the writer.  Application goroutines *)
(* call ForceRefresh, the monitor service calls Stop, and the event        *)
(* publisher may deliver a reset; all of them touch the same atomics       *)
(* without a lock, so every atomic access that another goroutine can       *)
(* separate from its neighbour is an action of its own.                    *)
(*                                                                         *)
(* A connection is an element of Conns, taken when it is neither open nor  *)
(* referenced.  A cached topology is compared by reference in the code;    *)
(* `captured' keeps, for each waiting caller, whether the reference it     *)
(* remembers is still the cached one.  Delays, the two notification        *)
(* channels and requestToUpdateTopology only set the pace: a delay ends at *)
(* any time here.                                                          *)
(***************************************************************************)
EXTENDS Integers, FiniteSets

CONSTANTS
  Hosts,      \* instances of the cluster
  Conns,      \* identities of driver connections (bounds the open ones)
  Routines,   \* slots for running HostMonitoringRoutines
  Callers,    \* application goroutines, each calling ForceRefresh once
  NoConn, NoHost, NoTopology,
  Scenarios   \* the clusters and the disturbances that may meet in one behaviour

\* What may disturb the monitor: a caller asking for a refresh, or for a verified
\* writer (failover does), a Stop, a MonitorResetEvent, the cached topology reaching its TTL, a
\* host rejecting the monitoring credentials, queries failing over open connections, a
\* failover, a new instance.
Disturbances ==
  {"refresh", "verify", "stop", "reset", "expire", "deny", "outage", "failover", "grow"}

ASSUME ConstantsAssumption ==
  /\ NoConn \notin Conns
  /\ NoHost \notin Hosts
  /\ IsFiniteSet(Routines)
  /\ Scenarios \subseteq [members : (SUBSET Hosts) \ {{}}, events : SUBSET Disturbances]

\* What a topology query returns: the members and which of them is the writer.
View == {v \in [hosts : SUBSET Hosts, writer : Hosts] : v.writer \in v.hosts}

\* A cached topology also remembers (for the properties only) whether it was
\* read over a connection that had been verified to lead to the writer.
Topology == [view : View, verified : BOOLEAN]

ASSUME NoTopologyAssumption == NoTopology \notin View \cup Topology

VARIABLES
  \* the cluster: its instances, the current writer, every host that has been
  \* the writer, and the disturbances this behaviour may meet
  members, clusterWriter, pastWriters, events,
  \* the host each open driver connection leads to, NoHost when it is closed
  connHost,
  \* fields of ClusterTopologyMonitorImpl
  monitoringConn, isVerifiedWriterConn, writerHostInfo,
  hostRoutines, hostRoutinesWg, hostRoutinesStop,
  hostRoutinesWriterConn, hostRoutinesReaderConn,
  hostRoutinesWriterHostInfo, hostRoutinesLatestTopology,
  readerTopologiesById, completedOneCycle, stableTopologiesStart,
  stop,
  \* the topology cache of the storage service
  topology, captured,
  \* the Monitor goroutine: program counter and locals
  mpc, todo, mconn, mhost,
  \* each HostMonitoringRoutine
  rpc, rhost, rconn, rwriter, rchanged,
  \* each ForceRefresh call
  cpc, cverify, cconn, clatest, cchanged,
  \* the goroutines running Stop and reset; a Go panic ends the process
  spc, zpc, crashed

cluster  == <<members, clusterWriter, pastWriters, events>>
verdict  == <<monitoringConn, isVerifiedWriterConn, writerHostInfo>>
pool     == <<hostRoutines, hostRoutinesWg>>
found    == <<hostRoutinesWriterConn, hostRoutinesReaderConn,
              hostRoutinesWriterHostInfo, hostRoutinesLatestTopology>>
stable   == <<readerTopologiesById, completedOneCycle, stableTopologiesStart>>
cache    == <<topology, captured>>
locals   == <<todo, mconn, mhost>>
routine  == <<rpc, rhost, rconn, rwriter, rchanged>>
caller   == <<cpc, cverify, cconn, clatest, cchanged>>
control  == <<stop, spc, zpc, crashed>>
vars == <<cluster, connHost, verdict, pool, hostRoutinesStop, found, stable, cache,
          mpc, locals, routine, caller, control>>

-----------------------------------------------------------------------------
Init ==
  /\ \E s \in Scenarios : members = s.members /\ events = s.events
  /\ clusterWriter \in members /\ pastWriters = {clusterWriter}
  /\ connHost = [c \in Conns |-> NoHost]
  /\ monitoringConn = NoConn /\ isVerifiedWriterConn = FALSE /\ writerHostInfo = NoHost
  /\ hostRoutines = {} /\ hostRoutinesWg = 0 /\ hostRoutinesStop = FALSE
  /\ hostRoutinesWriterConn = NoConn /\ hostRoutinesReaderConn = NoConn
  /\ hostRoutinesWriterHostInfo = NoHost /\ hostRoutinesLatestTopology = NoTopology
  /\ readerTopologiesById = [h \in Hosts |-> NoTopology]
  /\ completedOneCycle = {} /\ stableTopologiesStart = FALSE
  /\ topology = NoTopology /\ captured = [c \in Callers |-> "none"]
  /\ mpc = "top" /\ todo = {} /\ mconn = NoConn /\ mhost = NoHost
  /\ rpc = [r \in Routines |-> "idle"] /\ rhost = [r \in Routines |-> NoHost]
  /\ rconn = [r \in Routines |-> NoConn] /\ rwriter = [r \in Routines |-> NoHost]
  /\ rchanged = [r \in Routines |-> FALSE]
  /\ cpc = [c \in Callers |-> "idle"] /\ cverify = [c \in Callers |-> FALSE]
  /\ cconn = [c \in Callers |-> NoConn] /\ clatest = [c \in Callers |-> NoTopology]
  /\ cchanged = [c \in Callers |-> FALSE]
  /\ stop = FALSE /\ spc = "idle" /\ zpc = "idle" /\ crashed = FALSE

-----------------------------------------------------------------------------
(* Connections, queries and the cache.                                     *)

\* Connections something still refers to; a new connection is none of them.
Referenced ==
  {monitoringConn, hostRoutinesWriterConn, hostRoutinesReaderConn, mconn}
    \cup {rconn[r] : r \in Routines} \cup {cconn[c] : c \in Callers}
Fresh(c) == connHost[c] = NoHost /\ c \notin Referenced

\* ForceConnect(h) returning c.
Connect(c, h) ==
  Fresh(c) /\ connHost' = [connHost EXCEPT ![c] = h]

\* closeConnection: closing no connection or a closed one does nothing.
CloseConnections(S) ==
  connHost' = [c \in Conns |-> IF c \in S THEN NoHost ELSE connHost[c]]

IsOpen(c) == c # NoConn /\ connHost[c] # NoHost

\* A reader's view of the cluster may lag behind a failover; the writer's does not.
WriterSeenFrom(h) == IF h = clusterWriter THEN {clusterWriter} ELSE pastWriters

\* A query over c may fail.
MayFail(c) == "outage" \in events \/ ~IsOpen(c)

\* queryForTopology over c answers v.
QueryForTopology(c, v) ==
  /\ IsOpen(c)
  /\ v.hosts = members
  /\ v.writer \in WriterSeenFrom(connHost[c])

\* IsWriterInstance may still answer for the role before a failover;
\* GetHostRole asks the server itself.
IsWriterInstance(c) == IsOpen(c) /\ connHost[c] \in pastWriters
GetHostRole(c) == IsOpen(c) /\ connHost[c] = clusterWriter

\* MUTANT of SetCache: the bare list of hosts is stored, not a Topology.
SetCacheToHosts(t) ==
  /\ topology' = IF t = NoTopology THEN t ELSE t.view
  /\ captured' = [c \in Callers |-> IF captured[c] = "same" THEN "other" ELSE captured[c]]

\* The cache now holds another *Topology (or none): every remembered reference
\* to the former one differs from it from now on.
SetCache(t) ==
  /\ topology' = t
  /\ captured' = [c \in Callers |-> IF captured[c] = "same" THEN "other" ELSE captured[c]]

\* currentTopology != latestTopology.
TopologyChanged(c) ==
  \/ captured[c] = "other"
  \/ captured[c] = "nil" /\ topology # NoTopology

InPanicMode == monitoringConn = NoConn \/ ~isVerifiedWriterConn

ClearStable ==
  /\ readerTopologiesById' = [h \in Hosts |-> NoTopology]
  /\ completedOneCycle' = {}
  /\ stableTopologiesStart' = FALSE

-----------------------------------------------------------------------------
(* The Monitor goroutine, panic mode.                                      *)

\* The loop test and isInPanicMode; stop may be set at any time after it.
EnterPanicRound ==
  /\ mpc = "top" /\ ~stop /\ InPanicMode
  /\ mpc' = "panic"
  /\ UNCHANGED <<cluster, connHost, verdict, pool, hostRoutinesStop, found, stable, cache,
                 locals, routine, caller, control>>

\* No host routines: forget what the last ones found, then start routines for
\* the cached hosts, or go and get a topology first.
StartPanicRound ==
  /\ mpc = "panic" /\ hostRoutines = {}
  /\ hostRoutinesStop' = FALSE
  /\ hostRoutinesWriterConn' = NoConn /\ hostRoutinesReaderConn' = NoConn
  /\ hostRoutinesWriterHostInfo' = NoHost /\ hostRoutinesLatestTopology' = NoTopology
  /\ IF topology = NoTopology
       THEN mpc' = "open" /\ UNCHANGED todo
       ELSE IF isVerifiedWriterConn
         THEN mpc' = "tail" /\ UNCHANGED todo
         ELSE mpc' = "spawn" /\ todo' = topology.view.hosts
  /\ UNCHANGED <<cluster, connHost, verdict, pool, stable, cache, mconn, mhost,
                 routine, caller, control>>

\* openAnyConnectionAndUpdateTopology: a connection to the initial host, which
\* for a cluster endpoint is any of the hosts.
OpenAnyConnection ==
  /\ mpc = "open"
  /\ IF monitoringConn # NoConn
       THEN mpc' = "openFetch" /\ UNCHANGED <<connHost, mconn>>
       ELSE \/ \E c \in Conns, h \in members :
                 Connect(c, h) /\ mconn' = c /\ mpc' = "openStore"
            \/ mpc' = "tail" /\ UNCHANGED <<connHost, mconn>>
  /\ UNCHANGED <<cluster, verdict, pool, hostRoutinesStop, found, stable, cache,
                 todo, mhost, routine, caller, control>>

\* The compare-and-swap that installs it; the loser closes its connection.
StoreAnyConnection ==
  /\ mpc = "openStore"
  /\ IF monitoringConn = NoConn
       THEN monitoringConn' = mconn /\ mpc' = "openCheck" /\ UNCHANGED <<connHost, mconn>>
       ELSE /\ CloseConnections({mconn}) /\ mconn' = NoConn
            /\ mpc' = "openFetch" /\ UNCHANGED monitoringConn
  /\ UNCHANGED <<cluster, isVerifiedWriterConn, writerHostInfo, pool, hostRoutinesStop,
                 found, stable, cache, todo, mhost, routine, caller, control>>

\* It leads to the writer: verified, and the writer's host when it can be told.
CheckAnyConnection ==
  /\ mpc = "openCheck"
  /\ \/ /\ IsWriterInstance(mconn)
        /\ isVerifiedWriterConn' = TRUE
        /\ writerHostInfo' \in {writerHostInfo, connHost[mconn]}
     \/ UNCHANGED <<isVerifiedWriterConn, writerHostInfo>>
  /\ mconn' = NoConn /\ mpc' = "openFetch"
  /\ UNCHANGED <<cluster, connHost, monitoringConn, pool, hostRoutinesStop, found, stable,
                 cache, todo, mhost, routine, caller, control>>

\* fetchTopologyAndUpdateCache over it, then the test that guards the start of
\* the routines.
FetchAnyTopology ==
  /\ mpc = "openFetch"
  /\ \/ \E v \in View :
          /\ QueryForTopology(monitoringConn, v)
          /\ SetCache([view |-> v, verified |-> isVerifiedWriterConn])
          /\ IF isVerifiedWriterConn
               THEN mpc' = "tail" /\ UNCHANGED todo
               ELSE mpc' = "spawn" /\ todo' = v.hosts
     \/ MayFail(monitoringConn) /\ mpc' = "openFail" /\ UNCHANGED <<cache, todo>>
  /\ UNCHANGED <<cluster, connHost, verdict, pool, hostRoutinesStop, found, stable,
                 mconn, mhost, routine, caller, control>>

\* MUTANT of DropMonitoringConn: isVerifiedWriterConn is not cleared.
DropMonitoringConnOnly ==
  /\ CloseConnections({monitoringConn})
  /\ monitoringConn' = NoConn /\ writerHostInfo' = NoHost
  /\ UNCHANGED isVerifiedWriterConn

DropMonitoringConn ==
  /\ CloseConnections({monitoringConn})
  /\ monitoringConn' = NoConn /\ isVerifiedWriterConn' = FALSE /\ writerHostInfo' = NoHost

\* No topology over it: close it and try again the next round.
AbandonAnyConnection ==
  /\ mpc = "openFail"
  /\ DropMonitoringConn
  /\ mpc' = "tail"
  /\ UNCHANGED <<cluster, pool, hostRoutinesStop, found, stable, cache, locals,
                 routine, caller, control>>

\* hostMonitor.Init() starts the goroutine...
SpawnRoutine ==
  /\ mpc = "spawn"
  /\ \E h \in todo, r \in Routines :
       /\ rpc[r] = "idle"
       /\ rpc' = [rpc EXCEPT ![r] = "head"]
       /\ rhost' = [rhost EXCEPT ![r] = h]
       /\ rwriter' = [rwriter EXCEPT ![r] = writerHostInfo]
       /\ rchanged' = [rchanged EXCEPT ![r] = FALSE]
       /\ mhost' = h
  /\ mpc' = "count"
  /\ UNCHANGED <<cluster, connHost, verdict, pool, hostRoutinesStop, found, stable, cache,
                 todo, mconn, rconn, caller, control>>

\* ... and only then is it counted and entered in the map.
CountRoutine ==
  /\ mpc = "count"
  /\ hostRoutinesWg' = hostRoutinesWg + 1
  /\ hostRoutines' = hostRoutines \cup {mhost}
  /\ todo' = todo \ {mhost}
  /\ mhost' = NoHost
  /\ mpc' = IF todo' = {} THEN "tail" ELSE "spawn"
  /\ UNCHANGED <<cluster, connHost, verdict, hostRoutinesStop, found, stable, cache,
                 mconn, routine, caller, control>>

\* Host routines are running and have found the writer.
PickUpWriter ==
  /\ mpc = "panic" /\ hostRoutines # {}
  /\ hostRoutinesWriterConn # NoConn /\ hostRoutinesWriterHostInfo # NoHost
  /\ mconn' = hostRoutinesWriterConn /\ mhost' = hostRoutinesWriterHostInfo
  /\ mpc' = "adopt"
  /\ UNCHANGED <<cluster, connHost, verdict, pool, hostRoutinesStop, found, stable, cache,
                 todo, routine, caller, control>>

AdoptWriterConn ==
  /\ mpc = "adopt"
  /\ CloseConnections({monitoringConn})
  /\ monitoringConn' = mconn
  /\ mpc' = "verify"
  /\ UNCHANGED <<cluster, isVerifiedWriterConn, writerHostInfo, pool, hostRoutinesStop,
                 found, stable, cache, locals, routine, caller, control>>

MarkVerified ==
  /\ mpc = "verify"
  /\ writerHostInfo' = mhost /\ isVerifiedWriterConn' = TRUE /\ hostRoutinesStop' = TRUE
  /\ mconn' = NoConn /\ mhost' = NoHost
  /\ mpc' = "join"
  /\ UNCHANGED <<cluster, connHost, monitoringConn, pool, found, stable, cache, todo,
                 routine, caller, control>>

\* MUTANT of JoinRoutines: the routines are told to stop and not waited for.
JoinRoutinesWithoutWait ==
  /\ mpc = "join"
  /\ hostRoutines' = {} /\ ClearStable
  /\ mpc' = "top"
  /\ UNCHANGED <<cluster, connHost, verdict, hostRoutinesWg, hostRoutinesStop, found, cache,
                 locals, routine, caller, control>>

JoinRoutines ==
  /\ mpc = "join" /\ hostRoutinesWg = 0
  /\ hostRoutines' = {} /\ ClearStable
  /\ mpc' = "top"
  /\ UNCHANGED <<cluster, connHost, verdict, hostRoutinesWg, hostRoutinesStop, found, cache,
                 locals, routine, caller, control>>

\* No writer yet: start routines for the new hosts of the latest topology.
AddRoutines ==
  /\ mpc = "panic" /\ hostRoutines # {}
  /\ hostRoutinesWriterConn = NoConn \/ hostRoutinesWriterHostInfo = NoHost
  /\ todo' = IF hostRoutinesLatestTopology # NoTopology /\ ~hostRoutinesStop
               THEN hostRoutinesLatestTopology.hosts \ hostRoutines ELSE {}
  /\ mpc' = IF todo' = {} THEN "tail" ELSE "spawn"
  /\ UNCHANGED <<cluster, connHost, verdict, pool, hostRoutinesStop, found, stable, cache,
                 mconn, mhost, routine, caller, control>>

\* Every cached host has reported and all the readers that answered agree.
ReadersAgree ==
  /\ topology # NoTopology
  /\ topology.view.hosts \subseteq completedOneCycle
  /\ \E v \in View : {readerTopologiesById[h] : h \in Hosts} \ {NoTopology} = {v}

\* checkForStableReaderTopologies, then the delay.
CheckForStableReaderTopologies ==
  /\ mpc = "tail" /\ mpc' = "top"
  /\ \/ /\ ~ReadersAgree
        /\ stableTopologiesStart' = FALSE /\ UNCHANGED cache
     \/ /\ ReadersAgree
        /\ stableTopologiesStart' = TRUE /\ UNCHANGED cache
     \/ /\ ReadersAgree /\ stableTopologiesStart
        /\ stableTopologiesStart' = FALSE
        /\ \E h \in Hosts :
             /\ readerTopologiesById[h] # NoTopology
             /\ SetCache([view |-> readerTopologiesById[h], verified |-> FALSE])
  /\ UNCHANGED <<cluster, connHost, verdict, pool, hostRoutinesStop, found,
                 readerTopologiesById, completedOneCycle, locals, routine, caller, control>>

-----------------------------------------------------------------------------
(* The Monitor goroutine, regular mode, and its end.                       *)

\* Routines that are still running are stopped first.
EnterRegularRound ==
  /\ mpc = "top" /\ ~stop /\ ~InPanicMode
  /\ hostRoutinesStop' = (hostRoutinesStop \/ hostRoutines # {})
  /\ mpc' = "regular"
  /\ UNCHANGED <<cluster, connHost, verdict, pool, found, stable, cache, locals, routine,
                 caller, control>>

FetchTopology ==
  /\ mpc = "regular"
  /\ IF hostRoutines # {}
       THEN hostRoutinesWg = 0 /\ hostRoutines' = {} /\ ClearStable
       ELSE UNCHANGED <<hostRoutines, stable>>
  /\ \/ \E v \in View :
          /\ QueryForTopology(monitoringConn, v)
          /\ SetCache([view |-> v, verified |-> TRUE])
          /\ mpc' = "top"
     \/ MayFail(monitoringConn) /\ mpc' = "regularFail" /\ UNCHANGED cache
  /\ UNCHANGED <<cluster, connHost, verdict, hostRoutinesWg, hostRoutinesStop, found,
                 locals, routine, caller, control>>

\* No topology over the monitoring connection: back to panic mode.
LoseMonitoringConn ==
  /\ mpc = "regularFail"
  /\ DropMonitoringConn
  /\ mpc' = "top"
  /\ UNCHANGED <<cluster, pool, hostRoutinesStop, found, stable, cache, locals,
                 routine, caller, control>>

MonitorStopped ==
  /\ mpc = "top" /\ stop
  /\ mpc' = "stopped"
  /\ UNCHANGED <<cluster, connHost, verdict, pool, hostRoutinesStop, found, stable, cache,
                 locals, routine, caller, control>>

-----------------------------------------------------------------------------
(* HostMonitoringRoutine r: run and readerRoutineFetchTopology.            *)

\* One cycle is over; a routine that could not ask its host has no report.
CompleteCycle(r) ==
  /\ completedOneCycle' = completedOneCycle \cup {rhost[r]}
  /\ UNCHANGED <<readerTopologiesById, stableTopologiesStart>>
CompleteCycleWithoutReport(r) ==
  /\ completedOneCycle' = completedOneCycle \cup {rhost[r]}
  /\ readerTopologiesById' = [readerTopologiesById EXCEPT ![rhost[r]] = NoTopology]
  /\ UNCHANGED stableTopologiesStart

Goto(r, l) == rpc' = [rpc EXCEPT ![r] = l]

RoutineSeesStop(r) ==
  /\ rpc[r] = "head" /\ hostRoutinesStop
  /\ Goto(r, "exit")
  /\ UNCHANGED <<cluster, connHost, verdict, pool, hostRoutinesStop, found, stable, cache,
                 mpc, locals, rhost, rconn, rwriter, rchanged, caller, control>>

RoutineConnects(r) ==
  /\ rpc[r] = "head" /\ ~hostRoutinesStop
  /\ \/ rconn[r] # NoConn /\ UNCHANGED <<connHost, rconn>>
     \/ /\ rconn[r] = NoConn
        /\ \E c \in Conns : Connect(c, rhost[r]) /\ rconn' = [rconn EXCEPT ![r] = c]
  /\ Goto(r, "check")
  /\ UNCHANGED <<cluster, verdict, pool, hostRoutinesStop, found, stable, cache,
                 mpc, locals, rhost, rwriter, rchanged, caller, control>>

\* A network or another passing error: sleep and try again.
RoutineCannotConnect(r) ==
  /\ rpc[r] = "head" /\ ~hostRoutinesStop /\ rconn[r] = NoConn
  /\ CompleteCycleWithoutReport(r)
  /\ UNCHANGED <<cluster, connHost, verdict, pool, hostRoutinesStop, found, cache,
                 mpc, locals, routine, caller, control>>

\* MUTANT of RoutineIsDeniedLogin: the early return comes before Done is deferred.
RoutineLeavesUncounted(r) ==
  /\ "deny" \in events
  /\ rpc[r] = "head" /\ ~hostRoutinesStop /\ rconn[r] = NoConn
  /\ Goto(r, "idle")
  /\ UNCHANGED <<cluster, connHost, verdict, pool, hostRoutinesStop, found, stable, cache,
                 mpc, locals, rhost, rconn, rwriter, rchanged, caller, control>>

RoutineIsDeniedLogin(r) ==
  /\ "deny" \in events
  /\ rpc[r] = "head" /\ ~hostRoutinesStop /\ rconn[r] = NoConn
  /\ Goto(r, "exit")
  /\ UNCHANGED <<cluster, connHost, verdict, pool, hostRoutinesStop, found, stable, cache,
                 mpc, locals, rhost, rconn, rwriter, rchanged, caller, control>>

\* IsWriterInstance answers.
RoutineAsksRole(r) ==
  /\ rpc[r] = "check" /\ IsOpen(rconn[r])
  /\ \/ IsWriterInstance(rconn[r]) /\ Goto(r, "writer")
     \/ connHost[rconn[r]] # clusterWriter /\ Goto(r, "reader")
  /\ UNCHANGED <<cluster, connHost, verdict, pool, hostRoutinesStop, found, stable, cache,
                 mpc, locals, rhost, rconn, rwriter, rchanged, caller, control>>

\* IsWriterInstance fails: close the connection, finish the cycle without one.
RoutineLosesConn(r) ==
  /\ rpc[r] = "check" /\ MayFail(rconn[r])
  /\ CloseConnections({rconn[r]})
  /\ rconn' = [rconn EXCEPT ![r] = NoConn]
  /\ CompleteCycleWithoutReport(r)
  /\ Goto(r, "head")
  /\ UNCHANGED <<cluster, verdict, pool, hostRoutinesStop, found, cache, mpc, locals,
                 rhost, rwriter, rchanged, caller, control>>

\* MUTANT of RoutineClaimsWriter: a routine that lost the race goes on instead of
\* closing its connection and returning, and so does the one that won it.
RoutineClaimsWriterAndGoesOn(r) ==
  /\ rpc[r] = "writer" /\ GetHostRole(rconn[r])
  /\ hostRoutinesWriterConn' =
       IF hostRoutinesWriterConn = NoConn THEN rconn[r] ELSE hostRoutinesWriterConn
  /\ Goto(r, "reader")
  /\ UNCHANGED <<cluster, connHost, verdict, pool, hostRoutinesStop, hostRoutinesReaderConn,
                 hostRoutinesWriterHostInfo, hostRoutinesLatestTopology, stable, cache,
                 mpc, locals, rhost, rconn, rwriter, rchanged, caller, control>>

\* GetHostRole confirms the writer: the first routine to get here hands its
\* connection over, any other closes its own.
RoutineClaimsWriter(r) ==
  /\ rpc[r] = "writer" /\ GetHostRole(rconn[r])
  /\ IF hostRoutinesWriterConn = NoConn
       THEN /\ hostRoutinesWriterConn' = rconn[r]
            /\ Goto(r, "claimed") /\ UNCHANGED <<connHost, rconn>>
       ELSE /\ CloseConnections({rconn[r]})
            /\ rconn' = [rconn EXCEPT ![r] = NoConn]
            /\ Goto(r, "exit") /\ UNCHANGED hostRoutinesWriterConn
  /\ UNCHANGED <<cluster, verdict, pool, hostRoutinesStop, hostRoutinesReaderConn,
                 hostRoutinesWriterHostInfo, hostRoutinesLatestTopology, stable, cache,
                 mpc, locals, rhost, rwriter, rchanged, caller, control>>

\* GetHostRole does not confirm it (or fails): a reader after all.
RoutineIsNoWriter(r) ==
  /\ rpc[r] = "writer"
  /\ Goto(r, "reader")
  /\ UNCHANGED <<cluster, connHost, verdict, pool, hostRoutinesStop, found, stable, cache,
                 mpc, locals, rhost, rconn, rwriter, rchanged, caller, control>>

\* The topology as the writer sees it, cached before the writer is announced.
RoutineFetchesAsWriter(r) ==
  /\ rpc[r] = "claimed"
  /\ \/ \E v \in View : QueryForTopology(rconn[r], v)
                        /\ SetCache([view |-> v, verified |-> TRUE])
     \/ UNCHANGED cache
  /\ Goto(r, "announce")
  /\ UNCHANGED <<cluster, connHost, verdict, pool, hostRoutinesStop, found, stable,
                 mpc, locals, rhost, rconn, rwriter, rchanged, caller, control>>

\* MUTANT of RoutineAnnouncesWriter: conn is not forgotten before the return.
RoutineAnnouncesAndKeepsConn(r) ==
  /\ rpc[r] = "announce"
  /\ hostRoutinesWriterHostInfo' = rhost[r] /\ hostRoutinesStop' = TRUE
  /\ Goto(r, "exit")
  /\ UNCHANGED <<cluster, connHost, verdict, pool, hostRoutinesWriterConn,
                 hostRoutinesReaderConn, hostRoutinesLatestTopology, stable, cache,
                 mpc, locals, rhost, rconn, rwriter, rchanged, caller, control>>

\* The writer is announced; forgetting conn keeps the deferred close off it.
RoutineAnnouncesWriter(r) ==
  /\ rpc[r] = "announce"
  /\ hostRoutinesWriterHostInfo' = rhost[r] /\ hostRoutinesStop' = TRUE
  /\ rconn' = [rconn EXCEPT ![r] = NoConn]
  /\ Goto(r, "exit")
  /\ UNCHANGED <<cluster, connHost, verdict, pool, hostRoutinesWriterConn,
                 hostRoutinesReaderConn, hostRoutinesLatestTopology, stable, cache,
                 mpc, locals, rhost, rwriter, rchanged, caller, control>>

\* A reader: only while no writer connection is claimed does it go on to fetch.
RoutineActsAsReader(r) ==
  /\ rpc[r] = "reader"
  /\ IF hostRoutinesWriterConn = NoConn
       THEN /\ hostRoutinesReaderConn' =
                 IF hostRoutinesReaderConn = NoConn THEN rconn[r] ELSE hostRoutinesReaderConn
            /\ Goto(r, "fetch") /\ UNCHANGED stable
       ELSE /\ CompleteCycle(r)
            /\ Goto(r, "head") /\ UNCHANGED hostRoutinesReaderConn
  /\ UNCHANGED <<cluster, connHost, verdict, pool, hostRoutinesStop, hostRoutinesWriterConn,
                 hostRoutinesWriterHostInfo, hostRoutinesLatestTopology, cache, mpc, locals,
                 rhost, rconn, rwriter, rchanged, caller, control>>

\* readerRoutineFetchTopology: share the report; once it names another writer
\* than the one known when the routine started, cache every report.
RoutineReports(r) ==
  /\ rpc[r] = "fetch"
  /\ \E v \in View :
       /\ QueryForTopology(rconn[r], v)
       /\ hostRoutinesLatestTopology' = v
       /\ readerTopologiesById' = [readerTopologiesById EXCEPT ![rhost[r]] = v]
       /\ rchanged' = [rchanged EXCEPT ![r] =
                         @ \/ rwriter[r] \notin {NoHost, v.writer}]
       /\ IF rchanged'[r] THEN SetCache([view |-> v, verified |-> FALSE])
                          ELSE UNCHANGED cache
  /\ completedOneCycle' = completedOneCycle \cup {rhost[r]}
  /\ Goto(r, "head")
  /\ UNCHANGED <<cluster, connHost, verdict, pool, hostRoutinesStop, hostRoutinesWriterConn,
                 hostRoutinesReaderConn, hostRoutinesWriterHostInfo, stableTopologiesStart,
                 mpc, locals, rhost, rconn, rwriter, caller, control>>

RoutineCannotReport(r) ==
  /\ rpc[r] = "fetch" /\ MayFail(rconn[r])
  /\ CompleteCycle(r)
  /\ Goto(r, "head")
  /\ UNCHANGED <<cluster, connHost, verdict, pool, hostRoutinesStop, found, cache,
                 mpc, locals, rhost, rconn, rwriter, rchanged, caller, control>>

\* The deferred function: report nothing any more, close, Done.  A WaitGroup
\* whose counter would fall below zero panics.
RoutineExits(r) ==
  /\ rpc[r] = "exit"
  /\ CompleteCycleWithoutReport(r)
  /\ CloseConnections({rconn[r]})
  /\ rconn' = [rconn EXCEPT ![r] = NoConn]
  /\ rhost' = [rhost EXCEPT ![r] = NoHost]
  /\ rwriter' = [rwriter EXCEPT ![r] = NoHost]
  /\ rchanged' = [rchanged EXCEPT ![r] = FALSE]
  /\ hostRoutinesWg' = hostRoutinesWg - 1
  /\ crashed' = (hostRoutinesWg = 0)
  /\ Goto(r, "idle")
  /\ UNCHANGED <<cluster, verdict, hostRoutines, hostRoutinesStop, found, cache,
                 mpc, locals, caller, stop, spc, zpc>>

-----------------------------------------------------------------------------
(* ForceRefresh, called by goroutine c (RdsHostListProvider's              *)
(* ForceRefreshHostListWithTimeout and forceRefreshMonitor).               *)

CallerGoto(c, l) == cpc' = [cpc EXCEPT ![c] = l]

\* The call is over, and its locals with it.
CallerLeaves(c) ==
  /\ CallerGoto(c, "done")
  /\ cverify' = [cverify EXCEPT ![c] = FALSE]
  /\ clatest' = [clatest EXCEPT ![c] = NoTopology]
  /\ cchanged' = [cchanged EXCEPT ![c] = FALSE]
  /\ UNCHANGED cconn

CallForceRefresh(c) ==
  /\ cpc[c] = "idle"
  /\ \E v \in BOOLEAN :
       /\ (IF v THEN "verify" ELSE "refresh") \in events
       /\ cverify' = [cverify EXCEPT ![c] = v]
       /\ CallerGoto(c, IF v THEN "load" ELSE "capture")
  /\ UNCHANGED <<cluster, connHost, verdict, pool, hostRoutinesStop, found, stable, cache,
                 mpc, locals, routine, cconn, clatest, cchanged, control>>

\* Verifying: take the monitoring connection away, in three steps.
LoadMonitoringConn(c) ==
  /\ cpc[c] = "load"
  /\ cconn' = [cconn EXCEPT ![c] = monitoringConn]
  /\ CallerGoto(c, "empty")
  /\ UNCHANGED <<cluster, connHost, verdict, pool, hostRoutinesStop, found, stable, cache,
                 mpc, locals, routine, cverify, clatest, cchanged, control>>

EmptyMonitoringConn(c) ==
  /\ cpc[c] = "empty"
  /\ monitoringConn' = NoConn
  /\ CallerGoto(c, "unverify")
  /\ UNCHANGED <<cluster, connHost, isVerifiedWriterConn, writerHostInfo, pool,
                 hostRoutinesStop, found, stable, cache, mpc, locals, routine,
                 cverify, cconn, clatest, cchanged, control>>

ClearVerified(c) ==
  /\ cpc[c] = "unverify"
  /\ isVerifiedWriterConn' = FALSE
  /\ CloseConnections({cconn[c]})
  /\ cconn' = [cconn EXCEPT ![c] = NoConn]
  /\ CallerGoto(c, "capture")
  /\ UNCHANGED <<cluster, monitoringConn, writerHostInfo, pool, hostRoutinesStop, found,
                 stable, cache, mpc, locals, routine, cverify, clatest, cchanged, control>>

\* waitForTopologyUpdate remembers the cached reference; notifyChannel reads stop.
CaptureTopology(c) ==
  /\ cpc[c] = "capture"
  /\ captured' = [captured EXCEPT ![c] = IF topology = NoTopology THEN "nil" ELSE "same"]
  /\ CallerGoto(c, IF stop THEN "wait" ELSE "notify")
  /\ UNCHANGED <<cluster, connHost, verdict, pool, hostRoutinesStop, found, stable, topology,
                 mpc, locals, routine, cverify, cconn, clatest, cchanged, control>>

\* The send itself: on a channel Close has closed, a panic.
NotifyMonitor(c) ==
  /\ cpc[c] = "notify"
  /\ crashed' = (spc = "closed")
  /\ CallerGoto(c, "wait")
  /\ UNCHANGED <<cluster, connHost, verdict, pool, hostRoutinesStop, found, stable, cache,
                 mpc, locals, routine, cverify, cconn, clatest, cchanged, stop, spc, zpc>>

\* A timeout of zero returns what is cached without waiting.
ReturnAtOnce(c) ==
  /\ cpc[c] = "wait"
  /\ CallerLeaves(c)
  /\ captured' = [captured EXCEPT ![c] = "none"]
  /\ UNCHANGED <<cluster, connHost, verdict, pool, hostRoutinesStop, found, stable, topology,
                 mpc, locals, routine, control>>

\* The wait loop reads the cache first and isVerifiedWriterConn after it.
PollTopology(c) ==
  /\ cpc[c] \in {"wait", "poll"}
  /\ clatest' = [clatest EXCEPT ![c] = topology]
  /\ cchanged' = [cchanged EXCEPT ![c] = TopologyChanged(c)]
  /\ CallerGoto(c, "test")
  /\ UNCHANGED <<cluster, connHost, verdict, pool, hostRoutinesStop, found, stable, cache,
                 mpc, locals, routine, cverify, cconn, control>>

Refreshed(c) == cchanged[c] /\ (cverify[c] => isVerifiedWriterConn)

TestTopology(c) ==
  /\ cpc[c] = "test"
  /\ CallerGoto(c, IF Refreshed(c) THEN "return" ELSE "poll")
  /\ UNCHANGED <<cluster, connHost, verdict, pool, hostRoutinesStop, found, stable, cache,
                 mpc, locals, routine, cverify, cconn, clatest, cchanged, control>>

CallTimesOut(c) ==
  /\ cpc[c] = "test"
  /\ CallerLeaves(c)
  /\ captured' = [captured EXCEPT ![c] = "none"]
  /\ UNCHANGED <<cluster, connHost, verdict, pool, hostRoutinesStop, found, stable, topology,
                 mpc, locals, routine, control>>

\* The caller has its answer.  ForceRefreshHostListWithTimeout, the only one
\* that asks for verification, stores the answer in the cache again.
CallReturns(c) ==
  /\ cpc[c] = "return"
  /\ CallerLeaves(c)
  /\ \/ /\ clatest[c] # NoTopology
        /\ topology' = clatest[c]
        /\ captured' = [d \in Callers |->
             CASE d = c -> "none"
               [] d # c /\ captured[d] = "same" -> "other"
               [] OTHER -> captured[d]]
     \/ /\ clatest[c] = NoTopology \/ ~cverify[c]
        /\ captured' = [captured EXCEPT ![c] = "none"]
        /\ UNCHANGED topology
  /\ UNCHANGED <<cluster, connHost, verdict, pool, hostRoutinesStop, found, stable,
                 mpc, locals, routine, control>>

-----------------------------------------------------------------------------
(* Stop and Close, called by the monitor service.                          *)

RequestStop ==
  /\ "stop" \in events /\ spc = "idle"
  /\ stop' = TRUE /\ spc' = "requested"
  /\ UNCHANGED <<cluster, connHost, verdict, pool, hostRoutinesStop, found, stable, cache,
                 mpc, locals, routine, caller, zpc, crashed>>

StopRoutines ==
  /\ spc = "requested"
  /\ hostRoutinesStop' = TRUE /\ spc' = "waiting"
  /\ UNCHANGED <<cluster, connHost, verdict, pool, found, stable, cache, mpc, locals,
                 routine, caller, stop, zpc, crashed>>

\* MUTANT of Close: waits until the map of host routines is empty, which only
\* the Monitor goroutine would empty.
CloseOnceMapIsEmpty ==
  /\ spc = "waiting" /\ mpc = "stopped" /\ hostRoutinesWg = 0 /\ hostRoutines = {}
  /\ CloseConnections({monitoringConn})
  /\ spc' = "closed"
  /\ UNCHANGED <<cluster, verdict, pool, hostRoutinesStop, found, stable, cache,
                 mpc, locals, routine, caller, stop, zpc, crashed>>

\* Monitor() has finished and so have the routines.
Close ==
  /\ spc = "waiting" /\ mpc = "stopped" /\ hostRoutinesWg = 0
  /\ hostRoutines' = {}
  /\ CloseConnections({monitoringConn})
  /\ spc' = "closed"
  /\ UNCHANGED <<cluster, verdict, hostRoutinesWg, hostRoutinesStop, found, stable, cache,
                 mpc, locals, routine, caller, stop, zpc, crashed>>

-----------------------------------------------------------------------------
(* reset, run by the goroutine that publishes a MonitorResetEvent.         *)

ResetStopsRoutines ==
  /\ "reset" \in events /\ zpc = "idle" /\ spc # "closed"
  /\ hostRoutinesStop' = TRUE /\ zpc' = "join"
  /\ UNCHANGED <<cluster, connHost, verdict, pool, found, stable, cache, mpc, locals,
                 routine, caller, stop, spc, crashed>>

ResetJoinsRoutines ==
  /\ zpc = "join" /\ hostRoutinesWg = 0
  /\ hostRoutines' = {} /\ zpc' = "clear"
  /\ UNCHANGED <<cluster, connHost, verdict, hostRoutinesWg, hostRoutinesStop, found, stable,
                 cache, mpc, locals, routine, caller, stop, spc, crashed>>

ResetClearsRoutines ==
  /\ zpc = "clear"
  /\ CloseConnections({hostRoutinesWriterConn, hostRoutinesReaderConn})
  /\ hostRoutinesWriterConn' = NoConn /\ hostRoutinesReaderConn' = NoConn
  /\ hostRoutinesWriterHostInfo' = NoHost /\ hostRoutinesLatestTopology' = NoTopology
  /\ hostRoutinesStop' = FALSE /\ ClearStable
  /\ zpc' = "drop"
  /\ UNCHANGED <<cluster, verdict, pool, cache, mpc, locals, routine, caller,
                 stop, spc, crashed>>

ResetDropsConn ==
  /\ zpc = "drop"
  /\ DropMonitoringConn
  /\ zpc' = "forget"
  /\ UNCHANGED <<cluster, pool, hostRoutinesStop, found, stable, cache, mpc, locals,
                 routine, caller, stop, spc, crashed>>

ResetForgetsTopology ==
  /\ zpc = "forget"
  /\ SetCache(NoTopology)
  /\ zpc' = IF stop THEN "done" ELSE "notify"
  /\ UNCHANGED <<cluster, connHost, verdict, pool, hostRoutinesStop, found, stable,
                 mpc, locals, routine, caller, stop, spc, crashed>>

ResetNotifies ==
  /\ zpc = "notify"
  /\ crashed' = (spc = "closed") /\ zpc' = "done"
  /\ UNCHANGED <<cluster, connHost, verdict, pool, hostRoutinesStop, found, stable, cache,
                 mpc, locals, routine, caller, stop, spc>>

-----------------------------------------------------------------------------
(* The environment: a failover makes another instance the writer (each     *)
(* becomes it at most once), instances are added, and the cached topology  *)
(* reaches its TTL.                                                        *)

Failover ==
  /\ "failover" \in events
  /\ \E h \in members \ pastWriters :
       clusterWriter' = h /\ pastWriters' = pastWriters \cup {h}
  /\ UNCHANGED <<members, events, connHost, verdict, pool, hostRoutinesStop, found, stable,
                 cache, mpc, locals, routine, caller, control>>

InstanceAdded ==
  /\ "grow" \in events
  /\ \E h \in Hosts \ members : members' = members \cup {h}
  /\ UNCHANGED <<clusterWriter, pastWriters, events, connHost, verdict, pool,
                 hostRoutinesStop, found, stable, cache, mpc, locals, routine, caller,
                 control>>

TopologyExpires ==
  /\ "expire" \in events /\ topology # NoTopology
  /\ SetCache(NoTopology)
  /\ UNCHANGED <<cluster, connHost, verdict, pool, hostRoutinesStop, found, stable,
                 mpc, locals, routine, caller, control>>

-----------------------------------------------------------------------------
MonitorStep ==
  \/ EnterPanicRound \/ StartPanicRound \/ OpenAnyConnection \/ StoreAnyConnection \/ CheckAnyConnection
  \/ FetchAnyTopology \/ AbandonAnyConnection \/ SpawnRoutine \/ CountRoutine
  \/ PickUpWriter \/ AdoptWriterConn \/ MarkVerified \/ JoinRoutines \/ AddRoutines
  \/ CheckForStableReaderTopologies
  \/ EnterRegularRound \/ FetchTopology \/ LoseMonitoringConn \/ MonitorStopped

RoutineStep(r) ==
  \/ RoutineSeesStop(r) \/ RoutineConnects(r) \/ RoutineCannotConnect(r)
  \/ RoutineIsDeniedLogin(r) \/ RoutineAsksRole(r) \/ RoutineLosesConn(r)
  \/ RoutineClaimsWriter(r) \/ RoutineIsNoWriter(r) \/ RoutineFetchesAsWriter(r)
  \/ RoutineAnnouncesWriter(r) \/ RoutineActsAsReader(r) \/ RoutineReports(r)
  \/ RoutineCannotReport(r) \/ RoutineExits(r)

CallerStep(c) ==
  \/ CallForceRefresh(c) \/ LoadMonitoringConn(c) \/ EmptyMonitoringConn(c)
  \/ ClearVerified(c) \/ CaptureTopology(c) \/ NotifyMonitor(c) \/ ReturnAtOnce(c)
  \/ PollTopology(c) \/ TestTopology(c) \/ CallTimesOut(c) \/ CallReturns(c)

StopStep == RequestStop \/ StopRoutines \/ Close

ResetStep ==
  \/ ResetStopsRoutines \/ ResetJoinsRoutines \/ ResetClearsRoutines \/ ResetDropsConn
  \/ ResetForgetsTopology \/ ResetNotifies

\* The process has panicked, or the monitor is gone: nothing is left to do.
Halted == (crashed \/ spc = "closed") /\ UNCHANGED vars

Next ==
  \/ /\ ~crashed
     /\ \/ MonitorStep
        \/ \E r \in Routines : RoutineStep(r)
        \/ \E c \in Callers : CallerStep(c)
        \/ StopStep \/ ResetStep \/ Failover \/ InstanceAdded \/ TopologyExpires
  \/ Halted

Spec == Init /\ [][Next]_vars

-----------------------------------------------------------------------------
(* Fairness.  The Go scheduler runs every goroutine that is ready; a call  *)
(* in progress and a Stop in progress go on.  Nothing obliges a host to    *)
(* answer.                                                                 *)

Scheduling ==
  /\ WF_vars(~crashed /\ MonitorStep)
  /\ \A r \in Routines : WF_vars(~crashed /\ RoutineStep(r))
  /\ \A c \in Callers : WF_vars(~crashed /\ cpc[c] # "idle" /\ CallerStep(c))
  /\ WF_vars(~crashed /\ (StopRoutines \/ Close))

\* The hosts are reachable: what is tried again and again succeeds some time.
Reachable ==
  /\ SF_vars(~crashed /\ OpenAnyConnection /\ mpc' # "tail")
  /\ SF_vars(~crashed /\ FetchAnyTopology /\ mpc' # "openFail")
  /\ \A r \in Routines :
       /\ SF_vars(~crashed /\ RoutineConnects(r))
       /\ SF_vars(~crashed /\ RoutineAsksRole(r))
       /\ SF_vars(~crashed /\ RoutineClaimsWriter(r))

ScheduledSpec == Spec /\ Scheduling
ReachableSpec == Spec /\ Scheduling /\ Reachable

-----------------------------------------------------------------------------
(* Properties.                                                             *)

TypeOK ==
  /\ members \subseteq Hosts /\ clusterWriter \in members /\ pastWriters \subseteq members
  /\ events \subseteq Disturbances
  /\ connHost \in [Conns -> Hosts \cup {NoHost}]
  /\ monitoringConn \in Conns \cup {NoConn}
  /\ isVerifiedWriterConn \in BOOLEAN /\ writerHostInfo \in Hosts \cup {NoHost}
  /\ hostRoutines \subseteq Hosts /\ hostRoutinesWg \in Int
  /\ hostRoutinesStop \in BOOLEAN
  /\ hostRoutinesWriterConn \in Conns \cup {NoConn}
  /\ hostRoutinesReaderConn \in Conns \cup {NoConn}
  /\ hostRoutinesWriterHostInfo \in Hosts \cup {NoHost}
  /\ hostRoutinesLatestTopology \in View \cup {NoTopology}
  /\ readerTopologiesById \in [Hosts -> View \cup {NoTopology}]
  /\ completedOneCycle \subseteq Hosts /\ stableTopologiesStart \in BOOLEAN
  /\ topology \in Topology \cup {NoTopology}
  /\ captured \in [Callers -> {"none", "nil", "same", "other"}]
  /\ mpc \in {"top", "panic", "open", "openStore", "openCheck", "openFetch", "openFail", "spawn",
             "count", "adopt", "verify", "join", "tail", "regular", "regularFail",
             "stopped"}
  /\ todo \subseteq Hosts /\ mconn \in Conns \cup {NoConn} /\ mhost \in Hosts \cup {NoHost}
  /\ rpc \in [Routines -> {"idle", "head", "check", "writer", "claimed", "announce",
                           "reader", "fetch", "exit"}]
  /\ rhost \in [Routines -> Hosts \cup {NoHost}]
  /\ rconn \in [Routines -> Conns \cup {NoConn}]
  /\ rwriter \in [Routines -> Hosts \cup {NoHost}]
  /\ rchanged \in [Routines -> BOOLEAN]
  /\ cpc \in [Callers -> {"idle", "load", "empty", "unverify", "capture", "notify", "wait",
                          "poll", "test", "return", "done"}]
  /\ cverify \in [Callers -> BOOLEAN] /\ cconn \in [Callers -> Conns \cup {NoConn}]
  /\ clatest \in [Callers -> Topology \cup {NoTopology}] /\ cchanged \in [Callers -> BOOLEAN]
  /\ stop \in BOOLEAN /\ spc \in {"idle", "requested", "waiting", "closed"}
  /\ zpc \in {"idle", "join", "clear", "drop", "forget", "notify", "done"}
  /\ crashed \in BOOLEAN

\* Until a routine claims to have found the writer, its connection is its own:
\* not the monitoring connection, not the one handed over, not one the Monitor
\* goroutine or a ForceRefresh call is about to install or close, and no other
\* routine's.  So the deferred close of a routine never closes a connection
\* that is in use elsewhere, and nobody closes the one a routine works with.
PrivateConns ==
  \A r \in Routines :
    rconn[r] # NoConn =>
      /\ \A q \in Routines \ {r} : rconn[q] # rconn[r]
      /\ rpc[r] \notin {"claimed", "announce"} =>
           /\ rconn[r] \notin {monitoringConn, hostRoutinesWriterConn, mconn}
           /\ \A c \in Callers : cconn[c] # rconn[r]

\* The WaitGroup counts the running routines, but for the one that is started
\* and not yet counted; so who waits for zero waits for all of them but that one.
RoutinesCounted ==
  hostRoutinesWg =
    Cardinality({r \in Routines : rpc[r] # "idle"}) - (IF mpc = "count" THEN 1 ELSE 0)

\* As long as no reset intervenes: from the announcement until the Monitor
\* goroutine adopts it, the handed-over connection is open and leads to the
\* announced host, whatever ForceRefresh does to the monitoring connection and
\* however the other routines end.
AnnouncedWriterUsable ==
  /\ zpc = "idle"
  /\ hostRoutinesWriterHostInfo # NoHost /\ hostRoutines # {}
  /\ mpc \notin {"verify", "join", "regular", "regularFail"}
  => /\ hostRoutinesWriterConn # NoConn
     /\ connHost[hostRoutinesWriterConn] = hostRoutinesWriterHostInfo

\* As long as no reset intervenes: in regular mode no host routine is left
\* running, so only the Monitor goroutine and the callers write the cache then.
QuietInRegularMode ==
  zpc = "idle" /\ mpc \in {"regular", "regularFail"}
    => \A r \in Routines : rpc[r] = "idle"

\* Panic mode is left again when the hosts can be reached.
PanicModeEnds == InPanicMode ~> (~InPanicMode \/ stop \/ crashed)

\* Stop returns.
StopReturns == stop ~> (spc = "closed" \/ crashed)

\* "When verifyWriter is true, we also wait until the writer has been verified
\* with an actual connection (isVerifiedWriterConn), not just seen in a reader's
\* topology query": what a verifying ForceRefresh returns is not a reader's view.
VerifiedRefreshIsVerified ==
  \A c \in Callers :
    cpc[c] = "return" /\ cverify[c] /\ clatest[c] # NoTopology => clatest[c].verified
=============================================================================
