-------------------- MODULE ClusterTopologyMonitorProofs --------------------
(***************************************************************************)
(* Invariants of the cluster topology monitor, proved for any number of    *)
(* hosts, connections, routines and callers and any mix of disturbances.   *)
(***************************************************************************)
EXTENDS ClusterTopologyMonitor, TLAPS, FiniteSetTheorems

\* Every running routine has a host to look after, and so has the one that the
\* Monitor goroutine has started and is about to count.
WorkHasHost ==
  /\ \A r \in Routines : rpc[r] # "idle" => rhost[r] \in Hosts
  /\ mpc = "count" => mhost \in Hosts

TypeInv == TypeOK /\ WorkHasHost

\* What the monitor reads out of a topology, and what it puts in the cache.
LEMMA TopologyTypes ==
  /\ \A v \in View : v.hosts \subseteq Hosts
  /\ \A v \in View, b \in BOOLEAN : [view |-> v, verified |-> b] \in Topology
  /\ \A t \in Topology : t.view \in View /\ t.view.hosts \subseteq Hosts
  BY DEF View, Topology

\* closeConnection leaves a table of connections.
LEMMA CloseType ==
  ASSUME TypeOK, NEW S, CloseConnections(S)
  PROVE  connHost' \in [Conns -> Hosts \cup {NoHost}]
  BY DEF TypeOK, CloseConnections

\* Setting the cache leaves a topology (or none) and a verdict per caller.
LEMMA CacheType ==
  ASSUME TypeOK, NEW t \in Topology \cup {NoTopology}, SetCache(t)
  PROVE  /\ topology' \in Topology \cup {NoTopology}
         /\ captured' \in [Callers -> {"none", "nil", "same", "other"}]
  BY DEF TypeOK, SetCache

\* Every step of the monitor, its routines, its callers and its environment
\* keeps the variables in their types.
LEMMA TypeStep == TypeInv /\ [Next]_vars => TypeInv'
<1>1. ASSUME TypeInv, EnterPanicRound PROVE TypeInv'
  BY <1>1, ConstantsAssumption
  DEF TypeInv, TypeOK, WorkHasHost, EnterPanicRound, Disturbances,
      cluster, verdict, pool, found, stable, cache, locals, routine, caller, control
<1>2. ASSUME TypeInv, StartPanicRound PROVE TypeInv'
  <2>1. todo' \subseteq Hosts
    BY <1>2, TopologyTypes DEF TypeInv, TypeOK, StartPanicRound
  <2>2. mpc' \in {"open", "tail", "spawn"}
    BY <1>2 DEF TypeInv, TypeOK, StartPanicRound
  <2>3. hostRoutinesStop' \in BOOLEAN
    BY <1>2 DEF TypeInv, TypeOK, StartPanicRound
  <2> QED
    BY <1>2, ConstantsAssumption, <2>1, <2>2, <2>3
    DEF TypeInv, TypeOK, WorkHasHost, StartPanicRound,
        cluster, verdict, pool, found, stable, cache, locals, routine, caller, control
<1>3. ASSUME TypeInv, OpenAnyConnection PROVE TypeInv'
  BY <1>3, ConstantsAssumption
  DEF TypeInv, TypeOK, WorkHasHost, OpenAnyConnection, Connect, Disturbances,
      cluster, verdict, pool, found, stable, cache, locals, routine, caller, control
<1>4. ASSUME TypeInv, StoreAnyConnection PROVE TypeInv'
  BY <1>4, ConstantsAssumption, CloseType
  DEF TypeInv, TypeOK, WorkHasHost, StoreAnyConnection, Disturbances,
      cluster, verdict, pool, found, stable, cache, locals, routine, caller, control
<1>5. ASSUME TypeInv, CheckAnyConnection PROVE TypeInv'
  <2>1. isVerifiedWriterConn' \in BOOLEAN /\ writerHostInfo' \in Hosts \cup {NoHost}
    BY <1>5 DEF TypeInv, TypeOK, CheckAnyConnection, IsWriterInstance, IsOpen
  <2> QED
    BY <1>5, ConstantsAssumption, <2>1
    DEF TypeInv, TypeOK, WorkHasHost, CheckAnyConnection, IsWriterInstance, IsOpen,
        cluster, verdict, pool, found, stable, cache, locals, routine, caller, control
<1>6. ASSUME TypeInv, FetchAnyTopology PROVE TypeInv'
  <2>1. /\ topology' \in Topology \cup {NoTopology}
         /\ captured' \in [Callers -> {"none", "nil", "same", "other"}]
    BY <1>6, CacheType, TopologyTypes DEF TypeInv, TypeOK, FetchAnyTopology, cache
  <2>2. todo' \subseteq Hosts
    BY <1>6, TopologyTypes DEF TypeInv, TypeOK, FetchAnyTopology
  <2>3. mpc' \in {"tail", "spawn", "openFail"}
    BY <1>6 DEF TypeInv, TypeOK, FetchAnyTopology
  <2> QED
    BY <1>6, ConstantsAssumption, <2>1, <2>2, <2>3
    DEF TypeInv, TypeOK, WorkHasHost, FetchAnyTopology,
        cluster, verdict, pool, found, stable, cache, locals, routine, caller, control
<1>7. ASSUME TypeInv, AbandonAnyConnection PROVE TypeInv'
  <2>1. connHost' \in [Conns -> Hosts \cup {NoHost}]
    BY <1>7, CloseType DEF TypeInv, TypeOK, AbandonAnyConnection, DropMonitoringConn
  <2>2. isVerifiedWriterConn' \in BOOLEAN
    BY <1>7 DEF TypeInv, TypeOK, AbandonAnyConnection, DropMonitoringConn
  <2> QED
    BY <1>7, ConstantsAssumption, <2>1, <2>2
    DEF TypeInv, TypeOK, WorkHasHost, AbandonAnyConnection, DropMonitoringConn,
        cluster, verdict, pool, found, stable, cache, locals, routine, caller, control
<1>8. ASSUME TypeInv, SpawnRoutine PROVE TypeInv'
  BY <1>8, ConstantsAssumption
  DEF TypeInv, TypeOK, WorkHasHost, SpawnRoutine, Disturbances,
      cluster, verdict, pool, found, stable, cache, locals, routine, caller, control
<1>9. ASSUME TypeInv, CountRoutine PROVE TypeInv'
  BY <1>9, ConstantsAssumption
  DEF TypeInv, TypeOK, WorkHasHost, CountRoutine, Disturbances,
      cluster, verdict, pool, found, stable, cache, locals, routine, caller, control
<1>10. ASSUME TypeInv, PickUpWriter PROVE TypeInv'
  BY <1>10, ConstantsAssumption
  DEF TypeInv, TypeOK, WorkHasHost, PickUpWriter, Disturbances,
      cluster, verdict, pool, found, stable, cache, locals, routine, caller, control
<1>11. ASSUME TypeInv, AdoptWriterConn PROVE TypeInv'
  BY <1>11, ConstantsAssumption, CloseType
  DEF TypeInv, TypeOK, WorkHasHost, AdoptWriterConn, Disturbances,
      cluster, verdict, pool, found, stable, cache, locals, routine, caller, control
<1>12. ASSUME TypeInv, MarkVerified PROVE TypeInv'
  BY <1>12, ConstantsAssumption
  DEF TypeInv, TypeOK, WorkHasHost, MarkVerified, Disturbances,
      cluster, verdict, pool, found, stable, cache, locals, routine, caller, control
<1>13. ASSUME TypeInv, JoinRoutines PROVE TypeInv'
  <2>1. /\ readerTopologiesById' \in [Hosts -> View \cup {NoTopology}]
         /\ completedOneCycle' \subseteq Hosts /\ stableTopologiesStart' \in BOOLEAN
    BY <1>13 DEF TypeInv, TypeOK, JoinRoutines, ClearStable, stable
  <2> QED
    BY <1>13, ConstantsAssumption, <2>1
    DEF TypeInv, TypeOK, WorkHasHost, JoinRoutines, ClearStable,
        cluster, verdict, pool, found, stable, cache, locals, routine, caller, control
<1>14. ASSUME TypeInv, AddRoutines PROVE TypeInv'
  BY <1>14, ConstantsAssumption, TopologyTypes
  DEF TypeInv, TypeOK, WorkHasHost, AddRoutines, Disturbances,
      cluster, verdict, pool, found, stable, cache, locals, routine, caller, control
<1>15. ASSUME TypeInv, CheckForStableReaderTopologies PROVE TypeInv'
  <2>1. /\ topology' \in Topology \cup {NoTopology}
         /\ captured' \in [Callers -> {"none", "nil", "same", "other"}]
    BY <1>15, CacheType, TopologyTypes DEF TypeInv, TypeOK, CheckForStableReaderTopologies, cache
  <2>2. stableTopologiesStart' \in BOOLEAN
    BY <1>15 DEF TypeInv, TypeOK, CheckForStableReaderTopologies
  <2> QED
    BY <1>15, ConstantsAssumption, <2>1, <2>2
    DEF TypeInv, TypeOK, WorkHasHost, CheckForStableReaderTopologies,
        cluster, verdict, pool, found, stable, cache, locals, routine, caller, control
<1>16. ASSUME TypeInv, EnterRegularRound PROVE TypeInv'
  BY <1>16, ConstantsAssumption
  DEF TypeInv, TypeOK, WorkHasHost, EnterRegularRound, Disturbances,
      cluster, verdict, pool, found, stable, cache, locals, routine, caller, control
<1>17. ASSUME TypeInv, FetchTopology PROVE TypeInv'
  <2>1. /\ topology' \in Topology \cup {NoTopology}
         /\ captured' \in [Callers -> {"none", "nil", "same", "other"}]
    BY <1>17, CacheType, TopologyTypes DEF TypeInv, TypeOK, FetchTopology, cache
  <2>2. /\ readerTopologiesById' \in [Hosts -> View \cup {NoTopology}]
         /\ completedOneCycle' \subseteq Hosts /\ stableTopologiesStart' \in BOOLEAN
    BY <1>17 DEF TypeInv, TypeOK, FetchTopology, ClearStable, stable
  <2>3. hostRoutines' \subseteq Hosts /\ mpc' \in {"top", "regularFail"}
    BY <1>17 DEF TypeInv, TypeOK, FetchTopology
  <2> QED
    BY <1>17, ConstantsAssumption, <2>1, <2>2, <2>3
    DEF TypeInv, TypeOK, WorkHasHost, FetchTopology, ClearStable,
        cluster, verdict, pool, found, stable, cache, locals, routine, caller, control
<1>18. ASSUME TypeInv, LoseMonitoringConn PROVE TypeInv'
  <2>1. connHost' \in [Conns -> Hosts \cup {NoHost}]
    BY <1>18, CloseType DEF TypeInv, TypeOK, LoseMonitoringConn, DropMonitoringConn
  <2>2. isVerifiedWriterConn' \in BOOLEAN
    BY <1>18 DEF TypeInv, TypeOK, LoseMonitoringConn, DropMonitoringConn
  <2> QED
    BY <1>18, ConstantsAssumption, <2>1, <2>2
    DEF TypeInv, TypeOK, WorkHasHost, LoseMonitoringConn, DropMonitoringConn,
        cluster, verdict, pool, found, stable, cache, locals, routine, caller, control
<1>19. ASSUME TypeInv, MonitorStopped PROVE TypeInv'
  BY <1>19, ConstantsAssumption
  DEF TypeInv, TypeOK, WorkHasHost, MonitorStopped, Disturbances,
      cluster, verdict, pool, found, stable, cache, locals, routine, caller, control
<1>20. ASSUME TypeInv, NEW r \in Routines, RoutineSeesStop(r) PROVE TypeInv'
  BY <1>20, ConstantsAssumption
  DEF TypeInv, TypeOK, WorkHasHost, RoutineSeesStop, Goto, Disturbances,
      cluster, verdict, pool, found, stable, cache, locals, routine, caller, control
<1>21. ASSUME TypeInv, NEW r \in Routines, RoutineConnects(r) PROVE TypeInv'
  BY <1>21, ConstantsAssumption
  DEF TypeInv, TypeOK, WorkHasHost, RoutineConnects, Connect, Goto, Disturbances,
      cluster, verdict, pool, found, stable, cache, locals, routine, caller, control
<1>22. ASSUME TypeInv, NEW r \in Routines, RoutineCannotConnect(r) PROVE TypeInv'
  BY <1>22, ConstantsAssumption
  DEF TypeInv, TypeOK, WorkHasHost, RoutineCannotConnect, CompleteCycleWithoutReport, Disturbances,
      cluster, verdict, pool, found, stable, cache, locals, routine, caller, control
<1>23. ASSUME TypeInv, NEW r \in Routines, RoutineIsDeniedLogin(r) PROVE TypeInv'
  BY <1>23, ConstantsAssumption
  DEF TypeInv, TypeOK, WorkHasHost, RoutineIsDeniedLogin, Goto, Disturbances,
      cluster, verdict, pool, found, stable, cache, locals, routine, caller, control
<1>24. ASSUME TypeInv, NEW r \in Routines, RoutineAsksRole(r) PROVE TypeInv'
  BY <1>24, ConstantsAssumption
  DEF TypeInv, TypeOK, WorkHasHost, RoutineAsksRole, Goto, Disturbances,
      cluster, verdict, pool, found, stable, cache, locals, routine, caller, control
<1>25. ASSUME TypeInv, NEW r \in Routines, RoutineLosesConn(r) PROVE TypeInv'
  BY <1>25, ConstantsAssumption, CloseType
    DEF TypeInv, TypeOK, WorkHasHost, RoutineLosesConn, Goto, CompleteCycleWithoutReport,
      Disturbances,
      cluster, verdict, pool, found, stable, cache, locals, routine, caller, control
<1>26. ASSUME TypeInv, NEW r \in Routines, RoutineClaimsWriter(r) PROVE TypeInv'
  BY <1>26, ConstantsAssumption, CloseType
  DEF TypeInv, TypeOK, WorkHasHost, RoutineClaimsWriter, Goto, Disturbances,
      cluster, verdict, pool, found, stable, cache, locals, routine, caller, control
<1>27. ASSUME TypeInv, NEW r \in Routines, RoutineIsNoWriter(r) PROVE TypeInv'
  BY <1>27, ConstantsAssumption
  DEF TypeInv, TypeOK, WorkHasHost, RoutineIsNoWriter, Goto, Disturbances,
      cluster, verdict, pool, found, stable, cache, locals, routine, caller, control
<1>28. ASSUME TypeInv, NEW r \in Routines, RoutineFetchesAsWriter(r) PROVE TypeInv'
  <2>1. /\ topology' \in Topology \cup {NoTopology}
         /\ captured' \in [Callers -> {"none", "nil", "same", "other"}]
    BY <1>28, CacheType, TopologyTypes DEF TypeInv, TypeOK, RoutineFetchesAsWriter, cache
  <2> QED
    BY <1>28, ConstantsAssumption, <2>1
    DEF TypeInv, TypeOK, WorkHasHost, RoutineFetchesAsWriter, Goto,
        cluster, verdict, pool, found, stable, cache, locals, routine, caller, control
<1>29. ASSUME TypeInv, NEW r \in Routines, RoutineAnnouncesWriter(r) PROVE TypeInv'
  BY <1>29, ConstantsAssumption
  DEF TypeInv, TypeOK, WorkHasHost, RoutineAnnouncesWriter, Goto, Disturbances,
      cluster, verdict, pool, found, stable, cache, locals, routine, caller, control
<1>30. ASSUME TypeInv, NEW r \in Routines, RoutineActsAsReader(r) PROVE TypeInv'
  BY <1>30, ConstantsAssumption
  DEF TypeInv, TypeOK, WorkHasHost, RoutineActsAsReader, Goto, CompleteCycle, Disturbances,
      cluster, verdict, pool, found, stable, cache, locals, routine, caller, control
<1>31. ASSUME TypeInv, NEW r \in Routines, RoutineReports(r) PROVE TypeInv'
  <2>1. /\ topology' \in Topology \cup {NoTopology}
         /\ captured' \in [Callers -> {"none", "nil", "same", "other"}]
    BY <1>31, CacheType, TopologyTypes DEF TypeInv, TypeOK, RoutineReports, cache
  <2>2. hostRoutinesLatestTopology' \in View /\ rchanged' \in [Routines -> BOOLEAN]
    BY <1>31 DEF TypeInv, TypeOK, RoutineReports
  <2>3. readerTopologiesById' \in [Hosts -> View \cup {NoTopology}] /\ completedOneCycle' \subseteq Hosts
    BY <1>31 DEF TypeInv, TypeOK, RoutineReports, WorkHasHost
  <2> QED
    BY <1>31, ConstantsAssumption, <2>1, <2>2, <2>3
    DEF TypeInv, TypeOK, WorkHasHost, RoutineReports, Goto,
        cluster, verdict, pool, found, stable, cache, locals, routine, caller, control
<1>32. ASSUME TypeInv, NEW r \in Routines, RoutineCannotReport(r) PROVE TypeInv'
  BY <1>32, ConstantsAssumption
  DEF TypeInv, TypeOK, WorkHasHost, RoutineCannotReport, Goto, CompleteCycle, Disturbances,
      cluster, verdict, pool, found, stable, cache, locals, routine, caller, control
<1>33. ASSUME TypeInv, NEW r \in Routines, RoutineExits(r) PROVE TypeInv'
  BY <1>33, ConstantsAssumption, CloseType
  DEF TypeInv, TypeOK, WorkHasHost, RoutineExits, Goto, CompleteCycleWithoutReport, Disturbances,
      cluster, verdict, pool, found, stable, cache, locals, routine, caller, control
<1>34. ASSUME TypeInv, NEW c \in Callers, CallForceRefresh(c) PROVE TypeInv'
  BY <1>34, ConstantsAssumption
  DEF TypeInv, TypeOK, WorkHasHost, CallForceRefresh, CallerGoto, Disturbances,
      cluster, verdict, pool, found, stable, cache, locals, routine, caller, control
<1>35. ASSUME TypeInv, NEW c \in Callers, LoadMonitoringConn(c) PROVE TypeInv'
  BY <1>35, ConstantsAssumption
  DEF TypeInv, TypeOK, WorkHasHost, LoadMonitoringConn, CallerGoto, Disturbances,
      cluster, verdict, pool, found, stable, cache, locals, routine, caller, control
<1>36. ASSUME TypeInv, NEW c \in Callers, EmptyMonitoringConn(c) PROVE TypeInv'
  BY <1>36, ConstantsAssumption
  DEF TypeInv, TypeOK, WorkHasHost, EmptyMonitoringConn, CallerGoto, Disturbances,
      cluster, verdict, pool, found, stable, cache, locals, routine, caller, control
<1>37. ASSUME TypeInv, NEW c \in Callers, ClearVerified(c) PROVE TypeInv'
  <2>1. connHost' \in [Conns -> Hosts \cup {NoHost}]
    BY <1>37, CloseType DEF TypeInv, TypeOK, ClearVerified
  <2>2. isVerifiedWriterConn' \in BOOLEAN
    BY <1>37 DEF TypeInv, TypeOK, ClearVerified
  <2> QED
    BY <1>37, ConstantsAssumption, <2>1, <2>2
    DEF TypeInv, TypeOK, WorkHasHost, ClearVerified, CallerGoto,
        cluster, verdict, pool, found, stable, cache, locals, routine, caller, control
<1>38. ASSUME TypeInv, NEW c \in Callers, CaptureTopology(c) PROVE TypeInv'
  BY <1>38, ConstantsAssumption
  DEF TypeInv, TypeOK, WorkHasHost, CaptureTopology, CallerGoto, Disturbances,
      cluster, verdict, pool, found, stable, cache, locals, routine, caller, control
<1>39. ASSUME TypeInv, NEW c \in Callers, NotifyMonitor(c) PROVE TypeInv'
  BY <1>39, ConstantsAssumption
  DEF TypeInv, TypeOK, WorkHasHost, NotifyMonitor, CallerGoto, Disturbances,
      cluster, verdict, pool, found, stable, cache, locals, routine, caller, control
<1>40. ASSUME TypeInv, NEW c \in Callers, ReturnAtOnce(c) PROVE TypeInv'
  BY <1>40, ConstantsAssumption
  DEF TypeInv, TypeOK, WorkHasHost, ReturnAtOnce, CallerGoto, CallerLeaves, Disturbances,
      cluster, verdict, pool, found, stable, cache, locals, routine, caller, control
<1>41. ASSUME TypeInv, NEW c \in Callers, PollTopology(c) PROVE TypeInv'
  <2>1. cchanged' \in [Callers -> BOOLEAN]
    BY <1>41 DEF TypeInv, TypeOK, PollTopology, TopologyChanged
  <2> QED
    BY <1>41, ConstantsAssumption, <2>1
    DEF TypeInv, TypeOK, WorkHasHost, PollTopology, CallerGoto,
        cluster, verdict, pool, found, stable, cache, locals, routine, caller, control
<1>42. ASSUME TypeInv, NEW c \in Callers, TestTopology(c) PROVE TypeInv'
  BY <1>42, ConstantsAssumption
  DEF TypeInv, TypeOK, WorkHasHost, TestTopology, CallerGoto, Disturbances,
      cluster, verdict, pool, found, stable, cache, locals, routine, caller, control
<1>43. ASSUME TypeInv, NEW c \in Callers, CallTimesOut(c) PROVE TypeInv'
  BY <1>43, ConstantsAssumption
  DEF TypeInv, TypeOK, WorkHasHost, CallTimesOut, CallerGoto, CallerLeaves, Disturbances,
      cluster, verdict, pool, found, stable, cache, locals, routine, caller, control
<1>44. ASSUME TypeInv, NEW c \in Callers, CallReturns(c) PROVE TypeInv'
  BY <1>44, ConstantsAssumption
  DEF TypeInv, TypeOK, WorkHasHost, CallReturns, CallerGoto, CallerLeaves, Disturbances,
      cluster, verdict, pool, found, stable, cache, locals, routine, caller, control
<1>45. ASSUME TypeInv, RequestStop PROVE TypeInv'
  BY <1>45, ConstantsAssumption
  DEF TypeInv, TypeOK, WorkHasHost, RequestStop, Disturbances,
      cluster, verdict, pool, found, stable, cache, locals, routine, caller, control
<1>46. ASSUME TypeInv, StopRoutines PROVE TypeInv'
  BY <1>46, ConstantsAssumption
  DEF TypeInv, TypeOK, WorkHasHost, StopRoutines, Disturbances,
      cluster, verdict, pool, found, stable, cache, locals, routine, caller, control
<1>47. ASSUME TypeInv, Close PROVE TypeInv'
  BY <1>47, ConstantsAssumption, CloseType
  DEF TypeInv, TypeOK, WorkHasHost, Close, Disturbances,
      cluster, verdict, pool, found, stable, cache, locals, routine, caller, control
<1>48. ASSUME TypeInv, ResetStopsRoutines PROVE TypeInv'
  BY <1>48, ConstantsAssumption
  DEF TypeInv, TypeOK, WorkHasHost, ResetStopsRoutines, Disturbances,
      cluster, verdict, pool, found, stable, cache, locals, routine, caller, control
<1>49. ASSUME TypeInv, ResetJoinsRoutines PROVE TypeInv'
  BY <1>49, ConstantsAssumption
  DEF TypeInv, TypeOK, WorkHasHost, ResetJoinsRoutines, Disturbances,
      cluster, verdict, pool, found, stable, cache, locals, routine, caller, control
<1>50. ASSUME TypeInv, ResetClearsRoutines PROVE TypeInv'
  <2>1. connHost' \in [Conns -> Hosts \cup {NoHost}]
    BY <1>50, CloseType DEF TypeInv, TypeOK, ResetClearsRoutines
  <2>2. /\ readerTopologiesById' \in [Hosts -> View \cup {NoTopology}]
         /\ completedOneCycle' \subseteq Hosts /\ stableTopologiesStart' \in BOOLEAN
    BY <1>50 DEF TypeInv, TypeOK, ResetClearsRoutines, ClearStable, stable
  <2>3. hostRoutinesStop' \in BOOLEAN
    BY <1>50 DEF TypeInv, TypeOK, ResetClearsRoutines
  <2> QED
    BY <1>50, ConstantsAssumption, <2>1, <2>2, <2>3
    DEF TypeInv, TypeOK, WorkHasHost, ResetClearsRoutines, ClearStable,
        cluster, verdict, pool, found, stable, cache, locals, routine, caller, control
<1>51. ASSUME TypeInv, ResetDropsConn PROVE TypeInv'
  <2>1. connHost' \in [Conns -> Hosts \cup {NoHost}]
    BY <1>51, CloseType DEF TypeInv, TypeOK, ResetDropsConn, DropMonitoringConn
  <2>2. isVerifiedWriterConn' \in BOOLEAN
    BY <1>51 DEF TypeInv, TypeOK, ResetDropsConn, DropMonitoringConn
  <2> QED
    BY <1>51, ConstantsAssumption, <2>1, <2>2
    DEF TypeInv, TypeOK, WorkHasHost, ResetDropsConn, DropMonitoringConn,
        cluster, verdict, pool, found, stable, cache, locals, routine, caller, control
<1>52. ASSUME TypeInv, ResetForgetsTopology PROVE TypeInv'
  BY <1>52, ConstantsAssumption, CacheType, TopologyTypes
  DEF TypeInv, TypeOK, WorkHasHost, ResetForgetsTopology, Disturbances,
      cluster, verdict, pool, found, stable, cache, locals, routine, caller, control
<1>53. ASSUME TypeInv, ResetNotifies PROVE TypeInv'
  BY <1>53, ConstantsAssumption
  DEF TypeInv, TypeOK, WorkHasHost, ResetNotifies, Disturbances,
      cluster, verdict, pool, found, stable, cache, locals, routine, caller, control
<1>54. ASSUME TypeInv, Failover PROVE TypeInv'
  BY <1>54, ConstantsAssumption
  DEF TypeInv, TypeOK, WorkHasHost, Failover, Disturbances,
      cluster, verdict, pool, found, stable, cache, locals, routine, caller, control
<1>55. ASSUME TypeInv, InstanceAdded PROVE TypeInv'
  BY <1>55, ConstantsAssumption
  DEF TypeInv, TypeOK, WorkHasHost, InstanceAdded, Disturbances,
      cluster, verdict, pool, found, stable, cache, locals, routine, caller, control
<1>56. ASSUME TypeInv, TopologyExpires PROVE TypeInv'
  BY <1>56, ConstantsAssumption, CacheType, TopologyTypes
  DEF TypeInv, TypeOK, WorkHasHost, TopologyExpires, Disturbances,
      cluster, verdict, pool, found, stable, cache, locals, routine, caller, control
<1>57. ASSUME TypeInv, UNCHANGED vars PROVE TypeInv'
  BY <1>57 DEF TypeInv, TypeOK, WorkHasHost, vars,
      cluster, verdict, pool, found, stable, cache, locals, routine, caller, control
<1> QED
    BY <1>1, <1>2, <1>3, <1>4, <1>5, <1>6, <1>7, <1>8, <1>9, <1>10, <1>11, <1>12, <1>13,
     <1>14, <1>15, <1>16, <1>17, <1>18, <1>19, <1>20, <1>21, <1>22, <1>23, <1>24, <1>25,
     <1>26, <1>27, <1>28, <1>29, <1>30, <1>31, <1>32, <1>33, <1>34, <1>35, <1>36, <1>37,
     <1>38, <1>39, <1>40, <1>41, <1>42, <1>43, <1>44, <1>45, <1>46, <1>47, <1>48, <1>49,
     <1>50, <1>51, <1>52, <1>53, <1>54, <1>55, <1>56, <1>57
  DEF Next, MonitorStep, RoutineStep, CallerStep, StopStep, ResetStep, Halted

\* The monitor starts with its variables in their types.
LEMMA InitTypes == Init => TypeInv
<1> SUFFICES ASSUME Init PROVE TypeInv
  OBVIOUS
<1>1. members \subseteq Hosts /\ clusterWriter \in members /\ events \subseteq Disturbances
  BY ConstantsAssumption DEF Init
<1>2. /\ isVerifiedWriterConn \in BOOLEAN /\ hostRoutinesStop \in BOOLEAN
      /\ stableTopologiesStart \in BOOLEAN /\ stop \in BOOLEAN /\ crashed \in BOOLEAN
  BY DEF Init
<1> QED
  BY <1>1, <1>2 DEF Init, TypeInv, TypeOK, WorkHasHost

\* The variables always have their types.
THEOREM TypeCorrect == Spec => []TypeOK
<1>1. TypeInv => TypeOK
  BY DEF TypeInv
<1> QED
  BY <1>1, InitTypes, TypeStep, PTL DEF Spec

-----------------------------------------------------------------------------
\* No step makes a connection of a searching routine anyone else's.
LEMMA PrivateStep == TypeInv /\ PrivateConns /\ [Next]_vars => PrivateConns'
<1>1. ASSUME TypeInv, PrivateConns, EnterPanicRound PROVE PrivateConns'
  BY <1>1
  DEF TypeInv, TypeOK, PrivateConns, EnterPanicRound,
      cluster, verdict, pool, found, stable, cache, locals, routine, caller, control
<1>2. ASSUME TypeInv, PrivateConns, StartPanicRound PROVE PrivateConns'
  BY <1>2
  DEF TypeInv, TypeOK, PrivateConns, StartPanicRound,
      cluster, verdict, pool, found, stable, cache, locals, routine, caller, control
<1>3. ASSUME TypeInv, PrivateConns, OpenAnyConnection PROVE PrivateConns'
  BY <1>3
  DEF TypeInv, TypeOK, PrivateConns, OpenAnyConnection, Connect, Fresh, Referenced,
      cluster, verdict, pool, found, stable, cache, locals, routine, caller, control
<1>4. ASSUME TypeInv, PrivateConns, StoreAnyConnection PROVE PrivateConns'
  BY <1>4
  DEF TypeInv, TypeOK, PrivateConns, StoreAnyConnection, CloseConnections,
      cluster, verdict, pool, found, stable, cache, locals, routine, caller, control
<1>5. ASSUME TypeInv, PrivateConns, CheckAnyConnection PROVE PrivateConns'
  BY <1>5
  DEF TypeInv, TypeOK, PrivateConns, CheckAnyConnection,
      cluster, verdict, pool, found, stable, cache, locals, routine, caller, control
<1>6. ASSUME TypeInv, PrivateConns, FetchAnyTopology PROVE PrivateConns'
  BY <1>6
  DEF TypeInv, TypeOK, PrivateConns, FetchAnyTopology, SetCache,
      cluster, verdict, pool, found, stable, cache, locals, routine, caller, control
<1>7. ASSUME TypeInv, PrivateConns, AbandonAnyConnection PROVE PrivateConns'
  BY <1>7
  DEF TypeInv, TypeOK, PrivateConns, AbandonAnyConnection, CloseConnections, DropMonitoringConn,
      cluster, verdict, pool, found, stable, cache, locals, routine, caller, control
<1>8. ASSUME TypeInv, PrivateConns, SpawnRoutine PROVE PrivateConns'
  BY <1>8
  DEF TypeInv, TypeOK, PrivateConns, SpawnRoutine,
      cluster, verdict, pool, found, stable, cache, locals, routine, caller, control
<1>9. ASSUME TypeInv, PrivateConns, CountRoutine PROVE PrivateConns'
  BY <1>9
  DEF TypeInv, TypeOK, PrivateConns, CountRoutine,
      cluster, verdict, pool, found, stable, cache, locals, routine, caller, control
<1>10. ASSUME TypeInv, PrivateConns, PickUpWriter PROVE PrivateConns'
  BY <1>10
  DEF TypeInv, TypeOK, PrivateConns, PickUpWriter,
      cluster, verdict, pool, found, stable, cache, locals, routine, caller, control
<1>11. ASSUME TypeInv, PrivateConns, AdoptWriterConn PROVE PrivateConns'
  BY <1>11
  DEF TypeInv, TypeOK, PrivateConns, AdoptWriterConn, CloseConnections,
      cluster, verdict, pool, found, stable, cache, locals, routine, caller, control
<1>12. ASSUME TypeInv, PrivateConns, MarkVerified PROVE PrivateConns'
  BY <1>12
  DEF TypeInv, TypeOK, PrivateConns, MarkVerified,
      cluster, verdict, pool, found, stable, cache, locals, routine, caller, control
<1>13. ASSUME TypeInv, PrivateConns, JoinRoutines PROVE PrivateConns'
  BY <1>13
  DEF TypeInv, TypeOK, PrivateConns, JoinRoutines, ClearStable,
      cluster, verdict, pool, found, stable, cache, locals, routine, caller, control
<1>14. ASSUME TypeInv, PrivateConns, AddRoutines PROVE PrivateConns'
  BY <1>14
  DEF TypeInv, TypeOK, PrivateConns, AddRoutines,
      cluster, verdict, pool, found, stable, cache, locals, routine, caller, control
<1>15. ASSUME TypeInv, PrivateConns, CheckForStableReaderTopologies PROVE PrivateConns'
  BY <1>15
  DEF TypeInv, TypeOK, PrivateConns, CheckForStableReaderTopologies, SetCache,
      cluster, verdict, pool, found, stable, cache, locals, routine, caller, control
<1>16. ASSUME TypeInv, PrivateConns, EnterRegularRound PROVE PrivateConns'
  BY <1>16
  DEF TypeInv, TypeOK, PrivateConns, EnterRegularRound,
      cluster, verdict, pool, found, stable, cache, locals, routine, caller, control
<1>17. ASSUME TypeInv, PrivateConns, FetchTopology PROVE PrivateConns'
  BY <1>17
  DEF TypeInv, TypeOK, PrivateConns, FetchTopology, SetCache, ClearStable,
      cluster, verdict, pool, found, stable, cache, locals, routine, caller, control
<1>18. ASSUME TypeInv, PrivateConns, LoseMonitoringConn PROVE PrivateConns'
  BY <1>18
  DEF TypeInv, TypeOK, PrivateConns, LoseMonitoringConn, CloseConnections, DropMonitoringConn,
      cluster, verdict, pool, found, stable, cache, locals, routine, caller, control
<1>19. ASSUME TypeInv, PrivateConns, MonitorStopped PROVE PrivateConns'
  BY <1>19
  DEF TypeInv, TypeOK, PrivateConns, MonitorStopped,
      cluster, verdict, pool, found, stable, cache, locals, routine, caller, control
<1>20. ASSUME TypeInv, PrivateConns, NEW r \in Routines, RoutineSeesStop(r) PROVE PrivateConns'
  BY <1>20
  DEF TypeInv, TypeOK, PrivateConns, RoutineSeesStop, Goto,
      cluster, verdict, pool, found, stable, cache, locals, routine, caller, control
<1>21. ASSUME TypeInv, PrivateConns, NEW r \in Routines, RoutineConnects(r) PROVE PrivateConns'
  BY <1>21
  DEF TypeInv, TypeOK, PrivateConns, RoutineConnects, Connect, Goto, Fresh, Referenced,
      cluster, verdict, pool, found, stable, cache, locals, routine, caller, control
<1>22. ASSUME TypeInv, PrivateConns, NEW r \in Routines, RoutineCannotConnect(r) PROVE PrivateConns'
  BY <1>22
  DEF TypeInv, TypeOK, PrivateConns, RoutineCannotConnect, CompleteCycleWithoutReport,
      cluster, verdict, pool, found, stable, cache, locals, routine, caller, control
<1>23. ASSUME TypeInv, PrivateConns, NEW r \in Routines, RoutineIsDeniedLogin(r) PROVE PrivateConns'
  BY <1>23
  DEF TypeInv, TypeOK, PrivateConns, RoutineIsDeniedLogin, Goto,
      cluster, verdict, pool, found, stable, cache, locals, routine, caller, control
<1>24. ASSUME TypeInv, PrivateConns, NEW r \in Routines, RoutineAsksRole(r) PROVE PrivateConns'
  BY <1>24
  DEF TypeInv, TypeOK, PrivateConns, RoutineAsksRole, Goto,
      cluster, verdict, pool, found, stable, cache, locals, routine, caller, control
<1>25. ASSUME TypeInv, PrivateConns, NEW r \in Routines, RoutineLosesConn(r) PROVE PrivateConns'
  BY <1>25
    DEF TypeInv, TypeOK, PrivateConns, RoutineLosesConn, CloseConnections, Goto,
      CompleteCycleWithoutReport,
      cluster, verdict, pool, found, stable, cache, locals, routine, caller, control
<1>26. ASSUME TypeInv, PrivateConns, NEW r \in Routines, RoutineClaimsWriter(r) PROVE PrivateConns'
  BY <1>26
  DEF TypeInv, TypeOK, PrivateConns, RoutineClaimsWriter, CloseConnections, Goto,
      cluster, verdict, pool, found, stable, cache, locals, routine, caller, control
<1>27. ASSUME TypeInv, PrivateConns, NEW r \in Routines, RoutineIsNoWriter(r) PROVE PrivateConns'
  BY <1>27
  DEF TypeInv, TypeOK, PrivateConns, RoutineIsNoWriter, Goto,
      cluster, verdict, pool, found, stable, cache, locals, routine, caller, control
<1>28. ASSUME TypeInv, PrivateConns, NEW r \in Routines, RoutineFetchesAsWriter(r) PROVE PrivateConns'
  BY <1>28
  DEF TypeInv, TypeOK, PrivateConns, RoutineFetchesAsWriter, SetCache, Goto,
      cluster, verdict, pool, found, stable, cache, locals, routine, caller, control
<1>29. ASSUME TypeInv, PrivateConns, NEW r \in Routines, RoutineAnnouncesWriter(r) PROVE PrivateConns'
  BY <1>29
  DEF TypeInv, TypeOK, PrivateConns, RoutineAnnouncesWriter, Goto,
      cluster, verdict, pool, found, stable, cache, locals, routine, caller, control
<1>30. ASSUME TypeInv, PrivateConns, NEW r \in Routines, RoutineActsAsReader(r) PROVE PrivateConns'
  BY <1>30
  DEF TypeInv, TypeOK, PrivateConns, RoutineActsAsReader, Goto, CompleteCycle,
      cluster, verdict, pool, found, stable, cache, locals, routine, caller, control
<1>31. ASSUME TypeInv, PrivateConns, NEW r \in Routines, RoutineReports(r) PROVE PrivateConns'
  BY <1>31
  DEF TypeInv, TypeOK, PrivateConns, RoutineReports, SetCache, Goto,
      cluster, verdict, pool, found, stable, cache, locals, routine, caller, control
<1>32. ASSUME TypeInv, PrivateConns, NEW r \in Routines, RoutineCannotReport(r) PROVE PrivateConns'
  BY <1>32
  DEF TypeInv, TypeOK, PrivateConns, RoutineCannotReport, Goto, CompleteCycle,
      cluster, verdict, pool, found, stable, cache, locals, routine, caller, control
<1>33. ASSUME TypeInv, PrivateConns, NEW r \in Routines, RoutineExits(r) PROVE PrivateConns'
  BY <1>33
    DEF TypeInv, TypeOK, PrivateConns, RoutineExits, CloseConnections, Goto,
      CompleteCycleWithoutReport,
      cluster, verdict, pool, found, stable, cache, locals, routine, caller, control
<1>34. ASSUME TypeInv, PrivateConns, NEW c \in Callers, CallForceRefresh(c) PROVE PrivateConns'
  BY <1>34
  DEF TypeInv, TypeOK, PrivateConns, CallForceRefresh, CallerGoto,
      cluster, verdict, pool, found, stable, cache, locals, routine, caller, control
<1>35. ASSUME TypeInv, PrivateConns, NEW c \in Callers, LoadMonitoringConn(c) PROVE PrivateConns'
  BY <1>35
  DEF TypeInv, TypeOK, PrivateConns, LoadMonitoringConn, CallerGoto,
      cluster, verdict, pool, found, stable, cache, locals, routine, caller, control
<1>36. ASSUME TypeInv, PrivateConns, NEW c \in Callers, EmptyMonitoringConn(c) PROVE PrivateConns'
  BY <1>36
  DEF TypeInv, TypeOK, PrivateConns, EmptyMonitoringConn, CallerGoto,
      cluster, verdict, pool, found, stable, cache, locals, routine, caller, control
<1>37. ASSUME TypeInv, PrivateConns, NEW c \in Callers, ClearVerified(c) PROVE PrivateConns'
  BY <1>37
  DEF TypeInv, TypeOK, PrivateConns, ClearVerified, CloseConnections, CallerGoto,
      cluster, verdict, pool, found, stable, cache, locals, routine, caller, control
<1>38. ASSUME TypeInv, PrivateConns, NEW c \in Callers, CaptureTopology(c) PROVE PrivateConns'
  BY <1>38
  DEF TypeInv, TypeOK, PrivateConns, CaptureTopology, CallerGoto,
      cluster, verdict, pool, found, stable, cache, locals, routine, caller, control
<1>39. ASSUME TypeInv, PrivateConns, NEW c \in Callers, NotifyMonitor(c) PROVE PrivateConns'
  BY <1>39
  DEF TypeInv, TypeOK, PrivateConns, NotifyMonitor, CallerGoto,
      cluster, verdict, pool, found, stable, cache, locals, routine, caller, control
<1>40. ASSUME TypeInv, PrivateConns, NEW c \in Callers, ReturnAtOnce(c) PROVE PrivateConns'
  BY <1>40
  DEF TypeInv, TypeOK, PrivateConns, ReturnAtOnce, CallerGoto, CallerLeaves,
      cluster, verdict, pool, found, stable, cache, locals, routine, caller, control
<1>41. ASSUME TypeInv, PrivateConns, NEW c \in Callers, PollTopology(c) PROVE PrivateConns'
  BY <1>41
  DEF TypeInv, TypeOK, PrivateConns, PollTopology, CallerGoto,
      cluster, verdict, pool, found, stable, cache, locals, routine, caller, control
<1>42. ASSUME TypeInv, PrivateConns, NEW c \in Callers, TestTopology(c) PROVE PrivateConns'
  BY <1>42
  DEF TypeInv, TypeOK, PrivateConns, TestTopology, CallerGoto,
      cluster, verdict, pool, found, stable, cache, locals, routine, caller, control
<1>43. ASSUME TypeInv, PrivateConns, NEW c \in Callers, CallTimesOut(c) PROVE PrivateConns'
  BY <1>43
  DEF TypeInv, TypeOK, PrivateConns, CallTimesOut, CallerGoto, CallerLeaves,
      cluster, verdict, pool, found, stable, cache, locals, routine, caller, control
<1>44. ASSUME TypeInv, PrivateConns, NEW c \in Callers, CallReturns(c) PROVE PrivateConns'
  BY <1>44
  DEF TypeInv, TypeOK, PrivateConns, CallReturns, CallerGoto, CallerLeaves,
      cluster, verdict, pool, found, stable, cache, locals, routine, caller, control
<1>45. ASSUME TypeInv, PrivateConns, RequestStop PROVE PrivateConns'
  BY <1>45
  DEF TypeInv, TypeOK, PrivateConns, RequestStop,
      cluster, verdict, pool, found, stable, cache, locals, routine, caller, control
<1>46. ASSUME TypeInv, PrivateConns, StopRoutines PROVE PrivateConns'
  BY <1>46
  DEF TypeInv, TypeOK, PrivateConns, StopRoutines,
      cluster, verdict, pool, found, stable, cache, locals, routine, caller, control
<1>47. ASSUME TypeInv, PrivateConns, Close PROVE PrivateConns'
  BY <1>47
  DEF TypeInv, TypeOK, PrivateConns, Close, CloseConnections,
      cluster, verdict, pool, found, stable, cache, locals, routine, caller, control
<1>48. ASSUME TypeInv, PrivateConns, ResetStopsRoutines PROVE PrivateConns'
  BY <1>48
  DEF TypeInv, TypeOK, PrivateConns, ResetStopsRoutines,
      cluster, verdict, pool, found, stable, cache, locals, routine, caller, control
<1>49. ASSUME TypeInv, PrivateConns, ResetJoinsRoutines PROVE PrivateConns'
  BY <1>49
  DEF TypeInv, TypeOK, PrivateConns, ResetJoinsRoutines,
      cluster, verdict, pool, found, stable, cache, locals, routine, caller, control
<1>50. ASSUME TypeInv, PrivateConns, ResetClearsRoutines PROVE PrivateConns'
  BY <1>50
  DEF TypeInv, TypeOK, PrivateConns, ResetClearsRoutines, CloseConnections, ClearStable,
      cluster, verdict, pool, found, stable, cache, locals, routine, caller, control
<1>51. ASSUME TypeInv, PrivateConns, ResetDropsConn PROVE PrivateConns'
  BY <1>51
  DEF TypeInv, TypeOK, PrivateConns, ResetDropsConn, CloseConnections, DropMonitoringConn,
      cluster, verdict, pool, found, stable, cache, locals, routine, caller, control
<1>52. ASSUME TypeInv, PrivateConns, ResetForgetsTopology PROVE PrivateConns'
  BY <1>52
  DEF TypeInv, TypeOK, PrivateConns, ResetForgetsTopology, SetCache,
      cluster, verdict, pool, found, stable, cache, locals, routine, caller, control
<1>53. ASSUME TypeInv, PrivateConns, ResetNotifies PROVE PrivateConns'
  BY <1>53
  DEF TypeInv, TypeOK, PrivateConns, ResetNotifies,
      cluster, verdict, pool, found, stable, cache, locals, routine, caller, control
<1>54. ASSUME TypeInv, PrivateConns, Failover PROVE PrivateConns'
  BY <1>54
  DEF TypeInv, TypeOK, PrivateConns, Failover,
      cluster, verdict, pool, found, stable, cache, locals, routine, caller, control
<1>55. ASSUME TypeInv, PrivateConns, InstanceAdded PROVE PrivateConns'
  BY <1>55
  DEF TypeInv, TypeOK, PrivateConns, InstanceAdded,
      cluster, verdict, pool, found, stable, cache, locals, routine, caller, control
<1>56. ASSUME TypeInv, PrivateConns, TopologyExpires PROVE PrivateConns'
  BY <1>56
  DEF TypeInv, TypeOK, PrivateConns, TopologyExpires, SetCache,
      cluster, verdict, pool, found, stable, cache, locals, routine, caller, control
<1>57. ASSUME TypeInv, PrivateConns, UNCHANGED vars PROVE PrivateConns'
  BY <1>57 DEF TypeInv, TypeOK, PrivateConns, vars,
      cluster, verdict, pool, found, stable, cache, locals, routine, caller, control
<1> QED
    BY <1>1, <1>2, <1>3, <1>4, <1>5, <1>6, <1>7, <1>8, <1>9, <1>10, <1>11, <1>12, <1>13,
     <1>14, <1>15, <1>16, <1>17, <1>18, <1>19, <1>20, <1>21, <1>22, <1>23, <1>24, <1>25,
     <1>26, <1>27, <1>28, <1>29, <1>30, <1>31, <1>32, <1>33, <1>34, <1>35, <1>36, <1>37,
     <1>38, <1>39, <1>40, <1>41, <1>42, <1>43, <1>44, <1>45, <1>46, <1>47, <1>48, <1>49,
     <1>50, <1>51, <1>52, <1>53, <1>54, <1>55, <1>56, <1>57
  DEF Next, MonitorStep, RoutineStep, CallerStep, StopStep, ResetStep, Halted

\* A host routine's connection is its own until it claims the writer: the
\* deferred close of HostMonitoringRoutine.run, ForceRefresh and reset never
\* close a connection that another goroutine works with.
THEOREM ConnsStayPrivate == Spec => []PrivateConns
<1>1. Init => TypeInv /\ PrivateConns
  BY InitTypes DEF Init, PrivateConns
<1> QED
  BY <1>1, TypeStep, PrivateStep, PTL DEF Spec

-----------------------------------------------------------------------------
\* The routines that are running.
Live == {r \in Routines : rpc[r] # "idle"}

LEMMA LiveFinite == IsFiniteSet(Live) /\ Cardinality(Live) \in Nat
<1>1. IsFiniteSet(Live)
  BY ConstantsAssumption, FS_Subset DEF Live
<1> QED
  BY <1>1, FS_CardinalityType

\* A step that starts and ends no routine leaves their number alone.
LEMMA SameLive ==
  ASSUME RoutinesCounted, Live' = Live, hostRoutinesWg' = hostRoutinesWg,
         mpc = "count" <=> mpc' = "count"
  PROVE  RoutinesCounted'
  BY DEF RoutinesCounted, Live

\* Every step keeps the WaitGroup in step with the running routines.
LEMMA CountStep == TypeInv /\ RoutinesCounted /\ [Next]_vars => RoutinesCounted'
<1>1. ASSUME TypeInv, RoutinesCounted, EnterPanicRound PROVE RoutinesCounted'
  <2>1. Live' = Live
    BY <1>1 DEF Live, TypeInv, TypeOK, EnterPanicRound, routine
  <2>2. hostRoutinesWg' = hostRoutinesWg /\ (mpc = "count" <=> mpc' = "count")
    BY <1>1 DEF EnterPanicRound, pool
  <2> QED
    BY <1>1, <2>1, <2>2, SameLive
<1>2. ASSUME TypeInv, RoutinesCounted, StartPanicRound PROVE RoutinesCounted'
  <2>1. Live' = Live
    BY <1>2 DEF Live, TypeInv, TypeOK, StartPanicRound, routine
  <2>2. hostRoutinesWg' = hostRoutinesWg /\ (mpc = "count" <=> mpc' = "count")
    BY <1>2 DEF StartPanicRound, pool
  <2> QED
    BY <1>2, <2>1, <2>2, SameLive
<1>3. ASSUME TypeInv, RoutinesCounted, OpenAnyConnection PROVE RoutinesCounted'
  <2>1. Live' = Live
    BY <1>3 DEF Live, TypeInv, TypeOK, OpenAnyConnection, Connect, routine
  <2>2. hostRoutinesWg' = hostRoutinesWg /\ (mpc = "count" <=> mpc' = "count")
    BY <1>3 DEF OpenAnyConnection, Connect, pool
  <2> QED
    BY <1>3, <2>1, <2>2, SameLive
<1>4. ASSUME TypeInv, RoutinesCounted, StoreAnyConnection PROVE RoutinesCounted'
  <2>1. Live' = Live
    BY <1>4 DEF Live, TypeInv, TypeOK, StoreAnyConnection, CloseConnections, routine
  <2>2. hostRoutinesWg' = hostRoutinesWg /\ (mpc = "count" <=> mpc' = "count")
    BY <1>4 DEF StoreAnyConnection, CloseConnections, pool
  <2> QED
    BY <1>4, <2>1, <2>2, SameLive
<1>5. ASSUME TypeInv, RoutinesCounted, CheckAnyConnection PROVE RoutinesCounted'
  <2>1. Live' = Live
    BY <1>5 DEF Live, TypeInv, TypeOK, CheckAnyConnection, routine
  <2>2. hostRoutinesWg' = hostRoutinesWg /\ (mpc = "count" <=> mpc' = "count")
    BY <1>5 DEF CheckAnyConnection, pool
  <2> QED
    BY <1>5, <2>1, <2>2, SameLive
<1>6. ASSUME TypeInv, RoutinesCounted, FetchAnyTopology PROVE RoutinesCounted'
  <2>1. Live' = Live
    BY <1>6 DEF Live, TypeInv, TypeOK, FetchAnyTopology, SetCache, routine
  <2>2. hostRoutinesWg' = hostRoutinesWg /\ (mpc = "count" <=> mpc' = "count")
    BY <1>6 DEF FetchAnyTopology, SetCache, pool
  <2> QED
    BY <1>6, <2>1, <2>2, SameLive
<1>7. ASSUME TypeInv, RoutinesCounted, AbandonAnyConnection PROVE RoutinesCounted'
  <2>1. Live' = Live
    BY <1>7 DEF Live, TypeInv, TypeOK, AbandonAnyConnection, CloseConnections, DropMonitoringConn, routine
  <2>2. hostRoutinesWg' = hostRoutinesWg /\ (mpc = "count" <=> mpc' = "count")
    BY <1>7 DEF AbandonAnyConnection, CloseConnections, DropMonitoringConn, pool
  <2> QED
    BY <1>7, <2>1, <2>2, SameLive
<1>8. ASSUME TypeInv, RoutinesCounted, SpawnRoutine PROVE RoutinesCounted'
  <2>1. PICK r \in Routines : rpc[r] = "idle" /\ rpc' = [rpc EXCEPT ![r] = "head"]
    BY <1>8 DEF SpawnRoutine
  <2>2. Live' = Live \cup {r} /\ r \notin Live
    BY <1>8, <2>1 DEF Live, TypeInv, TypeOK
  <2>3. Cardinality(Live') = Cardinality(Live) + 1
    BY <2>2, LiveFinite, FS_AddElement
  <2>4. mpc = "spawn" /\ mpc' = "count" /\ hostRoutinesWg' = hostRoutinesWg
    BY <1>8 DEF SpawnRoutine, pool
  <2> QED
    BY <1>8, <2>3, <2>4, LiveFinite DEF RoutinesCounted, Live
<1>9. ASSUME TypeInv, RoutinesCounted, CountRoutine PROVE RoutinesCounted'
  <2>1. Live' = Live
    BY <1>9 DEF Live, CountRoutine, routine
  <2>2. mpc = "count" /\ mpc' # "count" /\ hostRoutinesWg' = hostRoutinesWg + 1
    BY <1>9 DEF CountRoutine
  <2>3. hostRoutinesWg = Cardinality(Live) - 1
    BY <1>9, <2>2 DEF RoutinesCounted, Live
  <2>4. hostRoutinesWg' = Cardinality(Live') - 0
    BY <2>1, <2>2, <2>3, LiveFinite
  <2> QED
    BY <2>2, <2>4 DEF RoutinesCounted, Live
<1>10. ASSUME TypeInv, RoutinesCounted, PickUpWriter PROVE RoutinesCounted'
  <2>1. Live' = Live
    BY <1>10 DEF Live, TypeInv, TypeOK, PickUpWriter, routine
  <2>2. hostRoutinesWg' = hostRoutinesWg /\ (mpc = "count" <=> mpc' = "count")
    BY <1>10 DEF PickUpWriter, pool
  <2> QED
    BY <1>10, <2>1, <2>2, SameLive
<1>11. ASSUME TypeInv, RoutinesCounted, AdoptWriterConn PROVE RoutinesCounted'
  <2>1. Live' = Live
    BY <1>11 DEF Live, TypeInv, TypeOK, AdoptWriterConn, CloseConnections, routine
  <2>2. hostRoutinesWg' = hostRoutinesWg /\ (mpc = "count" <=> mpc' = "count")
    BY <1>11 DEF AdoptWriterConn, CloseConnections, pool
  <2> QED
    BY <1>11, <2>1, <2>2, SameLive
<1>12. ASSUME TypeInv, RoutinesCounted, MarkVerified PROVE RoutinesCounted'
  <2>1. Live' = Live
    BY <1>12 DEF Live, TypeInv, TypeOK, MarkVerified, routine
  <2>2. hostRoutinesWg' = hostRoutinesWg /\ (mpc = "count" <=> mpc' = "count")
    BY <1>12 DEF MarkVerified, pool
  <2> QED
    BY <1>12, <2>1, <2>2, SameLive
<1>13. ASSUME TypeInv, RoutinesCounted, JoinRoutines PROVE RoutinesCounted'
  <2>1. Live' = Live
    BY <1>13 DEF Live, TypeInv, TypeOK, JoinRoutines, ClearStable, routine
  <2>2. hostRoutinesWg' = hostRoutinesWg /\ (mpc = "count" <=> mpc' = "count")
    BY <1>13 DEF JoinRoutines, ClearStable, pool
  <2> QED
    BY <1>13, <2>1, <2>2, SameLive
<1>14. ASSUME TypeInv, RoutinesCounted, AddRoutines PROVE RoutinesCounted'
  <2>1. Live' = Live
    BY <1>14 DEF Live, TypeInv, TypeOK, AddRoutines, routine
  <2>2. hostRoutinesWg' = hostRoutinesWg /\ (mpc = "count" <=> mpc' = "count")
    BY <1>14 DEF AddRoutines, pool
  <2> QED
    BY <1>14, <2>1, <2>2, SameLive
<1>15. ASSUME TypeInv, RoutinesCounted, CheckForStableReaderTopologies PROVE RoutinesCounted'
  <2>1. Live' = Live
    BY <1>15 DEF Live, TypeInv, TypeOK, CheckForStableReaderTopologies, SetCache, routine
  <2>2. hostRoutinesWg' = hostRoutinesWg /\ (mpc = "count" <=> mpc' = "count")
    BY <1>15 DEF CheckForStableReaderTopologies, SetCache, pool
  <2> QED
    BY <1>15, <2>1, <2>2, SameLive
<1>16. ASSUME TypeInv, RoutinesCounted, EnterRegularRound PROVE RoutinesCounted'
  <2>1. Live' = Live
    BY <1>16 DEF Live, TypeInv, TypeOK, EnterRegularRound, routine
  <2>2. hostRoutinesWg' = hostRoutinesWg /\ (mpc = "count" <=> mpc' = "count")
    BY <1>16 DEF EnterRegularRound, pool
  <2> QED
    BY <1>16, <2>1, <2>2, SameLive
<1>17. ASSUME TypeInv, RoutinesCounted, FetchTopology PROVE RoutinesCounted'
  <2>1. Live' = Live
    BY <1>17 DEF Live, TypeInv, TypeOK, FetchTopology, SetCache, ClearStable, routine
  <2>2. hostRoutinesWg' = hostRoutinesWg /\ (mpc = "count" <=> mpc' = "count")
    BY <1>17 DEF FetchTopology, SetCache, ClearStable, pool
  <2> QED
    BY <1>17, <2>1, <2>2, SameLive
<1>18. ASSUME TypeInv, RoutinesCounted, LoseMonitoringConn PROVE RoutinesCounted'
  <2>1. Live' = Live
    BY <1>18 DEF Live, TypeInv, TypeOK, LoseMonitoringConn, CloseConnections, DropMonitoringConn, routine
  <2>2. hostRoutinesWg' = hostRoutinesWg /\ (mpc = "count" <=> mpc' = "count")
    BY <1>18 DEF LoseMonitoringConn, CloseConnections, DropMonitoringConn, pool
  <2> QED
    BY <1>18, <2>1, <2>2, SameLive
<1>19. ASSUME TypeInv, RoutinesCounted, MonitorStopped PROVE RoutinesCounted'
  <2>1. Live' = Live
    BY <1>19 DEF Live, TypeInv, TypeOK, MonitorStopped, routine
  <2>2. hostRoutinesWg' = hostRoutinesWg /\ (mpc = "count" <=> mpc' = "count")
    BY <1>19 DEF MonitorStopped, pool
  <2> QED
    BY <1>19, <2>1, <2>2, SameLive
<1>20. ASSUME TypeInv, RoutinesCounted, NEW r \in Routines, RoutineSeesStop(r) PROVE RoutinesCounted'
  <2>1. Live' = Live
    BY <1>20 DEF Live, TypeInv, TypeOK, RoutineSeesStop, Goto, routine
  <2>2. hostRoutinesWg' = hostRoutinesWg /\ (mpc = "count" <=> mpc' = "count")
    BY <1>20 DEF RoutineSeesStop, Goto, pool
  <2> QED
    BY <1>20, <2>1, <2>2, SameLive
<1>21. ASSUME TypeInv, RoutinesCounted, NEW r \in Routines, RoutineConnects(r) PROVE RoutinesCounted'
  <2>1. Live' = Live
    BY <1>21 DEF Live, TypeInv, TypeOK, RoutineConnects, Connect, Goto, routine
  <2>2. hostRoutinesWg' = hostRoutinesWg /\ (mpc = "count" <=> mpc' = "count")
    BY <1>21 DEF RoutineConnects, Connect, Goto, pool
  <2> QED
    BY <1>21, <2>1, <2>2, SameLive
<1>22. ASSUME TypeInv, RoutinesCounted, NEW r \in Routines, RoutineCannotConnect(r) PROVE RoutinesCounted'
  <2>1. Live' = Live
    BY <1>22 DEF Live, TypeInv, TypeOK, RoutineCannotConnect, CompleteCycleWithoutReport, routine
  <2>2. hostRoutinesWg' = hostRoutinesWg /\ (mpc = "count" <=> mpc' = "count")
    BY <1>22 DEF RoutineCannotConnect, CompleteCycleWithoutReport, pool
  <2> QED
    BY <1>22, <2>1, <2>2, SameLive
<1>23. ASSUME TypeInv, RoutinesCounted, NEW r \in Routines, RoutineIsDeniedLogin(r) PROVE RoutinesCounted'
  <2>1. Live' = Live
    BY <1>23 DEF Live, TypeInv, TypeOK, RoutineIsDeniedLogin, Goto, routine
  <2>2. hostRoutinesWg' = hostRoutinesWg /\ (mpc = "count" <=> mpc' = "count")
    BY <1>23 DEF RoutineIsDeniedLogin, Goto, pool
  <2> QED
    BY <1>23, <2>1, <2>2, SameLive
<1>24. ASSUME TypeInv, RoutinesCounted, NEW r \in Routines, RoutineAsksRole(r) PROVE RoutinesCounted'
  <2>1. Live' = Live
    BY <1>24 DEF Live, TypeInv, TypeOK, RoutineAsksRole, Goto, routine
  <2>2. hostRoutinesWg' = hostRoutinesWg /\ (mpc = "count" <=> mpc' = "count")
    BY <1>24 DEF RoutineAsksRole, Goto, pool
  <2> QED
    BY <1>24, <2>1, <2>2, SameLive
<1>25. ASSUME TypeInv, RoutinesCounted, NEW r \in Routines, RoutineLosesConn(r) PROVE RoutinesCounted'
  <2>1. Live' = Live
    BY <1>25 DEF Live, TypeInv, TypeOK, RoutineLosesConn, CloseConnections, Goto, CompleteCycleWithoutReport, routine
  <2>2. hostRoutinesWg' = hostRoutinesWg /\ (mpc = "count" <=> mpc' = "count")
    BY <1>25 DEF RoutineLosesConn, CloseConnections, Goto, CompleteCycleWithoutReport, pool
  <2> QED
    BY <1>25, <2>1, <2>2, SameLive
<1>26. ASSUME TypeInv, RoutinesCounted, NEW r \in Routines, RoutineClaimsWriter(r) PROVE RoutinesCounted'
  <2>1. Live' = Live
    BY <1>26 DEF Live, TypeInv, TypeOK, RoutineClaimsWriter, CloseConnections, Goto, routine
  <2>2. hostRoutinesWg' = hostRoutinesWg /\ (mpc = "count" <=> mpc' = "count")
    BY <1>26 DEF RoutineClaimsWriter, CloseConnections, Goto, pool
  <2> QED
    BY <1>26, <2>1, <2>2, SameLive
<1>27. ASSUME TypeInv, RoutinesCounted, NEW r \in Routines, RoutineIsNoWriter(r) PROVE RoutinesCounted'
  <2>1. Live' = Live
    BY <1>27 DEF Live, TypeInv, TypeOK, RoutineIsNoWriter, Goto, routine
  <2>2. hostRoutinesWg' = hostRoutinesWg /\ (mpc = "count" <=> mpc' = "count")
    BY <1>27 DEF RoutineIsNoWriter, Goto, pool
  <2> QED
    BY <1>27, <2>1, <2>2, SameLive
<1>28. ASSUME TypeInv, RoutinesCounted, NEW r \in Routines, RoutineFetchesAsWriter(r) PROVE RoutinesCounted'
  <2>1. Live' = Live
    BY <1>28 DEF Live, TypeInv, TypeOK, RoutineFetchesAsWriter, SetCache, Goto, routine
  <2>2. hostRoutinesWg' = hostRoutinesWg /\ (mpc = "count" <=> mpc' = "count")
    BY <1>28 DEF RoutineFetchesAsWriter, SetCache, Goto, pool
  <2> QED
    BY <1>28, <2>1, <2>2, SameLive
<1>29. ASSUME TypeInv, RoutinesCounted, NEW r \in Routines, RoutineAnnouncesWriter(r) PROVE RoutinesCounted'
  <2>1. Live' = Live
    BY <1>29 DEF Live, TypeInv, TypeOK, RoutineAnnouncesWriter, Goto, routine
  <2>2. hostRoutinesWg' = hostRoutinesWg /\ (mpc = "count" <=> mpc' = "count")
    BY <1>29 DEF RoutineAnnouncesWriter, Goto, pool
  <2> QED
    BY <1>29, <2>1, <2>2, SameLive
<1>30. ASSUME TypeInv, RoutinesCounted, NEW r \in Routines, RoutineActsAsReader(r) PROVE RoutinesCounted'
  <2>1. Live' = Live
    BY <1>30 DEF Live, TypeInv, TypeOK, RoutineActsAsReader, Goto, CompleteCycle, routine
  <2>2. hostRoutinesWg' = hostRoutinesWg /\ (mpc = "count" <=> mpc' = "count")
    BY <1>30 DEF RoutineActsAsReader, Goto, CompleteCycle, pool
  <2> QED
    BY <1>30, <2>1, <2>2, SameLive
<1>31. ASSUME TypeInv, RoutinesCounted, NEW r \in Routines, RoutineReports(r) PROVE RoutinesCounted'
  <2>1. Live' = Live
    BY <1>31 DEF Live, TypeInv, TypeOK, RoutineReports, SetCache, Goto, routine
  <2>2. hostRoutinesWg' = hostRoutinesWg /\ (mpc = "count" <=> mpc' = "count")
    BY <1>31 DEF RoutineReports, SetCache, Goto, pool
  <2> QED
    BY <1>31, <2>1, <2>2, SameLive
<1>32. ASSUME TypeInv, RoutinesCounted, NEW r \in Routines, RoutineCannotReport(r) PROVE RoutinesCounted'
  <2>1. Live' = Live
    BY <1>32 DEF Live, TypeInv, TypeOK, RoutineCannotReport, Goto, CompleteCycle, routine
  <2>2. hostRoutinesWg' = hostRoutinesWg /\ (mpc = "count" <=> mpc' = "count")
    BY <1>32 DEF RoutineCannotReport, Goto, CompleteCycle, pool
  <2> QED
    BY <1>32, <2>1, <2>2, SameLive
<1>33. ASSUME TypeInv, RoutinesCounted, NEW r \in Routines, RoutineExits(r) PROVE RoutinesCounted'
  <2>1. rpc[r] = "exit" /\ rpc' = [rpc EXCEPT ![r] = "idle"]
    BY <1>33 DEF RoutineExits, Goto
  <2>2. Live' = Live \ {r} /\ r \in Live
    BY <1>33, <2>1 DEF Live, TypeInv, TypeOK
  <2>3. Cardinality(Live') = Cardinality(Live) - 1
    BY <2>2, LiveFinite, FS_RemoveElement
  <2>4. mpc' = mpc /\ hostRoutinesWg' = hostRoutinesWg - 1
    BY <1>33 DEF RoutineExits
  <2> QED
    BY <1>33, <2>3, <2>4, LiveFinite DEF RoutinesCounted, Live
<1>34. ASSUME TypeInv, RoutinesCounted, NEW c \in Callers, CallForceRefresh(c) PROVE RoutinesCounted'
  <2>1. Live' = Live
    BY <1>34 DEF Live, TypeInv, TypeOK, CallForceRefresh, CallerGoto, routine
  <2>2. hostRoutinesWg' = hostRoutinesWg /\ (mpc = "count" <=> mpc' = "count")
    BY <1>34 DEF CallForceRefresh, CallerGoto, pool
  <2> QED
    BY <1>34, <2>1, <2>2, SameLive
<1>35. ASSUME TypeInv, RoutinesCounted, NEW c \in Callers, LoadMonitoringConn(c) PROVE RoutinesCounted'
  <2>1. Live' = Live
    BY <1>35 DEF Live, TypeInv, TypeOK, LoadMonitoringConn, CallerGoto, routine
  <2>2. hostRoutinesWg' = hostRoutinesWg /\ (mpc = "count" <=> mpc' = "count")
    BY <1>35 DEF LoadMonitoringConn, CallerGoto, pool
  <2> QED
    BY <1>35, <2>1, <2>2, SameLive
<1>36. ASSUME TypeInv, RoutinesCounted, NEW c \in Callers, EmptyMonitoringConn(c) PROVE RoutinesCounted'
  <2>1. Live' = Live
    BY <1>36 DEF Live, TypeInv, TypeOK, EmptyMonitoringConn, CallerGoto, routine
  <2>2. hostRoutinesWg' = hostRoutinesWg /\ (mpc = "count" <=> mpc' = "count")
    BY <1>36 DEF EmptyMonitoringConn, CallerGoto, pool
  <2> QED
    BY <1>36, <2>1, <2>2, SameLive
<1>37. ASSUME TypeInv, RoutinesCounted, NEW c \in Callers, ClearVerified(c) PROVE RoutinesCounted'
  <2>1. Live' = Live
    BY <1>37 DEF Live, TypeInv, TypeOK, ClearVerified, CloseConnections, CallerGoto, routine
  <2>2. hostRoutinesWg' = hostRoutinesWg /\ (mpc = "count" <=> mpc' = "count")
    BY <1>37 DEF ClearVerified, CloseConnections, CallerGoto, pool
  <2> QED
    BY <1>37, <2>1, <2>2, SameLive
<1>38. ASSUME TypeInv, RoutinesCounted, NEW c \in Callers, CaptureTopology(c) PROVE RoutinesCounted'
  <2>1. Live' = Live
    BY <1>38 DEF Live, TypeInv, TypeOK, CaptureTopology, CallerGoto, routine
  <2>2. hostRoutinesWg' = hostRoutinesWg /\ (mpc = "count" <=> mpc' = "count")
    BY <1>38 DEF CaptureTopology, CallerGoto, pool
  <2> QED
    BY <1>38, <2>1, <2>2, SameLive
<1>39. ASSUME TypeInv, RoutinesCounted, NEW c \in Callers, NotifyMonitor(c) PROVE RoutinesCounted'
  <2>1. Live' = Live
    BY <1>39 DEF Live, TypeInv, TypeOK, NotifyMonitor, CallerGoto, routine
  <2>2. hostRoutinesWg' = hostRoutinesWg /\ (mpc = "count" <=> mpc' = "count")
    BY <1>39 DEF NotifyMonitor, CallerGoto, pool
  <2> QED
    BY <1>39, <2>1, <2>2, SameLive
<1>40. ASSUME TypeInv, RoutinesCounted, NEW c \in Callers, ReturnAtOnce(c) PROVE RoutinesCounted'
  <2>1. Live' = Live
    BY <1>40 DEF Live, TypeInv, TypeOK, ReturnAtOnce, CallerGoto, CallerLeaves, routine
  <2>2. hostRoutinesWg' = hostRoutinesWg /\ (mpc = "count" <=> mpc' = "count")
    BY <1>40 DEF ReturnAtOnce, CallerGoto, CallerLeaves, pool
  <2> QED
    BY <1>40, <2>1, <2>2, SameLive
<1>41. ASSUME TypeInv, RoutinesCounted, NEW c \in Callers, PollTopology(c) PROVE RoutinesCounted'
  <2>1. Live' = Live
    BY <1>41 DEF Live, TypeInv, TypeOK, PollTopology, CallerGoto, routine
  <2>2. hostRoutinesWg' = hostRoutinesWg /\ (mpc = "count" <=> mpc' = "count")
    BY <1>41 DEF PollTopology, CallerGoto, pool
  <2> QED
    BY <1>41, <2>1, <2>2, SameLive
<1>42. ASSUME TypeInv, RoutinesCounted, NEW c \in Callers, TestTopology(c) PROVE RoutinesCounted'
  <2>1. Live' = Live
    BY <1>42 DEF Live, TypeInv, TypeOK, TestTopology, CallerGoto, routine
  <2>2. hostRoutinesWg' = hostRoutinesWg /\ (mpc = "count" <=> mpc' = "count")
    BY <1>42 DEF TestTopology, CallerGoto, pool
  <2> QED
    BY <1>42, <2>1, <2>2, SameLive
<1>43. ASSUME TypeInv, RoutinesCounted, NEW c \in Callers, CallTimesOut(c) PROVE RoutinesCounted'
  <2>1. Live' = Live
    BY <1>43 DEF Live, TypeInv, TypeOK, CallTimesOut, CallerGoto, CallerLeaves, routine
  <2>2. hostRoutinesWg' = hostRoutinesWg /\ (mpc = "count" <=> mpc' = "count")
    BY <1>43 DEF CallTimesOut, CallerGoto, CallerLeaves, pool
  <2> QED
    BY <1>43, <2>1, <2>2, SameLive
<1>44. ASSUME TypeInv, RoutinesCounted, NEW c \in Callers, CallReturns(c) PROVE RoutinesCounted'
  <2>1. Live' = Live
    BY <1>44 DEF Live, TypeInv, TypeOK, CallReturns, CallerGoto, CallerLeaves, routine
  <2>2. hostRoutinesWg' = hostRoutinesWg /\ (mpc = "count" <=> mpc' = "count")
    BY <1>44 DEF CallReturns, CallerGoto, CallerLeaves, pool
  <2> QED
    BY <1>44, <2>1, <2>2, SameLive
<1>45. ASSUME TypeInv, RoutinesCounted, RequestStop PROVE RoutinesCounted'
  <2>1. Live' = Live
    BY <1>45 DEF Live, TypeInv, TypeOK, RequestStop, routine
  <2>2. hostRoutinesWg' = hostRoutinesWg /\ (mpc = "count" <=> mpc' = "count")
    BY <1>45 DEF RequestStop, pool
  <2> QED
    BY <1>45, <2>1, <2>2, SameLive
<1>46. ASSUME TypeInv, RoutinesCounted, StopRoutines PROVE RoutinesCounted'
  <2>1. Live' = Live
    BY <1>46 DEF Live, TypeInv, TypeOK, StopRoutines, routine
  <2>2. hostRoutinesWg' = hostRoutinesWg /\ (mpc = "count" <=> mpc' = "count")
    BY <1>46 DEF StopRoutines, pool
  <2> QED
    BY <1>46, <2>1, <2>2, SameLive
<1>47. ASSUME TypeInv, RoutinesCounted, Close PROVE RoutinesCounted'
  <2>1. Live' = Live
    BY <1>47 DEF Live, TypeInv, TypeOK, Close, CloseConnections, routine
  <2>2. hostRoutinesWg' = hostRoutinesWg /\ (mpc = "count" <=> mpc' = "count")
    BY <1>47 DEF Close, CloseConnections, pool
  <2> QED
    BY <1>47, <2>1, <2>2, SameLive
<1>48. ASSUME TypeInv, RoutinesCounted, ResetStopsRoutines PROVE RoutinesCounted'
  <2>1. Live' = Live
    BY <1>48 DEF Live, TypeInv, TypeOK, ResetStopsRoutines, routine
  <2>2. hostRoutinesWg' = hostRoutinesWg /\ (mpc = "count" <=> mpc' = "count")
    BY <1>48 DEF ResetStopsRoutines, pool
  <2> QED
    BY <1>48, <2>1, <2>2, SameLive
<1>49. ASSUME TypeInv, RoutinesCounted, ResetJoinsRoutines PROVE RoutinesCounted'
  <2>1. Live' = Live
    BY <1>49 DEF Live, TypeInv, TypeOK, ResetJoinsRoutines, routine
  <2>2. hostRoutinesWg' = hostRoutinesWg /\ (mpc = "count" <=> mpc' = "count")
    BY <1>49 DEF ResetJoinsRoutines, pool
  <2> QED
    BY <1>49, <2>1, <2>2, SameLive
<1>50. ASSUME TypeInv, RoutinesCounted, ResetClearsRoutines PROVE RoutinesCounted'
  <2>1. Live' = Live
    BY <1>50 DEF Live, TypeInv, TypeOK, ResetClearsRoutines, CloseConnections, ClearStable, routine
  <2>2. hostRoutinesWg' = hostRoutinesWg /\ (mpc = "count" <=> mpc' = "count")
    BY <1>50 DEF ResetClearsRoutines, CloseConnections, ClearStable, pool
  <2> QED
    BY <1>50, <2>1, <2>2, SameLive
<1>51. ASSUME TypeInv, RoutinesCounted, ResetDropsConn PROVE RoutinesCounted'
  <2>1. Live' = Live
    BY <1>51 DEF Live, TypeInv, TypeOK, ResetDropsConn, CloseConnections, DropMonitoringConn, routine
  <2>2. hostRoutinesWg' = hostRoutinesWg /\ (mpc = "count" <=> mpc' = "count")
    BY <1>51 DEF ResetDropsConn, CloseConnections, DropMonitoringConn, pool
  <2> QED
    BY <1>51, <2>1, <2>2, SameLive
<1>52. ASSUME TypeInv, RoutinesCounted, ResetForgetsTopology PROVE RoutinesCounted'
  <2>1. Live' = Live
    BY <1>52 DEF Live, TypeInv, TypeOK, ResetForgetsTopology, SetCache, routine
  <2>2. hostRoutinesWg' = hostRoutinesWg /\ (mpc = "count" <=> mpc' = "count")
    BY <1>52 DEF ResetForgetsTopology, SetCache, pool
  <2> QED
    BY <1>52, <2>1, <2>2, SameLive
<1>53. ASSUME TypeInv, RoutinesCounted, ResetNotifies PROVE RoutinesCounted'
  <2>1. Live' = Live
    BY <1>53 DEF Live, TypeInv, TypeOK, ResetNotifies, routine
  <2>2. hostRoutinesWg' = hostRoutinesWg /\ (mpc = "count" <=> mpc' = "count")
    BY <1>53 DEF ResetNotifies, pool
  <2> QED
    BY <1>53, <2>1, <2>2, SameLive
<1>54. ASSUME TypeInv, RoutinesCounted, Failover PROVE RoutinesCounted'
  <2>1. Live' = Live
    BY <1>54 DEF Live, TypeInv, TypeOK, Failover, routine
  <2>2. hostRoutinesWg' = hostRoutinesWg /\ (mpc = "count" <=> mpc' = "count")
    BY <1>54 DEF Failover, pool
  <2> QED
    BY <1>54, <2>1, <2>2, SameLive
<1>55. ASSUME TypeInv, RoutinesCounted, InstanceAdded PROVE RoutinesCounted'
  <2>1. Live' = Live
    BY <1>55 DEF Live, TypeInv, TypeOK, InstanceAdded, routine
  <2>2. hostRoutinesWg' = hostRoutinesWg /\ (mpc = "count" <=> mpc' = "count")
    BY <1>55 DEF InstanceAdded, pool
  <2> QED
    BY <1>55, <2>1, <2>2, SameLive
<1>56. ASSUME TypeInv, RoutinesCounted, TopologyExpires PROVE RoutinesCounted'
  <2>1. Live' = Live
    BY <1>56 DEF Live, TypeInv, TypeOK, TopologyExpires, SetCache, routine
  <2>2. hostRoutinesWg' = hostRoutinesWg /\ (mpc = "count" <=> mpc' = "count")
    BY <1>56 DEF TopologyExpires, SetCache, pool
  <2> QED
    BY <1>56, <2>1, <2>2, SameLive
<1>57. ASSUME TypeInv, RoutinesCounted, UNCHANGED vars PROVE RoutinesCounted'
  BY <1>57 DEF RoutinesCounted, vars,
      cluster, verdict, pool, found, stable, cache, locals, routine, caller, control
<1> QED
    BY <1>1, <1>2, <1>3, <1>4, <1>5, <1>6, <1>7, <1>8, <1>9, <1>10, <1>11, <1>12, <1>13,
     <1>14, <1>15, <1>16, <1>17, <1>18, <1>19, <1>20, <1>21, <1>22, <1>23, <1>24, <1>25,
     <1>26, <1>27, <1>28, <1>29, <1>30, <1>31, <1>32, <1>33, <1>34, <1>35, <1>36, <1>37,
     <1>38, <1>39, <1>40, <1>41, <1>42, <1>43, <1>44, <1>45, <1>46, <1>47, <1>48, <1>49,
     <1>50, <1>51, <1>52, <1>53, <1>54, <1>55, <1>56, <1>57
  DEF Next, MonitorStep, RoutineStep, CallerStep, StopStep, ResetStep, Halted

\* No routine runs at first, and none is counted.
LEMMA InitCounted ==
  ASSUME Init
  PROVE  RoutinesCounted
<1>1. {r \in Routines : rpc[r] # "idle"} = {}
  BY DEF Init
<1>2. Cardinality({r \in Routines : rpc[r] # "idle"}) = 0
  BY <1>1, FS_EmptySet
<1>3. hostRoutinesWg = 0 /\ mpc # "count"
  BY DEF Init
<1>. QED  BY <1>2, <1>3 DEF RoutinesCounted

\* hostRoutinesWg counts the running routines but for one not yet counted, so
\* hostRoutinesWg.Wait() in Monitor, Close and reset waits for all but that one.
THEOREM WaitGroupCounts == Spec => []RoutinesCounted
<1>1. Init => RoutinesCounted
  BY InitCounted
<1>2. Init => TypeInv
  BY InitTypes
<1> QED
  BY <1>1, <1>2, TypeStep, CountStep, PTL DEF Spec

-----------------------------------------------------------------------------
\* Without a reset, the map of host routines knows every running routine but
\* the one being started.
RoutinesKnown ==
  zpc = "idle" /\ hostRoutines = {} /\ mpc # "count" => \A r \in Routines : rpc[r] = "idle"

\* The monitor opens any connection, and works in regular mode, only while the
\* map is empty; a verified writer means there is nothing to start or pick up.
ModesExclude ==
  /\ mpc \in {"open", "openStore", "openCheck", "openFetch", "openFail", "regular", "regularFail"}
       => hostRoutines = {}
  /\ isVerifiedWriterConn =>
       /\ mpc \notin {"spawn", "count", "adopt", "verify"}
       /\ hostRoutines = {} \/ mpc = "join"

QuietInv == RoutinesKnown /\ ModesExclude

\* Zero on the WaitGroup, with no routine left uncounted, means none is running.
LEMMA ZeroMeansIdle ==
  ASSUME RoutinesCounted, hostRoutinesWg = 0, mpc # "count"
  PROVE  \A r \in Routines : rpc[r] = "idle"
<1>1. Cardinality(Live) = 0
  BY LiveFinite DEF RoutinesCounted, Live
<1>2. Live = {}
  BY <1>1, LiveFinite, FS_EmptySet
<1> QED
  BY <1>2 DEF Live

\* Every step keeps the two modes apart.
LEMMA QuietStep == TypeInv /\ RoutinesCounted /\ QuietInv /\ [Next]_vars => QuietInv'
<1>1. ASSUME TypeInv, RoutinesCounted, QuietInv, EnterPanicRound PROVE QuietInv'
  BY <1>1
  DEF TypeInv, TypeOK, QuietInv, RoutinesKnown, ModesExclude, EnterPanicRound,
      cluster, verdict, pool, found, stable, cache, locals, routine, caller, control
<1>2. ASSUME TypeInv, RoutinesCounted, QuietInv, StartPanicRound PROVE QuietInv'
  BY <1>2
  DEF TypeInv, TypeOK, QuietInv, RoutinesKnown, ModesExclude, StartPanicRound,
      cluster, verdict, pool, found, stable, cache, locals, routine, caller, control
<1>3. ASSUME TypeInv, RoutinesCounted, QuietInv, OpenAnyConnection PROVE QuietInv'
  BY <1>3
    DEF TypeInv, TypeOK, QuietInv, RoutinesKnown, ModesExclude, OpenAnyConnection, Connect,
      Fresh, Referenced,
      cluster, verdict, pool, found, stable, cache, locals, routine, caller, control
<1>4. ASSUME TypeInv, RoutinesCounted, QuietInv, StoreAnyConnection PROVE QuietInv'
  BY <1>4
  DEF TypeInv, TypeOK, QuietInv, RoutinesKnown, ModesExclude, StoreAnyConnection, CloseConnections,
      cluster, verdict, pool, found, stable, cache, locals, routine, caller, control
<1>5. ASSUME TypeInv, RoutinesCounted, QuietInv, CheckAnyConnection PROVE QuietInv'
  BY <1>5
  DEF TypeInv, TypeOK, QuietInv, RoutinesKnown, ModesExclude, CheckAnyConnection,
      cluster, verdict, pool, found, stable, cache, locals, routine, caller, control
<1>6. ASSUME TypeInv, RoutinesCounted, QuietInv, FetchAnyTopology PROVE QuietInv'
  BY <1>6
  DEF TypeInv, TypeOK, QuietInv, RoutinesKnown, ModesExclude, FetchAnyTopology, SetCache,
      cluster, verdict, pool, found, stable, cache, locals, routine, caller, control
<1>7. ASSUME TypeInv, RoutinesCounted, QuietInv, AbandonAnyConnection PROVE QuietInv'
  BY <1>7
    DEF TypeInv, TypeOK, QuietInv, RoutinesKnown, ModesExclude, AbandonAnyConnection,
      CloseConnections, DropMonitoringConn,
      cluster, verdict, pool, found, stable, cache, locals, routine, caller, control
<1>8. ASSUME TypeInv, RoutinesCounted, QuietInv, SpawnRoutine PROVE QuietInv'
  BY <1>8
  DEF TypeInv, TypeOK, QuietInv, RoutinesKnown, ModesExclude, SpawnRoutine,
      cluster, verdict, pool, found, stable, cache, locals, routine, caller, control
<1>9. ASSUME TypeInv, RoutinesCounted, QuietInv, CountRoutine PROVE QuietInv'
  BY <1>9
  DEF TypeInv, TypeOK, QuietInv, RoutinesKnown, ModesExclude, CountRoutine,
      cluster, verdict, pool, found, stable, cache, locals, routine, caller, control
<1>10. ASSUME TypeInv, RoutinesCounted, QuietInv, PickUpWriter PROVE QuietInv'
  BY <1>10
  DEF TypeInv, TypeOK, QuietInv, RoutinesKnown, ModesExclude, PickUpWriter,
      cluster, verdict, pool, found, stable, cache, locals, routine, caller, control
<1>11. ASSUME TypeInv, RoutinesCounted, QuietInv, AdoptWriterConn PROVE QuietInv'
  BY <1>11
  DEF TypeInv, TypeOK, QuietInv, RoutinesKnown, ModesExclude, AdoptWriterConn, CloseConnections,
      cluster, verdict, pool, found, stable, cache, locals, routine, caller, control
<1>12. ASSUME TypeInv, RoutinesCounted, QuietInv, MarkVerified PROVE QuietInv'
  BY <1>12
  DEF TypeInv, TypeOK, QuietInv, RoutinesKnown, ModesExclude, MarkVerified,
      cluster, verdict, pool, found, stable, cache, locals, routine, caller, control
<1>13. ASSUME TypeInv, RoutinesCounted, QuietInv, JoinRoutines PROVE QuietInv'
  <2>1. hostRoutinesWg = 0 /\ mpc # "count" /\ rpc' = rpc
    BY <1>13 DEF JoinRoutines, routine
  <2>2. \A r \in Routines : rpc'[r] = "idle"
    BY <1>13, <2>1, ZeroMeansIdle
  <2> QED
    BY <1>13, <2>2 DEF QuietInv, RoutinesKnown, ModesExclude, JoinRoutines, verdict, control
<1>14. ASSUME TypeInv, RoutinesCounted, QuietInv, AddRoutines PROVE QuietInv'
  BY <1>14
  DEF TypeInv, TypeOK, QuietInv, RoutinesKnown, ModesExclude, AddRoutines,
      cluster, verdict, pool, found, stable, cache, locals, routine, caller, control
<1>15. ASSUME TypeInv, RoutinesCounted, QuietInv, CheckForStableReaderTopologies PROVE QuietInv'
  BY <1>15
    DEF TypeInv, TypeOK, QuietInv, RoutinesKnown, ModesExclude, CheckForStableReaderTopologies,
      SetCache,
      cluster, verdict, pool, found, stable, cache, locals, routine, caller, control
<1>16. ASSUME TypeInv, RoutinesCounted, QuietInv, EnterRegularRound PROVE QuietInv'
  BY <1>16
  DEF TypeInv, TypeOK, QuietInv, RoutinesKnown, ModesExclude, EnterRegularRound, InPanicMode,
      cluster, verdict, pool, found, stable, cache, locals, routine, caller, control
<1>17. ASSUME TypeInv, RoutinesCounted, QuietInv, FetchTopology PROVE QuietInv'
  BY <1>17
  DEF TypeInv, TypeOK, QuietInv, RoutinesKnown, ModesExclude, FetchTopology, SetCache, ClearStable,
      cluster, verdict, pool, found, stable, cache, locals, routine, caller, control
<1>18. ASSUME TypeInv, RoutinesCounted, QuietInv, LoseMonitoringConn PROVE QuietInv'
  BY <1>18
    DEF TypeInv, TypeOK, QuietInv, RoutinesKnown, ModesExclude, LoseMonitoringConn,
      CloseConnections, DropMonitoringConn,
      cluster, verdict, pool, found, stable, cache, locals, routine, caller, control
<1>19. ASSUME TypeInv, RoutinesCounted, QuietInv, MonitorStopped PROVE QuietInv'
  BY <1>19
  DEF TypeInv, TypeOK, QuietInv, RoutinesKnown, ModesExclude, MonitorStopped,
      cluster, verdict, pool, found, stable, cache, locals, routine, caller, control
<1>20. ASSUME TypeInv, RoutinesCounted, QuietInv, NEW r \in Routines, RoutineSeesStop(r) PROVE QuietInv'
  BY <1>20
  DEF TypeInv, TypeOK, QuietInv, RoutinesKnown, ModesExclude, RoutineSeesStop, Goto,
      cluster, verdict, pool, found, stable, cache, locals, routine, caller, control
<1>21. ASSUME TypeInv, RoutinesCounted, QuietInv, NEW r \in Routines, RoutineConnects(r) PROVE QuietInv'
  BY <1>21
    DEF TypeInv, TypeOK, QuietInv, RoutinesKnown, ModesExclude, RoutineConnects, Connect, Goto,
      Fresh, Referenced,
      cluster, verdict, pool, found, stable, cache, locals, routine, caller, control
<1>22. ASSUME TypeInv, RoutinesCounted, QuietInv, NEW r \in Routines, RoutineCannotConnect(r) PROVE QuietInv'
  BY <1>22
    DEF TypeInv, TypeOK, QuietInv, RoutinesKnown, ModesExclude, RoutineCannotConnect,
      CompleteCycleWithoutReport,
      cluster, verdict, pool, found, stable, cache, locals, routine, caller, control
<1>23. ASSUME TypeInv, RoutinesCounted, QuietInv, NEW r \in Routines, RoutineIsDeniedLogin(r) PROVE QuietInv'
  BY <1>23
  DEF TypeInv, TypeOK, QuietInv, RoutinesKnown, ModesExclude, RoutineIsDeniedLogin, Goto,
      cluster, verdict, pool, found, stable, cache, locals, routine, caller, control
<1>24. ASSUME TypeInv, RoutinesCounted, QuietInv, NEW r \in Routines, RoutineAsksRole(r) PROVE QuietInv'
  BY <1>24
  DEF TypeInv, TypeOK, QuietInv, RoutinesKnown, ModesExclude, RoutineAsksRole, Goto,
      cluster, verdict, pool, found, stable, cache, locals, routine, caller, control
<1>25. ASSUME TypeInv, RoutinesCounted, QuietInv, NEW r \in Routines, RoutineLosesConn(r) PROVE QuietInv'
  BY <1>25
    DEF TypeInv, TypeOK, QuietInv, RoutinesKnown, ModesExclude, RoutineLosesConn,
      CloseConnections, Goto, CompleteCycleWithoutReport,
      cluster, verdict, pool, found, stable, cache, locals, routine, caller, control
<1>26. ASSUME TypeInv, RoutinesCounted, QuietInv, NEW r \in Routines, RoutineClaimsWriter(r) PROVE QuietInv'
  BY <1>26
    DEF TypeInv, TypeOK, QuietInv, RoutinesKnown, ModesExclude, RoutineClaimsWriter,
      CloseConnections, Goto,
      cluster, verdict, pool, found, stable, cache, locals, routine, caller, control
<1>27. ASSUME TypeInv, RoutinesCounted, QuietInv, NEW r \in Routines, RoutineIsNoWriter(r) PROVE QuietInv'
  BY <1>27
  DEF TypeInv, TypeOK, QuietInv, RoutinesKnown, ModesExclude, RoutineIsNoWriter, Goto,
      cluster, verdict, pool, found, stable, cache, locals, routine, caller, control
<1>28. ASSUME TypeInv, RoutinesCounted, QuietInv, NEW r \in Routines, RoutineFetchesAsWriter(r) PROVE QuietInv'
  BY <1>28
    DEF TypeInv, TypeOK, QuietInv, RoutinesKnown, ModesExclude, RoutineFetchesAsWriter,
      SetCache, Goto,
      cluster, verdict, pool, found, stable, cache, locals, routine, caller, control
<1>29. ASSUME TypeInv, RoutinesCounted, QuietInv, NEW r \in Routines, RoutineAnnouncesWriter(r) PROVE QuietInv'
  BY <1>29
  DEF TypeInv, TypeOK, QuietInv, RoutinesKnown, ModesExclude, RoutineAnnouncesWriter, Goto,
      cluster, verdict, pool, found, stable, cache, locals, routine, caller, control
<1>30. ASSUME TypeInv, RoutinesCounted, QuietInv, NEW r \in Routines, RoutineActsAsReader(r) PROVE QuietInv'
  BY <1>30
    DEF TypeInv, TypeOK, QuietInv, RoutinesKnown, ModesExclude, RoutineActsAsReader, Goto,
      CompleteCycle,
      cluster, verdict, pool, found, stable, cache, locals, routine, caller, control
<1>31. ASSUME TypeInv, RoutinesCounted, QuietInv, NEW r \in Routines, RoutineReports(r) PROVE QuietInv'
  BY <1>31
  DEF TypeInv, TypeOK, QuietInv, RoutinesKnown, ModesExclude, RoutineReports, SetCache, Goto,
      cluster, verdict, pool, found, stable, cache, locals, routine, caller, control
<1>32. ASSUME TypeInv, RoutinesCounted, QuietInv, NEW r \in Routines, RoutineCannotReport(r) PROVE QuietInv'
  BY <1>32
    DEF TypeInv, TypeOK, QuietInv, RoutinesKnown, ModesExclude, RoutineCannotReport, Goto,
      CompleteCycle,
      cluster, verdict, pool, found, stable, cache, locals, routine, caller, control
<1>33. ASSUME TypeInv, RoutinesCounted, QuietInv, NEW r \in Routines, RoutineExits(r) PROVE QuietInv'
  BY <1>33
    DEF TypeInv, TypeOK, QuietInv, RoutinesKnown, ModesExclude, RoutineExits, CloseConnections,
      Goto, CompleteCycleWithoutReport,
      cluster, verdict, pool, found, stable, cache, locals, routine, caller, control
<1>34. ASSUME TypeInv, RoutinesCounted, QuietInv, NEW c \in Callers, CallForceRefresh(c) PROVE QuietInv'
  BY <1>34
  DEF TypeInv, TypeOK, QuietInv, RoutinesKnown, ModesExclude, CallForceRefresh, CallerGoto,
      cluster, verdict, pool, found, stable, cache, locals, routine, caller, control
<1>35. ASSUME TypeInv, RoutinesCounted, QuietInv, NEW c \in Callers, LoadMonitoringConn(c) PROVE QuietInv'
  BY <1>35
  DEF TypeInv, TypeOK, QuietInv, RoutinesKnown, ModesExclude, LoadMonitoringConn, CallerGoto,
      cluster, verdict, pool, found, stable, cache, locals, routine, caller, control
<1>36. ASSUME TypeInv, RoutinesCounted, QuietInv, NEW c \in Callers, EmptyMonitoringConn(c) PROVE QuietInv'
  BY <1>36
  DEF TypeInv, TypeOK, QuietInv, RoutinesKnown, ModesExclude, EmptyMonitoringConn, CallerGoto,
      cluster, verdict, pool, found, stable, cache, locals, routine, caller, control
<1>37. ASSUME TypeInv, RoutinesCounted, QuietInv, NEW c \in Callers, ClearVerified(c) PROVE QuietInv'
  BY <1>37
    DEF TypeInv, TypeOK, QuietInv, RoutinesKnown, ModesExclude, ClearVerified, CloseConnections,
      CallerGoto,
      cluster, verdict, pool, found, stable, cache, locals, routine, caller, control
<1>38. ASSUME TypeInv, RoutinesCounted, QuietInv, NEW c \in Callers, CaptureTopology(c) PROVE QuietInv'
  BY <1>38
  DEF TypeInv, TypeOK, QuietInv, RoutinesKnown, ModesExclude, CaptureTopology, CallerGoto,
      cluster, verdict, pool, found, stable, cache, locals, routine, caller, control
<1>39. ASSUME TypeInv, RoutinesCounted, QuietInv, NEW c \in Callers, NotifyMonitor(c) PROVE QuietInv'
  BY <1>39
  DEF TypeInv, TypeOK, QuietInv, RoutinesKnown, ModesExclude, NotifyMonitor, CallerGoto,
      cluster, verdict, pool, found, stable, cache, locals, routine, caller, control
<1>40. ASSUME TypeInv, RoutinesCounted, QuietInv, NEW c \in Callers, ReturnAtOnce(c) PROVE QuietInv'
  BY <1>40
    DEF TypeInv, TypeOK, QuietInv, RoutinesKnown, ModesExclude, ReturnAtOnce, CallerGoto,
      CallerLeaves,
      cluster, verdict, pool, found, stable, cache, locals, routine, caller, control
<1>41. ASSUME TypeInv, RoutinesCounted, QuietInv, NEW c \in Callers, PollTopology(c) PROVE QuietInv'
  BY <1>41
  DEF TypeInv, TypeOK, QuietInv, RoutinesKnown, ModesExclude, PollTopology, CallerGoto,
      cluster, verdict, pool, found, stable, cache, locals, routine, caller, control
<1>42. ASSUME TypeInv, RoutinesCounted, QuietInv, NEW c \in Callers, TestTopology(c) PROVE QuietInv'
  BY <1>42
  DEF TypeInv, TypeOK, QuietInv, RoutinesKnown, ModesExclude, TestTopology, CallerGoto,
      cluster, verdict, pool, found, stable, cache, locals, routine, caller, control
<1>43. ASSUME TypeInv, RoutinesCounted, QuietInv, NEW c \in Callers, CallTimesOut(c) PROVE QuietInv'
  BY <1>43
    DEF TypeInv, TypeOK, QuietInv, RoutinesKnown, ModesExclude, CallTimesOut, CallerGoto,
      CallerLeaves,
      cluster, verdict, pool, found, stable, cache, locals, routine, caller, control
<1>44. ASSUME TypeInv, RoutinesCounted, QuietInv, NEW c \in Callers, CallReturns(c) PROVE QuietInv'
  BY <1>44
  DEF TypeInv, TypeOK, QuietInv, RoutinesKnown, ModesExclude, CallReturns, CallerGoto, CallerLeaves,
      cluster, verdict, pool, found, stable, cache, locals, routine, caller, control
<1>45. ASSUME TypeInv, RoutinesCounted, QuietInv, RequestStop PROVE QuietInv'
  BY <1>45
  DEF TypeInv, TypeOK, QuietInv, RoutinesKnown, ModesExclude, RequestStop,
      cluster, verdict, pool, found, stable, cache, locals, routine, caller, control
<1>46. ASSUME TypeInv, RoutinesCounted, QuietInv, StopRoutines PROVE QuietInv'
  BY <1>46
  DEF TypeInv, TypeOK, QuietInv, RoutinesKnown, ModesExclude, StopRoutines,
      cluster, verdict, pool, found, stable, cache, locals, routine, caller, control
<1>47. ASSUME TypeInv, RoutinesCounted, QuietInv, Close PROVE QuietInv'
  <2>1. hostRoutinesWg = 0 /\ mpc # "count" /\ rpc' = rpc
    BY <1>47 DEF Close, routine
  <2>2. \A r \in Routines : rpc'[r] = "idle"
    BY <1>47, <2>1, ZeroMeansIdle
  <2> QED
    BY <1>47, <2>2 DEF QuietInv, RoutinesKnown, ModesExclude, Close, verdict, control
<1>48. ASSUME TypeInv, RoutinesCounted, QuietInv, ResetStopsRoutines PROVE QuietInv'
  BY <1>48
  DEF TypeInv, TypeOK, QuietInv, RoutinesKnown, ModesExclude, ResetStopsRoutines,
      cluster, verdict, pool, found, stable, cache, locals, routine, caller, control
<1>49. ASSUME TypeInv, RoutinesCounted, QuietInv, ResetJoinsRoutines PROVE QuietInv'
  BY <1>49
  DEF TypeInv, TypeOK, QuietInv, RoutinesKnown, ModesExclude, ResetJoinsRoutines,
      cluster, verdict, pool, found, stable, cache, locals, routine, caller, control
<1>50. ASSUME TypeInv, RoutinesCounted, QuietInv, ResetClearsRoutines PROVE QuietInv'
  BY <1>50
    DEF TypeInv, TypeOK, QuietInv, RoutinesKnown, ModesExclude, ResetClearsRoutines,
      CloseConnections, ClearStable,
      cluster, verdict, pool, found, stable, cache, locals, routine, caller, control
<1>51. ASSUME TypeInv, RoutinesCounted, QuietInv, ResetDropsConn PROVE QuietInv'
  BY <1>51
    DEF TypeInv, TypeOK, QuietInv, RoutinesKnown, ModesExclude, ResetDropsConn,
      CloseConnections, DropMonitoringConn,
      cluster, verdict, pool, found, stable, cache, locals, routine, caller, control
<1>52. ASSUME TypeInv, RoutinesCounted, QuietInv, ResetForgetsTopology PROVE QuietInv'
  BY <1>52
  DEF TypeInv, TypeOK, QuietInv, RoutinesKnown, ModesExclude, ResetForgetsTopology, SetCache,
      cluster, verdict, pool, found, stable, cache, locals, routine, caller, control
<1>53. ASSUME TypeInv, RoutinesCounted, QuietInv, ResetNotifies PROVE QuietInv'
  BY <1>53
  DEF TypeInv, TypeOK, QuietInv, RoutinesKnown, ModesExclude, ResetNotifies,
      cluster, verdict, pool, found, stable, cache, locals, routine, caller, control
<1>54. ASSUME TypeInv, RoutinesCounted, QuietInv, Failover PROVE QuietInv'
  BY <1>54
  DEF TypeInv, TypeOK, QuietInv, RoutinesKnown, ModesExclude, Failover,
      cluster, verdict, pool, found, stable, cache, locals, routine, caller, control
<1>55. ASSUME TypeInv, RoutinesCounted, QuietInv, InstanceAdded PROVE QuietInv'
  BY <1>55
  DEF TypeInv, TypeOK, QuietInv, RoutinesKnown, ModesExclude, InstanceAdded,
      cluster, verdict, pool, found, stable, cache, locals, routine, caller, control
<1>56. ASSUME TypeInv, RoutinesCounted, QuietInv, TopologyExpires PROVE QuietInv'
  BY <1>56
  DEF TypeInv, TypeOK, QuietInv, RoutinesKnown, ModesExclude, TopologyExpires, SetCache,
      cluster, verdict, pool, found, stable, cache, locals, routine, caller, control
<1>57. ASSUME TypeInv, RoutinesCounted, QuietInv, UNCHANGED vars PROVE QuietInv'
  BY <1>57 DEF TypeInv, TypeOK, QuietInv, RoutinesKnown, ModesExclude, vars,
      cluster, verdict, pool, found, stable, cache, locals, routine, caller, control
<1> QED
    BY <1>1, <1>2, <1>3, <1>4, <1>5, <1>6, <1>7, <1>8, <1>9, <1>10, <1>11, <1>12, <1>13,
     <1>14, <1>15, <1>16, <1>17, <1>18, <1>19, <1>20, <1>21, <1>22, <1>23, <1>24, <1>25,
     <1>26, <1>27, <1>28, <1>29, <1>30, <1>31, <1>32, <1>33, <1>34, <1>35, <1>36, <1>37,
     <1>38, <1>39, <1>40, <1>41, <1>42, <1>43, <1>44, <1>45, <1>46, <1>47, <1>48, <1>49,
     <1>50, <1>51, <1>52, <1>53, <1>54, <1>55, <1>56, <1>57
  DEF Next, MonitorStep, RoutineStep, CallerStep, StopStep, ResetStep, Halted

\* Once Monitor() works in regular mode every host routine it started has ended
\* (as long as no reset has interfered), so none of them can still overwrite the
\* topology read over the verified connection.
THEOREM RegularModeIsQuiet == Spec => []QuietInRegularMode
<1>1. ASSUME Init PROVE TypeInv /\ RoutinesCounted /\ QuietInv
  <2>1. RoutinesCounted
    BY <1>1, InitCounted
  <2>2. QuietInv
    BY <1>1 DEF Init, QuietInv, RoutinesKnown, ModesExclude
  <2> QED
    BY <1>1, <2>1, <2>2, InitTypes
<1>2. QuietInv => QuietInRegularMode
  BY DEF QuietInv, RoutinesKnown, ModesExclude, QuietInRegularMode
<1> QED
  BY <1>1, <1>2, TypeStep, CountStep, QuietStep, PTL DEF Spec
-----------------------------------------------------------------------------
(* The announced writer: the connection a routine hands over leads to its  *)
(* host and stays nobody else's until the Monitor goroutine adopts it.     *)

\* Nothing is left to be adopted: the Monitor goroutine has taken the connection
\* over, or the round that found it is over and the next has not begun.
Settled ==
  \/ mpc \in {"verify", "join", "regular", "regularFail"}
  \/ mpc \in {"top", "panic", "stopped"} /\ hostRoutines = {}

Claiming(r) == rpc[r] \in {"claimed", "announce"}

\* A routine's connection is open and leads to its host.
ConnsLead ==
  \A r \in Routines :
    /\ rpc[r] = "idle" => rconn[r] = NoConn
    /\ rconn[r] # NoConn => connHost[rconn[r]] = rhost[r]

\* Who claims the writer has handed its connection over and is the first to.
ClaimsFirst ==
  \A r \in Routines :
    Claiming(r) => /\ rconn[r] # NoConn /\ rconn[r] = hostRoutinesWriterConn
                   /\ hostRoutinesWriterHostInfo = NoHost

\* The connection handed over is neither the monitoring connection nor one that a
\* call or the Monitor goroutine is about to close.
HandedOver ==
  hostRoutinesWriterConn # NoConn /\ ~Settled =>
    /\ hostRoutinesWriterConn # monitoringConn
    /\ \A c \in Callers : cconn[c] # hostRoutinesWriterConn
    /\ mpc # "adopt" => mconn # hostRoutinesWriterConn

Announced ==
  hostRoutinesWriterHostInfo # NoHost /\ ~Settled =>
    /\ hostRoutinesWriterConn # NoConn
    /\ connHost[hostRoutinesWriterConn] = hostRoutinesWriterHostInfo

\* What is adopted was announced.
AdoptsAnnounced ==
  mpc \in {"adopt", "verify", "join"} =>
    hostRoutinesWriterConn # NoConn /\ hostRoutinesWriterHostInfo # NoHost

WriterInv == ConnsLead /\ ClaimsFirst /\ HandedOver /\ Announced /\ AdoptsAnnounced
AnnouncedInv == zpc = "idle" => WriterInv


\* Without a reset, nobody claims a writer any more once it is settled.
LEMMA SettledQuiet ==
  ASSUME QuietInv, WriterInv, zpc = "idle", Settled, NEW r \in Routines
  PROVE  ~Claiming(r)
BY DEF QuietInv, RoutinesKnown, ModesExclude, WriterInv, ClaimsFirst, AdoptsAnnounced, Settled, Claiming

\* So neither the connection of a routine nor, before it is settled, the one handed
\* over is one that somebody else closes.
LEMMA ConnsSafe ==
  ASSUME QuietInv, PrivateConns, WriterInv, zpc = "idle"
  PROVE  /\ \A r \in Routines : rconn[r] # NoConn =>
              /\ rconn[r] # monitoringConn
              /\ \A c \in Callers : rconn[r] # cconn[c]
              /\ mpc # "adopt" => rconn[r] # mconn
              /\ \A q \in Routines \ {r} : rconn[r] # rconn[q]
         /\ ~Settled /\ hostRoutinesWriterConn # NoConn =>
              \A r \in Routines : ~Claiming(r) => rconn[r] # hostRoutinesWriterConn
<1>1. SUFFICES ASSUME NEW r \in Routines, rconn[r] # NoConn
               PROVE  /\ rconn[r] # monitoringConn
                      /\ \A c \in Callers : rconn[r] # cconn[c]
                      /\ mpc # "adopt" => rconn[r] # mconn
                      /\ \A q \in Routines \ {r} : rconn[r] # rconn[q]
                      /\ ~Claiming(r) => rconn[r] # hostRoutinesWriterConn
  OBVIOUS
<1>2. CASE Claiming(r)
  <2>1. ~Settled
    BY <1>2, SettledQuiet
  <2>. QED  BY <1>1, <1>2, <2>1 DEF PrivateConns, WriterInv, ClaimsFirst, HandedOver
<1>3. CASE ~Claiming(r)
  BY <1>1, <1>3 DEF PrivateConns, Claiming
<1>. QED  BY <1>2, <1>3

\* Steps that leave the connections and their holders alone.
LEMMA AsideStep ==
  ASSUME WriterInv,
         UNCHANGED <<connHost, monitoringConn, hostRoutines, hostRoutinesWriterConn,
                     hostRoutinesWriterHostInfo, mpc, mconn, rpc, rhost, rconn, cconn>>
  PROVE  WriterInv'
BY DEF WriterInv, ConnsLead, ClaimsFirst, HandedOver, Announced, AdoptsAnnounced, Settled, Claiming

\* Steps of the Monitor goroutine.
LEMMA MonitorKeepsWriter ==
  ASSUME TypeInv, PrivateConns, QuietInv, WriterInv, zpc = "idle", MonitorStep
  PROVE  WriterInv'
<1>. USE DEF WriterInv, ConnsLead, ClaimsFirst, HandedOver, Announced, AdoptsAnnounced,
             Settled, Claiming, cluster, verdict, pool, found, stable, cache, locals,
             routine, caller, control
<1>1. CASE EnterPanicRound
  BY <1>1 DEF EnterPanicRound
<1>2. CASE StartPanicRound
  BY <1>2 DEF QuietInv, RoutinesKnown, ModesExclude, StartPanicRound
<1>3. CASE OpenAnyConnection
  BY <1>3 DEF TypeInv, TypeOK, WorkHasHost, OpenAnyConnection, Connect, Fresh, Referenced
<1>4. CASE StoreAnyConnection
  BY <1>4, ConnsSafe DEF TypeInv, TypeOK, WorkHasHost, StoreAnyConnection,
      CloseConnections
<1>5. CASE CheckAnyConnection
  BY <1>5 DEF CheckAnyConnection
<1>6. CASE FetchAnyTopology
  BY <1>6 DEF FetchAnyTopology, SetCache
<1>7. CASE AbandonAnyConnection
  BY <1>7, ConnsSafe DEF TypeInv, TypeOK, WorkHasHost, AbandonAnyConnection,
      DropMonitoringConn, CloseConnections
<1>8. CASE SpawnRoutine
  BY <1>8 DEF SpawnRoutine
<1>9. CASE CountRoutine
  BY <1>9 DEF CountRoutine
<1>10. CASE PickUpWriter
  BY <1>10 DEF PickUpWriter
<1>11. CASE AdoptWriterConn
  BY <1>11, ConnsSafe DEF TypeInv, TypeOK, WorkHasHost, AdoptWriterConn, CloseConnections
<1>12. CASE MarkVerified
  BY <1>12 DEF MarkVerified
<1>13. CASE JoinRoutines
  BY <1>13 DEF JoinRoutines, ClearStable
<1>14. CASE AddRoutines
  BY <1>14 DEF AddRoutines
<1>15. CASE CheckForStableReaderTopologies
  BY <1>15 DEF CheckForStableReaderTopologies, SetCache
<1>16. CASE EnterRegularRound
  BY <1>16 DEF EnterRegularRound, InPanicMode
<1>17. CASE FetchTopology
  BY <1>17 DEF FetchTopology, SetCache, ClearStable
<1>18. CASE LoseMonitoringConn
  BY <1>18 DEF QuietInv, RoutinesKnown, ModesExclude, LoseMonitoringConn,
      DropMonitoringConn, CloseConnections
<1>19. CASE MonitorStopped
  BY <1>19 DEF MonitorStopped
<1>. QED  BY <1>1, <1>2, <1>3, <1>4, <1>5, <1>6, <1>7, <1>8, <1>9, <1>10, <1>11, <1>12,
             <1>13, <1>14, <1>15, <1>16, <1>17, <1>18, <1>19 DEF MonitorStep

\* Steps of a host routine.
LEMMA RoutineKeepsWriter ==
  ASSUME TypeInv, PrivateConns, QuietInv, WriterInv, zpc = "idle",
         NEW r \in Routines, RoutineStep(r)
  PROVE  WriterInv'
<1>. USE DEF WriterInv, ConnsLead, ClaimsFirst, HandedOver, Announced, AdoptsAnnounced,
             Settled, Claiming, cluster, verdict, pool, found, stable, cache, locals,
             routine, caller, control
<1>1. CASE RoutineSeesStop(r)
  BY <1>1 DEF RoutineSeesStop, Goto
<1>2. CASE RoutineConnects(r)
  BY <1>2 DEF TypeInv, TypeOK, WorkHasHost, RoutineConnects, Goto, Connect, Fresh,
      Referenced
<1>3. CASE RoutineCannotConnect(r)
  BY <1>3 DEF RoutineCannotConnect, Goto, CompleteCycleWithoutReport
<1>4. CASE RoutineIsDeniedLogin(r)
  BY <1>4 DEF RoutineIsDeniedLogin, Goto
<1>5. CASE RoutineAsksRole(r)
  BY <1>5 DEF TypeInv, TypeOK, WorkHasHost, RoutineAsksRole, Goto
<1>6. CASE RoutineLosesConn(r)
  BY <1>6, ConnsSafe DEF TypeInv, TypeOK, WorkHasHost, RoutineLosesConn, Goto,
      CloseConnections, CompleteCycleWithoutReport
<1>7. CASE RoutineClaimsWriter(r)
  BY <1>7, ConnsSafe DEF TypeInv, TypeOK, WorkHasHost, QuietInv, RoutinesKnown,
      ModesExclude, RoutineClaimsWriter, Goto, CloseConnections, GetHostRole, IsOpen
<1>8. CASE RoutineIsNoWriter(r)
  BY <1>8 DEF RoutineIsNoWriter, Goto
<1>9. CASE RoutineFetchesAsWriter(r)
  BY <1>9 DEF RoutineFetchesAsWriter, Goto, SetCache
<1>10. CASE RoutineAnnouncesWriter(r)
  BY <1>10, ConnsSafe DEF TypeInv, TypeOK, WorkHasHost, RoutineAnnouncesWriter, Goto
<1>11. CASE RoutineActsAsReader(r)
  BY <1>11 DEF TypeInv, TypeOK, WorkHasHost, RoutineActsAsReader, Goto, CompleteCycle
<1>12. CASE RoutineReports(r)
  BY <1>12 DEF RoutineReports, Goto, SetCache
<1>13. CASE RoutineCannotReport(r)
  BY <1>13 DEF RoutineCannotReport, Goto, CompleteCycle
<1>14. CASE RoutineExits(r)
  BY <1>14, ConnsSafe DEF TypeInv, TypeOK, WorkHasHost, RoutineExits, Goto,
      CloseConnections, CompleteCycleWithoutReport
<1>. QED  BY <1>1, <1>2, <1>3, <1>4, <1>5, <1>6, <1>7, <1>8, <1>9, <1>10, <1>11, <1>12,
             <1>13, <1>14 DEF RoutineStep

\* Steps of a ForceRefresh call.
LEMMA CallerKeepsWriter ==
  ASSUME TypeInv, PrivateConns, QuietInv, WriterInv, zpc = "idle",
         NEW c \in Callers, CallerStep(c)
  PROVE  WriterInv'
<1>. USE DEF WriterInv, ConnsLead, ClaimsFirst, HandedOver, Announced, AdoptsAnnounced,
             Settled, Claiming, cluster, verdict, pool, found, stable, cache, locals,
             routine, caller, control
<1>1. CASE LoadMonitoringConn(c)
  BY <1>1 DEF LoadMonitoringConn, CallerGoto
<1>2. CASE EmptyMonitoringConn(c)
  BY <1>2 DEF EmptyMonitoringConn, CallerGoto
<1>3. CASE ClearVerified(c)
  BY <1>3, ConnsSafe DEF TypeInv, TypeOK, WorkHasHost, ClearVerified, CallerGoto,
      CloseConnections
<1>4. CASE \/ CallForceRefresh(c) \/ CaptureTopology(c) \/ NotifyMonitor(c) \/ ReturnAtOnce(c)
          \/ PollTopology(c) \/ TestTopology(c) \/ CallTimesOut(c) \/ CallReturns(c)
  <2>1. UNCHANGED <<connHost, monitoringConn, hostRoutines, hostRoutinesWriterConn,
                    hostRoutinesWriterHostInfo, mpc, mconn, rpc, rhost, rconn, cconn>>
    BY <1>4 DEF CallForceRefresh, CaptureTopology, NotifyMonitor, ReturnAtOnce, PollTopology,
                TestTopology, CallTimesOut, CallReturns, CallerLeaves, CallerGoto,
                verdict, pool, found, locals, routine
  <2>. QED  BY <2>1, AsideStep
<1>. QED  BY <1>1, <1>2, <1>3, <1>4 DEF CallerStep

\* Every step, as long as no reset begins.
LEMMA AnnouncedStep ==
  ASSUME TypeInv, PrivateConns, RoutinesCounted, QuietInv, AnnouncedInv, [Next]_vars
  PROVE  AnnouncedInv'
<1>1. SUFFICES ASSUME zpc' = "idle"
               PROVE  WriterInv'
  BY DEF AnnouncedInv
<1>2. CASE ResetStep
  BY <1>1, <1>2 DEF ResetStep, ResetStopsRoutines, ResetJoinsRoutines, ResetClearsRoutines,
                    ResetDropsConn, ResetForgetsTopology, ResetNotifies
<1>3. CASE zpc' = zpc
  <2>1. zpc = "idle" /\ WriterInv
    BY <1>1, <1>3 DEF AnnouncedInv
  <2>2. CASE Close
    <3>1. hostRoutinesWg = 0 /\ mpc # "count"
      BY <2>2 DEF Close
    <3>2. \A r \in Routines : rpc[r] = "idle"
      BY <3>1, ZeroMeansIdle
    <3>. QED  BY <2>1, <2>2, <3>2
              DEF WriterInv, ConnsLead, ClaimsFirst, HandedOver, Announced, AdoptsAnnounced,
                  Settled, Claiming, Close, found, locals, routine, caller
  <2>3. CASE \/ RequestStop \/ StopRoutines \/ Failover \/ InstanceAdded \/ TopologyExpires
             \/ UNCHANGED vars
    <3>1. UNCHANGED <<connHost, monitoringConn, hostRoutines, hostRoutinesWriterConn,
                      hostRoutinesWriterHostInfo, mpc, mconn, rpc, rhost, rconn, cconn>>
      BY <2>3 DEF RequestStop, StopRoutines, Failover, InstanceAdded, TopologyExpires, vars,
                  verdict, pool, found, locals, routine, caller
    <3>. QED  BY <2>1, <3>1, AsideStep
  <2>. QED  BY <1>2, <2>1, <2>2, <2>3, MonitorKeepsWriter, RoutineKeepsWriter, CallerKeepsWriter
            DEF Next, StopStep, Halted
<1>4. ResetStep \/ zpc' = zpc
  <2>1. ASSUME MonitorStep PROVE zpc' = zpc
    BY <2>1 DEF MonitorStep, control, EnterPanicRound, StartPanicRound, OpenAnyConnection,
                StoreAnyConnection,
                CheckAnyConnection, FetchAnyTopology, AbandonAnyConnection, SpawnRoutine,
                CountRoutine, PickUpWriter, AdoptWriterConn, MarkVerified, JoinRoutines,
                AddRoutines, CheckForStableReaderTopologies, EnterRegularRound, FetchTopology,
                LoseMonitoringConn, MonitorStopped
  <2>2. ASSUME NEW r \in Routines, RoutineStep(r) PROVE zpc' = zpc
    BY <2>2 DEF RoutineStep, control, RoutineSeesStop, RoutineConnects, RoutineCannotConnect,
                RoutineIsDeniedLogin,
                RoutineAsksRole, RoutineLosesConn, RoutineClaimsWriter, RoutineIsNoWriter,
                RoutineFetchesAsWriter, RoutineAnnouncesWriter, RoutineActsAsReader,
                RoutineReports, RoutineCannotReport, RoutineExits
  <2>3. ASSUME NEW c \in Callers, CallerStep(c) PROVE zpc' = zpc
    BY <2>3 DEF CallerStep, control, CallForceRefresh, LoadMonitoringConn, EmptyMonitoringConn,
                ClearVerified, CaptureTopology, NotifyMonitor, ReturnAtOnce, PollTopology,
                TestTopology, CallTimesOut, CallReturns
  <2>4. ASSUME StopStep \/ Failover \/ InstanceAdded \/ TopologyExpires \/ UNCHANGED vars
        PROVE  zpc' = zpc
    BY <2>4 DEF StopStep, RequestStop, StopRoutines, Close, Failover, InstanceAdded,
                TopologyExpires, vars, control
  <2>. QED  BY <2>1, <2>2, <2>3, <2>4 DEF Next, Halted
<1>. QED  BY <1>2, <1>3, <1>4

\* From the announcement of the writer until Monitor() adopts it, the connection a
\* routine handed over is open and leads to the announced host, for any number of
\* routines and calls, as long as no reset intervenes.
THEOREM AnnouncedUsable == Spec => []AnnouncedWriterUsable
<1>1. ASSUME Init PROVE TypeInv /\ PrivateConns /\ RoutinesCounted /\ QuietInv /\ AnnouncedInv
  <2>1. RoutinesCounted
    BY <1>1, InitCounted
  <2>2. PrivateConns
    BY <1>1 DEF Init, PrivateConns
  <2>3. QuietInv
    BY <1>1 DEF Init, QuietInv, RoutinesKnown, ModesExclude
  <2>4. AnnouncedInv
    BY <1>1 DEF Init, AnnouncedInv, WriterInv, ConnsLead, ClaimsFirst, HandedOver, Announced,
                AdoptsAnnounced, Settled, Claiming
  <2>. QED  BY <1>1, <2>1, <2>2, <2>3, <2>4, InitTypes
<1>2. AnnouncedInv => AnnouncedWriterUsable
  BY DEF AnnouncedInv, WriterInv, Announced, Settled, AnnouncedWriterUsable
<1>. QED
  BY <1>1, <1>2, TypeStep, PrivateStep, CountStep, QuietStep, AnnouncedStep, PTL DEF Spec
=============================================================================
