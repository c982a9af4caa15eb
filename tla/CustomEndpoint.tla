--------------------------- MODULE CustomEndpoint ---------------------------
(***************************************************************************)
(* The custom endpoint plugin and its monitor.  A call waits until the     *)
(* members of the endpoint are known; the monitor asks RDS for them,       *)
(* stores which hosts are allowed (for PluginServiceImpl.GetHosts) and     *)
(* then caches what it was told, with the shared customEndpointInfoCache   *)
(* as the memory of what it stored.  The monitor service may replace a     *)
(* monitor that waits for RDS too long while that one is still running.    *)
(***************************************************************************)
EXTENDS Authentication

CONSTANTS EndpointMonitors, MemberSets

ASSUME EndpointAssumption == None \notin EndpointMonitors \cup MemberSets

VARIABLES
  members,    \* of the endpoint, in RDS
  info,       \* its entry in customEndpointInfoCache
  allowed,    \* its entry in the storage service
  mcache,     \* the monitor in the monitor service
  emon        \* each monitor: program counter, the response, and stop

endpoint == <<members, info, allowed, mcache, emon>>

NoMonitor == [pc |-> "none", resp |-> None, stop |-> FALSE]

EndpointInit ==
  /\ members \in MemberSets
  /\ info = None /\ allowed = None
  /\ mcache = None /\ emon = [m \in EndpointMonitors |-> NoMonitor]

MonitorAt(m, pc) == emon[m].pc = pc
MonitorTo(m, pc) == emon' = [emon EXCEPT ![m].pc = pc]

-----------------------------------------------------------------------------
(* The plugin.                                                             *)

\* Connect, or Execute: createMonitorIfAbsent.
CreateMonitorIfAbsent(c) ==
  /\ At(c, "monitor")
  /\ \/ mcache # None /\ UNCHANGED <<mcache, emon>>
     \/ /\ mcache = None
        /\ \E m \in EndpointMonitors :
             /\ MonitorAt(m, "none")
             /\ mcache' = m
             /\ emon' = [emon EXCEPT ![m] = [NoMonitor EXCEPT !.pc = "loop"]]
  /\ IF cfg.wait THEN GoTo(c, "ask") ELSE Update(c, ConnectTo(call[c], cfg.url, "plain"))
  /\ UNCHANGED <<cluster, cached, faults, members, info, allowed>>

\* HasCustomEndpointInfo, at first and every 100 ms until the time is up.  The
\* update it requests only ends the sleep of the monitor early.
HasInfo(c) ==
  /\ call[c].pc \in {"ask", "wait"}
  /\ IF info # None THEN Update(c, ConnectTo(call[c], cfg.url, "plain"))
     ELSE IF At(c, "wait") /\ call[c].late THEN Update(c, Done(call[c], "error", None))
     ELSE GoTo(c, "wait")
  /\ UNCHANGED <<cluster, cached, faults, endpoint>>

EndpointStep(c) == CreateMonitorIfAbsent(c) \/ HasInfo(c)

-----------------------------------------------------------------------------
(* The monitor.                                                            *)

\* DescribeDBClusterEndpoints answers, with one endpoint or with an error.
Describe(m) ==
  /\ MonitorAt(m, "loop") /\ ~ emon[m].stop
  /\ \/ emon' = [emon EXCEPT ![m].pc = "compare", ![m].resp = members] /\ UNCHANGED faults
     \/ MonitorTo(m, "sleep") /\ Spend
  /\ UNCHANGED <<cluster, cached, call, members, info, allowed, mcache>>

\* The response is compared with the cached one; a new one is stored first
Compare(m) ==
  /\ MonitorAt(m, "compare")
  /\ IF info = emon[m].resp
       THEN MonitorTo(m, "sleep") /\ UNCHANGED allowed
       ELSE MonitorTo(m, "put") /\ allowed' = emon[m].resp
  /\ UNCHANGED <<cluster, cached, call, faults, members, info, mcache>>

\* and cached then.
PutInfo(m) ==
  /\ MonitorAt(m, "put")
  /\ info' = emon[m].resp
  /\ MonitorTo(m, "sleep")
  /\ UNCHANGED <<cluster, cached, call, faults, members, allowed, mcache>>

\* sleep ends: in time, by a request, or by Stop.
Wake(m) ==
  /\ MonitorAt(m, "sleep")
  /\ emon' = [emon EXCEPT ![m].pc = "loop", ![m].resp = None]
  /\ UNCHANGED <<cluster, cached, call, faults, members, info, allowed, mcache>>

\* A stopped monitor, and Stop after it, remove the cached information.
EndMonitor(m) ==
  /\ MonitorAt(m, "loop") /\ emon[m].stop
  /\ emon' = [emon EXCEPT ![m] = NoMonitor]
  /\ info' = None
  /\ UNCHANGED <<cluster, cached, call, faults, members, allowed, mcache>>

EndpointMonitorStep(m) == Describe(m) \/ Compare(m) \/ PutInfo(m) \/ Wake(m) \/ EndMonitor(m)

-----------------------------------------------------------------------------
(* The monitor service, RDS, and time.                                     *)

\* A monitor that has expired is stopped; one that was stuck is replaced.
StopMonitor ==
  /\ mcache # None /\ Spend
  /\ \/ mcache' = None /\ emon' = [emon EXCEPT ![mcache].stop = TRUE]
     \/ \E m \in EndpointMonitors :
          /\ MonitorAt(m, "none")
          /\ mcache' = m
          /\ emon' = [emon EXCEPT ![mcache].stop = TRUE, ![m] = [NoMonitor EXCEPT !.pc = "loop"]]
  /\ UNCHANGED <<cluster, cached, call, members, info, allowed>>

ChangeMembers ==
  /\ cfg.plugin = "custom" /\ Spend
  /\ members' \in MemberSets \ {members}
  /\ UNCHANGED <<cluster, cached, call, info, allowed, mcache, emon>>

\* MUTANT of InfoExpires: what is cached stays.
InfoStays == FALSE /\ UNCHANGED <<cluster, cached, call, faults, endpoint>>

InfoExpires ==
  /\ info # None /\ info' = None
  /\ UNCHANGED <<cluster, cached, call, faults, members, allowed, mcache, emon>>

AllowedExpires ==
  /\ allowed # None /\ allowed' = None
  /\ UNCHANGED <<cluster, cached, call, faults, members, info, mcache, emon>>

EndpointEnvironment == StopMonitor \/ ChangeMembers \/ InfoExpires \/ AllowedExpires

=============================================================================
