--------------------------- MODULE MonitorService ---------------------------
(***************************************************************************)
(* The monitor service of awssql/services/monitor.go with the event        *)
(* publisher of events.go: connections ask for a monitor by key            *)
(* (RunIfAbsent), a cleanup goroutine stops expired monitors and replaces  *)
(* stuck ones, and reading a monitor's data extends its life through       *)
(* batched events.                                                         *)
(*                                                                         *)
(* One registered monitor type is modelled: its cache of monitors by key,  *)
(* and the map of the types (monitorCaches) by the read and write locks    *)
(* taken on it.  Each lock-protected access to the cache is one action.  A *)
(* monitor is an element of Monitors, taken again when it is stopped and   *)
(* nobody holds it; Start and Stop are atomic here (ClusterTopologyMonitor *)
(* models them for one kind of monitor).                                   *)
(***************************************************************************)
EXTENDS Naturals, FiniteSets

CONSTANTS
  Keys,       \* keys of monitors: cluster identifiers, hosts, endpoints
  Monitors,   \* identities of monitors (bounds those alive at a time)
  Callers,    \* goroutines of connections that use the service
  NoMonitor, NoKey,
  Recreate,   \* declared with ErrorResponses[MonitorErrorRecreate]
  Produces,   \* declared with a producedDataType
  Ops         \* what the callers and the passing of time may do

ASSUME ServiceAssumption ==
  /\ NoMonitor \notin Monitors
  /\ NoKey \notin Keys
  /\ Recreate \in BOOLEAN /\ Produces \in BOOLEAN
  /\ Ops \subseteq {"run", "register", "stop", "stopType", "release", "expire", "stall",
                    "busy", "access"}

VARIABLES
  settings,     \* of the type in monitorCaches: "none", "default" or "declared" ones
  cache,        \* its monitors by key
  \* monitors: progress of Start and Stop, calls of Stop, and those the cache
  \* has once accepted (for the properties only)
  phase, stops, admitted,
  \* monitors past expiresAt, without recent activity, and not disposable
  expired, inactive, busy,
  \* each caller: program counter, key, monitor in hand, monitors left to stop
  cpc, ckey, citem, cstop,
  \* the cleanup goroutine: monitors left to stop, left to replace, and the new one
  kpc, kstop, kerr, kkey, kitem,
  released,     \* stopCh is closed
  \* the event publisher: DataAccess event waiting, and the one being delivered
  pending, ppc, batch, accessed,
  crashed

monitor   == <<phase, stops, admitted>>
condition == <<expired, inactive, busy>>
caller    == <<cpc, ckey, citem, cstop>>
cleanup   == <<kpc, kstop, kerr, kkey, kitem>>
publisher == <<pending, ppc, batch, accessed>>
vars == <<settings, cache, monitor, condition, caller, cleanup, released, publisher, crashed>>

Init ==
  /\ settings = "none"
  /\ cache = [k \in Keys |-> NoMonitor]
  /\ phase = [m \in Monitors |-> "none"] /\ stops = [m \in Monitors |-> 0] /\ admitted = {}
  /\ expired = {} /\ inactive = {} /\ busy = {}
  /\ cpc = [c \in Callers |-> "idle"] /\ ckey = [c \in Callers |-> NoKey]
  /\ citem = [c \in Callers |-> NoMonitor] /\ cstop = [c \in Callers |-> {}]
  /\ kpc = "idle" /\ kstop = {} /\ kerr = [k \in Keys |-> NoMonitor]
  /\ kkey = NoKey /\ kitem = NoMonitor
  /\ released = FALSE
  /\ pending = NoKey /\ ppc = "idle" /\ batch = NoKey /\ accessed = {}
  /\ crashed = FALSE

-----------------------------------------------------------------------------
(* Monitors.                                                               *)

Cached == {cache[k] : k \in Keys} \ {NoMonitor}

\* Monitors taken out of the cache by somebody who is about to stop them.
BeingStopped ==
  kstop \cup ({kerr[k] : k \in Keys} \ {NoMonitor}) \cup UNION {cstop[c] : c \in Callers}

Fresh(m) ==
  /\ phase[m] \in {"none", "stopped"}
  /\ m \notin Cached \cup BeingStopped \cup {kitem} \cup {citem[c] : c \in Callers}

\* DefaultMonitorSettings() recreate monitors and produce no data.
Recreates == settings = "default" \/ Recreate
Extends   == settings = "declared" /\ Produces

\* monitorSupplier(): a monitor nobody has started, expiring in the future.
NewMonitor(m) ==
  /\ Fresh(m)
  /\ phase' = [phase EXCEPT ![m] = "new"]
  /\ stops' = [stops EXCEPT ![m] = 0]
  /\ admitted' = admitted \ {m}
  /\ expired' = expired \ {m} /\ inactive' = inactive \ {m} /\ busy' = busy \ {m}

\* MUTANT of PutIfAbsent: the second replaces the first.
PutAlways(k, m) == cache' = [cache EXCEPT ![k] = m] /\ admitted' = admitted \cup {m}

\* cache.PutIfAbsent(k, m): the second of two is not inserted.
PutIfAbsent(k, m) ==
  IF cache[k] = NoMonitor
    THEN cache' = [cache EXCEPT ![k] = m] /\ admitted' = admitted \cup {m}
    ELSE UNCHANGED <<cache, admitted>>

\* monitor.Start(): the goroutine of a monitor already stopped ends at once.
Start(m) ==
  /\ phase' = [phase EXCEPT ![m] = IF stops[m] > 0 THEN "stopped" ELSE "running"]
  /\ UNCHANGED <<stops, admitted>>

\* monitor.Stop() closes the channels of a topology monitor; closing them a
\* second time panics.  What is said of the monitor's condition is void then.
Stop(m) ==
  /\ phase' = [phase EXCEPT ![m] = "stopped"]
  /\ stops' = [stops EXCEPT ![m] = @ + 1]
  /\ crashed' = (stops[m] > 0)
  /\ admitted' = admitted \ {m}
  /\ expired' = expired \ {m} /\ inactive' = inactive \ {m} /\ busy' = busy \ {m}

\* cache.RemoveIf: the entries in S are gone.
RemoveMonitors(S) == cache' = [k \in Keys |-> IF cache[k] \in S THEN NoMonitor ELSE cache[k]]

-----------------------------------------------------------------------------
(* monitorCaches: ForEach holds its read lock while monitors are stopped,  *)
(* and the one goroutine whose turn it is to write keeps new readers out.  *)

Reading ==
  \/ kpc \notin {"idle", "returned"}
  \/ \E c \in Callers : cpc[c] = "stopAll"

MayRead == \A c \in Callers : cpc[c] # "lock"

-----------------------------------------------------------------------------
(* Calls of the service.                                                   *)

Goto(c, l) == cpc' = [cpc EXCEPT ![c] = l]

Return(c) ==
  /\ Goto(c, "idle")
  /\ ckey' = [ckey EXCEPT ![c] = NoKey]
  /\ citem' = [citem EXCEPT ![c] = NoMonitor]
  /\ cstop' = [cstop EXCEPT ![c] = {}]

CallRunIfAbsent(c) ==
  /\ "run" \in Ops /\ ~released
  /\ cpc[c] = "idle" /\ MayRead
  /\ \E k \in Keys : ckey' = [ckey EXCEPT ![c] = k]
  /\ Goto(c, IF settings # "none" THEN "lookup" ELSE "register")
  /\ UNCHANGED <<settings, cache, monitor, condition, citem, cstop, cleanup, released,
                 publisher, crashed>>

\* A plugin of a new connection declares its monitor type, again and again; the
\* first registration stays.
CallRegisterMonitorType(c) ==
  /\ "register" \in Ops /\ ~released
  /\ cpc[c] = "idle"
  /\ Goto(c, "register")
  /\ UNCHANGED <<settings, cache, monitor, condition, ckey, citem, cstop, cleanup, released,
                 publisher, crashed>>

LockMonitorCaches(c) ==
  /\ cpc[c] = "register" /\ MayRead
  /\ Goto(c, "lock")
  /\ UNCHANGED <<settings, cache, monitor, condition, ckey, citem, cstop, cleanup, released,
                 publisher, crashed>>

RegisterMonitorType(c) ==
  /\ cpc[c] = "lock" /\ ~Reading
  /\ settings' = IF settings # "none" THEN settings
                   ELSE IF ckey[c] = NoKey THEN "declared" ELSE "default"
  /\ IF ckey[c] = NoKey THEN Return(c)
       ELSE Goto(c, "lookup") /\ UNCHANGED <<ckey, citem, cstop>>
  /\ UNCHANGED <<cache, monitor, condition, cleanup, released, publisher, crashed>>

LookUp(c) ==
  /\ cpc[c] = "lookup"
  /\ citem' = [citem EXCEPT ![c] = cache[ckey[c]]]
  /\ Goto(c, IF cache[ckey[c]] = NoMonitor THEN "create" ELSE "extend")
  /\ UNCHANGED <<settings, cache, monitor, condition, ckey, cstop, cleanup, released,
                 publisher, crashed>>

\* The monitor exists: extend its life and return it.
ExtendAndReturn(c) ==
  /\ cpc[c] = "extend"
  /\ expired' = expired \ {citem[c]}
  /\ Return(c)
  /\ UNCHANGED <<settings, cache, monitor, inactive, busy, cleanup, released, publisher,
                 crashed>>

CreateMonitor(c) ==
  /\ cpc[c] = "create"
  /\ \E m \in Monitors : NewMonitor(m) /\ citem' = [citem EXCEPT ![c] = m]
  /\ Goto(c, "put")
  /\ UNCHANGED <<settings, cache, ckey, cstop, cleanup, released, publisher, crashed>>

\* MUTANT of InitializerFails: try again, without a limit.
InitializerFailsAndRetries(c) ==
  /\ cpc[c] = "create"
  /\ Goto(c, "lookup")
  /\ UNCHANGED <<settings, cache, monitor, condition, ckey, citem, cstop, cleanup, released,
                 publisher, crashed>>

InitializerFails(c) ==
  /\ cpc[c] = "create"
  /\ Return(c)
  /\ UNCHANGED <<settings, cache, monitor, condition, cleanup, released, publisher, crashed>>

PutMonitor(c) ==
  /\ cpc[c] = "put"
  /\ PutIfAbsent(ckey[c], citem[c])
  /\ Goto(c, "start")
  /\ UNCHANGED <<settings, phase, stops, condition, ckey, citem, cstop, cleanup, released,
                 publisher, crashed>>

\* Started and returned, inserted or not.
StartMonitor(c) ==
  /\ cpc[c] = "start"
  /\ Start(citem[c])
  /\ Return(c)
  /\ UNCHANGED <<settings, cache, condition, cleanup, released, publisher, crashed>>

\* StopAndRemove gets the item, removes the key and stops the item.
CallStopAndRemove(c) ==
  /\ "stop" \in Ops /\ settings # "none"
  /\ cpc[c] = "idle" /\ MayRead
  /\ \E k \in Keys :
       /\ cache[k] # NoMonitor
       /\ ckey' = [ckey EXCEPT ![c] = k]
       /\ citem' = [citem EXCEPT ![c] = cache[k]]
  /\ Goto(c, "remove")
  /\ UNCHANGED <<settings, cache, monitor, condition, cstop, cleanup, released, publisher,
                 crashed>>

RemoveKey(c) ==
  /\ cpc[c] = "remove"
  /\ cache' = [cache EXCEPT ![ckey[c]] = NoMonitor]
  /\ cstop' = [cstop EXCEPT ![c] = {citem[c]}]
  /\ Goto(c, "stop")
  /\ UNCHANGED <<settings, monitor, condition, ckey, citem, cleanup, released, publisher,
                 crashed>>

\* MUTANT of CallStopAndRemoveByType: absent entries are not left out.
StopByTypeWithAbsent(c) ==
  /\ "stopType" \in Ops /\ settings # "none"
  /\ cpc[c] = "idle" /\ MayRead
  /\ cstop' = [cstop EXCEPT ![c] = {cache[k] : k \in Keys}]
  /\ RemoveMonitors(Cached)
  /\ Goto(c, "stop")
  /\ UNCHANGED <<settings, monitor, condition, ckey, citem, cleanup, released, publisher,
                 crashed>>

\* StopAndRemoveByType takes every monitor out at once, then stops them.
CallStopAndRemoveByType(c) ==
  /\ "stopType" \in Ops /\ settings # "none"
  /\ cpc[c] = "idle" /\ MayRead
  /\ cstop' = [cstop EXCEPT ![c] = Cached]
  /\ RemoveMonitors(Cached)
  /\ Goto(c, "stop")
  /\ UNCHANGED <<settings, monitor, condition, ckey, citem, cleanup, released, publisher,
                 crashed>>

\* Shutdown, on program exit: ReleaseResources closes stopCh...
CallReleaseResources(c) ==
  /\ "release" \in Ops /\ ~released
  /\ \A d \in Callers : cpc[d] = "idle"
  /\ released' = TRUE
  /\ Goto(c, "release")
  /\ UNCHANGED <<settings, cache, monitor, condition, ckey, citem, cstop, cleanup,
                 publisher, crashed>>

\* ... and StopAndRemoveAll does the same for every type, under the read lock.
StopAndRemoveAll(c) ==
  /\ cpc[c] = "release" /\ MayRead
  /\ cstop' = [cstop EXCEPT ![c] = Cached]
  /\ RemoveMonitors(Cached)
  /\ Goto(c, "stopAll")
  /\ UNCHANGED <<settings, monitor, condition, ckey, citem, cleanup, released, publisher,
                 crashed>>

StopRemoved(c) ==
  /\ cpc[c] \in {"stop", "stopAll"}
  /\ \E m \in cstop[c] : Stop(m) /\ cstop' = [cstop EXCEPT ![c] = @ \ {m}]
  /\ UNCHANGED <<settings, cache, cpc, ckey, citem, cleanup, released, publisher>>

AllStopped(c) ==
  /\ cpc[c] \in {"stop", "stopAll"} /\ cstop[c] = {}
  /\ Return(c)
  /\ UNCHANGED <<settings, cache, monitor, condition, cleanup, released, publisher, crashed>>

-----------------------------------------------------------------------------
(* The cleanup goroutine: checkMonitors and handleMonitorError.            *)

\* MUTANT of CollectStopped: the entries are listed and stay in the cache.
CollectWithoutRemoving ==
  /\ kpc = "idle" /\ settings # "none" /\ MayRead
  /\ kstop' = {m \in Cached : phase[m] # "running" \/ m \in expired \ busy}
  /\ kpc' = "stopping"
  /\ UNCHANGED <<settings, cache, monitor, condition, caller, kerr, kkey, kitem, released,
                 publisher, crashed>>

\* MUTANT of CollectStopped: expiry is not looked at.
CollectIgnoringExpiry ==
  /\ kpc = "idle" /\ settings # "none" /\ MayRead
  /\ kstop' = {m \in Cached : phase[m] # "running"}
  /\ RemoveMonitors(kstop')
  /\ kpc' = "stopping"
  /\ UNCHANGED <<settings, monitor, condition, caller, kerr, kkey, kitem, released,
                 publisher, crashed>>

\* First pass: monitors that report Stopped (one not yet started does) and
\* expired ones.  The ticker may win over the closed stopCh.
CollectStopped ==
  /\ kpc = "idle" /\ settings # "none" /\ MayRead
  /\ kstop' = {m \in Cached : phase[m] # "running" \/ m \in expired \ busy}
  /\ RemoveMonitors(kstop')
  /\ kpc' = "stopping"
  /\ UNCHANGED <<settings, monitor, condition, caller, kerr, kkey, kitem, released,
                 publisher, crashed>>

StopCollected ==
  /\ kpc = "stopping"
  /\ \E m \in kstop : Stop(m) /\ kstop' = kstop \ {m}
  /\ UNCHANGED <<settings, cache, caller, kpc, kerr, kkey, kitem, released, publisher>>

\* Second pass: monitors without recent activity (one not yet started has none),
\* taken out with their keys.
Stuck(m) == m # NoMonitor /\ (phase[m] = "new" \/ m \in inactive)

CollectStuck ==
  /\ kpc = "stopping" /\ kstop = {}
  /\ kerr' = [k \in Keys |-> IF Stuck(cache[k]) THEN cache[k] ELSE NoMonitor]
  /\ cache' = [k \in Keys |-> IF Stuck(cache[k]) THEN NoMonitor ELSE cache[k]]
  /\ kpc' = "errors"
  /\ UNCHANGED <<settings, monitor, condition, caller, kstop, kkey, kitem, released,
                 publisher, crashed>>

\* handleMonitorError stops it and, if the type says so, replaces it.
StopStuck ==
  /\ kpc = "errors"
  /\ \E k \in Keys :
       /\ kerr[k] # NoMonitor
       /\ Stop(kerr[k])
       /\ kerr' = [kerr EXCEPT ![k] = NoMonitor]
       /\ kkey' = IF Recreates THEN k ELSE NoKey
  /\ kpc' = IF Recreates THEN "replace" ELSE "errors"
  /\ UNCHANGED <<settings, cache, caller, kstop, kitem, released, publisher>>

Replace ==
  /\ kpc = "replace"
  /\ \E m \in Monitors : NewMonitor(m) /\ kitem' = m
  /\ kpc' = "put"
  /\ UNCHANGED <<settings, cache, caller, kstop, kerr, kkey, released, publisher, crashed>>

SupplierFails ==
  /\ kpc = "replace"
  /\ kkey' = NoKey /\ kpc' = "errors"
  /\ UNCHANGED <<settings, cache, monitor, condition, caller, kstop, kerr, kitem, released,
                 publisher, crashed>>

PutReplacement ==
  /\ kpc = "put"
  /\ PutIfAbsent(kkey, kitem)
  /\ kpc' = "start"
  /\ UNCHANGED <<settings, phase, stops, condition, caller, kstop, kerr, kkey, kitem,
                 released, publisher, crashed>>

StartReplacement ==
  /\ kpc = "start"
  /\ Start(kitem)
  /\ kitem' = NoMonitor /\ kkey' = NoKey /\ kpc' = "errors"
  /\ UNCHANGED <<settings, cache, condition, caller, kstop, kerr, released, publisher,
                 crashed>>

FinishCheck ==
  /\ kpc = "errors" /\ \A k \in Keys : kerr[k] = NoMonitor
  /\ kpc' = "idle"
  /\ UNCHANGED <<settings, cache, monitor, condition, caller, kstop, kerr, kkey, kitem,
                 released, publisher, crashed>>

CleanupReturns ==
  /\ kpc = "idle" /\ released
  /\ kpc' = "returned"
  /\ UNCHANGED <<settings, cache, monitor, condition, caller, kstop, kerr, kkey, kitem,
                 released, publisher, crashed>>

-----------------------------------------------------------------------------
(* The event publisher, and the storage service's part in it.              *)

\* Reading a monitor's data publishes a DataAccess event; of the events of one
\* type the last one waits for delivery.
Publish(k) ==
  /\ "access" \in Ops
  /\ pending' = k /\ accessed' = accessed \cup {k}
  /\ UNCHANGED <<settings, cache, monitor, condition, caller, cleanup, released, ppc, batch,
                 crashed>>

TakePending ==
  /\ ppc = "idle" /\ pending # NoKey
  /\ batch' = pending /\ ppc' = "clear"
  /\ UNCHANGED <<settings, cache, monitor, condition, caller, cleanup, released, pending,
                 accessed, crashed>>

ClearPending ==
  /\ ppc = "clear"
  /\ pending' = NoKey /\ ppc' = "deliver"
  /\ UNCHANGED <<settings, cache, monitor, condition, caller, cleanup, released, batch,
                 accessed, crashed>>

\* ProcessEvent: the monitor of that key lives on, if it produces the data.
DeliverAccess ==
  /\ ppc = "deliver" /\ MayRead
  /\ expired' = IF Extends THEN expired \ {cache[batch]} ELSE expired
  /\ accessed' = accessed \ {batch} /\ batch' = NoKey /\ ppc' = "idle"
  /\ UNCHANGED <<settings, cache, monitor, inactive, busy, caller, cleanup, released, pending,
                 crashed>>

\* Shutdown stops the publisher last.
PublisherReturns ==
  /\ ppc = "idle" /\ released /\ \A c \in Callers : cpc[c] = "idle"
  /\ ppc' = "returned"
  /\ UNCHANGED <<settings, cache, monitor, condition, caller, cleanup, released, pending, batch,
                 accessed, crashed>>

-----------------------------------------------------------------------------
(* Time passes: a monitor in the cache expires, gets stuck and recovers,   *)
(* and (a host monitor) has connections to watch or not.                   *)

Expire(m) ==
  /\ "expire" \in Ops /\ m \in Cached \ expired
  /\ expired' = expired \cup {m}
  /\ UNCHANGED <<settings, cache, monitor, inactive, busy, caller, cleanup, released,
                 publisher, crashed>>

Stall(m) ==
  /\ "stall" \in Ops /\ m \in Cached /\ phase[m] = "running"
  /\ inactive' \in {inactive \cup {m}, inactive \ {m}}
  /\ UNCHANGED <<settings, cache, monitor, expired, busy, caller, cleanup, released,
                 publisher, crashed>>

Watch(m) ==
  /\ "busy" \in Ops /\ m \in Cached /\ phase[m] = "running"
  /\ busy' \in {busy \cup {m}, busy \ {m}}
  /\ UNCHANGED <<settings, cache, monitor, expired, inactive, caller, cleanup, released,
                 publisher, crashed>>

-----------------------------------------------------------------------------
CallerStep(c) ==
  \/ LockMonitorCaches(c) \/ RegisterMonitorType(c) \/ LookUp(c) \/ ExtendAndReturn(c)
  \/ CreateMonitor(c) \/ InitializerFails(c) \/ PutMonitor(c) \/ StartMonitor(c) \/ RemoveKey(c)
  \/ StopAndRemoveAll(c) \/ StopRemoved(c) \/ AllStopped(c)

Call(c) ==
  \/ CallRunIfAbsent(c) \/ CallRegisterMonitorType(c) \/ CallStopAndRemove(c)
  \/ CallStopAndRemoveByType(c) \/ CallReleaseResources(c)

CleanupStep ==
  \/ CollectStopped \/ StopCollected \/ CollectStuck \/ StopStuck \/ Replace
  \/ SupplierFails \/ PutReplacement \/ StartReplacement \/ FinishCheck \/ CleanupReturns

PublisherStep == TakePending \/ ClearPending \/ DeliverAccess \/ PublisherReturns

TimePasses == \E m \in Monitors : Expire(m) \/ Stall(m) \/ Watch(m)

Halted == (crashed \/ kpc = "returned") /\ UNCHANGED vars

Next ==
  \/ /\ ~crashed
     /\ \/ \E c \in Callers : Call(c) \/ CallerStep(c)
        \/ CleanupStep \/ PublisherStep \/ TimePasses
        \/ \E k \in Keys : Publish(k)
  \/ Halted

Spec == Init /\ [][Next]_vars

\* The Go scheduler runs every goroutine that is ready, and the ticker ticks.  Strong
\* fairness is for the read lock: a writer that unlocks an RWMutex lets the waiting
\* readers in before the next writer.
Scheduling ==
  /\ \A c \in Callers : SF_vars(~crashed /\ CallerStep(c))
  /\ SF_vars(~crashed /\ CleanupStep)
  /\ SF_vars(~crashed /\ PublisherStep)

ScheduledSpec == Spec /\ Scheduling

-----------------------------------------------------------------------------
(* Properties.                                                             *)

TypeOK ==
  /\ settings \in {"none", "default", "declared"}
  /\ cache \in [Keys -> Monitors \cup {NoMonitor}]
  /\ phase \in [Monitors -> {"none", "new", "running", "stopped"}]
  /\ stops \in [Monitors -> Nat] /\ admitted \subseteq Monitors
  /\ expired \subseteq Monitors /\ inactive \subseteq Monitors /\ busy \subseteq Monitors
  /\ cpc \in [Callers -> {"idle", "register", "lock", "lookup", "extend", "create", "put", "start",
                          "remove", "stop", "release", "stopAll"}]
  /\ ckey \in [Callers -> Keys \cup {NoKey}]
  /\ citem \in [Callers -> Monitors \cup {NoMonitor}]
  /\ cstop \in [Callers -> SUBSET Monitors]
  /\ kpc \in {"idle", "stopping", "errors", "replace", "put", "start", "returned"}
  /\ kstop \subseteq Monitors /\ kerr \in [Keys -> Monitors \cup {NoMonitor}]
  /\ kkey \in Keys \cup {NoKey} /\ kitem \in Monitors \cup {NoMonitor}
  /\ released \in BOOLEAN
  /\ pending \in Keys \cup {NoKey} /\ ppc \in {"idle", "clear", "deliver", "returned"}
  /\ batch \in Keys \cup {NoKey} /\ accessed \subseteq Keys
  /\ crashed \in BOOLEAN

\* No monitor is stopped twice, however the cleanup goroutine, StopAndRemoveByType
\* and ReleaseResources meet: RemoveIf hands each entry to one of them.  (A second
\* Stop of a topology monitor closes closed channels.)  Without StopAndRemove.
StoppedOnce == \A m \in Monitors : stops[m] <= 1

\* A monitor the cache has accepted is never lost: while it runs it is in the
\* cache, or somebody who took it out is about to stop it.  Without StopAndRemove.
AcceptedNeverLost ==
  \A m \in admitted : phase[m] = "running" => m \in Cached \cup BeingStopped

Overdue == (Cached \cap expired) \ busy

\* An expired, disposable monitor in the cache is taken out and stopped by
\* checkMonitors, or used again, until the service is released.
ExpiredIsStopped ==
  \A m \in Monitors : m \in Overdue ~> (m \notin Overdue \/ released \/ crashed)

\* Every call returns, although the cleanup goroutine stops monitors with the
\* read lock held and a waiting RegisterMonitorType keeps readers out.
CallsReturn == \A c \in Callers : cpc[c] # "idle" ~> (cpc[c] = "idle" \/ crashed)

\* "Shutdown stops all background goroutines in the core services": once it has
\* returned, and the cleanup goroutine too, no monitor runs.
ShutdownStopsAll ==
  released /\ kpc = "returned" /\ (\A c \in Callers : cpc[c] = "idle")
    => \A m \in Monitors : phase[m] # "running"

\* "Produced data type - extends monitor expiration on data access": every access is
\* delivered some time.
AccessIsDelivered == \A k \in Keys : k \in accessed ~> (k \notin accessed \/ crashed)
=============================================================================
