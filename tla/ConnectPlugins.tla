--------------------------- MODULE ConnectPlugins ---------------------------
(***************************************************************************)
(* Callers that connect to a cluster, in one of the configurations of the  *)
(* plugins that take part in Connect: authentication, below at most one of *)
(* the initial connection strategy, stale DNS, custom endpoint and         *)
(* limitless plugins.                                                      *)
(***************************************************************************)
EXTENDS InitialConnection, CustomEndpoint, Limitless

vars == <<cluster, cached, call, faults, endpoint, shardGroup>>

Init ==
  /\ cfg \in Configs
  /\ writer = cfg.writer /\ dns = cfg.writer
  /\ secret = 0 /\ cached = None /\ faults = 0
  /\ call = [c \in Callers |-> NoCall(None, None)]
  /\ EndpointInit /\ LimitlessInit

\* Where the plugin begins.
Begin(k) ==
  CASE cfg.plugin = "none"      -> ConnectTo(k, cfg.url, "plain")
    [] cfg.plugin = "initial"   -> [k EXCEPT !.pc = "pick"]
    [] cfg.plugin = "stale"     -> ConnectTo(k, cfg.url, "staleCheck")
    [] cfg.plugin = "custom"    -> [k EXCEPT !.pc = "monitor"]
    [] cfg.plugin = "limitless" -> [k EXCEPT !.pc = "lmStart"]

Connect(c) ==
  /\ At(c, "idle") /\ c \in cfg.callers
  /\ Update(c, Begin([call[c] EXCEPT !.writers = {writer}]))
  /\ UNCHANGED <<cluster, cached, faults>>

\* The caller takes the connection, and may connect again with the same plugin
\* service, or with a new one.
Finish(c) ==
  /\ At(c, "done")
  /\ \/ call' = [call EXCEPT ![c] = NoCall(@.topo, @.writerInfo)]
     \/ call' = [call EXCEPT ![c] = NoCall(None, None)]
  /\ UNCHANGED <<cluster, cached, faults>>

CallStep(c) ==
  \/ AuthStep(c) /\ UNCHANGED <<endpoint, shardGroup>>
  \/ InitialStep(c) /\ UNCHANGED <<endpoint, shardGroup>>
  \/ EndpointStep(c) /\ UNCHANGED shardGroup
  \/ LimitlessStep(c) /\ UNCHANGED endpoint

Next ==
  \/ \E c \in Callers :
       \/ CallStep(c)
       \/ (Connect(c) \/ Finish(c) \/ TimeIsUp(c)) /\ UNCHANGED <<endpoint, shardGroup>>
       \/ LockRouters(c) /\ UNCHANGED endpoint
  \/ \E m \in EndpointMonitors : EndpointMonitorStep(m) /\ UNCHANGED shardGroup
  \/ EnvironmentStep /\ UNCHANGED <<endpoint, shardGroup>>
  \/ EndpointEnvironment /\ UNCHANGED shardGroup
  \/ (RouterMonitorStep \/ LimitlessEnvironment) /\ UNCHANGED endpoint

\* Goroutines run, time passes, and a mutex is given to every goroutine that
\* waits for it.  Nobody has to connect, and nothing has to change or fail.
Fairness ==
  /\ \A c \in Callers :
       /\ WF_vars(CallStep(c)) /\ WF_vars(TimeIsUp(c) /\ UNCHANGED <<endpoint, shardGroup>>)
       /\ SF_vars(LockRouters(c) /\ UNCHANGED endpoint)
  /\ \A m \in EndpointMonitors : WF_vars(EndpointMonitorStep(m) /\ UNCHANGED shardGroup)
  /\ WF_vars(RouterMonitorStep /\ UNCHANGED endpoint)
  /\ WF_vars(InfoExpires /\ UNCHANGED shardGroup)

Spec == Init /\ [][Next]_vars /\ Fairness

-----------------------------------------------------------------------------
HostOrNone == Hosts \cup {None}
Handles == Hosts \X {0, 1}
Results == {"none", "ok", "error", "login"}

Steps ==
  {"idle", "done", "auth", "fetch", "store", "dial", "plain",
   "pick", "identify", "verify", "staleCheck", "staleWriter", "monitor", "ask", "wait",
   "lmStart", "lmDialect", "lmMonitor", "lmEstablish", "lmChoose", "lmRouter", "lmSelected",
   "lmLeast", "lmRetry", "lmStill", "lmGet", "lmOpened", "lmQuery"}

Calls ==
  [pc : Steps, tgt : HostOrNone \cup {"writer", "reader", "other"}, ret : Steps, res : Results,
   cand : Handles \cup {None}, conn : Handles \cup {None}, open : SUBSET Handles,
   cred : 0..MaxRotations \cup {None}, fetched : BOOLEAN, late : BOOLEAN, verified : BOOLEAN,
   unavail : SUBSET Hosts, list : Callers \cup {None, "stored"}, tries : 0..MaxRouterRetries,
   topo : HostOrNone, writerInfo : HostOrNone, rotated : BOOLEAN, writers : SUBSET Hosts,
   outcome : Results]

TypeOK ==
  /\ cfg \in Configs /\ writer \in Hosts /\ dns \in Hosts
  /\ secret \in 0..MaxRotations /\ cached \in 0..MaxRotations \cup {None}
  /\ faults \in 0..cfg.maxFaults
  /\ call \in [Callers -> Calls]
  /\ members \in MemberSets /\ {info, allowed} \subseteq MemberSets \cup {None}
  /\ mcache \in EndpointMonitors \cup {None}
  /\ emon \in [EndpointMonitors ->
               [pc : {"none", "loop", "compare", "put", "sleep"},
                resp : MemberSets \cup {None}, stop : BOOLEAN]]
  /\ lists \in [Callers \cup {"stored"} -> [all : SUBSET Hosts, ok : SUBSET Hosts]]
  /\ \A l \in DOMAIN lists : lists[l].ok \subseteq lists[l].all
  /\ lock \in Callers \cup {None} /\ rmon \in {"none", "open", "query", "ended"}

\* A login refused by the database is reported only if the credentials changed
\* during the call: cached ones that have become invalid are replaced by new
\* ones within the call (the retry of the authentication plugins), also if
\* several calls fetch and cache them at once.
NoStaleLogin ==
  \A c \in Callers : call[c].outcome = "login" => call[c].rotated

\* A connection the initial connection plugin returns as verified for the
\* writer endpoint is one to a host that was the writer at some time of the call,
\* whatever the endpoint resolved to.
VerifiedRole ==
  \A c \in Callers :
    call[c].verified /\ cfg.url = "writer" => ConnHost(call[c].conn) \in call[c].writers

\* A call that succeeds hands over one connection and leaves no other one open;
\* a call of the initial connection plugin that fails leaves none open.
Handover ==
  \A c \in Callers : At(c, "done") =>
    IF call[c].outcome = "ok" THEN call[c].open = {call[c].conn}
    ELSE cfg.plugin = "initial" => call[c].open = {}

\* Once the members of a custom endpoint stay as they are, with one monitor
\* running, the hosts that are allowed are those members again and again,
\* however two monitors interleaved before.
RestrictionFollows ==
  \A S \in MemberSets : \A m \in EndpointMonitors :
    <>[](cfg.plugin = "custom" /\ members = S /\ mcache = m) => []<>(allowed = S)

\* Every call of Connect returns: the retry loops and the waits end, and the lock
\* of the router lists is released on every path.
ConnectReturns ==
  \A c \in Callers : []<>(call[c].pc \in {"idle", "done"})

=============================================================================
