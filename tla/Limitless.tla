------------------------------ MODULE Limitless ------------------------------
(***************************************************************************)
(* The limitless plugin, its router service and its router monitor.  The   *)
(* routers of a shard group are a list in the storage service, whose hosts *)
(* are shared: a call that fails to reach one marks it UNAVAILABLE for     *)
(* every call that holds the list.  A call without a list fetches one      *)
(* itself, under a lock; the monitor replaces the list all the time.       *)
(* Weights are left out: any available router may be the one selected.     *)
(***************************************************************************)
EXTENDS Authentication

CONSTANT MaxRouterRetries   \* limitlessGetRouterMaxRetries

ASSUME LimitlessAssumption == MaxRouterRetries \in Nat /\ "stored" \notin Callers \cup {None}

VARIABLES
  lists,    \* the list "stored" in the storage service and the older ones that
            \* calls hold: the routers, and those that are AVAILABLE
  lock,     \* the caller that holds the lock of forceGetLimitlessRoutersLockMap
  rmon      \* the router monitor

shardGroup == <<lists, lock, rmon>>

NoList == [all |-> {}, ok |-> {}]

LimitlessInit ==
  /\ lists = [l \in Callers \cup {"stored"} |-> NoList]
  /\ lock = None /\ rmon = "none"

Stored == lists["stored"].all # {}
Held(l) == \E c \in Callers : call[c].list = l

\* The stored list is replaced; the calls that hold the old one keep it, under
\* a name no call uses.
Spare == CHOOSE l \in Callers : ~ Held(l)

Replace(new) ==
  lists' = [l \in DOMAIN lists |->
              IF l = "stored" THEN new
              ELSE IF Held(l) THEN lists[l]
              ELSE IF Held("stored") /\ l = Spare THEN lists["stored"]
              ELSE NoList]

Kept == [c \in Callers |-> IF call[c].list = "stored"
                             THEN [call[c] EXCEPT !.list = Spare] ELSE call[c]]

\* A new list: all of its routers are AVAILABLE.
NewLists == {[all |-> r, ok |-> r] : r \in cfg.routers}

Available(c) == lists[call[c].list].ok

\* The available routers a call may go to next.
Choose(c, ret) == \E h \in Available(c) : Update(c, ConnectTo(call[c], h, ret))

\* SetConnection closes the previous connection of the context.
SetConnection(c) == [call[c] EXCEPT !.open = @ \ {call[c].conn}, !.conn = call[c].cand]

-----------------------------------------------------------------------------
(* LimitlessPlugin.Connect.                                                *)

\* The dialect may be known to be a limitless one already (cfg.dialect); else a connection
\* to the given host has to tell.
CheckDialect(c) ==
  /\ At(c, "lmStart")
  /\ IF cfg.dialect THEN GoTo(c, "lmMonitor")
                    ELSE Update(c, ConnectTo(call[c], cfg.url, "lmDialect"))
  /\ UNCHANGED <<cluster, cached, faults, shardGroup>>

Dialect(c) ==
  /\ At(c, "lmDialect")
  /\ \/ call[c].res # "ok" /\ Update(c, Done(call[c], call[c].res, None)) /\ UNCHANGED faults
     \/ call[c].res = "ok" /\ Update(c, Done(call[c], "error", None)) /\ Spend
     \/ /\ call[c].res = "ok" /\ UNCHANGED faults
        /\ Update(c, Settled([call[c] EXCEPT !.conn = call[c].cand], "lmMonitor"))
  /\ UNCHANGED <<cluster, cached, shardGroup>>

StartMonitoring(c) ==
  /\ At(c, "lmMonitor")
  /\ rmon' = IF rmon = "none" THEN "open" ELSE rmon
  /\ GoTo(c, "lmEstablish")
  /\ UNCHANGED <<cluster, cached, faults, lists, lock>>

-----------------------------------------------------------------------------
(* EstablishConnection.                                                    *)

\* The connection of the context, or else one to the given host.
OwnConnection(c, ret) ==
  IF call[c].conn # None THEN Done(call[c], "ok", call[c].conn)
  ELSE ConnectTo(call[c], cfg.url, ret)

EstablishConnection(c) ==
  /\ At(c, "lmEstablish")
  /\ IF Stored THEN Update(c, [call[c] EXCEPT !.pc = "lmChoose", !.list = "stored"])
     ELSE IF cfg.wait THEN GoTo(c, "lmGet")
     ELSE Update(c, OwnConnection(c, "plain"))
  /\ UNCHANGED <<cluster, cached, faults, shardGroup>>

\* The given host may be a router itself; else one is selected by weight.
SelectRouter(c) ==
  /\ At(c, "lmChoose")
  /\ \/ /\ cfg.url \in lists[call[c].list].all
        /\ Update(c, OwnConnection(c, "lmRouter"))
     \/ /\ cfg.url \notin lists[call[c].list].all
        /\ \/ Choose(c, "lmSelected")
           \/ Available(c) = {} /\ GoTo(c, "lmRetry")
  /\ UNCHANGED <<cluster, cached, faults, shardGroup>>

\* The connection was made or not: a router that was selected and cannot be
\* reached becomes UNAVAILABLE.
Connected(c) ==
  /\ call[c].pc \in {"lmRouter", "lmSelected", "lmLeast"}
  /\ lists' = IF call[c].res = "ok" \/ At(c, "lmRouter") THEN lists
              ELSE [lists EXCEPT ![call[c].list].ok = @ \ {call[c].tgt}]
  /\ Update(c, CASE call[c].res = "ok"     -> Done(SetConnection(c), "ok", call[c].cand)
                 [] call[c].res = "login"  -> Done(call[c], "login", None)
                 [] OTHER                  -> Settled(call[c], "lmRetry"))
  /\ UNCHANGED <<cluster, cached, faults, lock, rmon>>

\* retryConnectWithLeastLoadedRouters: an iteration.  Its counter is never
\* incremented.  The list is fetched when none of its routers is available; if
\* none is still ("lmStill"), the given host is used.
RetryConnect(c) ==
  /\ call[c].pc \in {"lmRetry", "lmStill"}
  /\ \/ Choose(c, "lmLeast")
     \/ /\ Available(c) = {}
        /\ IF At(c, "lmRetry") THEN GoTo(c, "lmGet") ELSE Update(c, OwnConnection(c, "plain"))
  /\ UNCHANGED <<cluster, cached, faults, shardGroup>>

-----------------------------------------------------------------------------
(* synchronousGetLimitlessRouter, and its retries.                         *)

\* Where a call goes on with a list: RetryConnect called if it had one before.
Resume(c, list) ==
  Settled([call[c] EXCEPT !.tries = 0, !.list = list],
          IF call[c].list = None THEN "lmChoose" ELSE "lmStill")

\* The lock is taken.  A list that was stored since is used.
LockRouters(c) ==
  /\ At(c, "lmGet") /\ lock = None
  /\ IF Stored
       THEN Update(c, Resume(c, "stored")) /\ UNCHANGED lock
       ELSE /\ lock' = c
            /\ IF call[c].conn = None THEN Update(c, ConnectTo(call[c], cfg.url, "lmOpened"))
                                      ELSE GoTo(c, "lmQuery")
  /\ UNCHANGED <<cluster, cached, faults, lists, rmon>>

\* MUTANT of Unlock: the lock is kept.
KeepLock == lock' = lock

Unlock == lock' = None

\* MUTANT of GetFailed: one try too many.
GetFailedAgain(c) ==
  IF call[c].list # None THEN Resume(c, call[c].list)
  ELSE IF call[c].tries > MaxRouterRetries THEN Done(call[c], "error", None)
  ELSE Settled([call[c] EXCEPT !.tries = @ + 1], "lmGet")

\* The attempt failed.  An old list ends the retries as well.
GetFailed(c) ==
  IF call[c].list # None THEN Resume(c, call[c].list)
  ELSE IF call[c].tries >= MaxRouterRetries THEN Done(call[c], "error", None)
  ELSE Settled([call[c] EXCEPT !.tries = @ + 1], "lmGet")

Opened(c) ==
  /\ At(c, "lmOpened")
  /\ IF call[c].res = "ok"
       THEN /\ UNCHANGED lock
            /\ Update(c, Settled([call[c] EXCEPT !.conn = call[c].cand], "lmQuery"))
       ELSE Unlock /\ Update(c, GetFailed(c))
  /\ UNCHANGED <<cluster, cached, faults, lists, rmon>>

QueryRouters(c) ==
  /\ At(c, "lmQuery")
  /\ Unlock
  /\ \/ /\ \E l \in NewLists : Replace(l)
        /\ call' = [Kept EXCEPT ![c] = Resume(c, "stored")]
        /\ UNCHANGED faults
     \/ /\ Update(c, GetFailed(c)) /\ Spend
        /\ UNCHANGED lists
  /\ UNCHANGED <<cluster, cached, rmon>>

LimitlessStep(c) ==
  \/ CheckDialect(c) \/ Dialect(c) \/ StartMonitoring(c) \/ EstablishConnection(c)
  \/ SelectRouter(c) \/ Connected(c) \/ RetryConnect(c) \/ Opened(c) \/ QueryRouters(c)

-----------------------------------------------------------------------------
(* The router monitor.                                                     *)

\* openConnection: tried until it succeeds.
OpenConnection ==
  /\ rmon = "open" /\ cfg.up # {}
  /\ rmon' = "query"
  /\ UNCHANGED <<cluster, cached, call, faults, lists, lock>>

\* The routers are queried; an error or an empty answer ends the loop, though
\* not the monitor's state Running.
MonitorQuery ==
  /\ rmon = "query"
  /\ \/ \E l \in NewLists : Replace(l) /\ call' = Kept /\ UNCHANGED <<rmon, faults>>
     \/ rmon' = "ended" /\ Spend /\ UNCHANGED <<lists, call>>
  /\ UNCHANGED <<cluster, cached, lock>>

\* Only the silence of the ended monitor makes the monitor service recreate it.
Recreate ==
  /\ rmon = "ended" /\ rmon' = "open"
  /\ UNCHANGED <<cluster, cached, call, faults, lists, lock>>

RoutersExpire ==
  /\ Stored /\ Replace(NoList) /\ call' = Kept
  /\ UNCHANGED <<cluster, cached, faults, lock, rmon>>

\* The monitor expired or all monitors are closed.
StopRouterMonitor ==
  /\ rmon # "none" /\ Spend
  /\ rmon' = "none"
  /\ UNCHANGED <<cluster, cached, call, lists, lock>>

RouterMonitorStep == OpenConnection \/ MonitorQuery \/ Recreate
LimitlessEnvironment == RoutersExpire \/ StopRouterMonitor

=============================================================================
