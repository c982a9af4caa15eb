----------------------------- MODULE HostMonitor -----------------------------
(***************************************************************************)
(* Enhanced failure monitoring of awssql/plugins/efm: statements of the    *)
(* application run under a MonitorConnectionState, a monitor per host      *)
(* probes the host while there are active states, and aborts the           *)
(* connections of all of them when the host is judged unhealthy.           *)
(*                                                                         *)
(* A monitor has two goroutines, newStateRun and Monitor, which share      *)
(* NewStates and ActiveStates with the callers; reset comes from the event *)
(* publisher and Stop from the cleanup of the monitor service              *)
(* (MonitorService).  One host is watched.  Time is counted by each        *)
(* monitor in units of the sleep of its loop, up to Patience.  The order   *)
(* of the queue, telemetry and the availability recorded with the plugin   *)
(* service are left out.                                                   *)
(***************************************************************************)
EXTENDS Naturals, Integers, FiniteSets

CONSTANTS
  Conns,       \* connections of the application to the host
  States,      \* MonitorConnectionState objects (bounds those in use at a time)
  Monitors,    \* HostMonitorImpl objects (bounds those alive at a time)
  None,
  Interval,    \* failureDetectionIntervalMs, in units
  Count,       \* failureDetectionCount
  MaxProbe,    \* longest probe, in units
  FaultKinds,  \* which of the faults below may happen
  MaxFaults    \* bound: faults of a behaviour

ASSUME MonitorAssumption ==
  /\ None \notin Conns \cup States \cup Monitors
  /\ Interval \in Nat \ {0} /\ Count \in Nat \ {0} /\ MaxProbe \in Nat
  /\ FaultKinds \subseteq {"slow", "reset", "evict", "instant"}
  /\ MaxFaults \in Nat

VARIABLES
  up,          \* the host answers
  open,        \* connections of the application that are open
  \* each connection: where its Execute is, the monitor it was given, and its
  \* state object
  cpc, held, stateOf,
  \* each state object: connToAbortRef and hostUnhealthy
  ref, marked,
  cache,       \* the monitor of the host in the monitor service
  \* each monitor: program counter of Monitor, the state in its hand, the
  \* connection in its hand, the length of its next sleep
  mpc, hand, victim, delay,
  \* NewStates, the states newStateRun has removed from it, ActiveStates and
  \* tmpActiveStates
  newStates, moving, active, tmp,
  conn,        \* MonitoringConn: "nil", "open" or "closed"
  stopped, unhealthy, failures,
  invalidFor,  \* time since InvalidHostStartTime, -1 if that is zero
  silence,     \* time since a probe last succeeded (for the properties only)
  faults

caller  == <<open, cpc, held, stateOf>>
object  == <<ref, marked>>
queues  == <<newStates, moving, active, tmp>>
loop    == <<mpc, hand, victim, delay>>
health  == <<unhealthy, failures, invalidFor, silence>>
vars == <<up, caller, object, cache, loop, queues, conn, stopped, health, faults>>

\* How long the host must have been invalid to be judged unhealthy
\* (maxInvalidDurationTimeNanos); durations are counted up to it.
Patience == Interval * (Count - 1)

Later(t, d) == IF t + d > Patience THEN Patience ELSE t + d

Spend(kind) == kind \in FaultKinds /\ faults < MaxFaults /\ faults' = faults + 1

Init ==
  /\ up = TRUE /\ open = Conns
  /\ cpc = [c \in Conns |-> "idle"] /\ held = [c \in Conns |-> None]
  /\ stateOf = [c \in Conns |-> None]
  /\ ref = [s \in States |-> None] /\ marked = [s \in States |-> FALSE]
  /\ cache = None
  /\ mpc = [m \in Monitors |-> "none"] /\ hand = [m \in Monitors |-> None]
  /\ victim = [m \in Monitors |-> None] /\ delay = [m \in Monitors |-> 0]
  /\ newStates = [m \in Monitors |-> {}] /\ moving = [m \in Monitors |-> {}]
  /\ active = [m \in Monitors |-> {}] /\ tmp = [m \in Monitors |-> {}]
  /\ conn = [m \in Monitors |-> "nil"]
  /\ stopped = [m \in Monitors |-> FALSE] /\ unhealthy = [m \in Monitors |-> FALSE]
  /\ failures = [m \in Monitors |-> 0] /\ invalidFor = [m \in Monitors |-> -1]
  /\ silence = [m \in Monitors |-> 0]
  /\ faults = 0

-----------------------------------------------------------------------------
(* The plugin and the monitoring service: one Execute of a network-bound   *)
(* method.                                                                 *)

\* getMonitor: the monitor of the host, or a new one that is started.
RunIfAbsent(m) ==
  \/ cache = m /\ UNCHANGED <<cache, loop, conn, stopped, health>>
  \/ /\ cache = None /\ mpc[m] = "none"
     /\ cache' = m
     /\ mpc' = [mpc EXCEPT ![m] = "loop"]
     /\ conn' = [conn EXCEPT ![m] = "nil"]
     /\ stopped' = [stopped EXCEPT ![m] = FALSE]
     /\ unhealthy' = [unhealthy EXCEPT ![m] = FALSE]
     /\ failures' = [failures EXCEPT ![m] = 0]
     /\ invalidFor' = [invalidFor EXCEPT ![m] = -1]
     /\ silence' = [silence EXCEPT ![m] = 0]
     /\ UNCHANGED <<hand, victim, delay>>

\* The host of the connection is known (an error of getMonitoringHostInfo ends
\* the call before it changes anything); its monitor is looked up.
Execute(c, m) ==
  /\ cpc[c] = "idle" /\ c \in open
  /\ RunIfAbsent(m)
  /\ cpc' = [cpc EXCEPT ![c] = "lookedUp"]
  /\ held' = [held EXCEPT ![c] = m]
  /\ UNCHANGED <<up, open, stateOf, object, queues, faults>>

\* What is left in a monitor that has ended is never looked at again.
InUse(s) ==
  \/ \E c \in Conns : stateOf[c] = s
  \/ \E m \in Monitors :
       /\ mpc[m] \notin {"none", "ended"}
       /\ s = hand[m] \/ s \in newStates[m] \cup moving[m] \cup active[m] \cup tmp[m]

\* NewStates is keyed by time: of two states put at the same instant the
\* second replaces the first.
Put(m, s) ==
  \/ newStates' = [newStates EXCEPT ![m] = @ \cup {s}] /\ UNCHANGED faults
  \/ \E t \in newStates[m] :
        newStates' = [newStates EXCEPT ![m] = (@ \ {t}) \cup {s}] /\ Spend("instant")

\* A state object is made and handed to the monitor, stopped or not; the
\* statement starts.
StartMonitoring(c) ==
  /\ cpc[c] = "lookedUp"
  /\ \E s \in States :
       /\ ~ InUse(s)
       /\ ref' = [ref EXCEPT ![s] = c]
       /\ marked' = [marked EXCEPT ![s] = FALSE]
       /\ stateOf' = [stateOf EXCEPT ![c] = s]
       /\ Put(held[c], s)
  /\ cpc' = [cpc EXCEPT ![c] = "running"]
  /\ UNCHANGED <<up, open, held, cache, loop, moving, active, tmp, conn, stopped, health>>

\* The statement returns: the host answered, or the connection is closed.
Answer(c) ==
  /\ cpc[c] = "running"
  /\ up \/ c \notin open
  /\ cpc' = [cpc EXCEPT ![c] = "answered"]
  /\ UNCHANGED <<up, open, held, stateOf, object, cache, loop, queues, conn, stopped,
                 health, faults>>

ShouldAbort(s) == marked[s] /\ ref[s] # None

\* StopMonitoring reads the state, then changes it.
StopMonitoring(c) ==
  /\ cpc[c] = "answered"
  /\ cpc' = [cpc EXCEPT ![c] = IF ShouldAbort(stateOf[c]) THEN "abort" ELSE "leave"]
  /\ UNCHANGED <<up, open, held, stateOf, object, cache, loop, queues, conn, stopped,
                 health, faults>>

SetInactive(s) == ref' = [ref EXCEPT ![s] = None]

\* MUTANT of Deactivate: only an abort ends the monitoring.
DeactivateOnAbort(c) ==
  IF cpc[c] = "abort" THEN SetInactive(stateOf[c]) ELSE UNCHANGED ref

Deactivate(c) == SetInactive(stateOf[c])

Return(c) ==
  /\ cpc[c] \in {"abort", "leave"}
  /\ Deactivate(c)
  /\ open' = IF cpc[c] = "abort" THEN open \ {c} ELSE open
  /\ cpc' = [cpc EXCEPT ![c] = "idle"]
  /\ held' = [held EXCEPT ![c] = None]
  /\ stateOf' = [stateOf EXCEPT ![c] = None]
  /\ UNCHANGED <<up, marked, cache, loop, queues, conn, stopped, health, faults>>

\* NotifyConnectionChanged, for a closed connection that is replaced.
Reconnect(c) ==
  /\ cpc[c] = "idle" /\ c \notin open /\ up
  /\ open' = open \cup {c}
  /\ UNCHANGED <<up, cpc, held, stateOf, object, cache, loop, queues, conn, stopped, health, faults>>

-----------------------------------------------------------------------------
(* The goroutine newStateRun.                                              *)

Running(m) == mpc[m] # "none"

\* States whose failure detection time has passed are removed from NewStates,
TakeDue(m) ==
  /\ Running(m) /\ ~ stopped[m] /\ moving[m] = {}
  /\ \E D \in SUBSET newStates[m] \ {{}} :
       /\ newStates' = [newStates EXCEPT ![m] = @ \ D]
       /\ moving' = [moving EXCEPT ![m] = D]
  /\ UNCHANGED <<up, caller, object, cache, loop, active, tmp, conn, stopped, health, faults>>

\* and the active ones put into ActiveStates.  Monitor, about to replace that
\* queue, no longer looks at the one they are put into.
Enqueue(m) ==
  \E s \in moving[m] :
    /\ moving' = [moving EXCEPT ![m] = @ \ {s}]
    /\ active' = IF ref[s] # None /\ mpc[m] # "swap"
                   THEN [active EXCEPT ![m] = @ \cup {s}] ELSE active
    /\ UNCHANGED <<up, caller, object, cache, loop, newStates, tmp, conn, stopped, health, faults>>

-----------------------------------------------------------------------------
(* The goroutine Monitor.                                                  *)

At(m, pc) == mpc[m] = pc
Goto(m, pc) == mpc' = [mpc EXCEPT ![m] = pc]

\* An iteration begins; without states, and unless the host is unhealthy, it
\* only sleeps: for how long altogether is left open.
Idle(m) ==
  /\ At(m, "loop") /\ ~ stopped[m]
  /\ active[m] = {} /\ ~ unhealthy[m]
  /\ silence[m] < Patience
  /\ \E d \in {1, Patience} :
       /\ silence' = [silence EXCEPT ![m] = Later(@, d)]
       /\ invalidFor' = [invalidFor EXCEPT ![m] = IF @ = -1 THEN @ ELSE Later(@, d)]
  /\ UNCHANGED <<up, caller, object, cache, loop, queues, conn, stopped, unhealthy, failures, faults>>

CheckConnectionStatus(m) ==
  /\ At(m, "loop") /\ ~ stopped[m]
  /\ active[m] # {} \/ unhealthy[m]
  /\ Goto(m, IF conn[m] = "open" THEN "ping" ELSE "connect")
  /\ UNCHANGED <<up, caller, object, cache, hand, victim, delay, queues, conn, stopped, health, faults>>

\* MUTANT of BackAlive: the beginning of the failures is not forgotten.
StillCounting(m) ==
  /\ unhealthy' = [unhealthy EXCEPT ![m] = FALSE]
  /\ failures' = [failures EXCEPT ![m] = 0]
  /\ UNCHANGED invalidFor

\* What a probe that succeeds, and reset, do to the failure tracking.
BackAlive(m) ==
  /\ unhealthy' = [unhealthy EXCEPT ![m] = FALSE]
  /\ failures' = [failures EXCEPT ![m] = 0]
  /\ invalidFor' = [invalidFor EXCEPT ![m] = -1]

\* A failed probe of length d: the host is judged by the time that has passed
\* since the first of the failures began.
NotResponding(m, d) ==
  LET duration == IF invalidFor[m] = -1 THEN Later(0, d) ELSE Later(invalidFor[m], d)
  IN  /\ failures' = [failures EXCEPT ![m] = IF @ < Count THEN @ + 1 ELSE @]
      /\ invalidFor' = [invalidFor EXCEPT ![m] = duration]
      /\ unhealthy' = [unhealthy EXCEPT ![m] = @ \/ duration >= Patience]

Reachable(m) == up /\ (At(m, "ping") => conn[m] = "open")

\* The probe ends and UpdateHostHealthStatus judges: a ping needs the
\* connection it was sent on, a new connection a host that answers.
ProbeEnds(m, d) ==
  /\ mpc[m] \in {"ping", "connect"}
  /\ At(m, "ping") => d < Interval
  /\ \/ /\ NotResponding(m, d)
        /\ silence' = [silence EXCEPT ![m] = Later(@, d)]
        /\ IF Reachable(m) THEN Spend("slow") ELSE UNCHANGED faults
        /\ UNCHANGED conn
     \/ /\ Reachable(m) /\ d = 0
        /\ BackAlive(m)
        /\ silence' = [silence EXCEPT ![m] = 0]
        /\ conn' = [conn EXCEPT ![m] = "open"]
        /\ UNCHANGED faults
  /\ Goto(m, "drain")
  /\ delay' = [delay EXCEPT ![m] = IF Interval - d < 1 THEN 1 ELSE Interval - d]
  /\ UNCHANGED <<up, caller, object, cache, hand, victim, queues, stopped>>

\* ActiveStates is emptied: a state is to be aborted, kept, or dropped; a
\* stopped monitor drops the one it has just taken and leaves the rest.
Drain(m) ==
  /\ At(m, "drain") /\ active[m] # {}
  /\ \E s \in active[m] :
       /\ active' = [active EXCEPT ![m] = @ \ {s}]
       /\ \/ /\ stopped[m]
             /\ Goto(m, "swap") /\ UNCHANGED <<tmp, hand>>
          \/ /\ ~ stopped[m] /\ unhealthy[m]
             /\ hand' = [hand EXCEPT ![m] = s]
             /\ Goto(m, "mark") /\ UNCHANGED tmp
          \/ /\ ~ stopped[m] /\ ~ unhealthy[m]
             /\ tmp' = IF ref[s] # None THEN [tmp EXCEPT ![m] = @ \cup {s}] ELSE tmp
             /\ UNCHANGED <<mpc, hand>>
  /\ UNCHANGED <<up, caller, object, cache, victim, delay, newStates, moving, conn, stopped, health, faults>>

Drained(m) ==
  /\ At(m, "drain") /\ active[m] = {}
  /\ Goto(m, "swap")
  /\ UNCHANGED <<up, caller, object, cache, hand, victim, delay, queues, conn, stopped, health, faults>>

\* The abort of a state: SetHostUnhealthy, GetConn, SetInactive, Close.
SetHostUnhealthy(m) ==
  /\ At(m, "mark")
  /\ marked' = [marked EXCEPT ![hand[m]] = TRUE]
  /\ Goto(m, "take")
  /\ UNCHANGED <<up, caller, ref, cache, hand, victim, delay, queues, conn, stopped, health, faults>>

GetConn(m) ==
  /\ At(m, "take")
  /\ victim' = [victim EXCEPT ![m] = ref[hand[m]]]
  /\ Goto(m, "release")
  /\ UNCHANGED <<up, caller, object, cache, hand, delay, queues, conn, stopped, health, faults>>

Release(m) ==
  /\ At(m, "release")
  /\ SetInactive(hand[m])
  /\ hand' = [hand EXCEPT ![m] = None]
  /\ Goto(m, "close")
  /\ UNCHANGED <<up, caller, marked, cache, victim, delay, queues, conn, stopped, health, faults>>

Abort(m) ==
  /\ At(m, "close")
  /\ open' = open \ {victim[m]}
  /\ victim' = [victim EXCEPT ![m] = None]
  /\ Goto(m, "drain")
  /\ UNCHANGED <<up, cpc, held, stateOf, object, cache, hand, delay, queues, conn, stopped,
                 health, faults>>

\* MUTANT of StillActive: no state is kept.
NoneKept(m) == {}

StillActive(m) == tmp[m]

\* ActiveStates is replaced by the states that were kept; the loop sleeps.
Swap(m) ==
  /\ At(m, "swap")
  /\ active' = [active EXCEPT ![m] = StillActive(m)]
  /\ tmp' = [tmp EXCEPT ![m] = {}]
  /\ Goto(m, "loop")
  /\ silence' = [silence EXCEPT ![m] = Later(@, delay[m])]
  /\ invalidFor' = [invalidFor EXCEPT ![m] = IF @ = -1 THEN @ ELSE Later(@, delay[m])]
  /\ delay' = [delay EXCEPT ![m] = 0]
  /\ UNCHANGED <<up, caller, object, cache, hand, victim, newStates, moving, conn, stopped,
                 unhealthy, failures, faults>>

-----------------------------------------------------------------------------
(* The event publisher and the monitor service.                            *)

\* reset, when a MonitorResetEvent names the host.
Reset(m) ==
  /\ Running(m) /\ Spend("reset")
  /\ conn' = [conn EXCEPT ![m] = "nil"]
  /\ BackAlive(m)
  /\ UNCHANGED <<up, caller, object, cache, loop, queues, stopped, silence>>

CanDispose(m) == active[m] = {} /\ newStates[m] = {}

\* MUTANT of TakeOut: a stopped monitor stays in the cache.
KeepCached == UNCHANGED cache

TakeOut == cache' = None

\* The cleanup of the monitor service takes out a monitor that nobody has
\* asked for in a while and that CanDispose, or one without recent activity;
\* CloseAllMonitors takes out any.
Stop(m) ==
  /\ cache = m
  /\ \/ CanDispose(m) /\ UNCHANGED faults
     \/ ~ CanDispose(m) /\ Spend("evict")
  /\ TakeOut
  /\ stopped' = [stopped EXCEPT ![m] = TRUE]
  /\ UNCHANGED <<up, caller, object, loop, queues, conn, health>>

\* MUTANT of CloseConn: the monitoring connection is left open.
LeaveConn(m) == UNCHANGED conn

CloseConn(m) == conn' = [conn EXCEPT ![m] = IF @ = "open" THEN "closed" ELSE @]

\* Both goroutines have ended: Stop closes the monitoring connection.
Close(m) ==
  /\ At(m, "loop") /\ stopped[m] /\ moving[m] = {}
  /\ CloseConn(m)
  /\ Goto(m, "ended")
  /\ UNCHANGED <<up, caller, object, cache, hand, victim, delay, queues, stopped, health, faults>>

\* A monitor nobody holds any more is garbage, with the states left in it.
Collect(m) ==
  /\ At(m, "ended") /\ \A c \in Conns : held[c] # m
  /\ Goto(m, "none")
  /\ newStates' = [newStates EXCEPT ![m] = {}]
  /\ active' = [active EXCEPT ![m] = {}]
  /\ UNCHANGED <<up, caller, object, cache, hand, victim, delay, moving, tmp, conn, stopped, health, faults>>

-----------------------------------------------------------------------------
(* The host.                                                               *)

Host ==
  /\ up' = ~ up
  /\ UNCHANGED <<caller, object, cache, loop, queues, conn, stopped, health, faults>>

-----------------------------------------------------------------------------
CallStep(c) ==
  \/ \E m \in Monitors : Execute(c, m)
  \/ StartMonitoring(c) \/ Answer(c) \/ StopMonitoring(c) \/ Return(c) \/ Reconnect(c)

NewStateRun(m) == TakeDue(m) \/ Enqueue(m)

Monitor(m) ==
  \/ Idle(m) \/ CheckConnectionStatus(m)
  \/ \E d \in 0 .. MaxProbe : ProbeEnds(m, d)
  \/ Drain(m) \/ Drained(m) \/ Swap(m)
  \/ SetHostUnhealthy(m) \/ GetConn(m) \/ Release(m) \/ Abort(m)

Next ==
  \/ \E c \in Conns : CallStep(c)
  \/ \E m \in Monitors : NewStateRun(m) \/ Monitor(m) \/ Reset(m) \/ Stop(m) \/ Close(m) \/ Collect(m)
  \/ Host

\* The goroutines of the monitor and of the calls run on; whether the
\* application makes another call, and whether the host changes, is open.
Fairness ==
  /\ \A c \in Conns :
       WF_vars(StartMonitoring(c) \/ Answer(c) \/ StopMonitoring(c) \/ Return(c))
  /\ \A m \in Monitors : WF_vars(NewStateRun(m)) /\ WF_vars(Monitor(m)) /\ WF_vars(Close(m))

Spec == Init /\ [][Next]_vars /\ Fairness

-----------------------------------------------------------------------------
(* Properties.                                                             *)

MonitorPcs == {"none", "loop", "ping", "connect", "drain", "mark", "take", "release", "close",
               "swap", "ended"}

\* Every variable holds a value of its type; a monitor of the service is
\* running and not stopped, and a call in progress has a state object.
TypeOK ==
  /\ up \in BOOLEAN /\ open \subseteq Conns
  /\ cpc \in [Conns -> {"idle", "lookedUp", "running", "answered", "abort", "leave"}]
  /\ held \in [Conns -> Monitors \cup {None}]
  /\ stateOf \in [Conns -> States \cup {None}]
  /\ ref \in [States -> Conns \cup {None}] /\ marked \in [States -> BOOLEAN]
  /\ cache \in Monitors \cup {None}
  /\ mpc \in [Monitors -> MonitorPcs]
  /\ hand \in [Monitors -> States \cup {None}] /\ victim \in [Monitors -> Conns \cup {None}]
  /\ delay \in [Monitors -> 0 .. Interval]
  /\ newStates \in [Monitors -> SUBSET States] /\ moving \in [Monitors -> SUBSET States]
  /\ active \in [Monitors -> SUBSET States] /\ tmp \in [Monitors -> SUBSET States]
  /\ conn \in [Monitors -> {"nil", "open", "closed"}]
  /\ stopped \in [Monitors -> BOOLEAN] /\ unhealthy \in [Monitors -> BOOLEAN]
  /\ failures \in [Monitors -> 0 .. Count]
  /\ invalidFor \in [Monitors -> -1 .. Patience] /\ silence \in [Monitors -> 0 .. Patience]
  /\ faults \in 0 .. MaxFaults
  /\ cache # None => Running(cache) /\ ~ stopped[cache]
  /\ \A c \in Conns : cpc[c] \in {"running", "answered", "abort", "leave"} => stateOf[c] # None

\* A connection is aborted only on account of a monitor whose probes have all
\* failed for failureDetectionInterval * (failureDetectionCount - 1): whatever
\* probes, resets and idle times came before, the failures the judgement of
\* UpdateHostHealthStatus counts from are not interrupted by a success.
AbortsJustified ==
  \A m \in Monitors :
    mpc[m] \in {"mark", "take", "release", "close"} => silence[m] = Patience

\* "Sets up a MonitorConnectionState that is active for the duration of
\* executeFunc": a state refers to a connection only while the statement it
\* was made for is in Execute, so that no monitor picks up the connection of a
\* statement that has returned, and no two states refer to one connection.
ActiveDuringExecute ==
  \A s \in States : ref[s] # None => stateOf[ref[s]] = s

\* A statement in ActiveStates when an iteration of Monitor begins, on a host
\* that stays dead, is aborted, and Execute returns to the caller - unless the
\* monitor is stopped.
MonitoredAborted ==
  \A c \in Conns : \A m \in Monitors :
    (mpc[m] = "loop" /\ cpc[c] = "running" /\ stateOf[c] \in active[m])
      ~> (cpc[c] = "idle" \/ up \/ stopped[m])

\* A stopped monitor ends, and its monitoring connection is not left open,
\* whatever reset does to that connection meanwhile.
StopCompletes ==
  \A m \in Monitors : stopped[m] ~> (mpc[m] \in {"ended", "none"} /\ conn[m] # "open")

\* What the documentation says of failureDetectionCount: a host is unhealthy
\* when that many probes in a row have failed.
UnhealthyAfterCount ==
  \A m \in Monitors : unhealthy[m] => failures[m] >= Count

=============================================================================
