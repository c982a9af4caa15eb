-------------------------- MODULE HostMonitorProofs --------------------------
(***************************************************************************)
(* Proofs for HostMonitor, for any connections, state objects, monitors,   *)
(* intervals, counts and faults: its types, that only a host that has been *)
(* silent for long enough is judged dead, and that a state object refers   *)
(* to a connection only while the statement it was made for is in Execute. *)
(***************************************************************************)
EXTENDS HostMonitor, TLAPS

\* A monitor that aborts a state has one in its hand.
HandFilled ==
  \A m \in Monitors : mpc[m] \in {"mark", "take", "release"} => hand[m] \in States

\* Only a stopped monitor ends: the one in the service does not.
EndedStopped == \A m \in Monitors : mpc[m] = "ended" => stopped[m]

\* A call that has looked its monitor up holds it.
MonitorHeld == \A c \in Conns : cpc[c] = "lookedUp" => held[c] \in Monitors

TypeInv == TypeOK /\ HandFilled /\ EndedStopped /\ MonitorHeld

-----------------------------------------------------------------------------
(* Durations *)

\* Patience (maxInvalidDurationTimeNanos) is a duration.
LEMMA PatienceNat == Patience \in Nat
<1>1. Interval \in Nat /\ Count - 1 \in Nat
  BY MonitorAssumption
<1>2. \A i, j \in Nat : i * j \in Nat
  OBVIOUS
<1>. QED
  BY <1>1, <1>2 DEF Patience

\* Later adds durations, up to Patience, and keeps their order.
LEMMA LaterType ==
  ASSUME NEW t \in 0 .. Patience, NEW d \in Nat
  PROVE  Later(t, d) \in 0 .. Patience
BY PatienceNat DEF Later

LEMMA LaterKeepsOrder ==
  ASSUME NEW t \in 0 .. Patience, NEW u \in 0 .. Patience, NEW d \in Nat, t <= u
  PROVE  Later(t, d) <= Later(u, d)
BY PatienceNat DEF Later

\* Adding a duration to the times a monitor keeps.
LEMMA LaterTimes ==
  ASSUME TypeOK, NEW m \in Monitors, NEW d \in Nat
  PROVE  /\ Later(0, d) \in 0 .. Patience
         /\ Later(silence[m], d) \in 0 .. Patience
         /\ invalidFor[m] # -1 => Later(invalidFor[m], d) \in 0 .. Patience
<1>1. silence[m] \in 0 .. Patience /\ invalidFor[m] \in -1 .. Patience
  BY DEF TypeOK
<1>2. 0 \in 0 .. Patience /\ (invalidFor[m] # -1 => invalidFor[m] \in 0 .. Patience)
  BY <1>1, PatienceNat
<1>. QED  BY <1>1, <1>2, LaterType

-----------------------------------------------------------------------------
(* Types *)

LEMMA InitTypes == Init => TypeInv
BY MonitorAssumption, PatienceNat
   DEF Init, TypeInv, TypeOK, HandFilled, EndedStopped, MonitorHeld, MonitorPcs, Running

\* The steps of the application's calls keep the types.
LEMMA CallTypes ==
  ASSUME TypeInv, NEW c \in Conns, CallStep(c)
  PROVE  TypeInv'
<1>. USE MonitorAssumption, PatienceNat
     DEF TypeInv, TypeOK, HandFilled, EndedStopped, MonitorHeld, MonitorPcs, Running,
         caller, object, queues, loop, health
<1>1. ASSUME NEW m \in Monitors, Execute(c, m) PROVE TypeInv'
  <2>1. CASE cache = m /\ UNCHANGED <<cache, loop, conn, stopped, health>>
    BY <1>1, <2>1 DEF Execute
  <2>2. CASE cache # m \/ ~ UNCHANGED <<cache, loop, conn, stopped, health>>
    <3>1. /\ cache = None /\ mpc[m] = "none" /\ cache' = m
          /\ mpc' = [mpc EXCEPT ![m] = "loop"]
          /\ conn' = [conn EXCEPT ![m] = "nil"]
          /\ stopped' = [stopped EXCEPT ![m] = FALSE]
          /\ unhealthy' = [unhealthy EXCEPT ![m] = FALSE]
          /\ failures' = [failures EXCEPT ![m] = 0]
          /\ invalidFor' = [invalidFor EXCEPT ![m] = -1]
          /\ silence' = [silence EXCEPT ![m] = 0]
          /\ UNCHANGED <<hand, victim, delay>>
      BY <1>1, <2>2 DEF Execute, RunIfAbsent
    <3>2. /\ unhealthy' \in [Monitors -> BOOLEAN] /\ failures' \in [Monitors -> 0 .. Count]
          /\ invalidFor' \in [Monitors -> -1 .. Patience]
          /\ silence' \in [Monitors -> 0 .. Patience]
      BY <3>1
    <3>. QED  BY <1>1, <3>1, <3>2 DEF Execute
  <2>. QED  BY <2>1, <2>2
<1>2. CASE StartMonitoring(c)
  <2>1. PICK s \in States :
          /\ ref' = [ref EXCEPT ![s] = c]
          /\ marked' = [marked EXCEPT ![s] = FALSE]
          /\ stateOf' = [stateOf EXCEPT ![c] = s]
          /\ Put(held[c], s)
    BY <1>2 DEF StartMonitoring
  <2>2. newStates' \in [Monitors -> SUBSET States] /\ faults' \in 0 .. MaxFaults
    <3>0. held[c] \in Monitors /\ newStates[held[c]] \subseteq States
      BY <1>2 DEF StartMonitoring
    <3>1. CASE newStates' = [newStates EXCEPT ![held[c]] = @ \cup {s}] /\ UNCHANGED faults
      BY <3>0, <3>1
    <3>2. ASSUME NEW t \in newStates[held[c]],
                 newStates' = [newStates EXCEPT ![held[c]] = (@ \ {t}) \cup {s}],
                 Spend("instant")
          PROVE  newStates' \in [Monitors -> SUBSET States] /\ faults' \in 0 .. MaxFaults
      BY <3>0, <3>2 DEF Spend
    <3>. QED  BY <2>1, <3>1, <3>2 DEF Put
  <2>. QED  BY <1>2, <2>1, <2>2 DEF StartMonitoring
<1>3. CASE Answer(c)
  BY <1>3 DEF Answer
<1>4. CASE StopMonitoring(c)
  BY <1>4 DEF StopMonitoring
<1>5. CASE Return(c)
  BY <1>5 DEF Return, Deactivate, SetInactive
<1>6. CASE Reconnect(c)
  BY <1>6 DEF Reconnect
<1>. QED  BY <1>1, <1>2, <1>3, <1>4, <1>5, <1>6 DEF CallStep

\* The steps of a monitor's two goroutines keep the types.
LEMMA MonitorTypes ==
  ASSUME TypeInv, NEW m \in Monitors, NewStateRun(m) \/ Monitor(m)
  PROVE  TypeInv'
<1>. USE MonitorAssumption, PatienceNat
     DEF TypeInv, TypeOK, HandFilled, EndedStopped, MonitorHeld, MonitorPcs, Running,
         caller, object, queues, loop, health, At, Goto
<1>1. CASE TakeDue(m)
  BY <1>1 DEF TakeDue
<1>2. CASE Enqueue(m)
  BY <1>2 DEF Enqueue
<1>3. CASE Idle(m)
  <2>1. PICK d \in {1, Patience} :
          /\ silence' = [silence EXCEPT ![m] = Later(@, d)]
          /\ invalidFor' = [invalidFor EXCEPT ![m] = IF @ = -1 THEN @ ELSE Later(@, d)]
    BY <1>3 DEF Idle
  <2>2. /\ Later(silence[m], d) \in 0 .. Patience
        /\ invalidFor[m] # -1 => Later(invalidFor[m], d) \in 0 .. Patience
    BY LaterTimes
  <2>. QED  BY <1>3, <2>1, <2>2 DEF Idle
<1>4. CASE CheckConnectionStatus(m)
  BY <1>4 DEF CheckConnectionStatus
<1>5. ASSUME NEW d \in 0 .. MaxProbe, ProbeEnds(m, d) PROVE TypeInv'
  <2>1. /\ silence' \in [Monitors -> 0 .. Patience]
        /\ invalidFor' \in [Monitors -> -1 .. Patience]
    <3>1. CASE NotResponding(m, d) /\ silence' = [silence EXCEPT ![m] = Later(@, d)]
      <4>1. /\ Later(silence[m], d) \in 0 .. Patience /\ Later(0, d) \in 0 .. Patience
            /\ invalidFor[m] # -1 => Later(invalidFor[m], d) \in 0 .. Patience
        BY LaterTimes
      <4>. QED  BY <3>1, <4>1 DEF NotResponding
    <3>2. CASE BackAlive(m) /\ silence' = [silence EXCEPT ![m] = 0]
      BY <3>2 DEF BackAlive
    <3>. QED  BY <1>5, <3>1, <3>2 DEF ProbeEnds
  <2>2. failures' \in [Monitors -> 0 .. Count] /\ unhealthy' \in [Monitors -> BOOLEAN]
    <3>1. CASE NotResponding(m, d)
      <4>1. PICK b \in BOOLEAN : unhealthy' = [unhealthy EXCEPT ![m] = @ \/ b]
        BY <3>1 DEF NotResponding
      <4>2. unhealthy' \in [Monitors -> BOOLEAN]
        BY <4>1
      <4>3. failures' \in [Monitors -> 0 .. Count]
        BY <3>1 DEF NotResponding
      <4>. QED  BY <4>2, <4>3
    <3>2. CASE BackAlive(m)
      BY <3>2 DEF BackAlive
    <3>. QED  BY <1>5, <3>1, <3>2 DEF ProbeEnds
  <2>3. /\ conn' \in [Monitors -> {"nil", "open", "closed"}]
        /\ faults' \in 0 .. MaxFaults
    BY <1>5 DEF ProbeEnds, Spend
  <2>4. delay' \in [Monitors -> 0 .. Interval] /\ mpc' = [mpc EXCEPT ![m] = "drain"]
    BY <1>5 DEF ProbeEnds
  <2>. QED  BY <1>5, <2>1, <2>2, <2>3, <2>4 DEF ProbeEnds
<1>6. CASE Drain(m)
  <2>1. PICK s \in active[m] :
          /\ active' = [active EXCEPT ![m] = @ \ {s}]
          /\ \/ mpc' = [mpc EXCEPT ![m] = "swap"] /\ UNCHANGED <<tmp, hand>>
             \/ /\ hand' = [hand EXCEPT ![m] = s]
                /\ mpc' = [mpc EXCEPT ![m] = "mark"] /\ UNCHANGED tmp
             \/ /\ tmp' = IF ref[s] # None THEN [tmp EXCEPT ![m] = @ \cup {s}] ELSE tmp
                /\ UNCHANGED <<mpc, hand>>
    BY <1>6 DEF Drain
  <2>2. s \in States /\ active[m] \subseteq States /\ tmp[m] \subseteq States
    BY <2>1
  <2>3. active' \in [Monitors -> SUBSET States] /\ tmp' \in [Monitors -> SUBSET States]
    BY <2>1, <2>2
  <2>4. /\ hand' \in [Monitors -> States \cup {None}] /\ mpc' \in [Monitors -> MonitorPcs]
        /\ HandFilled' /\ EndedStopped' /\ (cache # None => mpc'[cache] # "none")
    <3>1. mpc[m] = "drain" /\ UNCHANGED <<cache, stopped>>
      BY <1>6 DEF Drain
    <3>2. CASE mpc' = [mpc EXCEPT ![m] = "swap"] /\ UNCHANGED hand
      BY <3>1, <3>2
    <3>3. CASE hand' = [hand EXCEPT ![m] = s] /\ mpc' = [mpc EXCEPT ![m] = "mark"]
      BY <2>2, <3>1, <3>3
    <3>4. CASE UNCHANGED <<mpc, hand>>
      BY <3>1, <3>4
    <3>. QED  BY <2>1, <3>2, <3>3, <3>4
  <2>. QED  BY <1>6, <2>3, <2>4 DEF Drain
<1>7. CASE Drained(m)
  BY <1>7 DEF Drained
<1>8. CASE Swap(m)
  <2>1. delay[m] \in Nat
    OBVIOUS
  <2>2. /\ Later(silence[m], delay[m]) \in 0 .. Patience
        /\ invalidFor[m] # -1 => Later(invalidFor[m], delay[m]) \in 0 .. Patience
    BY <2>1, LaterTimes
  <2>. QED  BY <1>8, <2>2 DEF Swap, StillActive
<1>9. CASE SetHostUnhealthy(m)
  BY <1>9 DEF SetHostUnhealthy
<1>10. CASE GetConn(m)
  BY <1>10 DEF GetConn
<1>11. CASE Release(m)
  BY <1>11 DEF Release, SetInactive
<1>12. CASE Abort(m)
  BY <1>12 DEF Abort
<1>. QED
  BY <1>1, <1>2, <1>3, <1>4, <1>5, <1>6, <1>7, <1>8, <1>9, <1>10, <1>11, <1>12
     DEF NewStateRun, Monitor

\* So do the event publisher, the monitor service and the host.
LEMMA ServiceTypes ==
  ASSUME TypeInv,
         Host \/ (\E m \in Monitors : Reset(m) \/ Stop(m) \/ Close(m) \/ Collect(m))
  PROVE  TypeInv'
<1>. USE MonitorAssumption, PatienceNat
     DEF TypeInv, TypeOK, HandFilled, EndedStopped, MonitorHeld, MonitorPcs, Running,
         caller, object, queues, loop, health, At, Goto
<1>1. ASSUME NEW m \in Monitors, Reset(m) PROVE TypeInv'
  BY <1>1 DEF Reset, Spend, BackAlive
<1>2. ASSUME NEW m \in Monitors, Stop(m) PROVE TypeInv'
  BY <1>2 DEF Stop, Spend, TakeOut
<1>3. ASSUME NEW m \in Monitors, Close(m) PROVE TypeInv'
  BY <1>3 DEF Close, CloseConn
<1>4. ASSUME NEW m \in Monitors, Collect(m) PROVE TypeInv'
  BY <1>4 DEF Collect
<1>5. CASE Host
  BY <1>5 DEF Host
<1>. QED  BY <1>1, <1>2, <1>3, <1>4, <1>5

LEMMA NextTypes == TypeInv /\ [Next]_vars => TypeInv'
<1>1. CASE UNCHANGED vars
  BY <1>1 DEF vars, TypeInv, TypeOK, HandFilled, EndedStopped, MonitorHeld, MonitorPcs, Running,
       caller, object, queues, loop, health
<1>. QED  BY <1>1, CallTypes, MonitorTypes, ServiceTypes DEF Next

LEMMA AlwaysTypes == Spec => []TypeInv
<1>. QED  BY InitTypes, NextTypes, PTL DEF Spec

\* Every variable of the host monitor keeps its type: among others, the monitor of
\* the service runs and is not stopped, and a statement in progress has its state object.
THEOREM TypeCorrect == Spec => []TypeOK
<1>1. TypeInv => TypeOK  BY DEF TypeInv
<1>. QED  BY <1>1, AlwaysTypes, PTL

-----------------------------------------------------------------------------
(* Aborts *)

\* The failures counted lie in the silence of the host, and a host is unhealthy only
\* when it has been silent for as long as the judgement asks for.
SilenceCounted ==
  \A m \in Monitors : invalidFor[m] <= silence[m] /\ (unhealthy[m] => silence[m] = Patience)

AbortInv == SilenceCounted /\ AbortsJustified

LEMMA InitAborts == Init => AbortInv
BY PatienceNat DEF Init, AbortInv, SilenceCounted, AbortsJustified

\* The steps that touch neither the times nor the program counter of a monitor.
LEMMA OthersKeepAborts ==
  ASSUME AbortInv, UNCHANGED <<mpc, health>>
  PROVE  AbortInv'
BY DEF AbortInv, SilenceCounted, AbortsJustified, health

\* The steps of Monitor that only move its program counter, towards an abort only
\* if the host is unhealthy.
LEMMA MovesKeepAborts ==
  ASSUME TypeOK, AbortInv, NEW m \in Monitors, UNCHANGED health,
         NEW pc \in MonitorPcs, mpc' = [mpc EXCEPT ![m] = pc],
         pc \in {"mark", "take", "release", "close"} =>
           unhealthy[m] \/ mpc[m] \in {"mark", "take", "release", "close"}
  PROVE  AbortInv'
BY DEF AbortInv, SilenceCounted, AbortsJustified, health, TypeOK

LEMMA NextAborts == TypeInv /\ AbortInv /\ [Next]_vars => AbortInv'
<1>. SUFFICES ASSUME TypeInv, AbortInv, [Next]_vars PROVE AbortInv'
  OBVIOUS
<1>. USE DEF TypeInv, Goto, At
<1>1. ASSUME NEW c \in Conns, NEW m \in Monitors, Execute(c, m) PROVE AbortInv'
  <2>1. CASE UNCHANGED <<mpc, health>>
    BY <2>1, OthersKeepAborts
  <2>2. CASE /\ mpc' = [mpc EXCEPT ![m] = "loop"]
             /\ unhealthy' = [unhealthy EXCEPT ![m] = FALSE]
             /\ invalidFor' = [invalidFor EXCEPT ![m] = -1]
             /\ silence' = [silence EXCEPT ![m] = 0]
    BY <2>2 DEF AbortInv, SilenceCounted, AbortsJustified, TypeOK
  <2>. QED  BY <1>1, <2>1, <2>2 DEF Execute, RunIfAbsent, loop
<1>2. ASSUME NEW m \in Monitors, Idle(m) PROVE AbortInv'
  <2>1. PICK d \in {1, Patience} :
          /\ silence' = [silence EXCEPT ![m] = Later(@, d)]
          /\ invalidFor' = [invalidFor EXCEPT ![m] = IF @ = -1 THEN @ ELSE Later(@, d)]
    BY <1>2 DEF Idle
  <2>2. d \in Nat
    BY PatienceNat
  <2>3. /\ silence[m] \in 0 .. Patience /\ invalidFor[m] \in -1 .. Patience
        /\ invalidFor[m] <= silence[m]
    BY DEF TypeOK, AbortInv, SilenceCounted
  <2>4. invalidFor[m] # -1 => Later(invalidFor[m], d) <= Later(silence[m], d)
    BY <2>2, <2>3, PatienceNat, LaterKeepsOrder
  <2>5. Later(silence[m], d) \in 0 .. Patience
    BY <2>2, LaterTimes
  <2>. QED  BY <1>2, <2>1, <2>4, <2>5, PatienceNat
         DEF Idle, loop, AbortInv, SilenceCounted, AbortsJustified, TypeOK
<1>3. ASSUME NEW m \in Monitors, NEW d \in 0 .. MaxProbe, ProbeEnds(m, d) PROVE AbortInv'
  <2>1. mpc' = [mpc EXCEPT ![m] = "drain"]
    BY <1>3 DEF ProbeEnds
  <2>2. d \in Nat
    BY MonitorAssumption
  <2>3. CASE NotResponding(m, d) /\ silence' = [silence EXCEPT ![m] = Later(@, d)]
    <3>1. /\ silence[m] \in 0 .. Patience /\ invalidFor[m] \in -1 .. Patience
          /\ invalidFor[m] <= silence[m] /\ unhealthy[m] \in BOOLEAN
          /\ unhealthy[m] => silence[m] = Patience
      BY DEF TypeOK, AbortInv, SilenceCounted
    <3>. DEFINE duration == IF invalidFor[m] = -1 THEN Later(0, d) ELSE Later(invalidFor[m], d)
    <3>2. duration <= Later(silence[m], d) /\ duration \in 0 .. Patience
      BY <2>2, <3>1, PatienceNat DEF Later
    <3>3. Later(silence[m], d) \in 0 .. Patience
      BY <2>2, LaterTimes
    <3>4. /\ invalidFor' = [invalidFor EXCEPT ![m] = duration]
          /\ unhealthy' = [unhealthy EXCEPT ![m] = @ \/ duration >= Patience]
      BY <2>3 DEF NotResponding
    <3>5. (unhealthy[m] => Later(silence[m], d) = Patience)
          /\ (duration >= Patience => Later(silence[m], d) = Patience)
      BY <2>2, <3>1, <3>2, <3>3, PatienceNat DEF Later
    <3>. HIDE DEF duration
    <3>6. unhealthy'[m] => unhealthy[m] \/ duration >= Patience
      BY <3>4 DEF TypeOK
    <3>7. \A k \in Monitors \ {m} : /\ unhealthy'[k] = unhealthy[k]
                                    /\ invalidFor'[k] = invalidFor[k] /\ silence'[k] = silence[k]
      BY <2>3, <3>4 DEF TypeOK
    <3>8. invalidFor'[m] = duration /\ silence'[m] = Later(silence[m], d)
      BY <2>3, <3>4 DEF TypeOK
    <3>9. SilenceCounted'
      BY <3>2, <3>5, <3>6, <3>7, <3>8 DEF AbortInv, SilenceCounted
    <3>10. AbortsJustified'
      BY <2>1, <3>7 DEF AbortInv, AbortsJustified, TypeOK
    <3>. QED  BY <3>9, <3>10 DEF AbortInv
  <2>4. CASE BackAlive(m) /\ silence' = [silence EXCEPT ![m] = 0]
    BY <2>1, <2>4, PatienceNat DEF BackAlive, AbortInv, SilenceCounted, AbortsJustified, TypeOK
  <2>. QED  BY <1>3, <2>3, <2>4 DEF ProbeEnds
<1>4. ASSUME NEW m \in Monitors, Swap(m) PROVE AbortInv'
  <2>1. delay[m] \in Nat
    BY MonitorAssumption DEF TypeOK
  <2>2. /\ silence[m] \in 0 .. Patience /\ invalidFor[m] \in -1 .. Patience
        /\ invalidFor[m] <= silence[m] /\ (unhealthy[m] => silence[m] = Patience)
    BY DEF TypeOK, AbortInv, SilenceCounted
  <2>3. /\ invalidFor[m] # -1 => Later(invalidFor[m], delay[m]) <= Later(silence[m], delay[m])
        /\ unhealthy[m] => Later(silence[m], delay[m]) = Patience
        /\ Later(silence[m], delay[m]) \in 0 .. Patience
    BY <2>1, <2>2, PatienceNat DEF Later
  <2>. QED  BY <1>4, <2>3 DEF Swap, AbortInv, SilenceCounted, AbortsJustified, TypeOK
<1>5. ASSUME NEW m \in Monitors, Reset(m) PROVE AbortInv'
  BY <1>5 DEF Reset, BackAlive, loop, AbortInv, SilenceCounted, AbortsJustified, TypeOK
<1>6. ASSUME NEW m \in Monitors,
             \/ CheckConnectionStatus(m) \/ Drained(m) \/ SetHostUnhealthy(m) \/ GetConn(m)
             \/ Release(m) \/ Abort(m) \/ Close(m) \/ Collect(m)
      PROVE  AbortInv'
  <2>1. PICK pc \in MonitorPcs : /\ mpc' = [mpc EXCEPT ![m] = pc]
                                 /\ pc \in {"mark", "take", "release", "close"} =>
                                      mpc[m] \in {"mark", "take", "release", "close"}
    BY <1>6 DEF CheckConnectionStatus, Drained, SetHostUnhealthy, GetConn, Release, Abort,
                Close, Collect, MonitorPcs
  <2>2. UNCHANGED health
    BY <1>6 DEF CheckConnectionStatus, Drained, SetHostUnhealthy, GetConn, Release, Abort,
                Close, Collect
  <2>. QED  BY <2>1, <2>2, MovesKeepAborts
<1>7. ASSUME NEW m \in Monitors, Drain(m) PROVE AbortInv'
  <2>1. UNCHANGED health
    BY <1>7 DEF Drain
  <2>2. CASE UNCHANGED mpc
    BY <2>1, <2>2, OthersKeepAborts
  <2>3. CASE mpc' = [mpc EXCEPT ![m] = "swap"]
    BY <2>1, <2>3, MovesKeepAborts DEF MonitorPcs
  <2>4. CASE unhealthy[m] /\ mpc' = [mpc EXCEPT ![m] = "mark"]
    BY <2>1, <2>4, MovesKeepAborts DEF MonitorPcs
  <2>. QED  BY <1>7, <2>2, <2>3, <2>4 DEF Drain
<1>8. ASSUME NEW c \in Conns,
             StartMonitoring(c) \/ Answer(c) \/ StopMonitoring(c) \/ Return(c) \/ Reconnect(c)
      PROVE  AbortInv'
  BY <1>8, OthersKeepAborts
     DEF StartMonitoring, Answer, StopMonitoring, Return, Reconnect, loop
<1>9. ASSUME NEW m \in Monitors, NewStateRun(m) \/ Stop(m) PROVE AbortInv'
  BY <1>9, OthersKeepAborts DEF NewStateRun, TakeDue, Enqueue, Stop, loop
<1>10. CASE Host \/ UNCHANGED vars
  BY <1>10, OthersKeepAborts DEF Host, vars, loop
<1>. QED
  BY <1>1, <1>2, <1>3, <1>4, <1>5, <1>6, <1>7, <1>8, <1>9, <1>10 DEF Next, CallStep, Monitor

\* A connection is aborted only on account of a host that answered no probe for as
\* long as UpdateHostHealthStatus asks for, for any interval and count.
THEOREM AbortsAreJustified == Spec => []AbortsJustified
<1>1. AbortInv => AbortsJustified  BY DEF AbortInv
<1>. QED  BY <1>1, InitAborts, NextAborts, AlwaysTypes, PTL DEF Spec
-----------------------------------------------------------------------------
(* State objects *)

\* A call that has no state object yet, or none any more, refers to none.
NoStateOutside ==
  \A c \in Conns : cpc[c] \in {"idle", "lookedUp"} => stateOf[c] = None

ActiveInv == ActiveDuringExecute /\ NoStateOutside

LEMMA InitActive == Init => ActiveInv
BY DEF Init, ActiveInv, ActiveDuringExecute, NoStateOutside

\* The steps that make no reference and leave the calls alone.
LEMMA OthersKeepActive ==
  ASSUME TypeOK, ActiveInv, UNCHANGED <<cpc, stateOf>>,
         \A s \in States : ref'[s] \in {ref[s], None}
  PROVE  ActiveInv'
BY DEF ActiveInv, ActiveDuringExecute, NoStateOutside, TypeOK

LEMMA NextActive == TypeInv /\ ActiveInv /\ [Next]_vars => ActiveInv'
<1>. SUFFICES ASSUME TypeInv, ActiveInv, [Next]_vars PROVE ActiveInv'
  OBVIOUS
<1>. USE DEF TypeInv
<1>1. ASSUME NEW c \in Conns, StartMonitoring(c) PROVE ActiveInv'
  <2>1. PICK s \in States : ref' = [ref EXCEPT ![s] = c] /\ stateOf' = [stateOf EXCEPT ![c] = s]
    BY <1>1 DEF StartMonitoring
  <2>2. cpc[c] = "lookedUp" /\ cpc' = [cpc EXCEPT ![c] = "running"]
    BY <1>1 DEF StartMonitoring
  <2>3. stateOf[c] = None
    BY <2>2 DEF ActiveInv, NoStateOutside
  <2>4. \A t \in States : ref[t] # c
    BY <2>3, MonitorAssumption DEF ActiveInv, ActiveDuringExecute
  <2>5. ActiveDuringExecute'
    BY <2>1, <2>4 DEF ActiveInv, ActiveDuringExecute, TypeOK
  <2>6. NoStateOutside'
    BY <2>1, <2>2 DEF ActiveInv, NoStateOutside, TypeOK
  <2>. QED  BY <2>5, <2>6 DEF ActiveInv
<1>2. ASSUME NEW c \in Conns, Return(c) PROVE ActiveInv'
  <2>1. /\ ref' = [ref EXCEPT ![stateOf[c]] = None]
        /\ stateOf' = [stateOf EXCEPT ![c] = None]
        /\ cpc' = [cpc EXCEPT ![c] = "idle"]
    BY <1>2 DEF Return, Deactivate, SetInactive
  <2>2. stateOf[c] \in States
    BY <1>2 DEF Return, TypeOK
  <2>3. \A t \in States : ref'[t] # None => ref'[t] = ref[t] /\ ref[t] # c
    BY <2>1, <2>2 DEF ActiveInv, ActiveDuringExecute, TypeOK
  <2>4. ActiveDuringExecute'
    BY <2>1, <2>3 DEF ActiveInv, ActiveDuringExecute, TypeOK
  <2>5. NoStateOutside'
    BY <2>1 DEF ActiveInv, NoStateOutside, TypeOK
  <2>. QED  BY <2>4, <2>5 DEF ActiveInv
<1>3. ASSUME NEW c \in Conns,
             Answer(c) \/ StopMonitoring(c) \/ (\E m \in Monitors : Execute(c, m))
      PROVE  ActiveInv'
  <2>1. UNCHANGED <<ref, stateOf>>
    BY <1>3 DEF Answer, StopMonitoring, Execute, object
  <2>2. \/ cpc[c] \in {"running", "answered"} /\ cpc' = [cpc EXCEPT ![c] = cpc'[c]]
           /\ cpc'[c] \in {"answered", "abort", "leave"}
        \/ cpc[c] = "idle" /\ cpc' = [cpc EXCEPT ![c] = "lookedUp"]
    BY <1>3 DEF Answer, StopMonitoring, Execute, TypeOK
  <2>3. NoStateOutside'
    BY <2>1, <2>2 DEF ActiveInv, NoStateOutside, TypeOK
  <2>. QED  BY <2>1, <2>3 DEF ActiveInv, ActiveDuringExecute
<1>4. ASSUME NEW m \in Monitors, Release(m) PROVE ActiveInv'
  <2>1. hand[m] \in States
    BY <1>4 DEF Release, At, HandFilled
  <2>2. \A s \in States : ref'[s] \in {ref[s], None}
    BY <1>4, <2>1 DEF Release, SetInactive, TypeOK
  <2>. QED  BY <1>4, <2>2, OthersKeepActive DEF Release, caller
<1>5. CASE /\ UNCHANGED ref /\ UNCHANGED <<cpc, stateOf>>
  BY <1>5, OthersKeepActive
<1>6. ASSUME NEW c \in Conns, Reconnect(c) PROVE ActiveInv'
  BY <1>5, <1>6 DEF Reconnect, object
<1>7. ASSUME NEW m \in Monitors,
             \/ NewStateRun(m) \/ Idle(m) \/ CheckConnectionStatus(m) \/ Drain(m) \/ Drained(m)
             \/ Swap(m) \/ SetHostUnhealthy(m) \/ GetConn(m) \/ Abort(m)
             \/ (\E d \in 0 .. MaxProbe : ProbeEnds(m, d))
             \/ Reset(m) \/ Stop(m) \/ Close(m) \/ Collect(m)
      PROVE  ActiveInv'
  BY <1>5, <1>7
     DEF NewStateRun, TakeDue, Enqueue, Idle, CheckConnectionStatus, Drain, Drained, Swap,
         SetHostUnhealthy, GetConn, Abort, ProbeEnds, Reset, Stop, Close, Collect, caller, object
<1>8. CASE Host \/ UNCHANGED vars
  BY <1>5, <1>8 DEF Host, vars, caller, object
<1>. QED
  BY <1>1, <1>2, <1>3, <1>4, <1>6, <1>7, <1>8 DEF Next, CallStep, Monitor

\* A state object refers to a connection only while the statement it was made for is
\* in Execute: no monitor, however late, picks up the connection of another statement.
THEOREM ActiveOnlyDuringExecute == Spec => []ActiveDuringExecute
<1>1. ActiveInv => ActiveDuringExecute  BY DEF ActiveInv
<1>. QED  BY <1>1, InitActive, NextActive, AlwaysTypes, PTL DEF Spec

=============================================================================
