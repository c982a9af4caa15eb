------------------------ MODULE MonitorServiceProofs ------------------------
(***************************************************************************)
(* Invariants of the monitor service, proved for any number of keys,       *)
(* monitors and callers.                                                   *)
(***************************************************************************)
EXTENDS MonitorService, TLAPS

\* Who looks up, creates or inserts has a key, and who inserts has a monitor.
WorkInHand ==
  /\ \A c \in Callers : cpc[c] \in {"lookup", "create", "put", "remove"} => ckey[c] \in Keys
  /\ \A c \in Callers : cpc[c] \in {"put", "start", "remove"} => citem[c] \in Monitors
  /\ kpc \in {"replace", "put"} => kkey \in Keys
  /\ kpc \in {"put", "start"} => kitem \in Monitors

TypeInv == TypeOK /\ WorkInHand

\* Every step keeps the variables in their types.
LEMMA TypeStep == TypeInv /\ [Next]_vars => TypeInv'
<1>1. ASSUME TypeInv, NEW c \in Callers, CallRunIfAbsent(c) PROVE TypeInv'
  BY <1>1, ServiceAssumption DEF TypeInv, TypeOK, WorkInHand, CallRunIfAbsent, Goto,
     monitor, condition, caller, cleanup, publisher
<1>2. ASSUME TypeInv, NEW c \in Callers, CallRegisterMonitorType(c) PROVE TypeInv'
  BY <1>2, ServiceAssumption DEF TypeInv, TypeOK, WorkInHand, CallRegisterMonitorType, Goto,
     monitor, condition, caller, cleanup, publisher
<1>3. ASSUME TypeInv, NEW c \in Callers, CallStopAndRemove(c) PROVE TypeInv'
  BY <1>3, ServiceAssumption DEF TypeInv, TypeOK, WorkInHand, CallStopAndRemove, Goto,
     monitor, condition, caller, cleanup, publisher
<1>4. ASSUME TypeInv, NEW c \in Callers, CallStopAndRemoveByType(c) PROVE TypeInv'
  BY <1>4, ServiceAssumption DEF TypeInv, TypeOK, WorkInHand, CallStopAndRemoveByType, Goto,
     RemoveMonitors, Cached, monitor, condition, caller, cleanup, publisher
<1>5. ASSUME TypeInv, NEW c \in Callers, CallReleaseResources(c) PROVE TypeInv'
  BY <1>5, ServiceAssumption DEF TypeInv, TypeOK, WorkInHand, CallReleaseResources, Goto,
     monitor, condition, caller, cleanup, publisher
<1>6. ASSUME TypeInv, NEW c \in Callers, LockMonitorCaches(c) PROVE TypeInv'
  BY <1>6, ServiceAssumption DEF TypeInv, TypeOK, WorkInHand, LockMonitorCaches, Goto,
     monitor, condition, caller, cleanup, publisher
<1>7. ASSUME TypeInv, NEW c \in Callers, RegisterMonitorType(c) PROVE TypeInv'
  BY <1>7, ServiceAssumption DEF TypeInv, TypeOK, WorkInHand, RegisterMonitorType, Goto,
     Return, monitor, condition, caller, cleanup, publisher
<1>8. ASSUME TypeInv, NEW c \in Callers, LookUp(c) PROVE TypeInv'
  BY <1>8, ServiceAssumption DEF TypeInv, TypeOK, WorkInHand, LookUp, Goto, monitor,
     condition, caller, cleanup, publisher
<1>9. ASSUME TypeInv, NEW c \in Callers, ExtendAndReturn(c) PROVE TypeInv'
  BY <1>9, ServiceAssumption DEF TypeInv, TypeOK, WorkInHand, ExtendAndReturn, Goto, Return,
     monitor, condition, caller, cleanup, publisher
<1>10. ASSUME TypeInv, NEW c \in Callers, CreateMonitor(c) PROVE TypeInv'
  BY <1>10, ServiceAssumption DEF TypeInv, TypeOK, WorkInHand, CreateMonitor, Goto,
     NewMonitor, Fresh, monitor, condition, caller, cleanup, publisher
<1>11. ASSUME TypeInv, NEW c \in Callers, InitializerFails(c) PROVE TypeInv'
  BY <1>11, ServiceAssumption DEF TypeInv, TypeOK, WorkInHand, InitializerFails, Goto,
     Return, monitor, condition, caller, cleanup, publisher
<1>12. ASSUME TypeInv, NEW c \in Callers, PutMonitor(c) PROVE TypeInv'
  BY <1>12, ServiceAssumption DEF TypeInv, TypeOK, WorkInHand, PutMonitor, Goto,
     PutIfAbsent, monitor, condition, caller, cleanup, publisher
<1>13. ASSUME TypeInv, NEW c \in Callers, StartMonitor(c) PROVE TypeInv'
  BY <1>13, ServiceAssumption DEF TypeInv, TypeOK, WorkInHand, StartMonitor, Goto, Return,
     Start, monitor, condition, caller, cleanup, publisher
<1>14. ASSUME TypeInv, NEW c \in Callers, RemoveKey(c) PROVE TypeInv'
  BY <1>14, ServiceAssumption DEF TypeInv, TypeOK, WorkInHand, RemoveKey, Goto, monitor,
     condition, caller, cleanup, publisher
<1>15. ASSUME TypeInv, NEW c \in Callers, StopAndRemoveAll(c) PROVE TypeInv'
  BY <1>15, ServiceAssumption DEF TypeInv, TypeOK, WorkInHand, StopAndRemoveAll, Goto,
     RemoveMonitors, Cached, monitor, condition, caller, cleanup, publisher
<1>16. ASSUME TypeInv, NEW c \in Callers, StopRemoved(c) PROVE TypeInv'
  BY <1>16, ServiceAssumption DEF TypeInv, TypeOK, WorkInHand, StopRemoved, Stop, monitor,
     condition, caller, cleanup, publisher
<1>17. ASSUME TypeInv, NEW c \in Callers, AllStopped(c) PROVE TypeInv'
  BY <1>17, ServiceAssumption DEF TypeInv, TypeOK, WorkInHand, AllStopped, Goto, Return,
     monitor, condition, caller, cleanup, publisher
<1>18. ASSUME TypeInv, CollectStopped PROVE TypeInv'
  BY <1>18, ServiceAssumption DEF TypeInv, TypeOK, WorkInHand, CollectStopped,
     RemoveMonitors, Cached, monitor, condition, caller, cleanup, publisher
<1>19. ASSUME TypeInv, StopCollected PROVE TypeInv'
  BY <1>19, ServiceAssumption DEF TypeInv, TypeOK, WorkInHand, StopCollected, Stop, monitor,
     condition, caller, cleanup, publisher
<1>20. ASSUME TypeInv, CollectStuck PROVE TypeInv'
  BY <1>20, ServiceAssumption DEF TypeInv, TypeOK, WorkInHand, CollectStuck, Stuck, monitor,
     condition, caller, cleanup, publisher
<1>21. ASSUME TypeInv, StopStuck PROVE TypeInv'
  BY <1>21, ServiceAssumption DEF TypeInv, TypeOK, WorkInHand, StopStuck, Stop, monitor,
     condition, caller, cleanup, publisher
<1>22. ASSUME TypeInv, Replace PROVE TypeInv'
  BY <1>22, ServiceAssumption DEF TypeInv, TypeOK, WorkInHand, Replace, NewMonitor, Fresh,
     monitor, condition, caller, cleanup, publisher
<1>23. ASSUME TypeInv, SupplierFails PROVE TypeInv'
  BY <1>23, ServiceAssumption DEF TypeInv, TypeOK, WorkInHand, SupplierFails, monitor,
     condition, caller, cleanup, publisher
<1>24. ASSUME TypeInv, PutReplacement PROVE TypeInv'
  BY <1>24, ServiceAssumption DEF TypeInv, TypeOK, WorkInHand, PutReplacement, PutIfAbsent,
     monitor, condition, caller, cleanup, publisher
<1>25. ASSUME TypeInv, StartReplacement PROVE TypeInv'
  BY <1>25, ServiceAssumption DEF TypeInv, TypeOK, WorkInHand, StartReplacement, Start,
     monitor, condition, caller, cleanup, publisher
<1>26. ASSUME TypeInv, FinishCheck PROVE TypeInv'
  BY <1>26, ServiceAssumption DEF TypeInv, TypeOK, WorkInHand, FinishCheck, monitor,
     condition, caller, cleanup, publisher
<1>27. ASSUME TypeInv, CleanupReturns PROVE TypeInv'
  BY <1>27, ServiceAssumption DEF TypeInv, TypeOK, WorkInHand, CleanupReturns, monitor,
     condition, caller, cleanup, publisher
<1>28. ASSUME TypeInv, TakePending PROVE TypeInv'
  BY <1>28, ServiceAssumption DEF TypeInv, TypeOK, WorkInHand, TakePending, monitor,
     condition, caller, cleanup, publisher
<1>29. ASSUME TypeInv, ClearPending PROVE TypeInv'
  BY <1>29, ServiceAssumption DEF TypeInv, TypeOK, WorkInHand, ClearPending, monitor,
     condition, caller, cleanup, publisher
<1>30. ASSUME TypeInv, DeliverAccess PROVE TypeInv'
  BY <1>30, ServiceAssumption DEF TypeInv, TypeOK, WorkInHand, DeliverAccess, monitor,
     condition, caller, cleanup, publisher
<1>31. ASSUME TypeInv, PublisherReturns PROVE TypeInv'
  BY <1>31, ServiceAssumption DEF TypeInv, TypeOK, WorkInHand, PublisherReturns, monitor,
     condition, caller, cleanup, publisher
<1>32. ASSUME TypeInv, NEW k \in Keys, Publish(k) PROVE TypeInv'
  BY <1>32, ServiceAssumption DEF TypeInv, TypeOK, WorkInHand, Publish, monitor, condition,
     caller, cleanup, publisher
<1>33. ASSUME TypeInv, NEW m \in Monitors, Expire(m) PROVE TypeInv'
  BY <1>33, ServiceAssumption DEF TypeInv, TypeOK, WorkInHand, Expire, monitor, condition,
     caller, cleanup, publisher
<1>34. ASSUME TypeInv, NEW m \in Monitors, Stall(m) PROVE TypeInv'
  BY <1>34, ServiceAssumption DEF TypeInv, TypeOK, WorkInHand, Stall, monitor, condition,
     caller, cleanup, publisher
<1>35. ASSUME TypeInv, NEW m \in Monitors, Watch(m) PROVE TypeInv'
  BY <1>35, ServiceAssumption DEF TypeInv, TypeOK, WorkInHand, Watch, monitor, condition,
     caller, cleanup, publisher
<1>36. ASSUME TypeInv, UNCHANGED vars PROVE TypeInv'
  BY <1>36 DEF TypeInv, TypeOK, WorkInHand, vars, monitor, condition, caller, cleanup,
     publisher
<1> QED
  BY <1>1, <1>2, <1>3, <1>4, <1>5, <1>6, <1>7, <1>8, <1>9, <1>10, <1>11, <1>12, <1>13,
     <1>14, <1>15, <1>16, <1>17, <1>18, <1>19, <1>20, <1>21, <1>22, <1>23, <1>24, <1>25,
     <1>26, <1>27, <1>28, <1>29, <1>30, <1>31, <1>32, <1>33, <1>34, <1>35, <1>36
     DEF Next, Call, CallerStep, CleanupStep, PublisherStep, TimePasses, Halted

\* At the start every variable has its type.
LEMMA InitTypes == Init => TypeInv
<1> SUFFICES ASSUME Init PROVE TypeInv
  OBVIOUS
<1>1. TypeOK
  BY DEF Init, TypeOK
<1>2. WorkInHand
  BY DEF Init, WorkInHand
<1> QED
  BY <1>1, <1>2 DEF TypeInv

\* Every variable of the monitor service keeps its type.
THEOREM TypeCorrect == Spec => []TypeOK
<1>1. Spec => []TypeInv
  BY InitTypes, TypeStep, PTL DEF Spec
<1> QED
  BY <1>1, PTL DEF TypeInv

-----------------------------------------------------------------------------
(* Without StopAndRemove each monitor is in at most one place: under one   *)
(* key of the cache, or in the hands of one of those about to stop it.     *)

\* Only the calls and passes that stop monitors have monitors left to stop.
ListsInUse ==
  /\ \A c \in Callers : cpc[c] # "remove"
  /\ \A c \in Callers : cpc[c] \notin {"stop", "stopAll"} => cstop[c] = {}
  /\ kpc # "stopping" => kstop = {}
  /\ kpc \notin {"errors", "replace", "put", "start"} => \A k \in Keys : kerr[k] = NoMonitor

\* One key per cached and per stuck monitor, and no overlap between the cache and
\* the lists of the cleanup goroutine and the callers.
OnePlace ==
  /\ \A k, l \in Keys : cache[k] = cache[l] /\ cache[k] # NoMonitor => k = l
  /\ \A k, l \in Keys : kerr[k] = kerr[l] /\ kerr[k] # NoMonitor => k = l
  /\ \A k, l \in Keys : cache[k] = kerr[l] => cache[k] = NoMonitor
  /\ \A k \in Keys : cache[k] \notin kstop /\ kerr[k] \notin kstop
  /\ \A k \in Keys, c \in Callers : cache[k] \notin cstop[c] /\ kerr[k] \notin cstop[c]
  /\ \A c \in Callers, m \in kstop : m \notin cstop[c]
  /\ \A c, d \in Callers : c # d => cstop[c] \cap cstop[d] = {}

\* A monitor in any of those places has not been stopped.
NotYetStopped ==
  /\ \A k \in Keys : cache[k] # NoMonitor => stops[cache[k]] = 0
  /\ \A k \in Keys : kerr[k] # NoMonitor => stops[kerr[k]] = 0
  /\ \A m \in kstop : stops[m] = 0
  /\ \A c \in Callers : \A m \in cstop[c] : stops[m] = 0

\* A monitor about to be inserted is known to its creator alone.
Unpublished(m) ==
  /\ stops[m] = 0
  /\ m \notin kstop
  /\ \A k \in Keys : cache[k] # m /\ kerr[k] # m
  /\ \A c \in Callers : m \notin cstop[c]

NewInHand ==
  /\ \A c \in Callers : cpc[c] = "put" =>
       /\ Unpublished(citem[c])
       /\ citem[c] # kitem
       /\ \A d \in Callers : d # c => citem[d] # citem[c]
  /\ kpc = "put" =>
       /\ Unpublished(kitem)
       /\ \A c \in Callers : citem[c] # kitem

\* What the cache has accepted is still in one of those places.
AdmittedHeld ==
  \A m \in admitted :
    \/ \E k \in Keys : cache[k] = m \/ kerr[k] = m
    \/ m \in kstop
    \/ \E c \in Callers : m \in cstop[c]

HolderInv ==
  ListsInUse /\ OnePlace /\ NotYetStopped /\ NewInHand /\ AdmittedHeld /\ StoppedOnce

\* Every step but those of StopAndRemove hands each monitor from one place to one.
LEMMA HolderStep ==
  ASSUME "stop" \notin Ops
  PROVE  TypeInv /\ HolderInv /\ [Next]_vars => HolderInv'
<1> USE ServiceAssumption
<1> DEFINE Pre == TypeInv /\ HolderInv
<1>1. ASSUME Pre, NEW c \in Callers, CallRunIfAbsent(c) PROVE HolderInv'
  <2>1. ListsInUse'
    BY <1>1 DEF HolderInv, ListsInUse, CallRunIfAbsent, Goto, monitor, condition, caller,
       cleanup, publisher
  <2>2. OnePlace'
    BY <1>1 DEF HolderInv, OnePlace, CallRunIfAbsent, Goto, monitor, condition, caller,
       cleanup, publisher
  <2>3. NotYetStopped'
    BY <1>1 DEF HolderInv, NotYetStopped, CallRunIfAbsent, Goto, monitor, condition, caller,
       cleanup, publisher
  <2>4. NewInHand'
    BY <1>1 DEF HolderInv, NewInHand, Unpublished, CallRunIfAbsent, Goto, monitor,
       condition, caller, cleanup, publisher
  <2>5. AdmittedHeld'
    BY <1>1 DEF HolderInv, AdmittedHeld, CallRunIfAbsent, Goto, monitor, condition, caller,
       cleanup, publisher
  <2>6. StoppedOnce'
    BY <1>1 DEF HolderInv, StoppedOnce, CallRunIfAbsent, Goto, monitor, condition, caller,
       cleanup, publisher
  <2> QED
    BY <2>1, <2>2, <2>3, <2>4, <2>5, <2>6 DEF HolderInv
<1>2. ASSUME Pre, NEW c \in Callers, CallRegisterMonitorType(c) PROVE HolderInv'
  BY <1>2 DEF HolderInv, ListsInUse, OnePlace, NotYetStopped, Unpublished, NewInHand,
     AdmittedHeld, StoppedOnce, CallRegisterMonitorType, Goto, monitor, condition, caller,
     cleanup, publisher
<1>3. ASSUME Pre, NEW c \in Callers, CallStopAndRemove(c) PROVE HolderInv'
  BY <1>3 DEF HolderInv, ListsInUse, CallStopAndRemove
<1>4. ASSUME Pre, NEW c \in Callers, CallStopAndRemoveByType(c) PROVE HolderInv'
  <2>1. ListsInUse'
    BY <1>4 DEF HolderInv, ListsInUse, TypeInv, TypeOK, CallStopAndRemoveByType, Goto,
       RemoveMonitors, Cached, monitor, condition, caller, cleanup, publisher
  <2>2. OnePlace'
    BY <1>4 DEF HolderInv, OnePlace, TypeInv, TypeOK, CallStopAndRemoveByType, Goto,
       RemoveMonitors, Cached, monitor, condition, caller, cleanup, publisher
  <2>3. NotYetStopped'
    BY <1>4 DEF HolderInv, NotYetStopped, CallStopAndRemoveByType, Goto, RemoveMonitors,
       Cached, monitor, condition, caller, cleanup, publisher
  <2>4. NewInHand'
    BY <1>4 DEF HolderInv, NewInHand, Unpublished, TypeInv, TypeOK, WorkInHand,
       CallStopAndRemoveByType, Goto, RemoveMonitors, Cached, monitor, condition, caller,
       cleanup, publisher
  <2>5. AdmittedHeld'
    BY <1>4 DEF HolderInv, AdmittedHeld, TypeInv, TypeOK, ListsInUse,
       CallStopAndRemoveByType, Goto, RemoveMonitors, Cached, monitor, condition, caller,
       cleanup, publisher
  <2>6. StoppedOnce'
    BY <1>4 DEF HolderInv, StoppedOnce, CallStopAndRemoveByType, Goto, RemoveMonitors,
       Cached, monitor, condition, caller, cleanup, publisher
  <2> QED
    BY <2>1, <2>2, <2>3, <2>4, <2>5, <2>6 DEF HolderInv
<1>5. ASSUME Pre, NEW c \in Callers, CallReleaseResources(c) PROVE HolderInv'
  BY <1>5 DEF HolderInv, ListsInUse, OnePlace, NotYetStopped, Unpublished, NewInHand,
     AdmittedHeld, StoppedOnce, CallReleaseResources, Goto, monitor, condition, caller,
     cleanup, publisher
<1>6. ASSUME Pre, NEW c \in Callers, LockMonitorCaches(c) PROVE HolderInv'
  BY <1>6 DEF HolderInv, ListsInUse, OnePlace, NotYetStopped, Unpublished, NewInHand,
     AdmittedHeld, StoppedOnce, LockMonitorCaches, Goto, monitor, condition, caller,
     cleanup, publisher
<1>7. ASSUME Pre, NEW c \in Callers, RegisterMonitorType(c) PROVE HolderInv'
  <2>1. ListsInUse'
    BY <1>7 DEF HolderInv, ListsInUse, TypeInv, TypeOK, RegisterMonitorType, Goto, Return,
       monitor, condition, caller, cleanup, publisher
  <2>2. OnePlace'
    BY <1>7 DEF HolderInv, OnePlace, TypeInv, TypeOK, RegisterMonitorType, Goto, Return,
       monitor, condition, caller, cleanup, publisher
  <2>3. NotYetStopped'
    BY <1>7 DEF HolderInv, NotYetStopped, TypeInv, TypeOK, RegisterMonitorType, Goto,
       Return, monitor, condition, caller, cleanup, publisher
  <2>4. NewInHand'
    BY <1>7 DEF HolderInv, NewInHand, Unpublished, TypeInv, TypeOK, WorkInHand,
       RegisterMonitorType, Goto, Return, monitor, condition, caller, cleanup, publisher
  <2>5. AdmittedHeld'
    BY <1>7 DEF HolderInv, AdmittedHeld, TypeInv, TypeOK, ListsInUse, RegisterMonitorType,
       Goto, Return, monitor, condition, caller, cleanup, publisher
  <2>6. StoppedOnce'
    BY <1>7 DEF HolderInv, StoppedOnce, RegisterMonitorType, Goto, Return, monitor,
       condition, caller, cleanup, publisher
  <2> QED
    BY <2>1, <2>2, <2>3, <2>4, <2>5, <2>6 DEF HolderInv
<1>8. ASSUME Pre, NEW c \in Callers, LookUp(c) PROVE HolderInv'
  <2>1. ListsInUse'
    BY <1>8 DEF HolderInv, ListsInUse, LookUp, Goto, monitor, condition, caller, cleanup,
       publisher
  <2>2. OnePlace'
    BY <1>8 DEF HolderInv, OnePlace, LookUp, Goto, monitor, condition, caller, cleanup,
       publisher
  <2>3. NotYetStopped'
    BY <1>8 DEF HolderInv, NotYetStopped, LookUp, Goto, monitor, condition, caller, cleanup,
       publisher
  <2>4. NewInHand'
    BY <1>8 DEF HolderInv, NewInHand, Unpublished, TypeInv, TypeOK, WorkInHand, LookUp,
       Goto, monitor, condition, caller, cleanup, publisher
  <2>5. AdmittedHeld'
    BY <1>8 DEF HolderInv, AdmittedHeld, LookUp, Goto, monitor, condition, caller, cleanup,
       publisher
  <2>6. StoppedOnce'
    BY <1>8 DEF HolderInv, StoppedOnce, LookUp, Goto, monitor, condition, caller, cleanup,
       publisher
  <2> QED
    BY <2>1, <2>2, <2>3, <2>4, <2>5, <2>6 DEF HolderInv
<1>9. ASSUME Pre, NEW c \in Callers, ExtendAndReturn(c) PROVE HolderInv'
  <2>1. ListsInUse'
    BY <1>9 DEF HolderInv, ListsInUse, ExtendAndReturn, Goto, Return, monitor, condition,
       caller, cleanup, publisher
  <2>2. OnePlace'
    BY <1>9 DEF HolderInv, OnePlace, ExtendAndReturn, Goto, Return, monitor, condition,
       caller, cleanup, publisher
  <2>3. NotYetStopped'
    BY <1>9 DEF HolderInv, NotYetStopped, ExtendAndReturn, Goto, Return, monitor, condition,
       caller, cleanup, publisher
  <2>4. NewInHand'
    BY <1>9 DEF HolderInv, NewInHand, Unpublished, TypeInv, TypeOK, WorkInHand,
       ExtendAndReturn, Goto, Return, monitor, condition, caller, cleanup, publisher
  <2>5. AdmittedHeld'
    BY <1>9 DEF HolderInv, AdmittedHeld, TypeInv, TypeOK, ListsInUse, ExtendAndReturn, Goto,
       Return, monitor, condition, caller, cleanup, publisher
  <2>6. StoppedOnce'
    BY <1>9 DEF HolderInv, StoppedOnce, ExtendAndReturn, Goto, Return, monitor, condition,
       caller, cleanup, publisher
  <2> QED
    BY <2>1, <2>2, <2>3, <2>4, <2>5, <2>6 DEF HolderInv
<1>10. ASSUME Pre, NEW c \in Callers, CreateMonitor(c) PROVE HolderInv'
  <2>1. ListsInUse'
    BY <1>10 DEF HolderInv, ListsInUse, CreateMonitor, Goto, NewMonitor, Fresh, Cached,
       BeingStopped, monitor, condition, caller, cleanup, publisher
  <2>2. OnePlace'
    BY <1>10 DEF HolderInv, OnePlace, CreateMonitor, Goto, NewMonitor, Fresh, Cached,
       BeingStopped, monitor, condition, caller, cleanup, publisher
  <2>3. NotYetStopped'
    BY <1>10 DEF HolderInv, NotYetStopped, CreateMonitor, Goto, NewMonitor, Fresh, Cached,
       BeingStopped, monitor, condition, caller, cleanup, publisher
  <2>4. NewInHand'
    BY <1>10 DEF HolderInv, NewInHand, Unpublished, TypeInv, TypeOK, CreateMonitor, Goto,
       NewMonitor, Fresh, Cached, BeingStopped, monitor, condition, caller, cleanup,
       publisher
  <2>5. AdmittedHeld'
    BY <1>10 DEF HolderInv, AdmittedHeld, CreateMonitor, Goto, NewMonitor, Fresh, Cached,
       BeingStopped, monitor, condition, caller, cleanup, publisher
  <2>6. StoppedOnce'
    BY <1>10 DEF HolderInv, StoppedOnce, CreateMonitor, Goto, NewMonitor, Fresh, Cached,
       BeingStopped, monitor, condition, caller, cleanup, publisher
  <2> QED
    BY <2>1, <2>2, <2>3, <2>4, <2>5, <2>6 DEF HolderInv
<1>11. ASSUME Pre, NEW c \in Callers, InitializerFails(c) PROVE HolderInv'
  <2>1. ListsInUse'
    BY <1>11 DEF HolderInv, ListsInUse, InitializerFails, Goto, Return, monitor, condition,
       caller, cleanup, publisher
  <2>2. OnePlace'
    BY <1>11 DEF HolderInv, OnePlace, InitializerFails, Goto, Return, monitor, condition,
       caller, cleanup, publisher
  <2>3. NotYetStopped'
    BY <1>11 DEF HolderInv, NotYetStopped, InitializerFails, Goto, Return, monitor,
       condition, caller, cleanup, publisher
  <2>4. NewInHand'
    BY <1>11 DEF HolderInv, NewInHand, Unpublished, TypeInv, TypeOK, WorkInHand,
       InitializerFails, Goto, Return, monitor, condition, caller, cleanup, publisher
  <2>5. AdmittedHeld'
    BY <1>11 DEF HolderInv, AdmittedHeld, TypeInv, TypeOK, ListsInUse, InitializerFails,
       Goto, Return, monitor, condition, caller, cleanup, publisher
  <2>6. StoppedOnce'
    BY <1>11 DEF HolderInv, StoppedOnce, InitializerFails, Goto, Return, monitor, condition,
       caller, cleanup, publisher
  <2> QED
    BY <2>1, <2>2, <2>3, <2>4, <2>5, <2>6 DEF HolderInv
<1>12. ASSUME Pre, NEW c \in Callers, PutMonitor(c) PROVE HolderInv'
  <2>1. ListsInUse'
    BY <1>12 DEF HolderInv, ListsInUse, PutMonitor, Goto, PutIfAbsent, monitor, condition,
       caller, cleanup, publisher
  <2>2. OnePlace'
    BY <1>12 DEF HolderInv, OnePlace, TypeInv, TypeOK, WorkInHand, ListsInUse,
       NotYetStopped, NewInHand, Unpublished, PutMonitor, Goto, PutIfAbsent, monitor,
       condition, caller, cleanup, publisher
  <2>3. NotYetStopped'
    BY <1>12 DEF HolderInv, NotYetStopped, TypeInv, TypeOK, WorkInHand, NewInHand,
       Unpublished, PutMonitor, Goto, PutIfAbsent, monitor, condition, caller, cleanup,
       publisher
  <2>4. NewInHand'
    BY <1>12 DEF HolderInv, NewInHand, Unpublished, TypeInv, TypeOK, PutMonitor, Goto,
       PutIfAbsent, monitor, condition, caller, cleanup, publisher
  <2>5. AdmittedHeld'
    BY <1>12 DEF HolderInv, AdmittedHeld, TypeInv, TypeOK, WorkInHand, PutMonitor, Goto,
       PutIfAbsent, monitor, condition, caller, cleanup, publisher
  <2>6. StoppedOnce'
    BY <1>12 DEF HolderInv, StoppedOnce, PutMonitor, Goto, PutIfAbsent, monitor, condition,
       caller, cleanup, publisher
  <2> QED
    BY <2>1, <2>2, <2>3, <2>4, <2>5, <2>6 DEF HolderInv
<1>13. ASSUME Pre, NEW c \in Callers, StartMonitor(c) PROVE HolderInv'
  <2>1. ListsInUse'
    BY <1>13 DEF HolderInv, ListsInUse, StartMonitor, Goto, Return, Start, monitor,
       condition, caller, cleanup, publisher
  <2>2. OnePlace'
    BY <1>13 DEF HolderInv, OnePlace, StartMonitor, Goto, Return, Start, monitor, condition,
       caller, cleanup, publisher
  <2>3. NotYetStopped'
    BY <1>13 DEF HolderInv, NotYetStopped, StartMonitor, Goto, Return, Start, monitor,
       condition, caller, cleanup, publisher
  <2>4. NewInHand'
    BY <1>13 DEF HolderInv, NewInHand, Unpublished, TypeInv, TypeOK, WorkInHand,
       StartMonitor, Goto, Return, Start, monitor, condition, caller, cleanup, publisher
  <2>5. AdmittedHeld'
    BY <1>13 DEF HolderInv, AdmittedHeld, TypeInv, TypeOK, ListsInUse, StartMonitor, Goto,
       Return, Start, monitor, condition, caller, cleanup, publisher
  <2>6. StoppedOnce'
    BY <1>13 DEF HolderInv, StoppedOnce, StartMonitor, Goto, Return, Start, monitor,
       condition, caller, cleanup, publisher
  <2> QED
    BY <2>1, <2>2, <2>3, <2>4, <2>5, <2>6 DEF HolderInv
<1>14. ASSUME Pre, NEW c \in Callers, RemoveKey(c) PROVE HolderInv'
  BY <1>14 DEF HolderInv, ListsInUse, RemoveKey
<1>15. ASSUME Pre, NEW c \in Callers, StopAndRemoveAll(c) PROVE HolderInv'
  <2>1. ListsInUse'
    BY <1>15 DEF HolderInv, ListsInUse, TypeInv, TypeOK, StopAndRemoveAll, Goto,
       RemoveMonitors, Cached, monitor, condition, caller, cleanup, publisher
  <2>2. OnePlace'
    BY <1>15 DEF HolderInv, OnePlace, TypeInv, TypeOK, StopAndRemoveAll, Goto,
       RemoveMonitors, Cached, monitor, condition, caller, cleanup, publisher
  <2>3. NotYetStopped'
    BY <1>15 DEF HolderInv, NotYetStopped, StopAndRemoveAll, Goto, RemoveMonitors, Cached,
       monitor, condition, caller, cleanup, publisher
  <2>4. NewInHand'
    BY <1>15 DEF HolderInv, NewInHand, Unpublished, TypeInv, TypeOK, WorkInHand,
       StopAndRemoveAll, Goto, RemoveMonitors, Cached, monitor, condition, caller, cleanup,
       publisher
  <2>5. AdmittedHeld'
    BY <1>15 DEF HolderInv, AdmittedHeld, TypeInv, TypeOK, ListsInUse, StopAndRemoveAll,
       Goto, RemoveMonitors, Cached, monitor, condition, caller, cleanup, publisher
  <2>6. StoppedOnce'
    BY <1>15 DEF HolderInv, StoppedOnce, StopAndRemoveAll, Goto, RemoveMonitors, Cached,
       monitor, condition, caller, cleanup, publisher
  <2> QED
    BY <2>1, <2>2, <2>3, <2>4, <2>5, <2>6 DEF HolderInv
<1>16. ASSUME Pre, NEW c \in Callers, StopRemoved(c) PROVE HolderInv'
  <2>1. ListsInUse'
    BY <1>16 DEF HolderInv, ListsInUse, StopRemoved, Stop, monitor, condition, caller,
       cleanup, publisher
  <2>2. OnePlace'
    BY <1>16 DEF HolderInv, OnePlace, StopRemoved, Stop, monitor, condition, caller,
       cleanup, publisher
  <2>3. NotYetStopped'
    BY <1>16 DEF HolderInv, NotYetStopped, TypeInv, TypeOK, ListsInUse, OnePlace,
       StopRemoved, Stop, monitor, condition, caller, cleanup, publisher
  <2>4. NewInHand'
    BY <1>16 DEF HolderInv, NewInHand, Unpublished, StopRemoved, Stop, monitor, condition,
       caller, cleanup, publisher
  <2>5. AdmittedHeld'
    BY <1>16 DEF HolderInv, AdmittedHeld, StopRemoved, Stop, monitor, condition, caller,
       cleanup, publisher
  <2>6. StoppedOnce'
    BY <1>16 DEF HolderInv, StoppedOnce, TypeInv, TypeOK, ListsInUse, OnePlace,
       NotYetStopped, StopRemoved, Stop, monitor, condition, caller, cleanup, publisher
  <2> QED
    BY <2>1, <2>2, <2>3, <2>4, <2>5, <2>6 DEF HolderInv
<1>17. ASSUME Pre, NEW c \in Callers, AllStopped(c) PROVE HolderInv'
  <2>1. ListsInUse'
    BY <1>17 DEF HolderInv, ListsInUse, AllStopped, Goto, Return, monitor, condition,
       caller, cleanup, publisher
  <2>2. OnePlace'
    BY <1>17 DEF HolderInv, OnePlace, AllStopped, Goto, Return, monitor, condition, caller,
       cleanup, publisher
  <2>3. NotYetStopped'
    BY <1>17 DEF HolderInv, NotYetStopped, AllStopped, Goto, Return, monitor, condition,
       caller, cleanup, publisher
  <2>4. NewInHand'
    BY <1>17 DEF HolderInv, NewInHand, Unpublished, TypeInv, TypeOK, WorkInHand, AllStopped,
       Goto, Return, monitor, condition, caller, cleanup, publisher
  <2>5. AdmittedHeld'
    BY <1>17 DEF HolderInv, AdmittedHeld, AllStopped, Goto, Return, monitor, condition,
       caller, cleanup, publisher
  <2>6. StoppedOnce'
    BY <1>17 DEF HolderInv, StoppedOnce, AllStopped, Goto, Return, monitor, condition,
       caller, cleanup, publisher
  <2> QED
    BY <2>1, <2>2, <2>3, <2>4, <2>5, <2>6 DEF HolderInv
<1>18. ASSUME Pre, CollectStopped PROVE HolderInv'
  <2>1. ListsInUse'
    BY <1>18 DEF HolderInv, ListsInUse, CollectStopped, RemoveMonitors, Cached, monitor,
       condition, caller, cleanup, publisher
  <2>2. OnePlace'
    BY <1>18 DEF HolderInv, OnePlace, TypeInv, TypeOK, CollectStopped, RemoveMonitors,
       Cached, monitor, condition, caller, cleanup, publisher
  <2>3. NotYetStopped'
    BY <1>18 DEF HolderInv, NotYetStopped, CollectStopped, RemoveMonitors, Cached, monitor,
       condition, caller, cleanup, publisher
  <2>4. NewInHand'
    BY <1>18 DEF HolderInv, NewInHand, Unpublished, TypeInv, TypeOK, WorkInHand,
       CollectStopped, RemoveMonitors, Cached, monitor, condition, caller, cleanup,
       publisher
  <2>5. AdmittedHeld'
    BY <1>18 DEF HolderInv, AdmittedHeld, TypeInv, TypeOK, ListsInUse, CollectStopped,
       RemoveMonitors, Cached, monitor, condition, caller, cleanup, publisher
  <2>6. StoppedOnce'
    BY <1>18 DEF HolderInv, StoppedOnce, CollectStopped, RemoveMonitors, Cached, monitor,
       condition, caller, cleanup, publisher
  <2> QED
    BY <2>1, <2>2, <2>3, <2>4, <2>5, <2>6 DEF HolderInv
<1>19. ASSUME Pre, StopCollected PROVE HolderInv'
  <2>1. ListsInUse'
    BY <1>19 DEF HolderInv, ListsInUse, StopCollected, Stop, monitor, condition, caller,
       cleanup, publisher
  <2>2. OnePlace'
    BY <1>19 DEF HolderInv, OnePlace, StopCollected, Stop, monitor, condition, caller,
       cleanup, publisher
  <2>3. NotYetStopped'
    BY <1>19 DEF HolderInv, NotYetStopped, TypeInv, TypeOK, ListsInUse, OnePlace,
       StopCollected, Stop, monitor, condition, caller, cleanup, publisher
  <2>4. NewInHand'
    BY <1>19 DEF HolderInv, NewInHand, Unpublished, StopCollected, Stop, monitor, condition,
       caller, cleanup, publisher
  <2>5. AdmittedHeld'
    BY <1>19 DEF HolderInv, AdmittedHeld, StopCollected, Stop, monitor, condition, caller,
       cleanup, publisher
  <2>6. StoppedOnce'
    BY <1>19 DEF HolderInv, StoppedOnce, TypeInv, TypeOK, ListsInUse, OnePlace,
       NotYetStopped, StopCollected, Stop, monitor, condition, caller, cleanup, publisher
  <2> QED
    BY <2>1, <2>2, <2>3, <2>4, <2>5, <2>6 DEF HolderInv
<1>20. ASSUME Pre, CollectStuck PROVE HolderInv'
  <2>1. ListsInUse'
    BY <1>20 DEF HolderInv, ListsInUse, CollectStuck, Stuck, monitor, condition, caller,
       cleanup, publisher
  <2>2. OnePlace'
    BY <1>20 DEF HolderInv, OnePlace, TypeInv, TypeOK, CollectStuck, Stuck, monitor,
       condition, caller, cleanup, publisher
  <2>3. NotYetStopped'
    BY <1>20 DEF HolderInv, NotYetStopped, CollectStuck, Stuck, monitor, condition, caller,
       cleanup, publisher
  <2>4. NewInHand'
    BY <1>20 DEF HolderInv, NewInHand, Unpublished, TypeInv, TypeOK, WorkInHand,
       CollectStuck, Stuck, monitor, condition, caller, cleanup, publisher
  <2>5. AdmittedHeld'
    BY <1>20 DEF HolderInv, AdmittedHeld, TypeInv, TypeOK, ListsInUse, CollectStuck, Stuck,
       monitor, condition, caller, cleanup, publisher
  <2>6. StoppedOnce'
    BY <1>20 DEF HolderInv, StoppedOnce, CollectStuck, Stuck, monitor, condition, caller,
       cleanup, publisher
  <2> QED
    BY <2>1, <2>2, <2>3, <2>4, <2>5, <2>6 DEF HolderInv
<1>21. ASSUME Pre, StopStuck PROVE HolderInv'
  <2>1. ListsInUse'
    BY <1>21 DEF HolderInv, ListsInUse, StopStuck, Stop, monitor, condition, caller,
       cleanup, publisher
  <2>2. OnePlace'
    BY <1>21 DEF HolderInv, OnePlace, TypeInv, TypeOK, StopStuck, Stop, monitor, condition,
       caller, cleanup, publisher
  <2>3. NotYetStopped'
    BY <1>21 DEF HolderInv, NotYetStopped, TypeInv, TypeOK, ListsInUse, OnePlace, StopStuck,
       Stop, monitor, condition, caller, cleanup, publisher
  <2>4. NewInHand'
    BY <1>21 DEF HolderInv, NewInHand, Unpublished, TypeInv, TypeOK, WorkInHand, StopStuck,
       Stop, monitor, condition, caller, cleanup, publisher
  <2>5. AdmittedHeld'
    BY <1>21 DEF HolderInv, AdmittedHeld, StopStuck, Stop, monitor, condition, caller,
       cleanup, publisher
  <2>6. StoppedOnce'
    BY <1>21 DEF HolderInv, StoppedOnce, TypeInv, TypeOK, ListsInUse, OnePlace,
       NotYetStopped, StopStuck, Stop, monitor, condition, caller, cleanup, publisher
  <2> QED
    BY <2>1, <2>2, <2>3, <2>4, <2>5, <2>6 DEF HolderInv
<1>22. ASSUME Pre, Replace PROVE HolderInv'
  <2>1. ListsInUse'
    BY <1>22 DEF HolderInv, ListsInUse, Replace, NewMonitor, Fresh, Cached, BeingStopped,
       monitor, condition, caller, cleanup, publisher
  <2>2. OnePlace'
    BY <1>22 DEF HolderInv, OnePlace, Replace, NewMonitor, Fresh, Cached, BeingStopped,
       monitor, condition, caller, cleanup, publisher
  <2>3. NotYetStopped'
    BY <1>22 DEF HolderInv, NotYetStopped, Replace, NewMonitor, Fresh, Cached, BeingStopped,
       monitor, condition, caller, cleanup, publisher
  <2>4. NewInHand'
    BY <1>22 DEF HolderInv, NewInHand, Unpublished, TypeInv, TypeOK, Replace, NewMonitor,
       Fresh, Cached, BeingStopped, monitor, condition, caller, cleanup, publisher
  <2>5. AdmittedHeld'
    BY <1>22 DEF HolderInv, AdmittedHeld, Replace, NewMonitor, Fresh, Cached, BeingStopped,
       monitor, condition, caller, cleanup, publisher
  <2>6. StoppedOnce'
    BY <1>22 DEF HolderInv, StoppedOnce, Replace, NewMonitor, Fresh, Cached, BeingStopped,
       monitor, condition, caller, cleanup, publisher
  <2> QED
    BY <2>1, <2>2, <2>3, <2>4, <2>5, <2>6 DEF HolderInv
<1>23. ASSUME Pre, SupplierFails PROVE HolderInv'
  BY <1>23 DEF HolderInv, ListsInUse, OnePlace, NotYetStopped, Unpublished, NewInHand,
     AdmittedHeld, StoppedOnce, SupplierFails, monitor, condition, caller, cleanup,
     publisher
<1>24. ASSUME Pre, PutReplacement PROVE HolderInv'
  <2>1. ListsInUse'
    BY <1>24 DEF HolderInv, ListsInUse, PutReplacement, PutIfAbsent, monitor, condition,
       caller, cleanup, publisher
  <2>2. OnePlace'
    BY <1>24 DEF HolderInv, OnePlace, TypeInv, TypeOK, WorkInHand, NewInHand, Unpublished,
       PutReplacement, PutIfAbsent, monitor, condition, caller, cleanup, publisher
  <2>3. NotYetStopped'
    BY <1>24 DEF HolderInv, NotYetStopped, TypeInv, TypeOK, WorkInHand, NewInHand,
       Unpublished, PutReplacement, PutIfAbsent, monitor, condition, caller, cleanup,
       publisher
  <2>4. NewInHand'
    BY <1>24 DEF HolderInv, NewInHand, Unpublished, TypeInv, TypeOK, PutReplacement,
       PutIfAbsent, monitor, condition, caller, cleanup, publisher
  <2>5. AdmittedHeld'
    BY <1>24 DEF HolderInv, AdmittedHeld, TypeInv, TypeOK, WorkInHand, PutReplacement,
       PutIfAbsent, monitor, condition, caller, cleanup, publisher
  <2>6. StoppedOnce'
    BY <1>24 DEF HolderInv, StoppedOnce, PutReplacement, PutIfAbsent, monitor, condition,
       caller, cleanup, publisher
  <2> QED
    BY <2>1, <2>2, <2>3, <2>4, <2>5, <2>6 DEF HolderInv
<1>25. ASSUME Pre, StartReplacement PROVE HolderInv'
  <2>1. ListsInUse'
    BY <1>25 DEF HolderInv, ListsInUse, StartReplacement, Start, monitor, condition, caller,
       cleanup, publisher
  <2>2. OnePlace'
    BY <1>25 DEF HolderInv, OnePlace, StartReplacement, Start, monitor, condition, caller,
       cleanup, publisher
  <2>3. NotYetStopped'
    BY <1>25 DEF HolderInv, NotYetStopped, StartReplacement, Start, monitor, condition,
       caller, cleanup, publisher
  <2>4. NewInHand'
    BY <1>25 DEF HolderInv, NewInHand, Unpublished, TypeInv, TypeOK, WorkInHand,
       StartReplacement, Start, monitor, condition, caller, cleanup, publisher
  <2>5. AdmittedHeld'
    BY <1>25 DEF HolderInv, AdmittedHeld, StartReplacement, Start, monitor, condition,
       caller, cleanup, publisher
  <2>6. StoppedOnce'
    BY <1>25 DEF HolderInv, StoppedOnce, StartReplacement, Start, monitor, condition,
       caller, cleanup, publisher
  <2> QED
    BY <2>1, <2>2, <2>3, <2>4, <2>5, <2>6 DEF HolderInv
<1>26. ASSUME Pre, FinishCheck PROVE HolderInv'
  BY <1>26 DEF HolderInv, ListsInUse, OnePlace, NotYetStopped, Unpublished, NewInHand,
     AdmittedHeld, StoppedOnce, FinishCheck, monitor, condition, caller, cleanup, publisher
<1>27. ASSUME Pre, CleanupReturns PROVE HolderInv'
  BY <1>27 DEF HolderInv, ListsInUse, OnePlace, NotYetStopped, Unpublished, NewInHand,
     AdmittedHeld, StoppedOnce, CleanupReturns, monitor, condition, caller, cleanup,
     publisher
<1>28. ASSUME Pre, TakePending PROVE HolderInv'
  BY <1>28 DEF HolderInv, ListsInUse, OnePlace, NotYetStopped, Unpublished, NewInHand,
     AdmittedHeld, StoppedOnce, TakePending, monitor, condition, caller, cleanup, publisher
<1>29. ASSUME Pre, ClearPending PROVE HolderInv'
  BY <1>29 DEF HolderInv, ListsInUse, OnePlace, NotYetStopped, Unpublished, NewInHand,
     AdmittedHeld, StoppedOnce, ClearPending, monitor, condition, caller, cleanup, publisher
<1>30. ASSUME Pre, DeliverAccess PROVE HolderInv'
  BY <1>30 DEF HolderInv, ListsInUse, OnePlace, NotYetStopped, Unpublished, NewInHand,
     AdmittedHeld, StoppedOnce, DeliverAccess, monitor, condition, caller, cleanup,
     publisher
<1>31. ASSUME Pre, PublisherReturns PROVE HolderInv'
  BY <1>31 DEF HolderInv, ListsInUse, OnePlace, NotYetStopped, Unpublished, NewInHand,
     AdmittedHeld, StoppedOnce, PublisherReturns, monitor, condition, caller, cleanup,
     publisher
<1>32. ASSUME Pre, NEW k \in Keys, Publish(k) PROVE HolderInv'
  BY <1>32 DEF HolderInv, ListsInUse, OnePlace, NotYetStopped, Unpublished, NewInHand,
     AdmittedHeld, StoppedOnce, Publish, monitor, condition, caller, cleanup, publisher
<1>33. ASSUME Pre, NEW m \in Monitors, Expire(m) PROVE HolderInv'
  BY <1>33 DEF HolderInv, ListsInUse, OnePlace, NotYetStopped, Unpublished, NewInHand,
     AdmittedHeld, StoppedOnce, Expire, monitor, condition, caller, cleanup, publisher
<1>34. ASSUME Pre, NEW m \in Monitors, Stall(m) PROVE HolderInv'
  BY <1>34 DEF HolderInv, ListsInUse, OnePlace, NotYetStopped, Unpublished, NewInHand,
     AdmittedHeld, StoppedOnce, Stall, monitor, condition, caller, cleanup, publisher
<1>35. ASSUME Pre, NEW m \in Monitors, Watch(m) PROVE HolderInv'
  BY <1>35 DEF HolderInv, ListsInUse, OnePlace, NotYetStopped, Unpublished, NewInHand,
     AdmittedHeld, StoppedOnce, Watch, monitor, condition, caller, cleanup, publisher
<1>36. ASSUME Pre, UNCHANGED vars PROVE HolderInv'
  BY <1>36 DEF HolderInv, ListsInUse, OnePlace, NotYetStopped, Unpublished, NewInHand,
     AdmittedHeld, StoppedOnce, vars, monitor, condition, caller, cleanup, publisher
<1> QED
  BY <1>1, <1>2, <1>3, <1>4, <1>5, <1>6, <1>7, <1>8, <1>9, <1>10, <1>11, <1>12, <1>13,
     <1>14, <1>15, <1>16, <1>17, <1>18, <1>19, <1>20, <1>21, <1>22, <1>23, <1>24, <1>25,
     <1>26, <1>27, <1>28, <1>29, <1>30, <1>31, <1>32, <1>33, <1>34, <1>35, <1>36 DEF Next,
     Call, CallerStep, CleanupStep, PublisherStep, TimePasses, Halted

\* At the start there are no monitors.
LEMMA InitHolders == Init => HolderInv
  BY ServiceAssumption DEF Init, HolderInv, ListsInUse, OnePlace, NotYetStopped, NewInHand,
     AdmittedHeld, StoppedOnce

\* Without StopAndRemove no monitor is stopped twice.
THEOREM StopsOnce == ASSUME "stop" \notin Ops PROVE Spec => []StoppedOnce
<1>1. Spec => [](TypeInv /\ HolderInv)
  BY InitTypes, TypeStep, InitHolders, HolderStep, PTL DEF Spec
<1> QED
  BY <1>1, PTL DEF HolderInv

\* Without StopAndRemove no monitor that the cache accepted is lost.
THEOREM AcceptedKept == ASSUME "stop" \notin Ops PROVE Spec => []AcceptedNeverLost
<1>1. Spec => [](TypeInv /\ HolderInv)
  BY InitTypes, TypeStep, InitHolders, HolderStep, PTL DEF Spec
<1>2. TypeInv /\ HolderInv => AcceptedNeverLost
  BY ServiceAssumption DEF TypeInv, TypeOK, HolderInv, AdmittedHeld, AcceptedNeverLost,
     Cached, BeingStopped
<1> QED
  BY <1>1, <1>2, PTL
=============================================================================
