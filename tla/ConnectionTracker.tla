--------------------------- MODULE ConnectionTracker ---------------------------
(***************************************************************************)
(* The connection tracker plugin of each client and the process-wide       *)
(* tracker behind them: which connections were opened to which instance,   *)
(* and the closing of those of an instance that changed its role.  The     *)
(* tracker holds weak pointers to a local variable, which the collector    *)
(* may clear at any time.                                                  *)
(***************************************************************************)
EXTENDS HostSelection, InternalConnPool

CONSTANT Clients   \* each with a plugin of its own

VARIABLES
  writer,     \* the cluster's writer
  tracked,    \* openedConnections: the connections of each host
  view,       \* the writer in the host list of each client's plugin service
  currentWriter,   \* the plugin's currentWriter
  needUpdateCurrentWriter,
  todo        \* the hosts whose connections the client is closing

trackerVars ==
  <<writer, tracked, view, currentWriter, needUpdateCurrentWriter, todo>>

TrackerTypeOK ==
  /\ writer \in Hosts /\ tracked \in [Hosts -> SUBSET Conns]
  /\ view \in [Clients -> Hosts \cup {None}] /\ currentWriter \in [Clients -> Hosts \cup {None}]
  /\ needUpdateCurrentWriter \in [Clients -> BOOLEAN]
  /\ todo \in [Clients -> SUBSET Hosts]

TrackerInit(w) ==
  /\ writer = w /\ tracked = [h \in Hosts |-> {}]
  /\ view = [c \in Clients |-> None] /\ currentWriter = [c \in Clients |-> None]
  /\ needUpdateCurrentWriter = [c \in Clients |-> FALSE]
  /\ todo = [c \in Clients |-> {}]

ClusterFailover(w) ==
  /\ w # writer /\ writer' = w
  /\ UNCHANGED <<tracked, view, currentWriter, needUpdateCurrentWriter, todo>>

\* A new connection has a plugin service and a plugin of its own, and a new host
\* list.
NewPlugin(c) ==
  /\ view' = [view EXCEPT ![c] = writer]
  /\ currentWriter' = [currentWriter EXCEPT ![c] = None]
  /\ needUpdateCurrentWriter' = [needUpdateCurrentWriter EXCEPT ![c] = FALSE]
  /\ UNCHANGED <<writer, tracked, todo>>

\* PopulateOpenedConnectionQueue, after a connect.
TrackConnection(h, x) ==
  /\ tracked' = [tracked EXCEPT ![h] = @ \cup {x}]
  /\ UNCHANGED <<writer, view, currentWriter, needUpdateCurrentWriter, todo>>

\* The collector clears the pointer; pruneNullConnections drops the entry.
CollectPointer(h, x) ==
  /\ x \in tracked[h] /\ tracked' = [tracked EXCEPT ![h] = @ \ {x}]
  /\ UNCHANGED <<writer, view, currentWriter, needUpdateCurrentWriter, todo>>

Invalidate(c, hosts) == todo' = [todo EXCEPT ![c] = hosts]

\* setHostList found other roles: NotifyHostListChanged.
NotifyHostListChanged(c) ==
  /\ view[c] # writer /\ view' = [view EXCEPT ![c] = writer]
  /\ Invalidate(c, {view[c], writer})
  /\ needUpdateCurrentWriter' = [needUpdateCurrentWriter EXCEPT ![c] = TRUE]
  /\ UNCHANGED <<writer, tracked, currentWriter>>

\* Execute, before the call.
RememberWriter(c) ==
  /\ IF currentWriter[c] = None \/ needUpdateCurrentWriter[c]
       THEN currentWriter' = [currentWriter EXCEPT ![c] = view[c]]
       ELSE UNCHANGED currentWriter
  /\ needUpdateCurrentWriter' = [needUpdateCurrentWriter EXCEPT ![c] = FALSE]
  /\ UNCHANGED <<writer, tracked, view, todo>>

\* Execute, after a failover error.
CheckWriterChanged(c) ==
  /\ currentWriter[c] # view[c]
  /\ Invalidate(c, {currentWriter[c]})
  /\ currentWriter' = [currentWriter EXCEPT ![c] = view[c]]
  /\ needUpdateCurrentWriter' = [needUpdateCurrentWriter EXCEPT ![c] = FALSE]
  /\ UNCHANGED <<writer, tracked, view>>

\* invalidateConnections: one connection after the other leaves the queue and is
\* closed.
Dequeue(c, h, x) ==
  /\ h \in todo[c] /\ x \in tracked[h]
  /\ tracked' = [tracked EXCEPT ![h] = @ \ {x}]
  /\ UNCHANGED <<writer, view, currentWriter, needUpdateCurrentWriter, todo>>

QueueEmpty(c, h) ==
  /\ h \in todo[c] /\ tracked[h] = {} /\ todo' = [todo EXCEPT ![c] = @ \ {h}]
  /\ UNCHANGED <<writer, tracked, view, currentWriter, needUpdateCurrentWriter>>

=============================================================================
