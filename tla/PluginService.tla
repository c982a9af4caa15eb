--------------------------- MODULE PluginService ---------------------------
(***************************************************************************)
(* The plugin service of one wrapper connection: its current connection,   *)
(* its view of the host list and its transaction flag, with the connection *)
(* cache of the read/write splitting plugin that SetCurrentConnection      *)
(* notifies.  A state is a record s; the driver connections are a function *)
(* l from Conns.  Every operator maps such a pair to the one the Go method *)
(* leaves, or to the set of the ones it may leave.                         *)
(***************************************************************************)
EXTENDS SessionState, FiniteSets

CONSTANTS
    Hosts,              \* database instances
    Conns,              \* identities of driver connections
    Allowed,            \* the hosts GetHosts may return (custom endpoint restriction)
    RollbackOnSwitch    \* rollbackOnSwitch

ASSUME ServiceAssumption ==
    /\ Nil \notin Hosts \cup Conns /\ IsFiniteSet(Hosts) /\ IsFiniteSet(Conns)
    /\ Allowed \subseteq Hosts /\ RollbackOnSwitch \in BOOLEAN

Roles == {"writer", "reader", "unknown"}

\* A HostInfo: where, which role and availability the topology gives it.
HostInfos == [host : Hosts, role : Roles, avail : BOOLEAN]

\* A host list: a role for every member, and the members marked UNAVAILABLE.
HostLists == [role : UNION {[H -> {"writer", "reader"}] : H \in SUBSET Hosts},
              down : SUBSET Hosts]

\* A driver connection.  "lost": the server is gone and the driver has not noticed.
Links == [st : {"closed", "open", "lost"}, at : Hosts \cup {Nil},
          set : [FieldSet -> Values \cup {Nil}], tx : BOOLEAN]

NoLink == [st |-> "closed", at |-> Nil, set |-> [f \in FieldSet |-> Nil], tx |-> FALSE]

\* PluginServiceImpl and ReadWriteSplittingPlugin.
Services ==
    [conn : Conns \cup {Nil}, host : HostInfos \cup {Nil}, inTx : BOOLEAN,
     ses : Session, view : HostLists,
     split : BOOLEAN, inSplit : BOOLEAN,
     wConn : Conns \cup {Nil}, wHost : HostInfos \cup {Nil},
     rConn : Conns \cup {Nil}, rHost : HostInfos \cup {Nil}]

NewService(view, split) ==
    [conn |-> Nil, host |-> Nil, inTx |-> FALSE, ses |-> NoSession, view |-> view,
     split |-> split, inSplit |-> FALSE,
     wConn |-> Nil, wHost |-> Nil, rConn |-> Nil, rHost |-> Nil]

-----------------------------------------------------------------------------
(* Driver connections *)

IsClosed(l, c) == l[c].st = "closed"

\* isConnectionUsable of the read/write splitting plugin.
Usable(l, c) == c # Nil /\ ~IsClosed(l, c)

CloseLink(l, c) == [l EXCEPT ![c] = NoLink]

\* utils.Rollback: through the Tx the service holds, or by a statement.
Rollback(l, c, tx) ==
    LET r == IF tx # Nil THEN tx ELSE c
    IN  IF l[r].st = "open" THEN [l EXCEPT ![r].tx = FALSE] ELSE l

-----------------------------------------------------------------------------
(* The host list *)

Members(v) == DOMAIN v.role

Info(v, h) == [host |-> h, role |-> v.role[h], avail |-> h \notin v.down]

WritersOf(v) == {h \in Members(v) : v.role[h] = "writer"}

\* GetHosts: the members the stored permissions leave.
GetHosts(v) == Members(v) \cap Allowed

\* SetAvailability of the hosts with one of the aliases.
SetAvailability(s, H, up) ==
    [s EXCEPT !.view.down = IF up THEN @ \ H ELSE @ \cup (H \cap Members(s.view))]

(***************************************************************************)
(* RefreshHostList: the stored topology replaces the view when they        *)
(* differ; what updateHostAvailability computes is dropped, so a mark      *)
(* survives only where the entries are the very ones storage holds.        *)
(***************************************************************************)
Refreshed(s, stored) ==
    IF Members(stored) = {} THEN {s}
    ELSE {[s EXCEPT !.view = [stored EXCEPT !.down = D]] :
            D \in {stored.down, stored.down \cup (s.view.down \cap Members(stored))}}

\* ForceRefreshHostListWithTimeout: the list given, with the cached availability.
ForceRefreshed(s, list, marked) ==
    [s EXCEPT !.view = [list EXCEPT !.down = marked \cap Members(list)]]

-----------------------------------------------------------------------------
(* The connection cache of the read/write splitting plugin *)

\* setWriterConnection and setReaderConnection.
CacheAs(s, c, hi) ==
    IF hi.role = "writer" THEN [s EXCEPT !.wConn = c, !.wHost = hi]
    ELSE [s EXCEPT !.rConn = c, !.rHost = hi]

\* closeConnectionIfIdle: a cached connection that is not the current one.
CloseIdle(s, l, c) ==
    IF c = Nil \/ c = s.conn THEN [svc |-> s, links |-> l]
    ELSE [svc   |-> IF c = s.rConn THEN [s EXCEPT !.rConn = Nil, !.rHost = Nil]
                    ELSE [s EXCEPT !.wConn = Nil, !.wHost = Nil],
          links |-> CloseLink(l, c)]

CloseIdleConnections(s, l) ==
    LET r == CloseIdle(s, l, s.rConn) IN CloseIdle(r.svc, r.links, r.svc.wConn)

\* NotifyConnectionChanged: the plugin caches the current connection in the slot
\* of its role and closes the cached ones when the current one is neither.
NotifyConnectionChanged(s, l, changed) ==
    IF ~s.split THEN [svc |-> s, links |-> l]
    ELSE LET t == CacheAs(s, s.conn, s.host)
         IN  IF changed /\ t.conn \notin {t.wConn, t.rConn}
             THEN CloseIdleConnections(t, l) ELSE [svc |-> t, links |-> l]

-----------------------------------------------------------------------------
(***************************************************************************)
(* SetCurrentConnection(conn, hostInfo): the first connection is just      *)
(* adopted; a change transfers the session, clears the transaction flag,   *)
(* rolls back tx, notifies the plugins and closes the old connection unless a *)
(* plugin asks to preserve it.  When replaying the field bad fails the     *)
(* connection has already changed and nothing of that happens.  What       *)
(* ApplyPristineSessionState sends (SessionState!RestoredOnServer) goes to *)
(* a connection that is closed next, so it leaves no trace here.           *)
(***************************************************************************)
AdoptFirst(s, l, c, hi) ==
    LET t == [s EXCEPT !.conn = c, !.host = hi, !.ses = NoSession]
        n == NotifyConnectionChanged(t, l, FALSE)
    IN  [svc |-> n.svc, links |-> n.links, ok |-> TRUE]

\* MUTANT of SwitchFails: a setting that could not be replayed is overlooked.
OverlookFailure(s, l, c, hi, bad) ==
    [svc   |-> [s EXCEPT !.conn = c, !.host = hi, !.ses = ReplayedOnSession(s.ses, bad)],
     links |-> [l EXCEPT ![c].set = ReplayedOnServer(s.ses, @, bad)],
     ok    |-> TRUE]

SwitchFails(s, l, c, hi, bad) ==
    [svc   |-> [s EXCEPT !.conn = c, !.host = hi, !.ses = ReplayedOnSession(s.ses, bad)],
     links |-> [l EXCEPT ![c].set = ReplayedOnServer(s.ses, @, bad)],
     ok    |-> FALSE]

SwitchSucceeds(s, l, tx, c, hi) ==
    LET old  == s.conn
        l1   == [l EXCEPT ![c].set = ReplayedOnServer(s.ses, @, Nil)]
        l2   == IF s.inTx /\ RollbackOnSwitch THEN Rollback(l1, old, tx) ELSE l1
        t    == [s EXCEPT !.conn = c, !.host = hi, !.inTx = FALSE,
                          !.ses = ReplayedOnSession(s.ses, Nil)]
        n    == NotifyConnectionChanged(t, l2, c # old)
        gone == c # old /\ ~IsClosed(n.links, old) /\ ~(s.split /\ s.inSplit)
    IN  [svc   |-> n.svc,
         links |-> IF gone THEN CloseLink(n.links, old) ELSE n.links,
         ok    |-> TRUE]

SetCurrentConnection(s, l, tx, c, hi, bad) ==
    CASE s.conn = Nil -> AdoptFirst(s, l, c, hi)
      [] s.conn = c /\ s.host = hi -> [svc |-> s, links |-> l, ok |-> TRUE]
      [] s.conn # Nil /\ (s.conn # c \/ s.host # hi) /\ bad = Nil ->
            SwitchSucceeds(s, l, tx, c, hi)
      [] OTHER -> SwitchFails(s, l, c, hi, bad)

\* UpdateState: the settings a statement makes are recorded before it is executed.
UpdateState(s, f, v) == [s EXCEPT !.ses = SetValue(SetupPristine(@, f), f, v)]

\* ReleaseResources of the plugin manager: the plugin closes its idle connections,
\* the service its current one.
ReleaseResources(s, l) ==
    LET r == IF s.split THEN CloseIdleConnections(s, l) ELSE [svc |-> s, links |-> l]
    IN  [svc   |-> [r.svc EXCEPT !.conn = Nil],
         links |-> IF s.conn = Nil THEN r.links ELSE CloseLink(r.links, s.conn)]

=============================================================================
