-------------------------- MODULE WrapperConnection --------------------------
(***************************************************************************)
(* One connection of the wrapper driver: the calls database/sql makes on   *)
(* AwsWrapperDriver, AwsWrapperConn, AwsWrapperStmt and AwsWrapperTx, the  *)
(* plugin chain they go through (failover, read/write splitting, default), *)
(* and the cluster behind it.  A call runs alone, as database/sql uses a   *)
(* connection from one goroutine at a time; the cluster changes and the    *)
(* topology monitor stores topologies at any moment.                       *)
(***************************************************************************)
EXTENDS ReadWriteSplitting

CONSTANTS
    Writers,        \* the instances that may be the writer at first
    MaxFaults,      \* crashes and planned switchovers in a behaviour
    Modes           \* the read-only modes it asks for (Nil: none)

ASSUME WrapperAssumption ==
    /\ MaxFaults \in Nat /\ Writers \subseteq Hosts
    /\ Modes \subseteq BOOLEAN \cup {Nil}

Verdicts == {"none", "ok", "error", "switched", "unknown", "failed", "transfer"}

Init ==
    /\ cfg \in Configs
    /\ up = cfg.members /\ writer \in Writers /\ faults = MaxFaults
    /\ stored = TrueTopology /\ marked = {}
    /\ svc = NewService(stored, cfg.split)
    /\ links = [c \in Conns |-> NoLink]
    /\ isInTransaction = FALSE
    /\ fo = NoFailover /\ call = Idle
    /\ appTx = Nil /\ claim = FALSE /\ stmt = Nil
    /\ verdict = "none"

-----------------------------------------------------------------------------
(* Open *)

Open ==
    /\ call.pc = "idle" /\ svc.conn = Nil
    /\ call' = [Idle EXCEPT !.pc = "open"]
    /\ UNCHANGED <<cluster, marked, cfg, svc, links, isInTransaction, fo,
                   appTx, claim, stmt, verdict>>

OpenDial ==
    /\ call.pc = "open"
    /\ ConnectThroughFailover(cfg.initial, "opened")
    /\ UNCHANGED <<cluster, cfg, isInTransaction, appTx, claim, stmt, verdict>>

\* The HostInfo of the initial host: a writer unless the splitting plugin verified it.
InitialInfo(r) ==
    [host |-> cfg.initial, role |-> IF cfg.split THEN r ELSE "writer", avail |-> TRUE]

\* The end of the wrapper connection: it could not be opened, or was closed.
Over == [Idle EXCEPT !.pc = "over"]

\* Connected, or moved by failover: the connection becomes (or already is) current,
\* recorded under the initial host, and the host list is refreshed.
OpenEnd ==
    /\ call.pc = "opened" /\ fo.pc = "off"
    /\ IF call.result \in {"connected", "switched"}
       THEN /\ \E r \in RoleOf(links[IF call.result = "connected"
                                     THEN call.conn ELSE svc.conn].at) \ {"unknown"} :
                 LET c == IF call.result = "connected" THEN call.conn ELSE svc.conn
                     o == SetCurrentConnection(svc, links, appTx, c, InitialInfo(r), Nil)
                 IN  links' = o.links /\ svc' \in Refreshed(o.svc, stored)
            /\ verdict' = "ok" /\ call' = Idle
       ELSE verdict' = "error" /\ call' = Over /\ UNCHANGED <<svc, links>>
    /\ UNCHANGED <<cluster, marked, cfg, isInTransaction, fo, appTx, claim, stmt>>

\* The role of the initial connection cannot be verified, or the host list cannot be
\* refreshed: Open returns the error and leaves the connection as it is.
OpenAbandons ==
    /\ call.pc = "opened" /\ fo.pc = "off" /\ call.result \in {"connected", "switched"}
    /\ verdict' = "error" /\ call' = Over
    /\ UNCHANGED <<cluster, marked, cfg, svc, links, isInTransaction, fo, appTx, claim, stmt>>

-----------------------------------------------------------------------------
(* Calls *)

\* The connection a method is invoked on: the one its object was made on.
InvokedOn(k) ==
    CASE k \in {"commit", "rollback"} -> appTx
      [] k = "stmt"                   -> stmt
      [] OTHER                        -> svc.conn

Ops == {o \in [kind : cfg.ops, ro : Modes, f : FieldSet \cup {Nil}, v : Values \cup {Nil}] :
          /\ (o.f # Nil) <=> (o.v # Nil)
          /\ o.f # Nil => o.kind \in {"exec", "stmt"}
          /\ o.ro # Nil => o.kind \in {"exec", "begin", "prepare"} /\ o.f = Nil
          /\ o.kind = "begin" => o.ro # Nil}

\* database/sql: one transaction at a time, statements of a Tx object end with it.
Callable(k) ==
    CASE k = "begin"                  -> appTx = Nil
      [] k \in {"commit", "rollback"} -> appTx # Nil
      [] k = "stmt"                   -> stmt # Nil
      [] k = "reset"                  -> appTx = Nil
      [] OTHER                        -> TRUE

\* PluginManager.Execute refuses a method of an object of another connection.
Refused(k) == InvokedOn(k) # svc.conn

Call ==
    /\ call.pc = "idle" /\ svc.conn # Nil
    /\ \E o \in Ops :
         /\ Callable(o.kind)
         /\ IF Refused(o.kind)
            THEN /\ verdict' = "error" /\ call' = Idle
                 /\ IF EndsTx(o) THEN appTx' = Nil /\ claim' = FALSE
                    ELSE UNCHANGED <<appTx, claim>>
                 /\ UNCHANGED svc
            ELSE /\ call' = [Idle EXCEPT !.op = o, !.start = svc.conn,
                                !.pc = IF cfg.split /\ o.ro # Nil THEN "split" ELSE "exec"]
                 /\ svc' = IF o.kind = "reset" THEN [svc EXCEPT !.ses = NoSession] ELSE svc
                 /\ UNCHANGED <<appTx, claim, verdict>>
    /\ UNCHANGED <<cluster, marked, cfg, links, isInTransaction, fo, stmt>>

\* The application closes the statement object.
CloseStmt ==
    /\ call.pc = "idle" /\ stmt # Nil
    /\ stmt' = Nil
    /\ UNCHANGED <<cluster, marked, cfg, svc, links, isInTransaction, fo, call,
                   appTx, claim, verdict>>

\* QueryContext, ExecContext and the statement's methods record the settings first.
Prepared(o) == IF o.f = Nil THEN svc ELSE UpdateState(svc, o.f, o.v)

\* MUTANT of TransactionFlag: a transaction the driver opened is not noted.
FlagOnlyClears(o, s) ==
    IF EndsTx(o) THEN [s EXCEPT !.inTx = FALSE] ELSE s

\* DefaultPlugin.Execute after success.
TransactionFlag(o, s) ==
    CASE o.kind = "begin" -> [s EXCEPT !.inTx = TRUE]
      [] EndsTx(o)        -> [s EXCEPT !.inTx = FALSE]
      [] OTHER            -> s

Executing == call.pc = "exec" /\ fo.pc = "off" /\ call.op.kind # "none"

\* The method succeeds on the server.
ExecSucceeds ==
    /\ Executing /\ links[svc.conn].st = "open"
    /\ LET o == call.op IN
       /\ svc' = TransactionFlag(o, Prepared(o))
       /\ links' = [links EXCEPT
             ![svc.conn].set = IF o.f = Nil THEN @ ELSE [@ EXCEPT ![o.f] = o.v],
             ![svc.conn].tx  = (@ \/ o.kind = "begin") /\ ~EndsTx(o)]
       /\ appTx' = IF o.kind = "begin" THEN svc.conn ELSE IF EndsTx(o) THEN Nil ELSE appTx
       /\ claim' = ((claim \/ o.kind = "begin") /\ ~EndsTx(o))
       /\ stmt' = IF o.kind = "prepare" THEN svc.conn ELSE stmt
    /\ call' = Idle /\ verdict' = "ok"
    /\ UNCHANGED <<cluster, marked, cfg, isInTransaction, fo>>

\* The server refuses it: the error goes back as it is.
ExecRefused ==
    /\ Executing /\ links[svc.conn].st = "open"
    /\ svc' = Prepared(call.op)
    /\ Finish("error")
    /\ UNCHANGED <<cluster, marked, cfg, links, isInTransaction, fo>>

\* The connection is dead.  Begin is not a network bound method: its error goes back.
\* The other methods run failover.
ExecBreaks ==
    /\ Executing /\ links[svc.conn].st # "open"
    /\ IF call.op.kind = "begin"
       THEN Finish("error") /\ UNCHANGED <<svc, links, marked, isInTransaction, fo>>
       ELSE DealWithError(Prepared(call.op)) /\ UNCHANGED app
    /\ UNCHANGED <<cluster, cfg>>

\* Conn.Close: the driver connection is closed, then the plugins and the service
\* release what they hold.
Close ==
    /\ call.pc = "idle" /\ svc.conn # Nil
    /\ LET r == ReleaseResources(svc, CloseLink(links, svc.conn)) IN
       links' = r.links /\ svc' = r.svc
    /\ call' = Over
    /\ verdict' = "none" /\ appTx' = Nil /\ claim' = FALSE /\ stmt' = Nil
    /\ UNCHANGED <<cluster, marked, cfg, isInTransaction, fo>>

-----------------------------------------------------------------------------
(* The cluster *)

Crash(h) ==
    /\ faults > 0 /\ h \in up
    /\ up' = up \ {h} /\ faults' = faults - 1
    /\ links' = [c \in Conns |-> IF links[c].st = "open" /\ links[c].at = h
                                 THEN [links[c] EXCEPT !.st = "lost", !.tx = FALSE]
                                 ELSE links[c]]
    /\ UNCHANGED <<writer, stored, marked, cfg, svc, isInTransaction, fo, app>>

Recover(h) ==
    /\ h \in cfg.members \ up /\ up' = up \cup {h}
    /\ UNCHANGED <<writer, stored, faults, marked, cfg, svc, links, isInTransaction,
                   fo, app>>

\* The control plane makes another instance the writer: when the writer is down, or
\* as a planned switchover.
Promote(h) ==
    /\ h # writer /\ h \in up
    /\ writer' = h
    /\ IF writer \in up THEN faults > 0 /\ faults' = faults - 1 ELSE faults' = faults
    /\ UNCHANGED <<up, stored, marked, cfg, svc, links, isInTransaction, fo, app>>

\* The topology monitor stores what the cluster reports.
MonitorStores ==
    /\ stored # TrueTopology
    /\ stored' = TrueTopology
    /\ UNCHANGED <<up, writer, faults, marked, cfg, svc, links, isInTransaction,
                   fo, app>>

CallNext ==
    \/ OpenDial \/ OpenEnd \/ OpenAbandons \/ ExecSucceeds \/ ExecRefused \/ ExecBreaks
    \/ SplittingNext \/ FailoverNext

Next ==
    \/ Open \/ Call \/ CloseStmt \/ Close \/ CallNext
    \/ \E h \in Hosts : Crash(h) \/ Recover(h) \/ Promote(h)
    \/ MonitorStores

Spec == Init /\ [][Next]_vars

-----------------------------------------------------------------------------
(* Properties *)

Calls == [pc : {"idle", "open", "opened", "split", "pick", "dial", "dialled", "exec", "over"},
          op : Ops \cup {NoOp}, start : Conns \cup {Nil}, conn : Conns \cup {Nil},
          host : HostInfos \cup {Nil}, want : Roles, list : HostLists,
          tries : 0 .. 2 * Cardinality(Hosts),
          result : {"none", "connected", "switched", "unknown", "failed", "transfer"}]

Failovers == [pc : {"off", "failover", "writer", "readers", "origWriter", "again",
                    "allowed", "try", "allowedAgain", "set"},
              late : BOOLEAN, conn : Conns \cup {Nil}, host : HostInfos \cup {Nil},
              role : Roles, list : HostLists, left : SUBSET Hosts, readers : SUBSET Hosts,
              origW : Hosts \cup {Nil}, stillW : BOOLEAN]

\* Every variable holds a value of its type.
TypeOK ==
    /\ up \subseteq Hosts /\ writer \in Hosts /\ faults \in 0 .. MaxFaults
    /\ stored \in HostLists /\ marked \subseteq Hosts /\ cfg \in Configs
    /\ svc \in Services /\ links \in [Conns -> Links]
    /\ isInTransaction \in BOOLEAN /\ fo \in Failovers /\ call \in Calls
    /\ appTx \in Conns \cup {Nil} /\ claim \in BOOLEAN /\ stmt \in Conns \cup {Nil}
    /\ verdict \in Verdicts

\* The session behind the connection is never replaced under a transaction the
\* application counts on without an answer that says so: failover answers with the
\* "transaction resolution unknown" or the "failover failed" error or the error of a
\* setting it could not replay, and read/write splitting does not switch.
AppContract ==
    INSTANCE ConnectionContract
    WITH session <- svc.conn, bound <- IF claim THEN appTx ELSE Nil, answer <- verdict

KeepsContract == AppContract!Contract

\* No connection is lost: an open driver connection is the current one, one of the
\* cached ones, or a local of the call in progress.  Only an Open that fails late and
\* the connections the read/write splitting plugin preserves escape that.
NoLeak ==
    svc.inSplit \/ (call.pc = "over" /\ verdict = "error") \/
    \A k \in Conns :
        ~IsClosed(links, k) =>
            k \in {svc.conn, svc.wConn, svc.rConn, call.conn, fo.conn}

\* A cached connection that is not in use holds no transaction, so the application
\* can neither commit nor leave open work on a connection it does not use.
IdleConnectionsClean ==
    \A k \in {svc.wConn, svc.rConn} \ {Nil, svc.conn} : ~links[k].tx

\* A failover that reports success hands over a connection on which every setting
\* the session recorded has been replayed.
SessionCarried ==
    [][LET told == IF call.pc = "exec" THEN verdict' ELSE call'.result
       IN  (SetCandidate /\ told \notin {"failed", "transfer"}) =>
              \A f \in Recorded(svc.ses) : links'[svc'.conn].set[f] = svc.ses[f].val]_vars

\* The "transaction resolution unknown" error is returned by a failover of a
\* transaction (docs/user-guide/using-plugins/UsingTheFailoverPlugin.md).
UnknownOnlyInTransaction ==
    [][SetCandidate /\ call.pc = "exec" /\ verdict' = "unknown" => svc.inTx]_vars

=============================================================================
