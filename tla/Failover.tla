------------------------------ MODULE Failover ------------------------------
(***************************************************************************)
(* The failover plugins.  Failover runs as a subroutine of a call of the   *)
(* wrapper connection: an execution that met a network error, the opening  *)
(* of the connection, or the connection attempt of the read/write          *)
(* splitting plugin.  Its steps are separated where it waits for the       *)
(* network, so that instances crash, recover and are promoted between      *)
(* them.                                                                   *)
(*                                                                         *)
(* cfg.kind "rds": failover with failoverMode cfg.mode;                    *)
(* cfg.kind "gdb": gdbFailover, whose mode is cfg.mode while the writer is *)
(* in the home region and cfg.away when it is not.                         *)
(***************************************************************************)
EXTENDS PluginService

CONSTANTS
    Home,           \* the hosts of the home region
    Configs         \* the settings a wrapper connection is opened with, the cluster's
                    \* instances and the methods the application calls

RdsModes == {"strict-writer", "strict-reader", "reader-or-writer"}
GdbModes == {"strict-writer", "strict-home-reader", "strict-out-of-home-reader",
             "strict-any-reader", "home-reader-or-writer",
             "out-of-home-reader-or-writer", "any-reader-or-writer"}

\* The methods of the wrapper's connection, transaction and statement objects; "exec"
\* stands for ExecContext and QueryContext.
Methods == {"exec", "begin", "commit", "rollback", "prepare", "stmt", "reset"}

ASSUME FailoverAssumption ==
    /\ Home \subseteq Hosts
    /\ Configs \subseteq [kind : {"rds", "gdb"}, mode : RdsModes \cup GdbModes,
                          away : GdbModes, split : BOOLEAN, initial : Hosts,
                          members : SUBSET Hosts, ops : SUBSET Methods]

VARIABLES
    up,             \* the instances that answer
    writer,         \* the instance that is the writer
    stored,         \* the topology the monitor keeps in storage
    marked,         \* hosts the availability cache holds as UNAVAILABLE
    faults,         \* crashes and promotions that may still happen
    cfg,            \* the configuration of the wrapper connection
    svc,            \* PluginServiceImpl and the read/write splitting plugin
    links,          \* the driver connections
    isInTransaction,\* FailoverPlugin.isInTransaction
    fo,             \* the failover in progress
    call,           \* the call in progress
    appTx,          \* the connection of the application's Tx, the service's currentTx
    claim,          \* whether the application still counts on that transaction
    stmt,           \* the connection of the application's prepared statement
    verdict         \* what the last call returned

cluster == <<up, writer, stored, faults>>
app == <<call, appTx, claim, stmt, verdict>>
vars == <<up, writer, stored, marked, faults, cfg, svc, links, isInTransaction, fo,
          call, appTx, claim, stmt, verdict>>

\* What the application calls: a method, the read-only mode it asks for, the setting
\* its statement makes.
NoOp == [kind |-> "none", ro |-> Nil, f |-> Nil, v |-> Nil]

NoList == [role |-> [h \in {} |-> "reader"], down |-> {}]

\* No call in progress; the locals of a call: the connection it began on, the one it
\* made and for which host and role, the host list it works on, its attempts, and
\* what the failover it ran returned.
Idle == [pc |-> "idle", op |-> NoOp, start |-> Nil, conn |-> Nil, host |-> Nil,
         want |-> "unknown", list |-> NoList, tries |-> 0, result |-> "none"]

\* No failover in progress; the locals of the loops.
NoFailover == [pc |-> "off", late |-> FALSE, conn |-> Nil, host |-> Nil, role |-> "unknown",
               list |-> NoList, left |-> {}, readers |-> {}, origW |-> Nil, stillW |-> FALSE]

Roles2(w, H) == [h \in H |-> IF h = w THEN "writer" ELSE "reader"]

\* The topology the cluster reports now.
TrueTopology == [role |-> Roles2(writer, cfg.members), down |-> {}]

\* GetHostRole of a connection to h: the query may fail.
RoleOf(h) == {"unknown", IF h = writer THEN "writer" ELSE "reader"}

\* A connection identity nothing refers to, if there is one.
Unused(used) ==
    LET free == {c \in Conns : IsClosed(links, c) /\ c \notin used}
    IN  IF free = {} THEN {} ELSE {CHOOSE c \in free : TRUE}

InUse == {svc.conn, svc.wConn, svc.rConn, appTx, stmt, call.conn, fo.conn}

Opened(l, c, h) == [l EXCEPT ![c] = [NoLink EXCEPT !.st = "open", !.at = h]]

\* A successful connect marks the host available (DefaultPlugin.connectInternal).
MarkUp(s, h) == SetAvailability(s, {h}, TRUE)

-----------------------------------------------------------------------------
(* The end of the subroutine *)

Told == {"unknown", "failed", "transfer"}

EndsTx(o) == o.kind \in {"commit", "rollback"}

\* A call that returns v.  AwsWrapperTx gives up the service's Tx whatever its method
\* returned; a transaction the application is told about is no claim any more.
Finish(v) ==
    /\ call' = Idle
    /\ verdict' = v
    /\ appTx' = IF EndsTx(call.op) THEN Nil ELSE appTx
    /\ claim' = (claim /\ ~EndsTx(call.op) /\ v \notin Told)
    /\ UNCHANGED stmt

\* failover() returns v: to dealWithError, which returns it to the application, or to
\* Connect, whose caller goes on.
FailoverReturns(v) ==
    /\ fo' = NoFailover
    /\ IF call.pc = "exec" THEN Finish(v)
       ELSE call' = [call EXCEPT !.result = v] /\ UNCHANGED <<appTx, claim, stmt, verdict>>

FailoverFails == FailoverReturns("failed")

\* returnFailoverSuccessError.
SuccessError(s) == IF isInTransaction \/ s.inTx THEN "unknown" ELSE "switched"

\* The error of the statement that could not be replayed goes back as it is, except
\* from FailoverReader.
TransferError == IF cfg.kind = "rds" /\ fo.role = "reader" THEN "failed" ELSE "transfer"

(***************************************************************************)
(* The candidate becomes the current connection.  FailoverWriter closes it *)
(* when the session transfer fails, the reader paths leave it.             *)
(***************************************************************************)
SetCandidate ==
    /\ fo.pc = "set"
    /\ \E bad \in ReplayFailures(svc.ses) :
         LET hi == [host |-> fo.host.host, role |-> fo.host.role, avail |-> TRUE]
             o  == SetCurrentConnection(svc, links, appTx, fo.conn, hi, bad)
         IN  /\ svc' = IF o.ok THEN [o.svc EXCEPT !.inTx = FALSE] ELSE o.svc
             /\ links' = IF ~o.ok /\ fo.role = "writer"
                         THEN CloseLink(o.links, fo.conn) ELSE o.links
             /\ FailoverReturns(IF o.ok THEN SuccessError(o.svc) ELSE TransferError)
    /\ UNCHANGED <<cluster, marked, cfg, isInTransaction>>

-----------------------------------------------------------------------------
(* The start: the handlers' failover() and the refresh of the host list *)

NeedsVerified == cfg.kind = "gdb" \/ cfg.mode = "strict-writer"

\* The mode in force once the writer is known.
ModeNow(w) == IF cfg.kind = "rds" \/ w \in Home THEN cfg.mode ELSE cfg.away

ToWriterOrAllowed(s, w) ==
    IF ModeNow(w) = "strict-writer"
    THEN fo' = [fo EXCEPT !.pc = "writer", !.host = Info(s.view, w)]
    ELSE fo' = [fo EXCEPT !.pc = "allowed", !.role = "reader",
                              !.host = Info(s.view, w)]

\* ForceRefreshHostListWithTimeout(true): the verified topology arrives.
RefreshVerified ==
    /\ fo.pc = "failover" /\ NeedsVerified /\ writer \in up
    /\ stored' = TrueTopology
    /\ svc' = ForceRefreshed(svc, TrueTopology, marked)
    /\ IF cfg.kind = "gdb" /\ ModeNow(writer) = "strict-writer" /\ writer \notin Allowed
       THEN FailoverFails      \* failoverToWriter: the writer is not an allowed host
       ELSE ToWriterOrAllowed(svc', writer) /\ UNCHANGED app
    /\ UNCHANGED <<up, writer, faults, marked, cfg, links, isInTransaction>>

\* ... or does not within the failover timeout.
RefreshTimesOut ==
    /\ fo.pc = "failover" /\ NeedsVerified
    /\ FailoverFails
    /\ UNCHANGED <<cluster, marked, cfg, svc, links, isInTransaction>>

\* getReaderFailoverCandidates of the hosts H of list v.
Candidates(v, H) ==
    [fo EXCEPT !.pc = "readers", !.role = "reader", !.list = v,
                 !.readers = {h \in H : v.role[h] = "reader"},
                 !.left = {h \in H : v.role[h] = "reader"},
                 !.origW = IF WritersOf(v) \cap H = {} THEN Nil
                           ELSE CHOOSE h \in WritersOf(v) \cap H : TRUE]

\* FailoverReader: ForceRefreshHostListWithTimeout(false, 0) takes what is stored.
RefreshStored ==
    /\ fo.pc = "failover" /\ ~NeedsVerified
    /\ svc' = ForceRefreshed(svc, stored, marked)
    /\ fo' = Candidates(svc'.view, GetHosts(svc'.view))
    /\ UNCHANGED <<cluster, marked, cfg, links, isInTransaction, app>>

-----------------------------------------------------------------------------
(* Writer failover *)

\* createConnectionForHost(h) succeeded: the candidate is connection c.
CandidateConnected(c, h) ==
    /\ links' = Opened(links, c, h)
    /\ svc' = MarkUp(svc, h)
    /\ marked' = marked \ {h}

\* MUTANT of RejectCandidate: a candidate of the wrong role stays open.
ForgetCandidate(h) == \E c \in Unused(InUse) : CandidateConnected(c, h)

\* A candidate of the wrong role was connected and is closed again.
RejectCandidate(h) ==
    /\ svc' = MarkUp(svc, h)
    /\ marked' = marked \ {h}
    /\ UNCHANGED links

ConnectWriter ==
    /\ fo.pc = "writer"
    /\ LET h == fo.host.host IN
       \/ /\ h \notin up                          \* cannot connect
          /\ FailoverFails
          /\ UNCHANGED <<svc, links, marked>>
       \/ /\ h \in up /\ "writer" \in RoleOf(h)
          /\ \E c \in Unused(InUse) :
               /\ CandidateConnected(c, h)
               /\ fo' = [fo EXCEPT !.pc = "set", !.conn = c, !.role = "writer"]
          /\ UNCHANGED app
       \/ /\ h \in up                             \* the role query says otherwise
          /\ RejectCandidate(h)
          /\ FailoverFails
    /\ UNCHANGED <<cluster, cfg, isInTransaction>>

-----------------------------------------------------------------------------
(* Reader failover: getReaderFailoverConnection *)

Selectable == {h \in fo.left : h \notin fo.list.down}

\* A connected host of observed role r is accepted or closed and struck off.
JudgeReader(h, r, accept) ==
    \/ /\ accept
       /\ \E c \in Unused(InUse) :
            /\ CandidateConnected(c, h)
            /\ fo' = [fo EXCEPT !.pc = "set", !.conn = c,
                                    !.host = [host |-> h, role |-> r, avail |-> TRUE]]
    \/ /\ ~accept
       /\ RejectCandidate(h)
       /\ fo' = IF h = fo.origW /\ fo.pc = "origWriter"
                  THEN [fo EXCEPT !.stillW = @ \/ r = "writer", !.pc = "again"]
                  ELSE [fo EXCEPT !.left = @ \ {h},
                                    !.readers = IF r = "writer" THEN @ \ {h} ELSE @,
                                    !.stillW = @ /\ r # "writer"]

Acceptable(r) == r = "reader" \/ cfg.mode # "strict-reader"

TryReader ==
    /\ fo.pc = "readers" /\ ~fo.late
    /\ \E h \in Selectable :
         \/ /\ h \notin up
            /\ fo' = [fo EXCEPT !.left = @ \ {h}]
            /\ UNCHANGED <<svc, links, marked>>
         \/ h \in up /\ \E r \in RoleOf(h) : JudgeReader(h, r, Acceptable(r))
    /\ UNCHANGED <<cluster, cfg, isInTransaction, app>>

\* The selector finds no available host: the candidates are taken anew from the
\* host list provider, if it answers.
NoReaderSelectable ==
    /\ fo.pc = "readers" /\ ~fo.late /\ fo.left # {} /\ Selectable = {}
    /\ \/ fo' = [Candidates(stored, Members(stored)) EXCEPT !.pc = "origWriter"]
       \/ fo' = [fo EXCEPT !.pc = "origWriter"]
    /\ UNCHANGED <<cluster, marked, cfg, svc, links, isInTransaction, app>>

ReadersExhausted ==
    /\ fo.pc = "readers" /\ (fo.late \/ fo.left = {})
    /\ fo' = [fo EXCEPT !.pc = "origWriter"]
    /\ UNCHANGED <<cluster, marked, cfg, svc, links, isInTransaction, app>>

\* The original writer may have become a reader.
SkipOriginalWriter ==
    \/ fo.origW = Nil \/ fo.late
    \/ cfg.mode = "strict-reader" /\ fo.stillW

TryOriginalWriter ==
    /\ fo.pc = "origWriter"
    /\ \/ /\ SkipOriginalWriter \/ fo.origW \notin up
          /\ fo' = [fo EXCEPT !.pc = "again"]
          /\ UNCHANGED <<svc, links, marked>>
       \/ /\ ~SkipOriginalWriter /\ fo.origW \in up
          /\ \E r \in RoleOf(fo.origW) : JudgeReader(fo.origW, r, Acceptable(r))
    /\ UNCHANGED <<cluster, cfg, isInTransaction, app>>

\* All hosts failed: another round before the deadline, failure after it.
NextRound ==
    /\ fo.pc = "again"
    /\ \/ /\ fo.late
          /\ FailoverFails
       \/ /\ ~fo.late
          /\ fo' = [fo EXCEPT !.pc = "readers", !.left = fo.readers]
          /\ UNCHANGED app
    /\ UNCHANGED <<cluster, marked, cfg, svc, links, isInTransaction>>

-----------------------------------------------------------------------------
(* Global database failover: getAllowedFailoverConnection *)

\* The hosts a mode allows; w is the writer the refresh found.
AllowedHosts(v, m) ==
    {h \in GetHosts(v) :
        LET reader == v.role[h] = "reader" IN
        CASE m = "strict-home-reader"           -> reader /\ h \in Home
          [] m = "strict-out-of-home-reader"    -> reader /\ h \notin Home
          [] m = "strict-any-reader"            -> reader
          [] m = "home-reader-or-writer"        -> reader => h \in Home
          [] m = "out-of-home-reader-or-writer" -> reader => h \notin Home
          [] OTHER                              -> TRUE}

StrictReader(m) ==
    m \in {"strict-home-reader", "strict-out-of-home-reader", "strict-any-reader"}

\* RefreshHostList, then one round over copies of the allowed hosts, all AVAILABLE.
RefreshAllowed ==
    /\ fo.pc = "allowed"
    /\ svc' \in Refreshed(svc, stored)
    /\ LET H == AllowedHosts(svc'.view, ModeNow(fo.host.host)) IN
       fo' = IF H = {} THEN [fo EXCEPT !.pc = "allowedAgain"]
               ELSE [fo EXCEPT !.pc = "try", !.left = H,
                                 !.list = [svc'.view EXCEPT !.down = {}]]
    /\ UNCHANGED <<cluster, marked, cfg, links, isInTransaction, app>>

TryAllowed ==
    /\ fo.pc = "try" /\ ~fo.late
    /\ \E h \in fo.left :
         LET strict == StrictReader(ModeNow(fo.host.host)) IN
         \/ /\ h \notin up
            /\ fo' = [fo EXCEPT !.left = @ \ {h}]
            /\ UNCHANGED <<svc, links, marked>>
         \/ /\ h \in up
            /\ \E r \in RoleOf(h) :
                 JudgeReader(h, IF strict THEN r ELSE fo.list.role[h],
                             strict => r = "reader")
    /\ UNCHANGED <<cluster, cfg, isInTransaction, app>>

AllowedExhausted ==
    /\ fo.pc \in {"try", "allowedAgain"}
    /\ fo.pc = "try" => (fo.late \/ fo.left = {})
    /\ IF fo.late THEN FailoverFails
       ELSE fo' = [fo EXCEPT !.pc = "allowed"] /\ UNCHANGED app
    /\ UNCHANGED <<cluster, marked, cfg, svc, links, isInTransaction>>

\* The failover timeout passes while hosts are being tried.
DeadlinePasses ==
    /\ fo.pc \in {"readers", "origWriter", "again", "allowed", "try", "allowedAgain"}
    /\ ~fo.late
    /\ fo' = [fo EXCEPT !.late = TRUE]
    /\ UNCHANGED <<cluster, marked, cfg, svc, links, isInTransaction, app>>

-----------------------------------------------------------------------------
(* What leads to failover *)

\* MUTANT of InvalidateCurrentConnection: the transaction is not remembered.
CloseWithoutNote(l) ==
    /\ links' = IF IsClosed(l, svc.conn) THEN l ELSE CloseLink(l, svc.conn)
    /\ UNCHANGED isInTransaction

\* InvalidateCurrentConnection: remember the transaction, roll it back, close.
InvalidateCurrentConnection(l) ==
    LET m == IF svc.inTx THEN Rollback(l, svc.conn, appTx) ELSE l IN
    /\ isInTransaction' = (isInTransaction \/ svc.inTx)
    /\ links' = IF IsClosed(m, svc.conn) THEN m ELSE CloseLink(m, svc.conn)

\* dealWithError of a network error.  The aliases of the current host are empty
\* unless a plugin filled them, so the host is marked or not.
DealWithError(s) ==
    /\ InvalidateCurrentConnection(links)
    /\ \E H \in {{}, {s.host.host}} :
         /\ svc' = SetAvailability(s, H, FALSE)
         /\ marked' = marked \cup (H \cap Members(s.view))
    /\ fo' = [NoFailover EXCEPT !.pc = "failover"]

FailoverNext ==
    \/ SetCandidate \/ RefreshVerified \/ RefreshTimesOut \/ RefreshStored
    \/ ConnectWriter \/ TryReader \/ NoReaderSelectable \/ ReadersExhausted
    \/ TryOriginalWriter \/ NextRound \/ RefreshAllowed \/ TryAllowed
    \/ AllowedExhausted \/ DeadlinePasses

=============================================================================
