------------------------- MODULE ReadWriteSplitting -------------------------
(***************************************************************************)
(* The read/write splitting plugin: setReadOnly, the first part of a call  *)
(* whose context or options ask for a mode, moves the call to a reader or  *)
(* to the writer.  A connection attempt goes through the failover plugin,  *)
(* which may itself move the wrapper connection before it returns.         *)
(***************************************************************************)
EXTENDS Failover

CONSTANTS
    RestrictWriterToHome,    \* gdbRwRestrictWriterToHomeRegion
    RestrictReaderToHome     \* gdbRwRestrictReaderToHomeRegion

ASSUME SplittingAssumption ==
    RestrictWriterToHome \in BOOLEAN /\ RestrictReaderToHome \in BOOLEAN

others == <<cluster, cfg, isInTransaction>>

\* The switch is over: the method itself is executed next.
SwitchDone(s, l) ==
    /\ svc' = s /\ links' = l
    /\ call' = [Idle EXCEPT !.pc = "exec", !.op = call.op]
    /\ UNCHANGED <<appTx, claim, stmt, verdict>>

\* The call returns an error: Execute closes the idle connections.
SwitchError(s, l) ==
    LET r == CloseIdleConnections(s, l) IN
    svc' = r.svc /\ links' = r.links /\ Finish("error")

\* The switch failed: a read-only call goes on with the connection it began on
\* while that is usable.
SwitchFailed(s, l) ==
    IF call.op.ro = TRUE /\ Usable(l, call.start) THEN SwitchDone(s, l)
    ELSE SwitchError(s, l)

\* switchCurrentConnectionTo.
SwitchTo(s, l, c, hi) ==
    IF s.conn = c THEN SwitchDone(s, l)
    ELSE \E bad \in ReplayFailures(s.ses) :
           LET o == SetCurrentConnection(s, l, appTx, c, hi, bad)
           IN  IF o.ok THEN SwitchDone(o.svc, o.links) ELSE SwitchFailed(o.svc, o.links)

\* A new connection is to be made to a host of the role.
Pick(s, l, role) ==
    /\ svc' = s /\ links' = l
    /\ call' = [call EXCEPT !.pc = "pick", !.want = role, !.list = s.view]
    /\ UNCHANGED <<appTx, claim, stmt, verdict>>

\* initializeReaderConnection: with a single host the writer serves the reads.
InitializeReader(s, l) ==
    LET H == GetHosts(s.view) IN
    IF Cardinality(H) # 1 THEN Pick(s, l, "reader")
    ELSE IF WritersOf(s.view) \cap H = {} THEN SwitchFailed(s, l)
    ELSE IF Usable(l, s.wConn) THEN SwitchDone(s, l)
    ELSE Pick(s, l, "writer")

\* IsHostInList: the cached reader is listed with the same role and availability.
ReaderListed(s) ==
    \E h \in GetHosts(s.view) : Info(s.view, h) = s.rHost

\* switchToReaderConnection: the cached reader is dropped when it is not listed,
\* reused when usable, replaced when the switch to it fails.
SwitchToReader(s) ==
    LET d == IF s.rHost # Nil /\ ~ReaderListed(s) THEN CloseIdle(s, links, s.rConn)
             ELSE [svc |-> s, links |-> links]
        t == [d.svc EXCEPT !.inSplit = TRUE]
    IN  IF ~Usable(d.links, t.rConn) THEN InitializeReader(t, d.links)
        ELSE IF t.conn = t.rConn THEN SwitchDone(t, d.links)
        ELSE \E bad \in ReplayFailures(t.ses) :
               LET o == SetCurrentConnection(t, d.links, appTx, t.rConn, t.rHost, bad)
               IN  IF o.ok THEN SwitchDone(o.svc, o.links)
                   ELSE InitializeReader([o.svc EXCEPT !.rConn = Nil, !.rHost = Nil],
                                         CloseLink(o.links, t.rConn))

\* switchToWriterConnection.
SwitchToWriter(s) ==
    LET t == [s EXCEPT !.inSplit = TRUE]
    IN  IF Usable(links, t.wConn) THEN SwitchTo(t, links, t.wConn, t.wHost)
        ELSE Pick(t, links, "writer")

\* switchConnectionIfRequired, after the host list was refreshed.
SwitchConnectionIfRequired ==
    /\ call.pc = "split"
    /\ IF IsClosed(links, svc.conn) THEN SwitchError(svc, links)
       ELSE \E s \in Refreshed(svc, stored) :
              LET stay == IF call.op.ro THEN s.inTx \/ s.host.role = "reader"
                          ELSE s.host.role = "writer"
              IN  CASE GetHosts(s.view) = {}                -> SwitchError(s, links)
                    [] GetHosts(s.view) # {} /\ stay        -> SwitchDone(s, links)
                    [] GetHosts(s.view) # {} /\ ~stay /\ call.op.ro -> SwitchToReader(s)
                    [] OTHER -> IF s.inTx THEN SwitchError(s, links) ELSE SwitchToWriter(s)
    /\ UNCHANGED <<others, marked, fo>>

-----------------------------------------------------------------------------
(* The connection attempts of the strategies *)

\* The hosts of the list the strategy may connect to for the role wanted.
Eligible ==
    LET H == GetHosts(call.list)
        R == {h \in H : /\ call.list.role[h] = "reader" /\ h \notin call.list.down
                        /\ RestrictReaderToHome => h \in Home}
        W == {h \in H : /\ call.list.role[h] = "writer"
                        /\ RestrictWriterToHome => h \in Home}
    IN  IF call.want = "reader" THEN R ELSE W

\* MUTANT of Attempts: the attempts are not limited.
NoLimit == 10 * Cardinality(Hosts)

Attempts == IF call.want = "reader" THEN 2 * Cardinality(GetHosts(call.list)) ELSE 1

\* GetWriterConnection, GetReaderConnection: the next attempt, or none left.
PickHost ==
    /\ call.pc = "pick"
    /\ IF call.tries >= Attempts \/ Eligible = {}
       THEN SwitchFailed(svc, links)
       ELSE /\ \E h \in Eligible :
                 call' = [call EXCEPT !.pc = "dial", !.host = Info(call.list, h),
                                      !.tries = @ + 1]
            /\ UNCHANGED <<svc, links, appTx, claim, stmt, verdict>>
    /\ UNCHANGED <<others, marked, fo>>

(***************************************************************************)
(* FailoverPlugin.Connect to host h on the way to step next: connected, or *)
(* failover because the host is marked UNAVAILABLE or does not answer.     *)
(***************************************************************************)
ConnectThroughFailover(h, next) ==
    \/ /\ h \in GetHosts(svc.view) \cap svc.view.down
       /\ svc' \in Refreshed(svc, stored)
       /\ fo' = [NoFailover EXCEPT !.pc = "failover"]
       /\ call' = [call EXCEPT !.pc = next, !.result = "none"]
       /\ UNCHANGED <<links, marked>>
    \/ /\ h \notin GetHosts(svc.view) \cap svc.view.down
       /\ h \in up
       /\ \E c \in Unused(InUse) :
            /\ CandidateConnected(c, h)
            /\ call' = [call EXCEPT !.pc = next, !.conn = c, !.result = "connected"]
       /\ UNCHANGED fo
    \/ /\ h \notin GetHosts(svc.view) \cap svc.view.down
       /\ h \notin up
       /\ svc' = SetAvailability(svc, {h}, FALSE)
       /\ marked' = marked \cup ({h} \cap Members(svc.view))
       /\ fo' = [NoFailover EXCEPT !.pc = "failover"]
       /\ call' = [call EXCEPT !.pc = next, !.result = "none",
                               !.list.down = IF call.list = svc.view THEN @ \cup {h} ELSE @]
       /\ UNCHANGED links

Dial ==
    /\ call.pc = "dial"
    /\ ConnectThroughFailover(call.host.host, "dialled")
    /\ UNCHANGED <<others, appTx, claim, stmt, verdict>>

\* The attempt is over: the connection is cached for the host that was asked for and
\* made current; after a failover it already is.
Dialled ==
    /\ call.pc = "dialled" /\ fo.pc = "off"
    /\ IF call.result \in {"connected", "switched"}
       THEN LET c == IF call.result = "connected" THEN call.conn ELSE svc.conn
            IN  SwitchTo(IF call.want = "writer"
                         THEN [svc EXCEPT !.wConn = c, !.wHost = call.host]
                         ELSE [svc EXCEPT !.rConn = c, !.rHost = call.host],
                         links, c, call.host)
       ELSE /\ call' = [call EXCEPT !.pc = "pick"]
            /\ UNCHANGED <<svc, links, appTx, claim, stmt, verdict>>
    /\ UNCHANGED <<others, marked, fo>>

SplittingNext == SwitchConnectionIfRequired \/ PickHost \/ Dial \/ Dialled

=============================================================================
