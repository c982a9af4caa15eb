----------------------- MODULE WrapperConnectionProofs -----------------------
(***************************************************************************)
(* Proofs for WrapperConnection, for any hosts, connections, settings,     *)
(* configurations and number of faults: its types, that it implements      *)
(* ConnectionContract, that it loses no connection, that idle connections  *)
(* hold no transaction, and that a failover carries the session over.      *)
(***************************************************************************)
EXTENDS WrapperConnection, FiniteSetTheorems, TLAPS

-----------------------------------------------------------------------------
(* The inductive invariant: what the program counters of the call and of   *)
(* the failover it runs say about the other variables.                     *)

ClusterKnown == up \subseteq cfg.members

CallKnown ==
    /\ call.pc \in {"split", "pick", "dial", "dialled", "exec"} => svc.conn # Nil
    /\ call.pc \in {"opened", "dialled"} /\ call.result = "connected" =>
         call.conn # Nil /\ fo.pc = "off"
    /\ call.pc = "opened" /\ call.result = "switched" => svc.conn # Nil
    /\ call.pc \in {"dial", "dialled"} => call.host \in HostInfos
    /\ call.pc \in {"pick", "dial", "dialled"} => svc.inSplit /\ ~svc.inTx

\* Before the first connection there is nothing to replay and no transaction.
OpenKnown ==
    /\ call.pc \in {"open", "opened"} => ~svc.inTx
    /\ call.pc = "open" \/ (call.pc = "opened" /\ fo.pc # "off") => svc.conn = Nil
    /\ svc.conn = Nil /\ call.pc # "over" => Recorded(svc.ses) = {} /\ ~svc.inTx
    /\ ~TransferSessionState => Recorded(svc.ses) = {}

FailoverKnown ==
    /\ fo.pc # "off" => call.pc \in {"exec", "opened", "dialled"}
    /\ fo.pc # "off" /\ call.pc = "exec" => svc.conn # Nil /\ IsClosed(links, svc.conn)
    /\ fo.pc \in {"writer", "set"} => fo.host \in HostInfos
    /\ IF fo.pc = "set" THEN fo.conn \notin {Nil, svc.conn} ELSE fo.conn = Nil
    /\ fo.pc = "try" => fo.left \subseteq Members(fo.list)

\* A transaction is open on the current connection, and the service knows it.
TxKnown == \A k \in Conns : links[k].tx => k = svc.conn /\ svc.inTx /\ links[k].st = "open"

\* The transaction the application counts on is the current connection's, and a
\* failover of it is known to be one.
ClaimKnown ==
    claim =>
        /\ appTx = svc.conn /\ svc.conn # Nil /\ svc.inTx
        /\ call.pc \in {"idle", "split", "exec"}
        /\ fo.pc # "off" => isInTransaction

\* Until the read/write splitting plugin preserves connections, an open one is the
\* current one or a local.
OpenOnes ==
    svc.inSplit \/ (call.pc = "over" /\ verdict = "error") \/
    \A k \in Conns : ~IsClosed(links, k) => k \in {svc.conn, call.conn, fo.conn}

LocalConn ==
    /\ call.pc \in {"idle", "open", "split", "exec", "over"} => call.conn = Nil
    /\ call.pc = "opened" /\ call.result # "connected" => call.conn = Nil

-----------------------------------------------------------------------------
(* The operators of the plugin service *)

LinkSets == [Conns -> Links]

\* Nothing is opened and no transaction begun.
Fewer(l, m) ==
    \A k \in Conns : /\ m[k].tx => l[k].tx /\ m[k].st = l[k].st
                     /\ ~IsClosed(m, k) => ~IsClosed(l, k)

\* Only the connection cache of the read/write splitting plugin differs.
SameButCache(s, t) ==
    /\ t.conn = s.conn /\ t.host = s.host /\ t.inTx = s.inTx /\ t.ses = s.ses /\ t.view = s.view
    /\ t.split = s.split /\ t.inSplit = s.inSplit

LEMMA NoLinkType == NoLink \in Links /\ NoLink.tx = FALSE /\ NoLink.st = "closed"
BY DEF NoLink, Links

LEMMA CloseLinkFacts ==
    ASSUME NEW l \in LinkSets, NEW c
    PROVE  /\ CloseLink(l, c) \in LinkSets
           /\ \A k \in Conns : CloseLink(l, c)[k] = IF k = c THEN NoLink ELSE l[k]
           /\ Fewer(l, CloseLink(l, c))
<1>1. CloseLink(l, c) \in LinkSets /\ \A k \in Conns : CloseLink(l, c)[k] = IF k = c THEN NoLink ELSE l[k]
  BY NoLinkType DEF CloseLink, LinkSets
<1>. QED  BY <1>1, NoLinkType DEF Fewer, IsClosed

LEMMA CloseIdleFacts ==
    ASSUME NEW s \in Services, NEW l \in LinkSets, NEW c
    PROVE  LET r == CloseIdle(s, l, c) IN
           /\ r.svc \in Services /\ SameButCache(s, r.svc)
           /\ r.links \in LinkSets /\ Fewer(l, r.links)
           /\ \A k \in Conns : k = s.conn => r.links[k] = l[k]
<1>. DEFINE r == CloseIdle(s, l, c)
<1>1. CASE c = Nil \/ c = s.conn
  <2>1. r.svc = s /\ r.links = l
    BY <1>1 DEF CloseIdle
  <2>. QED  BY <2>1 DEF SameButCache, Fewer
<1>2. CASE ~ (c = Nil \/ c = s.conn)
  <2>1. /\ r.links = CloseLink(l, c)
        /\ r.svc = IF c = s.rConn THEN [s EXCEPT !.rConn = Nil, !.rHost = Nil]
                   ELSE [s EXCEPT !.wConn = Nil, !.wHost = Nil]
    BY <1>2 DEF CloseIdle
  <2>2. r.svc \in Services /\ SameButCache(s, r.svc)
    BY <2>1 DEF Services, SameButCache
  <2>. QED  BY <1>2, <2>1, <2>2, CloseLinkFacts
<1>. QED  BY <1>1, <1>2

LEMMA CloseIdleConnectionsFacts ==
    ASSUME NEW s \in Services, NEW l \in LinkSets
    PROVE  LET r == CloseIdleConnections(s, l) IN
           /\ r.svc \in Services /\ SameButCache(s, r.svc)
           /\ r.links \in LinkSets /\ Fewer(l, r.links)
           /\ \A k \in Conns : k = s.conn => r.links[k] = l[k]
<1>. DEFINE r == CloseIdle(s, l, s.rConn)
            q == CloseIdle(r.svc, r.links, r.svc.wConn)
<1>1. /\ r.svc \in Services /\ SameButCache(s, r.svc) /\ r.links \in LinkSets /\ Fewer(l, r.links)
      /\ \A k \in Conns : k = s.conn => r.links[k] = l[k]
  BY CloseIdleFacts
<1>2. /\ q.svc \in Services /\ SameButCache(r.svc, q.svc) /\ q.links \in LinkSets /\ Fewer(r.links, q.links)
      /\ \A k \in Conns : k = r.svc.conn => q.links[k] = r.links[k]
  <2>. HIDE DEF r
  <2>. QED  BY <1>1, CloseIdleFacts
<1>3. CloseIdleConnections(s, l) = q
  BY DEF CloseIdleConnections
<1>. HIDE DEF r, q
<1>. QED  BY <1>1, <1>2, <1>3 DEF SameButCache, Fewer

LEMMA NotifyFacts ==
    ASSUME NEW s \in Services, NEW l \in LinkSets, NEW changed
    PROVE  LET r == NotifyConnectionChanged(s, l, changed) IN
           /\ r.svc \in Services /\ SameButCache(s, r.svc)
           /\ r.links \in LinkSets /\ Fewer(l, r.links)
           /\ \A k \in Conns : k = s.conn => r.links[k] = l[k]
<1>1. PICK t \in Services : t = CacheAs(s, s.conn, s.host) /\ SameButCache(s, t)
  <2>1. CacheAs(s, s.conn, s.host) \in Services /\ SameButCache(s, CacheAs(s, s.conn, s.host))
    BY DEF CacheAs, Services, SameButCache
  <2>. QED  BY <2>1
<1>2. PICK r : r = NotifyConnectionChanged(s, l, changed)
  OBVIOUS
<1>3. \/ r = [svc |-> s, links |-> l]
      \/ r = [svc |-> t, links |-> l]
      \/ r = CloseIdleConnections(t, l)
  BY <1>1, <1>2 DEF NotifyConnectionChanged
<1>4. /\ r.svc \in Services /\ SameButCache(s, r.svc)
      /\ r.links \in LinkSets /\ Fewer(l, r.links)
      /\ \A k \in Conns : k = s.conn => r.links[k] = l[k]
  <2>1. CASE r = CloseIdleConnections(t, l)
    BY <1>1, <2>1, CloseIdleConnectionsFacts DEF SameButCache
  <2>2. CASE r = [svc |-> s, links |-> l] \/ r = [svc |-> t, links |-> l]
    <3>1. (r.svc = s \/ r.svc = t) /\ r.links = l
      BY <2>2
    <3>. QED  BY <1>1, <3>1 DEF SameButCache, Fewer
  <2>. QED  BY <1>3, <2>1, <2>2
<1>. QED  BY <1>2, <1>4

\* Session and server settings after a replay.
LEMMA ReplayTypes ==
    ASSUME NEW ses \in Session, NEW bad, NEW set \in [FieldSet -> Values \cup {Nil}]
    PROVE  /\ ReplayedOnSession(ses, bad) \in Session
           /\ Recorded(ReplayedOnSession(ses, bad)) = Recorded(ses)
           /\ ReplayedOnServer(ses, set, bad) \in [FieldSet -> Values \cup {Nil}]
           /\ TransferSessionState => \A f \in Recorded(ses) : ReplayedOnServer(ses, set, Nil)[f] = ses[f].val
<1>1. \A f \in FieldSet : /\ ReplayedOnSession(ses, bad)[f] \in Field
                          /\ ReplayedOnSession(ses, bad)[f].val = ses[f].val
  BY DEF ReplayedOnSession, Session, Field
<1>2. ReplayedOnSession(ses, bad) \in Session
  BY <1>1 DEF ReplayedOnSession, Session
<1>3. ReplayedOnServer(ses, set, bad) \in [FieldSet -> Values \cup {Nil}]
  BY DEF ReplayedOnServer, Session, Field
<1>4. TransferSessionState => \A f \in Recorded(ses) : ReplayedOnServer(ses, set, Nil)[f] = ses[f].val
  BY DEF ReplayedOnServer, Recorded
<1>. QED  BY <1>1, <1>2, <1>3, <1>4 DEF Recorded

\* The settings of connection c are replaced.
LEMMA ReplayLinks ==
    ASSUME NEW l \in LinkSets, NEW c \in Conns, NEW ses \in Session, NEW bad,
           NEW m, m = [l EXCEPT ![c].set = ReplayedOnServer(ses, @, bad)]
    PROVE  /\ m \in LinkSets /\ Fewer(l, m)
           /\ \A k \in Conns : m[k].st = l[k].st
           /\ m[c].set = ReplayedOnServer(ses, l[c].set, bad)
<1>1. l[c].set \in [FieldSet -> Values \cup {Nil}]
  BY DEF LinkSets, Links
<1>2. PICK set \in [FieldSet -> Values \cup {Nil}] : set = ReplayedOnServer(ses, l[c].set, bad)
  BY <1>1, ReplayTypes
<1>3. m = [l EXCEPT ![c].set = set]
  BY <1>2
<1>4. m \in LinkSets /\ m[c].set = set
  <2>1. [l[c] EXCEPT !.set = set] \in Links /\ [l[c] EXCEPT !.set = set].set = set
    BY DEF LinkSets, Links
  <2>2. m = [l EXCEPT ![c] = [l[c] EXCEPT !.set = set]]
    BY <1>3
  <2>. QED  BY <2>1, <2>2 DEF LinkSets
<1>5. \A k \in Conns : m[k].st = l[k].st /\ m[k].tx = l[k].tx
  BY <1>3 DEF LinkSets, Links
<1>. QED  BY <1>2, <1>4, <1>5 DEF Fewer, IsClosed

LEMMA RollbackFacts ==
    ASSUME NEW l \in LinkSets, NEW c, NEW tx
    PROVE  /\ Rollback(l, c, tx) \in LinkSets /\ Fewer(l, Rollback(l, c, tx))
           /\ \A k \in Conns : /\ Rollback(l, c, tx)[k].set = l[k].set
                               /\ Rollback(l, c, tx)[k].st = l[k].st
<1>1. PICK r : r = IF tx # Nil THEN tx ELSE c
  OBVIOUS
<1>2. Rollback(l, c, tx) = IF l[r].st = "open" THEN [l EXCEPT ![r].tx = FALSE] ELSE l
  BY <1>1 DEF Rollback
<1>3. [l EXCEPT ![r].tx = FALSE] \in LinkSets
  BY DEF LinkSets, Links
<1>4. \A k \in Conns : /\ [l EXCEPT ![r].tx = FALSE][k].set = l[k].set
                       /\ [l EXCEPT ![r].tx = FALSE][k].st = l[k].st
                       /\ [l EXCEPT ![r].tx = FALSE][k].tx => l[k].tx
  BY DEF LinkSets, Links
<1>. QED  BY <1>2, <1>3, <1>4 DEF Fewer, IsClosed

LEMMA FewerTransitive ==
    ASSUME NEW l, NEW m, NEW n, Fewer(l, m), Fewer(m, n)
    PROVE  Fewer(l, n)
BY DEF Fewer

\* What SetCurrentConnection leaves: the new connection is current, no other one was
\* opened and no transaction begun; if it succeeds, the old one is closed unless it
\* is preserved, and the settings are those of the session.
SwitchedTo(s, l, c, o) ==
    /\ o.svc \in Services /\ o.links \in LinkSets /\ Fewer(l, o.links)
    /\ o.svc.conn = c /\ o.svc.view = s.view /\ o.svc.split = s.split /\ o.svc.inSplit = s.inSplit
    /\ o.svc.inTx => s.inTx
    /\ Recorded(o.svc.ses) \subseteq Recorded(s.ses)
    /\ o.ok /\ s.conn # c /\ s.conn \in Conns =>
         /\ (s.split /\ s.inSplit) \/ IsClosed(o.links, s.conn)
         /\ TransferSessionState => \A f \in Recorded(s.ses) : o.links[c].set[f] = s.ses[f].val

LEMMA AdoptFirstFacts ==
    ASSUME NEW s \in Services, NEW l \in LinkSets, NEW c \in Conns, NEW hi \in HostInfos \cup {Nil}, s.conn = Nil
    PROVE  SwitchedTo(s, l, c, AdoptFirst(s, l, c, hi)) /\ AdoptFirst(s, l, c, hi).ok
<1>0. NoSession \in Session /\ Recorded(NoSession) = {} /\ Nil \notin Conns
  BY ServiceAssumption DEF NoSession, Session, Field, Recorded
<1>1. PICK t : t = [s EXCEPT !.conn = c, !.host = hi, !.ses = NoSession]
  OBVIOUS
<1>2. /\ t \in Services /\ t.conn = c /\ t.view = s.view /\ t.split = s.split /\ t.inSplit = s.inSplit
      /\ t.inTx = s.inTx /\ t.ses = NoSession
  BY <1>0, <1>1 DEF Services
<1>3. PICK n : n = NotifyConnectionChanged(t, l, FALSE)
  OBVIOUS
<1>4. n.svc \in Services /\ SameButCache(t, n.svc) /\ n.links \in LinkSets /\ Fewer(l, n.links)
  BY <1>2, <1>3, NotifyFacts
<1>5. PICK o : o = AdoptFirst(s, l, c, hi)
  OBVIOUS
<1>6. o.svc = n.svc /\ o.links = n.links /\ o.ok
  BY <1>1, <1>3, <1>5 DEF AdoptFirst
<1>7. SwitchedTo(s, l, c, o)
  BY <1>0, <1>2, <1>4, <1>6 DEF SwitchedTo, SameButCache
<1>. QED  BY <1>5, <1>6, <1>7

LEMMA SwitchFailsFacts ==
    ASSUME NEW s \in Services, NEW l \in LinkSets, NEW c \in Conns, NEW hi \in HostInfos \cup {Nil}, NEW bad
    PROVE  SwitchedTo(s, l, c, SwitchFails(s, l, c, hi, bad)) /\ ~ SwitchFails(s, l, c, hi, bad).ok
<1>0. s.ses \in Session
  BY DEF Services
<1>1. PICK ses \in Session : ses = ReplayedOnSession(s.ses, bad) /\ Recorded(ses) = Recorded(s.ses)
  <2>1. \E set : set \in [FieldSet -> Values \cup {Nil}]
    <3>1. [f \in FieldSet |-> Nil] \in [FieldSet -> Values \cup {Nil}]
      OBVIOUS
    <3>. QED  BY <3>1
  <2>. QED  BY <1>0, <2>1, ReplayTypes
<1>2. PICK m : m = [l EXCEPT ![c].set = ReplayedOnServer(s.ses, @, bad)]
  OBVIOUS
<1>3. m \in LinkSets /\ Fewer(l, m)
  BY <1>0, <1>2, ReplayLinks
<1>4. PICK o : o = SwitchFails(s, l, c, hi, bad)
  OBVIOUS
<1>5. o.svc = [s EXCEPT !.conn = c, !.host = hi, !.ses = ses] /\ o.links = m /\ ~ o.ok
  BY <1>1, <1>2, <1>4 DEF SwitchFails
<1>6. /\ o.svc \in Services /\ o.svc.conn = c /\ o.svc.view = s.view /\ o.svc.split = s.split
      /\ o.svc.inSplit = s.inSplit /\ o.svc.inTx = s.inTx /\ o.svc.ses = ses
  BY <1>5 DEF Services
<1>7. SwitchedTo(s, l, c, o)
  BY <1>1, <1>3, <1>5, <1>6 DEF SwitchedTo
<1>. QED  BY <1>4, <1>5, <1>7

LEMMA SwitchSucceedsFacts ==
    ASSUME NEW s \in Services, NEW l \in LinkSets, NEW tx, NEW c \in Conns, NEW hi \in HostInfos \cup {Nil},
           s.conn # Nil
    PROVE  SwitchedTo(s, l, c, SwitchSucceeds(s, l, tx, c, hi)) /\ SwitchSucceeds(s, l, tx, c, hi).ok
<1>0. s.ses \in Session /\ l[c].set \in [FieldSet -> Values \cup {Nil}] /\ s.conn \in Conns
  BY DEF Services, LinkSets, Links
<1>1. PICK ses \in Session : ses = ReplayedOnSession(s.ses, Nil) /\ Recorded(ses) = Recorded(s.ses)
  BY <1>0, ReplayTypes
<1>2. PICK l1 : l1 = [l EXCEPT ![c].set = ReplayedOnServer(s.ses, @, Nil)]
  OBVIOUS
<1>3. /\ l1 \in LinkSets /\ Fewer(l, l1)
      /\ TransferSessionState => \A f \in Recorded(s.ses) : l1[c].set[f] = s.ses[f].val
  <2>1. l1 \in LinkSets /\ Fewer(l, l1) /\ l1[c].set = ReplayedOnServer(s.ses, l[c].set, Nil)
    <3>1. PICK bad : bad = Nil
      OBVIOUS
    <3>2. l1 = [l EXCEPT ![c].set = ReplayedOnServer(s.ses, @, bad)]
      BY <1>2, <3>1
    <3>3. s.ses \in Session
      BY <1>0
    <3>4. l1 \in LinkSets /\ Fewer(l, l1)
      BY <3>2, <3>3, ReplayLinks
    <3>5. l1[c].set = ReplayedOnServer(s.ses, l[c].set, bad)
      <4>1. PICK set : set = ReplayedOnServer(s.ses, l[c].set, bad)
        OBVIOUS
      <4>2. l1 = [l EXCEPT ![c] = [l[c] EXCEPT !.set = set]]
        BY <3>2, <4>1
      <4>3. [l[c] EXCEPT !.set = set].set = set
        BY DEF LinkSets, Links
      <4>. QED  BY <4>1, <4>2, <4>3 DEF LinkSets
    <3>. QED  BY <3>1, <3>4, <3>5
  <2>. QED  BY <1>0, <2>1, ReplayTypes
<1>4. PICK l2 : l2 = IF s.inTx /\ RollbackOnSwitch THEN Rollback(l1, s.conn, tx) ELSE l1
  OBVIOUS
<1>5. l2 \in LinkSets /\ Fewer(l, l2) /\ l2[c].set = l1[c].set
  BY <1>3, <1>4, RollbackFacts, FewerTransitive
<1>6. PICK t : t = [s EXCEPT !.conn = c, !.host = hi, !.inTx = FALSE, !.ses = ses]
  OBVIOUS
<1>7. /\ t \in Services /\ t.conn = c /\ t.view = s.view /\ t.split = s.split /\ t.inSplit = s.inSplit
      /\ ~ t.inTx /\ t.ses = ses
  BY <1>6 DEF Services
<1>8. PICK n : n = NotifyConnectionChanged(t, l2, c # s.conn)
  OBVIOUS
<1>9. /\ n.svc \in Services /\ SameButCache(t, n.svc) /\ n.links \in LinkSets /\ Fewer(l2, n.links)
      /\ n.links[c] = l2[c]
  BY <1>5, <1>7, <1>8, NotifyFacts
<1>10. PICK o : o = SwitchSucceeds(s, l, tx, c, hi)
  OBVIOUS
<1>11. /\ o.svc = n.svc /\ o.ok
       /\ o.links = IF c # s.conn /\ ~IsClosed(n.links, s.conn) /\ ~(s.split /\ s.inSplit)
                    THEN CloseLink(n.links, s.conn) ELSE n.links
  BY <1>1, <1>2, <1>4, <1>6, <1>8, <1>10 DEF SwitchSucceeds
<1>12. o.links \in LinkSets /\ Fewer(n.links, o.links) /\ (s.conn # c => o.links[c] = n.links[c])
  <2>1. Fewer(n.links, n.links)
    BY DEF Fewer
  <2>. QED  BY <1>9, <1>11, <2>1, CloseLinkFacts
<1>13. Fewer(l, o.links)
  BY <1>5, <1>9, <1>12, FewerTransitive
<1>14. s.conn # c => (s.split /\ s.inSplit) \/ IsClosed(o.links, s.conn)
  <2>1. IsClosed(CloseLink(n.links, s.conn), s.conn)
    BY <1>0, <1>9, CloseLinkFacts, NoLinkType DEF IsClosed
  <2>. QED  BY <1>11, <2>1
<1>15. SwitchedTo(s, l, c, o)
  BY <1>1, <1>3, <1>5, <1>7, <1>9, <1>11, <1>12, <1>13, <1>14 DEF SwitchedTo, SameButCache
<1>. QED  BY <1>10, <1>11, <1>15

LEMMA SetCurrentConnectionFacts ==
    ASSUME NEW s \in Services, NEW l \in LinkSets, NEW tx, NEW c \in Conns, NEW hi \in HostInfos \cup {Nil}, NEW bad
    PROVE  /\ SwitchedTo(s, l, c, SetCurrentConnection(s, l, tx, c, hi, bad))
           /\ bad = Nil \/ s.conn = Nil => SetCurrentConnection(s, l, tx, c, hi, bad).ok
<1>. PICK o : o = SetCurrentConnection(s, l, tx, c, hi, bad)
  OBVIOUS
<1>1. CASE s.conn = Nil
  <2>1. s.conn # c
    BY <1>1, ServiceAssumption
  <2>2. o = AdoptFirst(s, l, c, hi)
    BY <1>1, <2>1 DEF SetCurrentConnection
  <2>. QED  BY <1>1, <2>2, AdoptFirstFacts
<1>2. CASE s.conn = c /\ s.host = hi
  <2>1. s.conn # Nil
    BY <1>2, ServiceAssumption
  <2>2. SetCurrentConnection(s, l, tx, c, hi, bad) = [svc |-> s, links |-> l, ok |-> TRUE]
    BY <1>2, <2>1 DEF SetCurrentConnection
  <2>3. o.svc = s /\ o.links = l /\ o.ok
    BY <2>2
  <2>. QED  BY <1>2, <2>3 DEF SwitchedTo, Fewer
<1>3. CASE s.conn # Nil /\ ~ (s.conn = c /\ s.host = hi) /\ bad = Nil
  <2>1. o = SwitchSucceeds(s, l, tx, c, hi)
    BY <1>3 DEF SetCurrentConnection
  <2>2. SwitchedTo(s, l, c, o) /\ o.ok
    BY <1>3, <2>1, SwitchSucceedsFacts
  <2>. QED  BY <2>2
<1>4. CASE s.conn # Nil /\ ~ (s.conn = c /\ s.host = hi) /\ bad # Nil
  <2>1. o = SwitchFails(s, l, c, hi, bad)
    BY <1>4 DEF SetCurrentConnection
  <2>2. SwitchedTo(s, l, c, o) /\ ~ o.ok
    BY <2>1, SwitchFailsFacts
  <2>. QED  BY <1>4, <2>2
<1>. QED  BY <1>1, <1>2, <1>3, <1>4

-----------------------------------------------------------------------------
(* Types of the host lists and of what refreshes them *)

\* Only the host list and the connection cache differ.
SameButView(s, t) ==
    /\ t.conn = s.conn /\ t.host = s.host /\ t.inTx = s.inTx /\ t.ses = s.ses
    /\ t.split = s.split /\ t.inSplit = s.inSplit

LEMMA ListTypes ==
    ASSUME NEW v \in HostLists
    PROVE  /\ Members(v) \subseteq Hosts /\ GetHosts(v) \subseteq Hosts
           /\ \A h \in Members(v) : v.role[h] \in {"writer", "reader"} /\ Info(v, h) \in HostInfos
           /\ \A D \in SUBSET Hosts : /\ [v EXCEPT !.down = D] \in HostLists
                                      /\ Members([v EXCEPT !.down = D]) = Members(v)
<1>1. PICK H \in SUBSET Hosts : v.role \in [H -> {"writer", "reader"}]
  BY DEF HostLists
<1>2. Members(v) = H
  BY <1>1 DEF Members
<1>3. \A h \in H : v.role[h] \in {"writer", "reader"} /\ Info(v, h) \in HostInfos
  BY <1>1 DEF Info, HostInfos, Roles
<1>4. \A D \in SUBSET Hosts : [v EXCEPT !.down = D] \in HostLists /\ [v EXCEPT !.down = D].role = v.role
  BY DEF HostLists
<1>. QED  BY <1>1, <1>2, <1>3, <1>4 DEF GetHosts, Members

LEMMA NewView ==
    ASSUME NEW s \in Services, NEW v \in HostLists
    PROVE  /\ [s EXCEPT !.view = v] \in Services /\ SameButView(s, [s EXCEPT !.view = v])
           /\ [s EXCEPT !.view = v].view = v
BY DEF Services, SameButView

LEMMA SetAvailabilityFacts ==
    ASSUME NEW s \in Services, NEW H, NEW b \in BOOLEAN
    PROVE  SetAvailability(s, H, b) \in Services /\ SameButView(s, SetAvailability(s, H, b))
<1>1. s.view \in HostLists /\ s.view.down \in SUBSET Hosts
  BY DEF Services, HostLists
<1>2. PICK D : D = IF b THEN s.view.down \ H ELSE s.view.down \cup (H \cap Members(s.view))
  OBVIOUS
<1>3. D \in SUBSET Hosts
  BY <1>1, <1>2, ListTypes
<1>4. SetAvailability(s, H, b) = [s EXCEPT !.view = [s.view EXCEPT !.down = D]]
  BY <1>2 DEF SetAvailability, Services
<1>. QED  BY <1>1, <1>3, <1>4, ListTypes, NewView

LEMMA RefreshedFacts ==
    ASSUME NEW s \in Services, NEW v \in HostLists, NEW t \in Refreshed(s, v)
    PROVE  t \in Services /\ SameButView(s, t)
<1>1. CASE Members(v) = {}
  BY <1>1 DEF Refreshed, SameButView
<1>2. CASE Members(v) # {}
  <2>1. PICK D : /\ D \in {v.down, v.down \cup (s.view.down \cap Members(v))}
                 /\ t = [s EXCEPT !.view = [v EXCEPT !.down = D]]
    BY <1>2 DEF Refreshed
  <2>2. D \in SUBSET Hosts
    BY <2>1, ListTypes DEF HostLists
  <2>. QED  BY <2>1, <2>2, ListTypes, NewView
<1>. QED  BY <1>1, <1>2

LEMMA ForceRefreshedFacts ==
    ASSUME NEW s \in Services, NEW v \in HostLists, NEW m \in SUBSET Hosts
    PROVE  /\ ForceRefreshed(s, v, m) \in Services /\ SameButView(s, ForceRefreshed(s, v, m))
           /\ ForceRefreshed(s, v, m).view \in HostLists
           /\ Members(ForceRefreshed(s, v, m).view) = Members(v)
<1>1. PICK D \in SUBSET Hosts : D = m \cap Members(v)
  BY ListTypes
<1>2. ForceRefreshed(s, v, m) = [s EXCEPT !.view = [v EXCEPT !.down = D]]
  BY <1>1 DEF ForceRefreshed
<1>. QED  BY <1>1, <1>2, ListTypes, NewView

LEMMA TrueTopologyType ==
    ASSUME TypeOK
    PROVE  TrueTopology \in HostLists /\ Members(TrueTopology) = cfg.members
<1>1. cfg.members \in SUBSET Hosts
  BY FailoverAssumption DEF TypeOK
<1>2. Roles2(writer, cfg.members) \in [cfg.members -> {"writer", "reader"}]
  BY DEF Roles2
<1>3. TrueTopology.role = Roles2(writer, cfg.members) /\ TrueTopology.down = {}
  BY DEF TrueTopology
<1>4. TrueTopology \in HostLists
  BY <1>1, <1>2 DEF TrueTopology, HostLists
<1>. QED  BY <1>2, <1>3, <1>4 DEF Members

LEMMA InitialValues ==
    /\ NoList \in HostLists /\ NoLink \in Links /\ NoSession \in Session
    /\ Recorded(NoSession) = {}
<1>1. [h \in {} |-> "reader"] \in [{} -> {"writer", "reader"}] /\ {} \in SUBSET Hosts
  OBVIOUS
<1>2. NoList \in HostLists
  BY <1>1 DEF NoList, HostLists
<1>3. NoSession \in Session /\ Recorded(NoSession) = {}
  BY DEF NoSession, Session, Field, Recorded
<1>. QED  BY <1>2, <1>3, NoLinkType

LEMMA IdleType ==
    /\ Idle \in Calls /\ Over \in Calls /\ NoFailover \in Failovers
    /\ \A p \in {"idle", "open", "split", "exec"} : \A o \in Ops \cup {NoOp} : \A c \in Conns \cup {Nil} :
         [Idle EXCEPT !.pc = p, !.op = o, !.start = c] \in Calls
    /\ [Idle EXCEPT !.pc = "open"] \in Calls
    /\ [NoFailover EXCEPT !.pc = "failover"] \in Failovers
<1>0. 0 \in 0 .. 2 * Cardinality(Hosts)
  <2>1. Cardinality(Hosts) \in Nat
    BY ServiceAssumption, FS_CardinalityType
  <2>. QED  BY <2>1
<1>1. Idle \in Calls
  BY <1>0, InitialValues DEF Idle, Calls, Roles
<1>2. NoFailover \in Failovers
  BY InitialValues DEF NoFailover, Failovers, Roles
<1>3. Over \in Calls /\ [Idle EXCEPT !.pc = "open"] \in Calls
  BY <1>1 DEF Over, Calls
<1>4. \A p \in {"idle", "open", "split", "exec"} : \A o \in Ops \cup {NoOp} : \A c \in Conns \cup {Nil} :
         [Idle EXCEPT !.pc = p, !.op = o, !.start = c] \in Calls
  BY <1>1 DEF Calls
<1>5. [NoFailover EXCEPT !.pc = "failover"] \in Failovers
  BY <1>2 DEF Failovers
<1>. QED  BY <1>1, <1>2, <1>3, <1>4, <1>5

\* The set of calls depends on the configuration, which never changes.
LEMMA CallsConstant ==
    ASSUME cfg' = cfg
    PROVE  Calls' = Calls /\ Ops' = Ops
<1>1. Ops' = Ops
  BY DEF Ops
<1>. QED  BY <1>1 DEF Calls

-----------------------------------------------------------------------------
(* What every step keeps *)

Inv ==
    /\ TypeOK /\ ClusterKnown /\ CallKnown /\ OpenKnown /\ FailoverKnown
    /\ TxKnown /\ ClaimKnown /\ OpenOnes /\ LocalConn

\* What a step may do to the session and to the transaction the application counts on.
Promised ==
    /\ claim => \/ claim' /\ appTx' = appTx /\ svc'.conn = svc.conn
                \/ ~claim' /\ (svc'.conn \in {svc.conn, Nil} \/ verdict' \in Told)
    /\ ~claim /\ claim' => appTx' = svc'.conn /\ verdict' = "ok"

Kept == Inv' /\ Promised

LEMMA Start == Init => Inv
<1>. SUFFICES ASSUME Init PROVE Inv
  OBVIOUS
<1>0. cfg.members \in SUBSET Hosts /\ cfg.split \in BOOLEAN /\ writer \in Hosts
  BY FailoverAssumption, WrapperAssumption DEF Init
<1>1. TrueTopology \in HostLists
  <2>1. Roles2(writer, cfg.members) \in [cfg.members -> {"writer", "reader"}]
    BY DEF Roles2
  <2>. QED  BY <1>0, <2>1 DEF TrueTopology, HostLists
<1>2. svc \in Services /\ svc.conn = Nil /\ ~ svc.inTx /\ svc.ses = NoSession
  BY <1>0, <1>1, InitialValues DEF Init, NewService, Services
<1>3. links \in [Conns -> Links] /\ \A k \in Conns : links[k].st = "closed" /\ ~ links[k].tx
  BY InitialValues, NoLinkType DEF Init
<1>4. TypeOK
  <2>1. up \subseteq Hosts /\ faults \in 0 .. MaxFaults /\ stored \in HostLists /\ cfg \in Configs
    BY <1>0, <1>1, WrapperAssumption DEF Init
  <2>2. fo \in Failovers /\ call \in Calls
    BY IdleType DEF Init
  <2>3. /\ marked \subseteq Hosts /\ isInTransaction \in BOOLEAN /\ appTx \in Conns \cup {Nil}
        /\ claim \in BOOLEAN /\ stmt \in Conns \cup {Nil} /\ verdict \in Verdicts
    BY DEF Init, Verdicts
  <2>. QED  BY <1>0, <1>2, <1>3, <2>1, <2>2, <2>3 DEF TypeOK
<1>5. call.pc = "idle" /\ call.conn = Nil /\ fo.pc = "off" /\ fo.conn = Nil
  BY DEF Init, Idle, NoFailover
<1>6. ClusterKnown /\ CallKnown /\ OpenKnown /\ FailoverKnown
  BY <1>0, <1>2, <1>5, InitialValues DEF Init, ClusterKnown, CallKnown, OpenKnown, FailoverKnown
<1>7. TxKnown /\ ClaimKnown /\ OpenOnes /\ LocalConn
  BY <1>3, <1>5 DEF Init, TxKnown, ClaimKnown, OpenOnes, LocalConn, IsClosed
<1>. QED  BY <1>4, <1>6, <1>7 DEF Inv

\* A failover goes on to look for a candidate.
LEMMA Searching ==
    ASSUME Inv, fo.pc \notin {"off", "set"},
           fo' \in Failovers, fo'.pc \notin {"off", "set"}, fo'.conn = Nil,
           fo'.pc = "writer" => fo'.host \in HostInfos,
           fo'.pc = "try" => fo'.left \subseteq Members(fo'.list),
           svc' \in Services, SameButView(svc, svc'), marked' \subseteq Hosts, stored' \in HostLists,
           UNCHANGED <<up, writer, faults, cfg, links, isInTransaction, app>>
    PROVE  Kept
<1>. USE DEF Inv, app
<1>1. TypeOK'
  BY CallsConstant DEF TypeOK
<1>2. ClusterKnown' /\ CallKnown' /\ LocalConn'
  BY DEF ClusterKnown, CallKnown, LocalConn, SameButView
<1>3. OpenKnown'
  BY DEF OpenKnown, SameButView
<1>4. FailoverKnown'
  BY DEF FailoverKnown, SameButView, IsClosed
<1>5. TxKnown' /\ ClaimKnown'
  BY DEF TxKnown, ClaimKnown, SameButView
<1>6. OpenOnes'
  BY DEF OpenOnes, SameButView, IsClosed, FailoverKnown
<1>7. Promised
  BY DEF Promised, SameButView
<1>. QED  BY <1>1, <1>2, <1>3, <1>4, <1>5, <1>6, <1>7 DEF Kept

\* A failover fails.
LEMMA Failing ==
    ASSUME Inv, fo.pc \notin {"off", "set"}, FailoverFails,
           svc' \in Services, SameButView(svc, svc'), marked' \subseteq Hosts, stored' \in HostLists,
           UNCHANGED <<up, writer, faults, cfg, links, isInTransaction>>
    PROVE  Kept
<1>. USE DEF Inv
<1>0. /\ fo' = NoFailover /\ fo'.pc = "off" /\ fo'.conn = Nil /\ fo.conn = Nil
      /\ call.pc \in {"exec", "opened", "dialled"}
  BY DEF FailoverFails, FailoverReturns, NoFailover, FailoverKnown
<1>1. CASE call.pc = "exec"
  <2>1. /\ call' = Idle /\ verdict' = "failed" /\ ~ claim' /\ stmt' = stmt
        /\ appTx' = Nil \/ appTx' = appTx
    BY <1>1 DEF FailoverFails, FailoverReturns, Finish, Told
  <2>2. call'.pc = "idle" /\ call'.conn = Nil
    BY <2>1 DEF Idle
  <2>3. claim' \in BOOLEAN
    BY <1>1 DEF FailoverFails, FailoverReturns, Finish
  <2>4. TypeOK'
    BY <1>0, <2>1, <2>3, CallsConstant, IdleType DEF TypeOK, Verdicts
  <2>5. ClusterKnown' /\ CallKnown' /\ LocalConn'
    BY <2>2 DEF ClusterKnown, CallKnown, LocalConn
  <2>6. OpenKnown' /\ FailoverKnown'
    BY <1>0, <1>1, <2>2 DEF OpenKnown, FailoverKnown, SameButView, CallKnown
  <2>7. TxKnown' /\ ClaimKnown'
    BY <2>1 DEF TxKnown, ClaimKnown, SameButView
  <2>8. OpenOnes'
    BY <1>0, <1>1, <2>2 DEF OpenOnes, SameButView, IsClosed, LocalConn
  <2>9. Promised
    BY <2>1 DEF Promised, SameButView
  <2>. QED  BY <2>4, <2>5, <2>6, <2>7, <2>8, <2>9 DEF Kept
<1>2. CASE call.pc \in {"opened", "dialled"}
  <2>1. call' = [call EXCEPT !.result = "failed"] /\ UNCHANGED <<appTx, claim, stmt, verdict>>
    BY <1>2 DEF FailoverFails, FailoverReturns
  <2>2. /\ call' \in Calls /\ call'.pc = call.pc /\ call'.conn = call.conn /\ call'.host = call.host
        /\ call'.result = "failed"
    BY <2>1 DEF TypeOK, Calls
  <2>4. TypeOK'
    BY <1>0, <2>1, <2>2, CallsConstant, IdleType DEF TypeOK, Verdicts
  <2>5. ClusterKnown' /\ CallKnown' /\ LocalConn'
    BY <1>0, <1>2, <2>2 DEF ClusterKnown, CallKnown, LocalConn, SameButView
  <2>6. OpenKnown' /\ FailoverKnown'
    BY <1>0, <1>2, <2>2 DEF OpenKnown, FailoverKnown, SameButView, CallKnown
  <2>7. TxKnown' /\ ClaimKnown'
    BY <1>0, <1>2, <2>1 DEF TxKnown, ClaimKnown, SameButView
  <2>8. OpenOnes'
    BY <1>0, <1>2, <2>1, <2>2 DEF OpenOnes, SameButView, IsClosed, LocalConn
  <2>9. Promised
    BY <2>1 DEF Promised, SameButView
  <2>. QED  BY <2>4, <2>5, <2>6, <2>7, <2>8, <2>9 DEF Kept
<1>. QED  BY <1>0, <1>1, <1>2

\* A candidate is connected on an identity nothing refers to.
LEMMA UnusedFacts ==
    ASSUME NEW used, NEW c \in Unused(used)
    PROVE  c \in Conns /\ IsClosed(links, c) /\ c \notin used
<1>1. PICK free : free = {d \in Conns : IsClosed(links, d) /\ d \notin used}
  OBVIOUS
<1>2. free # {} /\ c = CHOOSE d \in free : TRUE
  BY <1>1 DEF Unused
<1>3. c \in free
  BY <1>2
<1>. QED  BY <1>1, <1>3

LEMMA OpenedFacts ==
    ASSUME NEW l \in LinkSets, NEW c \in Conns, NEW h \in Hosts
    PROVE  /\ Opened(l, c, h) \in LinkSets
           /\ \A k \in Conns : k # c => Opened(l, c, h)[k] = l[k]
           /\ ~ Opened(l, c, h)[c].tx
<1>1. PICK n : n = [NoLink EXCEPT !.st = "open", !.at = h]
  OBVIOUS
<1>2. n \in Links /\ ~ n.tx
  BY <1>1, NoLinkType DEF Links
<1>3. Opened(l, c, h) = [l EXCEPT ![c] = n]
  BY <1>1 DEF Opened
<1>. QED  BY <1>2, <1>3 DEF LinkSets

LEMMA CandidateFound ==
    ASSUME Inv, fo.pc \notin {"off", "set"}, NEW c \in Unused(InUse), NEW h \in Hosts,
           CandidateConnected(c, h),
           fo' \in Failovers, fo'.pc = "set", fo'.conn = c, fo'.host \in HostInfos,
           UNCHANGED <<cluster, cfg, isInTransaction, app>>
    PROVE  Kept
<1>. USE DEF Inv
<1>0. /\ c \in Conns /\ IsClosed(links, c) /\ c # svc.conn /\ c # call.conn /\ c # Nil
      /\ fo.conn = Nil /\ svc \in Services /\ links \in LinkSets
  BY UnusedFacts, ServiceAssumption DEF InUse, FailoverKnown, TypeOK, LinkSets
<1>1. links' \in LinkSets /\ ~ links'[c].tx /\ \A k \in Conns : k # c => links'[k] = links[k]
  BY <1>0, OpenedFacts DEF CandidateConnected
<1>2. svc' \in Services /\ SameButView(svc, svc') /\ marked' \subseteq Hosts
  <2>1. svc' = SetAvailability(svc, {h}, TRUE) /\ marked' = marked \ {h}
    BY DEF CandidateConnected, MarkUp
  <2>. QED  BY <1>0, <2>1, SetAvailabilityFacts DEF TypeOK
<1>3. UNCHANGED <<up, writer, stored, faults, call, appTx, claim, stmt, verdict>>
  BY DEF cluster, app
<1>4. TypeOK'
  BY <1>1, <1>2, <1>3, CallsConstant DEF TypeOK, LinkSets
<1>5. ClusterKnown' /\ CallKnown' /\ LocalConn' /\ OpenKnown'
  BY <1>2, <1>3 DEF ClusterKnown, CallKnown, LocalConn, OpenKnown, SameButView
<1>6. FailoverKnown'
  <2>1. call.pc = "exec" => svc.conn \in Conns /\ links'[svc.conn] = links[svc.conn]
    BY <1>0, <1>1 DEF FailoverKnown, Services
  <2>. QED  BY <1>0, <1>2, <1>3, <2>1 DEF FailoverKnown, SameButView, IsClosed
<1>7. TxKnown' /\ ClaimKnown'
  BY <1>0, <1>1, <1>2, <1>3 DEF TxKnown, ClaimKnown, SameButView
<1>8. OpenOnes'
  <2>1. \A k \in Conns : k # c => IsClosed(links', k) = IsClosed(links, k) /\ k # fo.conn
    BY <1>0, <1>1, ServiceAssumption DEF IsClosed
  <2>2. svc'.inSplit = svc.inSplit /\ svc'.conn = svc.conn
    BY <1>2 DEF SameButView
  <2>3. \/ svc.inSplit \/ (call.pc = "over" /\ verdict = "error")
        \/ \A k \in Conns : ~IsClosed(links', k) => k \in {svc.conn, call.conn, c}
    BY <2>1 DEF OpenOnes
  <2>. QED  BY <1>3, <2>2, <2>3 DEF OpenOnes
<1>9. Promised
  BY <1>2, <1>3 DEF Promised, SameButView
<1>. QED  BY <1>4, <1>5, <1>6, <1>7, <1>8, <1>9 DEF Kept

\* A candidate of the wrong role leaves its mark on the host list only.
LEMMA RejectFacts ==
    ASSUME TypeOK, NEW h, RejectCandidate(h)
    PROVE  svc' \in Services /\ SameButView(svc, svc') /\ marked' \subseteq Hosts /\ links' = links
<1>1. svc' = SetAvailability(svc, {h}, TRUE) /\ marked' = marked \ {h} /\ links' = links
  BY DEF RejectCandidate, MarkUp
<1>. QED  BY <1>1, SetAvailabilityFacts DEF TypeOK

LEMMA JudgeReaderStep ==
    ASSUME Inv, fo.pc \in {"readers", "origWriter", "try"},
           NEW h \in Hosts, NEW r \in Roles, NEW accept, JudgeReader(h, r, accept),
           UNCHANGED <<cluster, cfg, isInTransaction, app>>
    PROVE  Kept
<1>. USE DEF Inv
<1>0. fo \in Failovers /\ fo.conn = Nil
  BY DEF TypeOK, FailoverKnown
<1>1. CASE \E c \in Unused(InUse) :
            /\ CandidateConnected(c, h)
            /\ fo' = [fo EXCEPT !.pc = "set", !.conn = c,
                                    !.host = [host |-> h, role |-> r, avail |-> TRUE]]
  <2>1. PICK c \in Unused(InUse) : /\ CandidateConnected(c, h)
                                   /\ fo' = [fo EXCEPT !.pc = "set", !.conn = c,
                                        !.host = [host |-> h, role |-> r, avail |-> TRUE]]
    BY <1>1
  <2>2. PICK hi \in HostInfos : hi = [host |-> h, role |-> r, avail |-> TRUE]
    BY DEF HostInfos
  <2>3. c \in Conns
    BY UnusedFacts
  <2>4. fo' \in Failovers /\ fo'.pc = "set" /\ fo'.conn = c /\ fo'.host = hi
    BY <1>0, <2>1, <2>2, <2>3 DEF Failovers
  <2>. QED  BY <2>1, <2>2, <2>4, CandidateFound
<1>2. CASE /\ RejectCandidate(h)
           /\ fo' = IF h = fo.origW /\ fo.pc = "origWriter"
                  THEN [fo EXCEPT !.stillW = @ \/ r = "writer", !.pc = "again"]
                  ELSE [fo EXCEPT !.left = @ \ {h},
                                    !.readers = IF r = "writer" THEN @ \ {h} ELSE @,
                                    !.stillW = @ /\ r # "writer"]
  <2>1. svc' \in Services /\ SameButView(svc, svc') /\ marked' \subseteq Hosts /\ links' = links
    BY <1>2, RejectFacts
  <2>2. /\ fo' \in Failovers /\ fo'.conn = Nil /\ fo'.pc \in {fo.pc, "again"}
        /\ fo'.list = fo.list /\ fo'.left \subseteq fo.left
    BY <1>0, <1>2 DEF Failovers
  <2>3. fo'.pc = "try" => fo'.left \subseteq Members(fo'.list)
    BY <2>2 DEF FailoverKnown
  <2>. QED  BY <2>1, <2>2, <2>3, Searching DEF cluster, app, TypeOK
<1>. QED  BY <1>1, <1>2 DEF JudgeReader

-----------------------------------------------------------------------------
(* The steps of a failover *)

LEMMA SetCandidateStep ==
    ASSUME Inv, SetCandidate
    PROVE  Kept
<1>. USE DEF Inv
<1>1. PICK bad : LET hi == [host |-> fo.host.host, role |-> fo.host.role, avail |-> TRUE]
                     o  == SetCurrentConnection(svc, links, appTx, fo.conn, hi, bad)
                 IN  /\ svc' = IF o.ok THEN [o.svc EXCEPT !.inTx = FALSE] ELSE o.svc
                     /\ links' = IF ~o.ok /\ fo.role = "writer"
                                 THEN CloseLink(o.links, fo.conn) ELSE o.links
                     /\ FailoverReturns(IF o.ok THEN SuccessError(o.svc) ELSE TransferError)
  BY DEF SetCandidate
<1>2. PICK hi : hi = [host |-> fo.host.host, role |-> fo.host.role, avail |-> TRUE]
  OBVIOUS
<1>3. hi \in HostInfos
  BY <1>2 DEF SetCandidate, FailoverKnown, HostInfos
<1>4. PICK o : o = SetCurrentConnection(svc, links, appTx, fo.conn, hi, bad)
  OBVIOUS
<1>5. PICK v : v = IF o.ok THEN SuccessError(o.svc) ELSE TransferError
  OBVIOUS
<1>6. /\ svc' = IF o.ok THEN [o.svc EXCEPT !.inTx = FALSE] ELSE o.svc
      /\ links' = IF ~o.ok /\ fo.role = "writer" THEN CloseLink(o.links, fo.conn) ELSE o.links
      /\ FailoverReturns(v)
  BY <1>1, <1>2, <1>4, <1>5
<1>7. /\ fo.conn \in Conns /\ fo.conn # svc.conn /\ svc \in Services /\ links \in LinkSets
      /\ call.pc \in {"exec", "opened", "dialled"} /\ Nil \notin Conns
  BY ServiceAssumption DEF SetCandidate, FailoverKnown, TypeOK, LinkSets, Failovers
<1>8. SwitchedTo(svc, links, fo.conn, o) /\ (svc.conn = Nil => o.ok)
  BY <1>3, <1>4, <1>7, SetCurrentConnectionFacts
<1>9. /\ svc' \in Services /\ svc'.conn = fo.conn /\ svc'.inSplit = svc.inSplit
      /\ svc'.inTx => svc.inTx
      /\ Recorded(svc'.ses) \subseteq Recorded(svc.ses)
  <2>1. CASE o.ok
    <3>1. /\ svc' \in Services /\ svc'.conn = o.svc.conn /\ svc'.inSplit = o.svc.inSplit
          /\ ~ svc'.inTx /\ svc'.ses = o.svc.ses
      BY <1>6, <1>8, <2>1 DEF SwitchedTo, Services
    <3>. QED  BY <1>8, <3>1 DEF SwitchedTo
  <2>2. CASE ~ o.ok
    BY <1>6, <1>8, <2>2 DEF SwitchedTo
  <2>. QED  BY <2>1, <2>2
<1>10. links' \in LinkSets /\ Fewer(links, links')
  BY <1>6, <1>8, CloseLinkFacts, FewerTransitive DEF SwitchedTo
<1>11. svc.inSplit \/ svc.conn \notin Conns \/ IsClosed(links', svc.conn)
  <2>1. CASE o.ok
    BY <1>6, <1>7, <1>8, <2>1 DEF SwitchedTo
  <2>2. CASE ~ o.ok
    <3>1. call.pc = "exec" \/ svc.inSplit
      BY <1>7, <1>8, <2>2 DEF SetCandidate, CallKnown, OpenKnown
    <3>. QED  BY <1>10, <3>1 DEF SetCandidate, FailoverKnown, Fewer
  <2>. QED  BY <2>1, <2>2
<1>12. \A k \in Conns : ~ links'[k].tx
  <2>1. \A k \in Conns : ~ links[k].tx
    BY <1>7 DEF SetCandidate, TxKnown, FailoverKnown, IsClosed, CallKnown, OpenKnown
  <2>. QED  BY <1>10, <2>1 DEF Fewer
<1>13. \A k \in Conns : ~IsClosed(links', k) => svc.inSplit \/ k = fo.conn \/ k = call.conn
  BY <1>7, <1>10, <1>11 DEF OpenOnes, Fewer
<1>14. v \in {"unknown", "switched", "failed", "transfer"} /\ (claim => v \in Told)
  <2>1. claim => isInTransaction
    BY DEF SetCandidate, ClaimKnown
  <2>. QED  BY <1>5, <2>1 DEF SuccessError, TransferError, Told
<1>15. /\ fo' = NoFailover /\ fo'.pc = "off" /\ fo'.conn = Nil
       /\ UNCHANGED <<up, writer, stored, faults, marked, cfg, isInTransaction>>
  BY <1>6 DEF FailoverReturns, NoFailover, SetCandidate, cluster
<1>16. CASE call.pc = "exec"
  <2>1. /\ call' = Idle /\ verdict' = v /\ ~ claim' /\ claim' \in BOOLEAN /\ stmt' = stmt
        /\ appTx' = Nil \/ appTx' = appTx
    BY <1>6, <1>14, <1>16 DEF FailoverReturns, Finish
  <2>2. call'.pc = "idle" /\ call'.conn = Nil
    BY <2>1 DEF Idle
  <2>4. TypeOK'
    BY <1>9, <1>10, <1>14, <1>15, <2>1, CallsConstant, IdleType DEF TypeOK, Verdicts, LinkSets
  <2>5. ClusterKnown' /\ CallKnown' /\ LocalConn'
    BY <1>15, <2>2 DEF ClusterKnown, CallKnown, LocalConn
  <2>6. OpenKnown' /\ FailoverKnown'
    BY <1>7, <1>9, <1>15, <2>2 DEF OpenKnown, FailoverKnown
  <2>7. TxKnown' /\ ClaimKnown'
    BY <1>12, <2>1 DEF TxKnown, ClaimKnown
  <2>8. OpenOnes'
    <3>1. call.conn = Nil
      BY <1>16 DEF LocalConn
    <3>. QED  BY <1>7, <1>9, <1>13, <3>1 DEF OpenOnes
  <2>9. Promised
    BY <1>14, <2>1 DEF Promised
  <2>. QED  BY <2>4, <2>5, <2>6, <2>7, <2>8, <2>9 DEF Kept
<1>17. CASE call.pc \in {"opened", "dialled"}
  <2>0. ~ claim
    BY <1>17 DEF ClaimKnown
  <2>1. call' = [call EXCEPT !.result = v] /\ UNCHANGED <<appTx, claim, stmt, verdict>>
    BY <1>6, <1>17 DEF FailoverReturns
  <2>2. /\ call' \in Calls /\ call'.pc = call.pc /\ call'.conn = call.conn /\ call'.host = call.host
        /\ call'.result = v
    BY <1>14, <2>1 DEF TypeOK, Calls
  <2>4. TypeOK'
    BY <1>9, <1>10, <1>15, <2>1, <2>2, CallsConstant, IdleType DEF TypeOK, LinkSets
  <2>5. ClusterKnown' /\ CallKnown'
    BY <1>7, <1>9, <1>14, <1>15, <1>17, <2>2 DEF ClusterKnown, CallKnown
  <2>6. OpenKnown' /\ FailoverKnown'
    BY <1>7, <1>9, <1>15, <1>17, <2>2 DEF OpenKnown, FailoverKnown
  <2>7. TxKnown' /\ ClaimKnown' /\ Promised
    BY <1>12, <2>0, <2>1 DEF TxKnown, ClaimKnown, Promised
  <2>8. OpenOnes'
    BY <1>7, <1>9, <1>13, <2>2 DEF OpenOnes
  <2>9. LocalConn'
    <3>1. call.result # "connected"
      BY <1>17 DEF SetCandidate, CallKnown
    <3>. QED  BY <1>17, <2>2, <3>1 DEF LocalConn
  <2>. QED  BY <2>4, <2>5, <2>6, <2>7, <2>8, <2>9 DEF Kept
<1>. QED  BY <1>7, <1>16, <1>17

LEMMA RefreshVerifiedStep ==
    ASSUME Inv, RefreshVerified
    PROVE  Kept
<1>. USE DEF Inv
<1>0. /\ fo.pc = "failover" /\ fo.conn = Nil /\ fo \in Failovers /\ svc \in Services
      /\ marked \in SUBSET Hosts /\ writer \in cfg.members
      /\ UNCHANGED <<up, writer, faults, marked, cfg, links, isInTransaction>>
  BY DEF RefreshVerified, FailoverKnown, TypeOK, ClusterKnown
<1>1. stored' = TrueTopology /\ TrueTopology \in HostLists /\ Members(TrueTopology) = cfg.members
  BY TrueTopologyType DEF RefreshVerified
<1>2. svc' = ForceRefreshed(svc, TrueTopology, marked)
  BY DEF RefreshVerified
<1>3. /\ svc' \in Services /\ SameButView(svc, svc') /\ svc'.view \in HostLists
      /\ Members(svc'.view) = cfg.members
  BY <1>0, <1>1, <1>2, ForceRefreshedFacts
<1>4. CASE FailoverFails
  BY <1>0, <1>1, <1>3, <1>4, Failing DEF TypeOK
<1>5. CASE ToWriterOrAllowed(svc', writer) /\ UNCHANGED app
  <2>1. PICK hi : hi = Info(svc'.view, writer)
    OBVIOUS
  <2>2. hi \in HostInfos
    BY <1>0, <1>3, <2>1, ListTypes
  <2>3. \/ fo' = [fo EXCEPT !.pc = "writer", !.host = hi]
        \/ fo' = [fo EXCEPT !.pc = "allowed", !.role = "reader", !.host = hi]
    BY <1>5, <2>1 DEF ToWriterOrAllowed
  <2>4. fo' \in Failovers /\ fo'.pc \in {"writer", "allowed"} /\ fo'.conn = Nil /\ fo'.host = hi
    BY <1>0, <2>2, <2>3 DEF Failovers, Roles
  <2>. QED  BY <1>0, <1>1, <1>3, <1>5, <2>2, <2>4, Searching DEF TypeOK
<1>. QED  BY <1>4, <1>5 DEF RefreshVerified

LEMMA CandidatesFacts ==
    ASSUME TypeOK, fo.conn = Nil, NEW v \in HostLists, NEW H \in SUBSET Hosts
    PROVE  /\ Candidates(v, H) \in Failovers
           /\ Candidates(v, H).pc = "readers" /\ Candidates(v, H).conn = Nil
<1>1. PICK R \in SUBSET Hosts : R = {h \in H : v.role[h] = "reader"}
  OBVIOUS
<1>2. PICK w : w = IF WritersOf(v) \cap H = {} THEN Nil ELSE CHOOSE h \in WritersOf(v) \cap H : TRUE
  OBVIOUS
<1>3. w \in Hosts \cup {Nil}
  BY <1>2
<1>4. Candidates(v, H) = [fo EXCEPT !.pc = "readers", !.role = "reader", !.list = v,
                                    !.readers = R, !.left = R, !.origW = w]
  BY <1>1, <1>2 DEF Candidates
<1>5. /\ Candidates(v, H) \in Failovers
      /\ Candidates(v, H).pc = "readers" /\ Candidates(v, H).conn = Nil
  BY <1>3, <1>4 DEF TypeOK, Failovers, Roles
<1>. QED  BY <1>5

LEMMA RefreshStoredStep ==
    ASSUME Inv, RefreshStored
    PROVE  Kept
<1>. USE DEF Inv
<1>0. fo.pc = "failover" /\ fo.conn = Nil /\ svc \in Services /\ stored \in HostLists /\ marked \in SUBSET Hosts
  BY DEF RefreshStored, FailoverKnown, TypeOK
<1>1. svc' \in Services /\ SameButView(svc, svc') /\ svc'.view \in HostLists
  BY <1>0, ForceRefreshedFacts DEF RefreshStored
<1>2. GetHosts(svc'.view) \in SUBSET Hosts
  BY <1>1, ListTypes
<1>3. fo' = Candidates(svc'.view, GetHosts(svc'.view))
  BY DEF RefreshStored
<1>4. fo' \in Failovers /\ fo'.pc = "readers" /\ fo'.conn = Nil
  BY <1>0, <1>1, <1>2, <1>3, CandidatesFacts
<1>. QED  BY <1>0, <1>1, <1>4, Searching DEF RefreshStored, cluster

LEMMA ViewUnchanged ==
    ASSUME TypeOK
    PROVE  svc \in Services /\ SameButView(svc, svc) /\ marked \subseteq Hosts /\ stored \in HostLists
BY DEF TypeOK, SameButView

LEMMA RefreshTimesOutStep ==
    ASSUME Inv, RefreshTimesOut
    PROVE  Kept
BY ViewUnchanged, Failing DEF Inv, RefreshTimesOut, cluster

LEMMA ConnectWriterStep ==
    ASSUME Inv, ConnectWriter
    PROVE  Kept
<1>. USE DEF Inv
<1>0. /\ fo.pc = "writer" /\ fo.conn = Nil /\ fo \in Failovers /\ fo.host \in HostInfos /\ fo.host.host \in Hosts
      /\ UNCHANGED <<cluster, cfg, isInTransaction>>
  BY DEF ConnectWriter, FailoverKnown, TypeOK, HostInfos
<1>1. CASE FailoverFails /\ UNCHANGED <<svc, links, marked>>
  BY <1>0, <1>1, ViewUnchanged, Failing DEF cluster
<1>2. CASE /\ \E c \in Unused(InUse) :
                /\ CandidateConnected(c, fo.host.host)
                /\ fo' = [fo EXCEPT !.pc = "set", !.conn = c, !.role = "writer"]
           /\ UNCHANGED app
  <2>1. PICK c \in Unused(InUse) : /\ CandidateConnected(c, fo.host.host)
                                   /\ fo' = [fo EXCEPT !.pc = "set", !.conn = c, !.role = "writer"]
    BY <1>2
  <2>2. c \in Conns
    BY UnusedFacts
  <2>3. fo' \in Failovers /\ fo'.pc = "set" /\ fo'.conn = c /\ fo'.host = fo.host
    BY <1>0, <2>1, <2>2 DEF Failovers, Roles
  <2>. QED  BY <1>0, <1>2, <2>1, <2>3, CandidateFound
<1>3. CASE RejectCandidate(fo.host.host) /\ FailoverFails
  BY <1>0, <1>3, RejectFacts, ViewUnchanged, Failing DEF cluster
<1>. QED  BY <1>1, <1>2, <1>3 DEF ConnectWriter

\* A step that changes nothing but the failover's locals.
LEMMA LocalStep ==
    ASSUME Inv, fo.pc \notin {"off", "set"}, fo' \in Failovers, fo'.pc \notin {"off", "set", "writer"},
           fo'.conn = Nil, fo'.pc = "try" => fo'.left \subseteq Members(fo'.list),
           UNCHANGED <<cluster, marked, cfg, svc, links, isInTransaction, app>>
    PROVE  Kept
BY ViewUnchanged, Searching DEF Inv, cluster

LEMMA RoleOfType == \A h : RoleOf(h) \subseteq Roles
BY DEF RoleOf, Roles

LEMMA TryReaderStep ==
    ASSUME Inv, TryReader
    PROVE  Kept
<1>. USE DEF Inv
<1>0. /\ fo.pc = "readers" /\ fo.conn = Nil /\ fo \in Failovers /\ fo.left \subseteq Hosts
      /\ UNCHANGED <<cluster, cfg, isInTransaction, app>>
  BY DEF TryReader, FailoverKnown, TypeOK, Failovers
<1>1. PICK h \in fo.left :
         \/ /\ fo' = [fo EXCEPT !.left = @ \ {h}]
            /\ UNCHANGED <<svc, links, marked>>
         \/ \E r \in RoleOf(h) : JudgeReader(h, r, Acceptable(r))
  BY DEF TryReader, Selectable
<1>2. CASE fo' = [fo EXCEPT !.left = @ \ {h}] /\ UNCHANGED <<svc, links, marked>>
  <2>1. fo' \in Failovers /\ fo'.pc = "readers" /\ fo'.conn = Nil
    BY <1>0, <1>2 DEF Failovers
  <2>. QED  BY <1>0, <1>2, <2>1, LocalStep
<1>3. CASE \E r \in RoleOf(h) : JudgeReader(h, r, Acceptable(r))
  BY <1>0, <1>3, RoleOfType, JudgeReaderStep
<1>. QED  BY <1>1, <1>2, <1>3

LEMMA NoReaderSelectableStep ==
    ASSUME Inv, NoReaderSelectable
    PROVE  Kept
<1>. USE DEF Inv
<1>0. fo.pc = "readers" /\ fo.conn = Nil /\ fo \in Failovers /\ stored \in HostLists
  BY DEF NoReaderSelectable, FailoverKnown, TypeOK
<1>1. Members(stored) \in SUBSET Hosts
  BY <1>0, ListTypes
<1>2. \/ fo' = [Candidates(stored, Members(stored)) EXCEPT !.pc = "origWriter"]
      \/ fo' = [fo EXCEPT !.pc = "origWriter"]
  BY DEF NoReaderSelectable
<1>3. fo' \in Failovers /\ fo'.pc = "origWriter" /\ fo'.conn = Nil
  <2>1. CASE fo' = [Candidates(stored, Members(stored)) EXCEPT !.pc = "origWriter"]
    <3>1. /\ Candidates(stored, Members(stored)) \in Failovers
          /\ Candidates(stored, Members(stored)).conn = Nil
      BY <1>0, <1>1, CandidatesFacts
    <3>. QED  BY <2>1, <3>1 DEF Failovers
  <2>2. CASE fo' = [fo EXCEPT !.pc = "origWriter"]
    BY <1>0, <2>2 DEF Failovers
  <2>. QED  BY <1>2, <2>1, <2>2
<1>. QED  BY <1>0, <1>3, LocalStep DEF NoReaderSelectable

LEMMA ReadersExhaustedStep ==
    ASSUME Inv, ReadersExhausted
    PROVE  Kept
<1>1. fo \in Failovers /\ fo.conn = Nil /\ fo.pc = "readers"
  BY DEF Inv, TypeOK, FailoverKnown, ReadersExhausted
<1>2. fo' \in Failovers /\ fo'.pc = "origWriter" /\ fo'.conn = Nil
  BY <1>1 DEF ReadersExhausted, Failovers
<1>. QED  BY <1>1, <1>2, LocalStep DEF ReadersExhausted

LEMMA TryOriginalWriterStep ==
    ASSUME Inv, TryOriginalWriter
    PROVE  Kept
<1>. USE DEF Inv
<1>0. /\ fo.pc = "origWriter" /\ fo.conn = Nil /\ fo \in Failovers
      /\ UNCHANGED <<cluster, cfg, isInTransaction, app>>
  BY DEF TryOriginalWriter, FailoverKnown, TypeOK
<1>1. CASE fo' = [fo EXCEPT !.pc = "again"] /\ UNCHANGED <<svc, links, marked>>
  <2>1. fo' \in Failovers /\ fo'.pc = "again" /\ fo'.conn = Nil
    BY <1>0, <1>1 DEF Failovers
  <2>. QED  BY <1>0, <1>1, <2>1, LocalStep
<1>2. CASE /\ fo.origW \in up
           /\ \E r \in RoleOf(fo.origW) : JudgeReader(fo.origW, r, Acceptable(r))
  <2>1. fo.origW \in Hosts
    BY <1>2 DEF TypeOK
  <2>. QED  BY <1>0, <1>2, <2>1, RoleOfType, JudgeReaderStep
<1>. QED  BY <1>1, <1>2 DEF TryOriginalWriter

LEMMA NextRoundStep ==
    ASSUME Inv, NextRound
    PROVE  Kept
<1>. USE DEF Inv
<1>0. fo.pc = "again" /\ fo.conn = Nil /\ fo \in Failovers
  BY DEF NextRound, FailoverKnown, TypeOK
<1>1. CASE FailoverFails
  BY <1>0, <1>1, ViewUnchanged, Failing DEF NextRound, cluster
<1>2. CASE fo' = [fo EXCEPT !.pc = "readers", !.left = fo.readers] /\ UNCHANGED app
  <2>1. fo' \in Failovers /\ fo'.pc = "readers" /\ fo'.conn = Nil
    BY <1>0, <1>2 DEF Failovers
  <2>. QED  BY <1>0, <1>2, <2>1, LocalStep DEF NextRound
<1>. QED  BY <1>1, <1>2 DEF NextRound

LEMMA RefreshAllowedStep ==
    ASSUME Inv, RefreshAllowed
    PROVE  Kept
<1>. USE DEF Inv
<1>0. /\ fo.pc = "allowed" /\ fo.conn = Nil /\ fo \in Failovers /\ svc \in Services /\ stored \in HostLists
      /\ UNCHANGED <<cluster, marked, cfg, links, isInTransaction, app>>
  BY DEF RefreshAllowed, FailoverKnown, TypeOK
<1>1. svc' \in Services /\ SameButView(svc, svc') /\ svc'.view \in HostLists
  BY <1>0, RefreshedFacts DEF RefreshAllowed, Services
<1>2. PICK H : H = AllowedHosts(svc'.view, ModeNow(fo.host.host))
  OBVIOUS
<1>3. H \subseteq Members(svc'.view) /\ H \subseteq Hosts
  BY <1>1, <1>2, ListTypes DEF AllowedHosts, GetHosts
<1>4. PICK v : v = [svc'.view EXCEPT !.down = {}]
  OBVIOUS
<1>5. v \in HostLists /\ Members(v) = Members(svc'.view)
  BY <1>1, <1>4, ListTypes
<1>6. fo' = IF H = {} THEN [fo EXCEPT !.pc = "allowedAgain"]
            ELSE [fo EXCEPT !.pc = "try", !.left = H, !.list = v]
  BY <1>2, <1>4 DEF RefreshAllowed
<1>7. /\ fo' \in Failovers /\ fo'.pc \in {"allowedAgain", "try"} /\ fo'.conn = Nil
      /\ fo'.pc = "try" => fo'.left = H /\ fo'.list = v
  BY <1>0, <1>3, <1>5, <1>6 DEF Failovers
<1>8. fo'.pc = "try" => fo'.left \subseteq Members(fo'.list)
  BY <1>3, <1>5, <1>7
<1>. QED  BY <1>0, <1>1, <1>7, <1>8, ViewUnchanged, Searching DEF cluster

LEMMA TryAllowedStep ==
    ASSUME Inv, TryAllowed
    PROVE  Kept
<1>. USE DEF Inv
<1>0. /\ fo.pc = "try" /\ fo.conn = Nil /\ fo \in Failovers /\ fo.left \subseteq Members(fo.list)
      /\ fo.list \in HostLists /\ fo.left \subseteq Hosts
      /\ UNCHANGED <<cluster, cfg, isInTransaction, app>>
  BY DEF TryAllowed, FailoverKnown, TypeOK, Failovers
<1>1. PICK h \in fo.left :
         \/ /\ fo' = [fo EXCEPT !.left = @ \ {h}]
            /\ UNCHANGED <<svc, links, marked>>
         \/ \E r \in RoleOf(h) :
                JudgeReader(h, IF StrictReader(ModeNow(fo.host.host)) THEN r ELSE fo.list.role[h],
                            StrictReader(ModeNow(fo.host.host)) => r = "reader")
  BY DEF TryAllowed
<1>2. CASE fo' = [fo EXCEPT !.left = @ \ {h}] /\ UNCHANGED <<svc, links, marked>>
  <2>1. fo' \in Failovers /\ fo'.pc = "try" /\ fo'.conn = Nil /\ fo'.left \subseteq fo.left /\ fo'.list = fo.list
    BY <1>0, <1>2 DEF Failovers
  <2>2. fo'.left \subseteq Members(fo'.list)
    BY <1>0, <2>1
  <2>. QED  BY <1>0, <1>2, <2>1, <2>2, LocalStep
<1>3. CASE \E r \in RoleOf(h) :
                JudgeReader(h, IF StrictReader(ModeNow(fo.host.host)) THEN r ELSE fo.list.role[h],
                            StrictReader(ModeNow(fo.host.host)) => r = "reader")
  <2>1. PICK r \in RoleOf(h) :
                JudgeReader(h, IF StrictReader(ModeNow(fo.host.host)) THEN r ELSE fo.list.role[h],
                            StrictReader(ModeNow(fo.host.host)) => r = "reader")
    BY <1>3
  <2>2. PICK q : q = IF StrictReader(ModeNow(fo.host.host)) THEN r ELSE fo.list.role[h]
    OBVIOUS
  <2>3. PICK accept : accept = (StrictReader(ModeNow(fo.host.host)) => r = "reader")
    OBVIOUS
  <2>4. q \in Roles /\ h \in Hosts
    BY <1>0, <2>2, RoleOfType, ListTypes DEF Roles
  <2>5. JudgeReader(h, q, accept)
    BY <2>1, <2>2, <2>3
  <2>. QED  BY <1>0, <2>4, <2>5, JudgeReaderStep
<1>. QED  BY <1>1, <1>2, <1>3

LEMMA AllowedExhaustedStep ==
    ASSUME Inv, AllowedExhausted
    PROVE  Kept
<1>. USE DEF Inv
<1>0. fo.pc \in {"try", "allowedAgain"} /\ fo.conn = Nil /\ fo \in Failovers
  BY DEF AllowedExhausted, FailoverKnown, TypeOK
<1>1. CASE FailoverFails
  BY <1>0, <1>1, ViewUnchanged, Failing DEF AllowedExhausted, cluster
<1>2. CASE fo' = [fo EXCEPT !.pc = "allowed"] /\ UNCHANGED app
  <2>1. fo' \in Failovers /\ fo'.pc = "allowed" /\ fo'.conn = Nil
    BY <1>0, <1>2 DEF Failovers
  <2>. QED  BY <1>0, <1>2, <2>1, LocalStep DEF AllowedExhausted
<1>. QED  BY <1>1, <1>2 DEF AllowedExhausted

LEMMA DeadlinePassesStep ==
    ASSUME Inv, DeadlinePasses
    PROVE  Kept
<1>0. /\ fo.pc \in {"readers", "origWriter", "again", "allowed", "try", "allowedAgain"}
      /\ fo.conn = Nil /\ fo \in Failovers
  BY DEF Inv, DeadlinePasses, FailoverKnown, TypeOK
<1>1. fo' \in Failovers /\ fo'.pc = fo.pc /\ fo'.conn = Nil /\ fo'.left = fo.left /\ fo'.list = fo.list
  BY <1>0 DEF DeadlinePasses, Failovers
<1>2. fo'.pc = "try" => fo'.left \subseteq Members(fo'.list)
  BY <1>1 DEF Inv, FailoverKnown
<1>. QED  BY <1>0, <1>1, <1>2, LocalStep DEF DeadlinePasses

LEMMA FailoverStep ==
    ASSUME Inv, FailoverNext
    PROVE  Kept
BY SetCandidateStep, RefreshVerifiedStep, RefreshTimesOutStep, RefreshStoredStep, ConnectWriterStep,
   TryReaderStep, NoReaderSelectableStep, ReadersExhaustedStep, TryOriginalWriterStep, NextRoundStep,
   RefreshAllowedStep, TryAllowedStep, AllowedExhaustedStep, DeadlinePassesStep
DEF FailoverNext

-----------------------------------------------------------------------------
(* Opening, connecting and executing *)

\* No call, and so no failover, is in progress.
LEMMA NoFailoverYet ==
    ASSUME Inv, call.pc \notin {"exec", "opened", "dialled"}
    PROVE  fo.pc = "off" /\ fo.conn = Nil
BY DEF Inv, FailoverKnown

\* An attempt that ends in failover.
LEMMA AttemptFails ==
    ASSUME Inv, NEW next, \/ call.pc = "open" /\ next = "opened"
                          \/ call.pc = "dial" /\ next = "dialled",
           svc' \in Services, SameButView(svc, svc'), marked' \subseteq Hosts,
           fo' = [NoFailover EXCEPT !.pc = "failover"],
           call' \in Calls, call'.pc = next, call'.result = "none",
           call'.conn = call.conn, call'.host = call.host,
           UNCHANGED <<cluster, cfg, isInTransaction, links, appTx, claim, stmt, verdict>>
    PROVE  Kept
<1>. USE DEF Inv
<1>0. fo' \in Failovers /\ fo'.pc = "failover" /\ fo'.conn = Nil /\ fo.conn = Nil
  BY IdleType, NoFailoverYet DEF NoFailover
<1>1. UNCHANGED <<up, writer, stored, faults>> /\ ~ claim
  BY DEF cluster, ClaimKnown
<1>2. TypeOK'
  BY <1>0, <1>1, CallsConstant DEF TypeOK
<1>3. ClusterKnown' /\ CallKnown' /\ LocalConn'
  BY <1>1 DEF ClusterKnown, CallKnown, LocalConn, SameButView
<1>4. OpenKnown' /\ FailoverKnown'
  BY <1>0 DEF OpenKnown, FailoverKnown, SameButView
<1>5. TxKnown' /\ ClaimKnown' /\ Promised
  BY <1>1 DEF TxKnown, ClaimKnown, Promised, SameButView
<1>6. OpenOnes'
  BY <1>0 DEF OpenOnes, SameButView, IsClosed
<1>. QED  BY <1>2, <1>3, <1>4, <1>5, <1>6 DEF Kept

\* An attempt that connects.
LEMMA AttemptConnects ==
    ASSUME Inv, NEW next, \/ call.pc = "open" /\ next = "opened"
                          \/ call.pc = "dial" /\ next = "dialled",
           NEW c \in Unused(InUse), NEW h \in Hosts, CandidateConnected(c, h),
           call' = [call EXCEPT !.pc = next, !.conn = c, !.result = "connected"],
           UNCHANGED <<cluster, cfg, isInTransaction, fo, appTx, claim, stmt, verdict>>
    PROVE  Kept
<1>. USE DEF Inv
<1>0. /\ c \in Conns /\ IsClosed(links, c) /\ c # svc.conn /\ c # Nil /\ Nil \notin Conns
      /\ svc \in Services /\ links \in LinkSets /\ fo.pc = "off" /\ fo.conn = Nil
  BY UnusedFacts, ServiceAssumption, NoFailoverYet DEF InUse, TypeOK, LinkSets
<1>1. links' \in LinkSets /\ ~ links'[c].tx /\ \A k \in Conns : k # c => links'[k] = links[k]
  BY <1>0, OpenedFacts DEF CandidateConnected
<1>2. svc' \in Services /\ SameButView(svc, svc') /\ marked' \subseteq Hosts
  <2>1. svc' = SetAvailability(svc, {h}, TRUE) /\ marked' = marked \ {h}
    BY DEF CandidateConnected, MarkUp
  <2>. QED  BY <1>0, <2>1, SetAvailabilityFacts DEF TypeOK
<1>3. /\ call' \in Calls /\ call'.pc = next /\ call'.conn = c /\ call'.result = "connected"
      /\ call'.host = call.host
  BY <1>0 DEF TypeOK, Calls
<1>4. UNCHANGED <<up, writer, stored, faults>> /\ ~ claim
  BY DEF cluster, ClaimKnown
<1>5. TypeOK'
  BY <1>1, <1>2, <1>3, <1>4, CallsConstant DEF TypeOK, LinkSets
<1>6. ClusterKnown' /\ CallKnown' /\ LocalConn'
  BY <1>0, <1>2, <1>3, <1>4 DEF ClusterKnown, CallKnown, LocalConn, SameButView
<1>7. OpenKnown' /\ FailoverKnown'
  BY <1>0, <1>2, <1>3 DEF OpenKnown, FailoverKnown, SameButView
<1>8. TxKnown' /\ ClaimKnown' /\ Promised
  BY <1>1, <1>2, <1>4 DEF TxKnown, ClaimKnown, Promised, SameButView
<1>9. OpenOnes'
  <2>1. CASE call.pc = "dial"
    BY <1>2, <2>1 DEF OpenOnes, CallKnown, SameButView
  <2>2. CASE call.pc = "open"
    <3>1. call.conn = Nil
      BY <2>2 DEF LocalConn
    <3>. QED  BY <1>0, <1>1, <1>2, <1>3, <2>2, <3>1 DEF OpenOnes, SameButView, IsClosed
  <2>. QED  BY <2>1, <2>2
<1>. QED  BY <1>5, <1>6, <1>7, <1>8, <1>9 DEF Kept

LEMMA ConnectStep ==
    ASSUME Inv, NEW next, \/ call.pc = "open" /\ next = "opened"
                          \/ call.pc = "dial" /\ next = "dialled",
           NEW h \in Hosts, ConnectThroughFailover(h, next),
           UNCHANGED <<cluster, cfg, isInTransaction, appTx, claim, stmt, verdict>>
    PROVE  Kept
<1>. USE DEF Inv
<1>0. svc \in Services /\ call \in Calls /\ stored \in HostLists /\ marked \subseteq Hosts
  BY DEF TypeOK
<1>1. CASE /\ svc' \in Refreshed(svc, stored)
           /\ fo' = [NoFailover EXCEPT !.pc = "failover"]
           /\ call' = [call EXCEPT !.pc = next, !.result = "none"]
           /\ UNCHANGED <<links, marked>>
  <2>1. svc' \in Services /\ SameButView(svc, svc')
    BY <1>0, <1>1, RefreshedFacts
  <2>2. /\ call' \in Calls /\ call'.pc = next /\ call'.result = "none"
        /\ call'.conn = call.conn /\ call'.host = call.host
    BY <1>0, <1>1 DEF Calls
  <2>. QED  BY <1>0, <1>1, <2>1, <2>2, AttemptFails
<1>2. CASE /\ \E c \in Unused(InUse) :
                /\ CandidateConnected(c, h)
                /\ call' = [call EXCEPT !.pc = next, !.conn = c, !.result = "connected"]
           /\ UNCHANGED fo
  BY <1>2, AttemptConnects
<1>3. CASE /\ svc' = SetAvailability(svc, {h}, FALSE)
           /\ marked' = marked \cup ({h} \cap Members(svc.view))
           /\ fo' = [NoFailover EXCEPT !.pc = "failover"]
           /\ call' = [call EXCEPT !.pc = next, !.result = "none",
                               !.list.down = IF call.list = svc.view THEN @ \cup {h} ELSE @]
           /\ UNCHANGED links
  <2>1. svc' \in Services /\ SameButView(svc, svc') /\ marked' \subseteq Hosts
    BY <1>0, <1>3, SetAvailabilityFacts
  <2>2. call.list \in HostLists
    BY <1>0 DEF Calls
  <2>3. PICK D : D = IF call.list = svc.view THEN call.list.down \cup {h} ELSE call.list.down
    OBVIOUS
  <2>4. PICK v : v = [call.list EXCEPT !.down = D]
    OBVIOUS
  <2>5. v \in HostLists
    <3>1. D \in SUBSET Hosts
      BY <2>2, <2>3 DEF HostLists
    <3>. QED  BY <2>2, <2>4, <3>1, ListTypes
  <2>6. call' = [call EXCEPT !.pc = next, !.result = "none", !.list = v]
    BY <1>0, <1>3, <2>3, <2>4 DEF Calls
  <2>7. /\ call' \in Calls /\ call'.pc = next /\ call'.result = "none"
        /\ call'.conn = call.conn /\ call'.host = call.host
    BY <1>0, <2>5, <2>6 DEF Calls
  <2>. QED  BY <1>3, <2>1, <2>7, AttemptFails
<1>. QED  BY <1>1, <1>2, <1>3 DEF ConnectThroughFailover

LEMMA OpenDialStep ==
    ASSUME Inv, OpenDial
    PROVE  Kept
<1>1. cfg.initial \in Hosts
  BY FailoverAssumption DEF Inv, TypeOK
<1>. QED  BY <1>1, ConnectStep DEF OpenDial

LEMMA DialStep ==
    ASSUME Inv, Dial
    PROVE  Kept
<1>1. call.host.host \in Hosts
  BY DEF Inv, CallKnown, Dial, HostInfos
<1>2. UNCHANGED <<cluster, cfg, isInTransaction, appTx, claim, stmt, verdict>>
  BY DEF Dial, others
<1>. QED  BY <1>1, <1>2, ConnectStep DEF Dial

LEMMA OpenStep ==
    ASSUME Inv, Open
    PROVE  Kept
<1>. USE DEF Inv
<1>0. /\ call.pc = "idle" /\ svc.conn = Nil /\ fo.pc = "off" /\ fo.conn = Nil /\ ~ claim /\ call.conn = Nil
      /\ UNCHANGED <<up, writer, stored, faults, marked, cfg, svc, links, isInTransaction, fo,
                     appTx, claim, stmt, verdict>>
  BY NoFailoverYet DEF Open, ClaimKnown, LocalConn, cluster
<1>1. call' \in Calls /\ call'.pc = "open" /\ call'.conn = Nil
  BY IdleType DEF Open, Idle
<1>2. TypeOK'
  BY <1>0, <1>1, CallsConstant DEF TypeOK
<1>3. ~ svc.inTx
  BY <1>0 DEF OpenKnown
<1>4. ClusterKnown' /\ CallKnown' /\ LocalConn' /\ OpenKnown' /\ FailoverKnown'
  BY <1>0, <1>1, <1>3 DEF ClusterKnown, CallKnown, LocalConn, OpenKnown, FailoverKnown
<1>5. TxKnown' /\ ClaimKnown' /\ OpenOnes' /\ Promised
  BY <1>0, <1>1 DEF TxKnown, ClaimKnown, OpenOnes, Promised, IsClosed
<1>. QED  BY <1>2, <1>4, <1>5 DEF Kept

LEMMA OpenAbandonedStep ==
    ASSUME Inv, call.pc = "opened", fo.pc = "off", verdict' = "error", call' = Over,
           UNCHANGED <<cluster, marked, cfg, svc, links, isInTransaction, fo, appTx, claim, stmt>>
    PROVE  Kept
<1>. USE DEF Inv
<1>0. UNCHANGED <<up, writer, stored, faults>> /\ ~ claim /\ fo.conn = Nil
  BY DEF cluster, ClaimKnown, FailoverKnown
<1>1. call' \in Calls /\ call'.pc = "over" /\ call'.conn = Nil
  BY IdleType DEF Over, Idle
<1>2. TypeOK'
  BY <1>0, <1>1, CallsConstant DEF TypeOK, Verdicts
<1>3. ClusterKnown' /\ CallKnown' /\ LocalConn' /\ OpenKnown' /\ FailoverKnown'
  BY <1>0, <1>1 DEF ClusterKnown, CallKnown, LocalConn, OpenKnown, FailoverKnown
<1>4. TxKnown' /\ ClaimKnown' /\ OpenOnes' /\ Promised
  BY <1>0, <1>1 DEF TxKnown, ClaimKnown, OpenOnes, Promised
<1>. QED  BY <1>2, <1>3, <1>4 DEF Kept

LEMMA OpenEndStep ==
    ASSUME Inv, OpenEnd
    PROVE  Kept
<1>. USE DEF Inv
<1>0. /\ call.pc = "opened" /\ fo.pc = "off" /\ fo.conn = Nil /\ ~ claim /\ ~ svc.inTx
      /\ svc \in Services /\ links \in LinkSets /\ Nil \notin Conns /\ call \in Calls
      /\ UNCHANGED <<cluster, marked, cfg, isInTransaction, fo, appTx, claim, stmt>>
  BY ServiceAssumption DEF OpenEnd, FailoverKnown, ClaimKnown, OpenKnown, TypeOK, LinkSets
<1>1. CASE call.result \notin {"connected", "switched"}
  BY <1>0, <1>1, OpenAbandonedStep DEF OpenEnd
<1>2. CASE call.result \in {"connected", "switched"}
  <2>1. PICK c : c = IF call.result = "connected" THEN call.conn ELSE svc.conn
    OBVIOUS
  <2>2. PICK r \in RoleOf(links[c].at) \ {"unknown"} :
           /\ links' = SetCurrentConnection(svc, links, appTx, c, InitialInfo(r), Nil).links
           /\ svc' \in Refreshed(SetCurrentConnection(svc, links, appTx, c, InitialInfo(r), Nil).svc, stored)
    BY <1>2, <2>1 DEF OpenEnd
  <2>3. PICK hi : hi = InitialInfo(r)
    OBVIOUS
  <2>4. hi \in HostInfos
    BY <2>3, RoleOfType, FailoverAssumption DEF InitialInfo, HostInfos, TypeOK, Roles
  <2>5. c \in Conns
    BY <1>0, <1>2, <2>1 DEF CallKnown, Services, Calls
  <2>6. PICK o : o = SetCurrentConnection(svc, links, appTx, c, hi, Nil)
    OBVIOUS
  <2>7. SwitchedTo(svc, links, c, o) /\ o.ok
    BY <1>0, <2>4, <2>5, <2>6, SetCurrentConnectionFacts
  <2>8. links' = o.links /\ svc' \in Refreshed(o.svc, stored)
    BY <2>2, <2>3, <2>6
  <2>9. svc' \in Services /\ SameButView(o.svc, svc')
    BY <2>7, <2>8, RefreshedFacts DEF SwitchedTo, TypeOK
  <2>10. /\ svc'.conn = c /\ ~ svc'.inTx /\ svc'.inSplit = svc.inSplit
         /\ Recorded(svc'.ses) \subseteq Recorded(svc.ses)
         /\ links' \in LinkSets /\ Fewer(links, links')
    BY <1>0, <2>7, <2>8, <2>9 DEF SwitchedTo, SameButView
  <2>11. call' = Idle /\ call'.pc = "idle" /\ call'.conn = Nil /\ verdict' = "ok"
    BY <1>2 DEF OpenEnd, Idle
  <2>12. UNCHANGED <<up, writer, stored, faults>>
    BY <1>0 DEF cluster
  <2>13. TypeOK'
    BY <1>0, <2>9, <2>10, <2>11, <2>12, IdleType, CallsConstant DEF TypeOK, LinkSets, Verdicts
  <2>14. ClusterKnown' /\ CallKnown' /\ LocalConn' /\ FailoverKnown'
    BY <1>0, <2>11, <2>12 DEF ClusterKnown, CallKnown, LocalConn, FailoverKnown
  <2>15. OpenKnown'
    BY <1>0, <2>5, <2>10, <2>11 DEF OpenKnown
  <2>16. TxKnown' /\ ClaimKnown' /\ Promised
    BY <1>0, <2>10 DEF TxKnown, ClaimKnown, Promised, Fewer
  <2>17. OpenOnes'
    <3>1. \A k \in Conns : ~IsClosed(links, k) => svc.inSplit \/ k = svc.conn \/ k = call.conn
      BY <1>0 DEF OpenOnes
    <3>2. svc.conn # c /\ svc.conn \in Conns => svc.inSplit \/ IsClosed(links', svc.conn)
      BY <2>7, <2>8 DEF SwitchedTo
    <3>3. call.conn # c => call.conn = Nil
      BY <1>0, <1>2, <2>1 DEF LocalConn
    <3>4. \A k \in Conns : ~IsClosed(links', k) => svc.inSplit \/ k = c
      BY <1>0, <2>10, <3>1, <3>2, <3>3 DEF Fewer
    <3>. QED  BY <2>10, <3>4 DEF OpenOnes
  <2>. QED  BY <2>13, <2>14, <2>15, <2>16, <2>17 DEF Kept
<1>. QED  BY <1>1, <1>2

LEMMA CallStep ==
    ASSUME Inv, Call
    PROVE  Kept
<1>. USE DEF Inv
<1>0. /\ call.pc = "idle" /\ svc.conn # Nil /\ fo.pc = "off" /\ fo.conn = Nil /\ call.conn = Nil
      /\ svc \in Services
      /\ UNCHANGED <<up, writer, stored, faults, marked, cfg, links, isInTransaction, fo, stmt>>
  BY NoFailoverYet DEF Call, LocalConn, cluster, TypeOK
<1>1. PICK o \in Ops :
         IF Refused(o.kind)
         THEN /\ verdict' = "error" /\ call' = Idle
              /\ IF EndsTx(o) THEN appTx' = Nil /\ claim' = FALSE ELSE UNCHANGED <<appTx, claim>>
              /\ UNCHANGED svc
         ELSE /\ call' = [Idle EXCEPT !.op = o, !.start = svc.conn,
                                !.pc = IF cfg.split /\ o.ro # Nil THEN "split" ELSE "exec"]
              /\ svc' = IF o.kind = "reset" THEN [svc EXCEPT !.ses = NoSession] ELSE svc
              /\ UNCHANGED <<appTx, claim, verdict>>
  BY DEF Call
<1>2. CASE Refused(o.kind)
  <2>1. /\ verdict' = "error" /\ call' = Idle /\ svc' = svc
        /\ (appTx' = Nil /\ claim' = FALSE) \/ UNCHANGED <<appTx, claim>>
    BY <1>1, <1>2
  <2>2. call'.pc = "idle" /\ call'.conn = Nil
    BY <2>1 DEF Idle
  <2>3. TypeOK'
    BY <1>0, <2>1, IdleType, CallsConstant DEF TypeOK, Verdicts
  <2>4. ClusterKnown' /\ CallKnown' /\ LocalConn' /\ OpenKnown' /\ FailoverKnown'
    BY <1>0, <2>1, <2>2 DEF ClusterKnown, CallKnown, LocalConn, OpenKnown, FailoverKnown
  <2>5. TxKnown' /\ ClaimKnown' /\ OpenOnes' /\ Promised
    BY <1>0, <2>1, <2>2 DEF TxKnown, ClaimKnown, OpenOnes, Promised, IsClosed
  <2>. QED  BY <2>3, <2>4, <2>5 DEF Kept
<1>3. CASE ~ Refused(o.kind)
  <2>1. PICK p \in {"split", "exec"} : p = IF cfg.split /\ o.ro # Nil THEN "split" ELSE "exec"
    OBVIOUS
  <2>2. PICK c \in Conns : c = svc.conn
    BY <1>0 DEF Services
  <2>3. /\ call' = [Idle EXCEPT !.pc = p, !.op = o, !.start = c] /\ UNCHANGED <<appTx, claim, verdict>>
        /\ svc' = IF o.kind = "reset" THEN [svc EXCEPT !.ses = NoSession] ELSE svc
    BY <1>1, <1>3, <2>1, <2>2 DEF Idle
  <2>4. call' \in Calls /\ call'.pc = p /\ call'.conn = Nil
    BY <2>3, IdleType DEF Idle
  <2>5. /\ svc' \in Services /\ svc'.conn = svc.conn /\ svc'.inTx = svc.inTx /\ svc'.inSplit = svc.inSplit
        /\ svc'.ses = NoSession \/ svc'.ses = svc.ses
    BY <1>0, <2>3, InitialValues DEF Services
  <2>6. TypeOK'
    BY <1>0, <2>3, <2>4, <2>5, CallsConstant DEF TypeOK
  <2>7. ClusterKnown' /\ CallKnown' /\ LocalConn' /\ FailoverKnown'
    BY <1>0, <2>4, <2>5 DEF ClusterKnown, CallKnown, LocalConn, FailoverKnown
  <2>8. OpenKnown'
    BY <1>0, <2>4, <2>5, InitialValues DEF OpenKnown
  <2>9. TxKnown' /\ ClaimKnown' /\ OpenOnes' /\ Promised
    BY <1>0, <2>3, <2>4, <2>5 DEF TxKnown, ClaimKnown, OpenOnes, Promised, IsClosed
  <2>. QED  BY <2>6, <2>7, <2>8, <2>9 DEF Kept
<1>. QED  BY <1>2, <1>3

LEMMA CloseStmtStep ==
    ASSUME Inv, CloseStmt
    PROVE  Kept
<1>. USE DEF Inv
<1>0. /\ stmt' = Nil
      /\ UNCHANGED <<up, writer, stored, faults, marked, cfg, svc, links, isInTransaction, fo, call,
                     appTx, claim, verdict>>
  BY DEF CloseStmt, cluster
<1>1. TypeOK'
  BY <1>0, CallsConstant DEF TypeOK
<1>2. ClusterKnown' /\ CallKnown' /\ LocalConn' /\ OpenKnown' /\ FailoverKnown'
  BY <1>0 DEF ClusterKnown, CallKnown, LocalConn, OpenKnown, FailoverKnown, IsClosed
<1>3. TxKnown' /\ ClaimKnown' /\ OpenOnes' /\ Promised
  BY <1>0 DEF TxKnown, ClaimKnown, OpenOnes, Promised, IsClosed
<1>. QED  BY <1>1, <1>2, <1>3 DEF Kept

\* A call settles without failover: it keeps the connection and the transaction, or
\* there is no transaction and it moved to another connection, with the splitting
\* plugin preserving the others.
LEMMA Settles ==
    ASSUME Inv, call.pc \in {"exec", "split", "pick", "dialled"}, fo.pc = "off",
           svc' \in Services, svc'.conn # Nil, links' \in LinkSets, Fewer(links, links'),
           \/ svc'.conn = svc.conn /\ svc'.inTx = svc.inTx
           \/ ~svc.inTx /\ ~svc'.inTx /\ svc'.inSplit,
           svc.inSplit => svc'.inSplit,
           ~TransferSessionState => Recorded(svc'.ses) = {},
           call' \in Calls, call'.pc \in {"idle", "exec", "pick"},
           call'.pc = "pick" => svc'.inSplit /\ ~svc'.inTx,
           call'.pc # "pick" => call'.conn = Nil,
           verdict' \in Verdicts, stmt' = stmt, claim' \in BOOLEAN,
           claim' => claim /\ appTx' = appTx, appTx' \in {appTx, Nil},
           UNCHANGED <<cluster, marked, cfg, isInTransaction, fo>>
    PROVE  Kept
<1>. USE DEF Inv
<1>0. /\ UNCHANGED <<up, writer, stored, faults>> /\ fo.conn = Nil /\ Nil \notin Conns
      /\ svc \in Services /\ links \in LinkSets
  BY ServiceAssumption DEF cluster, FailoverKnown, TypeOK, LinkSets
<1>1. TypeOK'
  <2>1. appTx' \in Conns \cup {Nil}
    BY DEF TypeOK
  <2>. QED  BY <1>0, <2>1, CallsConstant DEF TypeOK, LinkSets
<1>2. ClusterKnown' /\ CallKnown' /\ LocalConn' /\ OpenKnown' /\ FailoverKnown'
  BY <1>0 DEF ClusterKnown, CallKnown, LocalConn, OpenKnown, FailoverKnown
<1>3. TxKnown'
  BY DEF TxKnown, Fewer
<1>4. ClaimKnown' /\ Promised
  BY DEF ClaimKnown, Promised
<1>5. OpenOnes'
  <2>1. CASE svc'.inSplit
    BY <2>1 DEF OpenOnes
  <2>2. CASE ~ svc'.inSplit
    <3>1. svc'.conn = svc.conn /\ ~ svc.inSplit /\ call.conn = Nil
      BY <2>2 DEF LocalConn, CallKnown
    <3>2. \A k \in Conns : ~IsClosed(links, k) => k = svc.conn
      BY <1>0, <3>1 DEF OpenOnes
    <3>. QED  BY <3>1, <3>2 DEF OpenOnes, Fewer
  <2>. QED  BY <2>1, <2>2
<1>. QED  BY <1>1, <1>2, <1>3, <1>4, <1>5 DEF Kept

\* Finish with an error that says nothing of the transaction.
LEMMA FinishFacts ==
    ASSUME TypeOK, Finish("error")
    PROVE  /\ call' = Idle /\ Idle \in Calls /\ Idle.pc = "idle" /\ Idle.conn = Nil
           /\ verdict' \in Verdicts /\ stmt' = stmt /\ claim' \in BOOLEAN
           /\ claim' => claim /\ appTx' = appTx
           /\ appTx' \in {appTx, Nil}
<1>1. Idle \in Calls /\ Idle.pc = "idle" /\ Idle.conn = Nil
  <2>1. Idle \in Calls
    BY IdleType
  <2>2. Idle.pc = "idle" /\ Idle.conn = Nil
    BY DEF Idle
  <2>. QED  BY <2>1, <2>2
<1>2. /\ verdict' = "error" /\ call' = Idle /\ stmt' = stmt /\ claim' \in BOOLEAN
      /\ claim' => claim /\ appTx' = appTx
      /\ appTx' \in {appTx, Nil}
  BY DEF Finish, TypeOK
<1>. QED  BY <1>1, <1>2 DEF Verdicts

LEMMA FewerReflexive == ASSUME NEW l PROVE Fewer(l, l)
BY DEF Fewer

LEMMA PreparedFacts ==
    ASSUME Inv, NEW o \in Ops \cup {NoOp}
    PROVE  /\ Prepared(o) \in Services /\ Prepared(o).conn = svc.conn
           /\ Prepared(o).inTx = svc.inTx /\ Prepared(o).inSplit = svc.inSplit
           /\ ~TransferSessionState => Recorded(Prepared(o).ses) = {}
<1>0. svc \in Services /\ svc.ses \in Session /\ (~TransferSessionState => Recorded(svc.ses) = {})
  BY DEF Inv, TypeOK, OpenKnown, Services
<1>1. CASE o.f = Nil
  BY <1>0, <1>1 DEF Prepared
<1>2. CASE o.f # Nil
  <2>1. o.f \in FieldSet /\ o.v \in Values \cup {Nil}
    BY <1>2 DEF Ops, NoOp
  <2>2. PICK p : p = SetupPristine(svc.ses, o.f)
    OBVIOUS
  <2>3. p \in Session /\ (~TransferSessionState => p = svc.ses)
    <3>1. svc.ses[o.f].val \in Values \cup {Nil} /\ svc.ses[o.f] \in Field
      BY <1>0, <2>1 DEF Session, Field
    <3>2. PICK g : g = [svc.ses[o.f] EXCEPT !.pri = svc.ses[o.f].val]
      OBVIOUS
    <3>3. g \in Field
      BY <3>1, <3>2 DEF Field
    <3>4. p = svc.ses \/ p = [svc.ses EXCEPT ![o.f] = g]
      BY <2>2, <3>2 DEF SetupPristine
    <3>5. p \in Session
      BY <1>0, <3>3, <3>4 DEF Session
    <3>. QED  BY <2>2, <3>5 DEF SetupPristine
  <2>4. PICK q : q = SetValue(p, o.f, o.v)
    OBVIOUS
  <2>5. q \in Session /\ (~TransferSessionState => q = svc.ses)
    <3>1. PICK g : g = [p[o.f] EXCEPT !.val = o.v]
      OBVIOUS
    <3>2. g \in Field
      BY <2>1, <2>3, <3>1 DEF Session, Field
    <3>3. q = p \/ q = [p EXCEPT ![o.f] = g]
      BY <2>4, <3>1 DEF SetValue
    <3>4. q \in Session
      BY <2>3, <3>2, <3>3 DEF Session
    <3>. QED  BY <2>3, <2>4, <3>4 DEF SetValue
  <2>6. Prepared(o) = [svc EXCEPT !.ses = q]
    BY <1>2, <2>2, <2>4 DEF Prepared, UpdateState
  <2>7. /\ Prepared(o) \in Services /\ Prepared(o).conn = svc.conn
        /\ Prepared(o).inTx = svc.inTx /\ Prepared(o).inSplit = svc.inSplit /\ Prepared(o).ses = q
    BY <1>0, <2>5, <2>6 DEF Services
  <2>. QED  BY <1>0, <2>5, <2>7
<1>. QED  BY <1>1, <1>2

LEMMA ExecRefusedStep ==
    ASSUME Inv, ExecRefused
    PROVE  Kept
<1>1. /\ call.pc = "exec" /\ fo.pc = "off" /\ call.op \in Ops \cup {NoOp} /\ svc.conn # Nil
      /\ links \in LinkSets /\ links' = links /\ svc' = Prepared(call.op) /\ TypeOK
      /\ UNCHANGED <<cluster, marked, cfg, isInTransaction, fo>>
  BY DEF ExecRefused, Executing, Inv, TypeOK, Calls, CallKnown, LinkSets
<1>2. Finish("error")
  BY DEF ExecRefused
<1>. QED  BY <1>1, <1>2, PreparedFacts, FinishFacts, FewerReflexive, Settles

LEMMA ExecSucceedsStep ==
    ASSUME Inv, ExecSucceeds
    PROVE  Kept
<1>. USE DEF Inv
<1>0. /\ call.pc = "exec" /\ fo.pc = "off" /\ fo.conn = Nil /\ call.op \in Ops \cup {NoOp}
      /\ svc.conn \in Conns /\ links \in LinkSets /\ links[svc.conn].st = "open" /\ call.conn = Nil
      /\ svc.conn # Nil /\ Nil \notin Conns
      /\ UNCHANGED <<up, writer, stored, faults, marked, cfg, isInTransaction, fo>>
  BY ServiceAssumption
     DEF ExecSucceeds, Executing, TypeOK, Calls, CallKnown, LinkSets, Services, FailoverKnown, LocalConn, cluster
<1>1. PICK o \in Ops \cup {NoOp} : o = call.op
  BY <1>0
<1>2. PICK p : p = Prepared(o)
  OBVIOUS
<1>3. /\ p \in Services /\ p.conn = svc.conn /\ p.inTx = svc.inTx /\ p.inSplit = svc.inSplit
      /\ ~TransferSessionState => Recorded(p.ses) = {}
  BY <1>2, PreparedFacts
<1>4. svc' = TransactionFlag(o, p)
  BY <1>1, <1>2 DEF ExecSucceeds
<1>5. /\ svc' \in Services /\ svc'.conn = svc.conn /\ svc'.inSplit = svc.inSplit
      /\ ~TransferSessionState => Recorded(svc'.ses) = {}
      /\ svc'.inTx = ((svc.inTx \/ o.kind = "begin") /\ ~EndsTx(o))
  <2>1. CASE o.kind = "begin"
    <3>1. svc' = [p EXCEPT !.inTx = TRUE] /\ ~EndsTx(o)
      BY <1>4, <2>1 DEF TransactionFlag, EndsTx
    <3>2. svc' \in Services /\ svc'.conn = p.conn /\ svc'.inSplit = p.inSplit /\ svc'.ses = p.ses /\ svc'.inTx = TRUE
      BY <1>3, <3>1 DEF Services
    <3>. QED  BY <1>3, <2>1, <3>1, <3>2
  <2>2. CASE EndsTx(o)
    <3>1. svc' = [p EXCEPT !.inTx = FALSE]
      BY <1>4, <2>2 DEF TransactionFlag, EndsTx
    <3>2. svc' \in Services /\ svc'.conn = p.conn /\ svc'.inSplit = p.inSplit /\ svc'.ses = p.ses /\ svc'.inTx = FALSE
      BY <1>3, <3>1 DEF Services
    <3>. QED  BY <1>3, <2>2, <3>2
  <2>3. CASE o.kind # "begin" /\ ~EndsTx(o)
    <3>1. svc' = p
      BY <1>4, <2>3 DEF TransactionFlag
    <3>. QED  BY <1>3, <2>3, <3>1 DEF TypeOK, Services
  <2>. QED  BY <2>1, <2>2, <2>3
<1>6. PICK lk : lk = [links[svc.conn] EXCEPT
                        !.set = IF o.f = Nil THEN links[svc.conn].set ELSE [links[svc.conn].set EXCEPT ![o.f] = o.v],
                        !.tx = (links[svc.conn].tx \/ o.kind = "begin") /\ ~EndsTx(o)]
  OBVIOUS
<1>7. links' = [links EXCEPT ![svc.conn] = lk]
  BY <1>0, <1>1, <1>6 DEF ExecSucceeds, LinkSets, Links
<1>8. lk \in Links /\ lk.st = "open" /\ lk.tx = ((links[svc.conn].tx \/ o.kind = "begin") /\ ~EndsTx(o))
  <2>1. links[svc.conn] \in Links /\ links[svc.conn].set \in [FieldSet -> Values \cup {Nil}]
    BY <1>0 DEF LinkSets, Links
  <2>2. PICK set : set = IF o.f = Nil THEN links[svc.conn].set ELSE [links[svc.conn].set EXCEPT ![o.f] = o.v]
    OBVIOUS
  <2>3. set \in [FieldSet -> Values \cup {Nil}]
    <3>1. o.f # Nil => o.v \in Values \cup {Nil}
      BY DEF Ops, NoOp
    <3>. QED  BY <2>1, <2>2, <3>1
  <2>4. PICK tx \in BOOLEAN : tx = ((links[svc.conn].tx \/ o.kind = "begin") /\ ~EndsTx(o))
    OBVIOUS
  <2>5. lk = [links[svc.conn] EXCEPT !.set = set, !.tx = tx]
    BY <1>6, <2>2, <2>4
  <2>. QED  BY <1>0, <2>1, <2>3, <2>4, <2>5 DEF Links
<1>9. links' \in LinkSets /\ links'[svc.conn] = lk /\ \A k \in Conns : k # svc.conn => links'[k] = links[k]
  BY <1>0, <1>7, <1>8 DEF LinkSets
<1>10. /\ appTx' = IF o.kind = "begin" THEN svc.conn ELSE IF EndsTx(o) THEN Nil ELSE appTx
       /\ claim' = ((claim \/ o.kind = "begin") /\ ~EndsTx(o))
       /\ stmt' = IF o.kind = "prepare" THEN svc.conn ELSE stmt
       /\ call' = Idle /\ verdict' = "ok"
  BY <1>1 DEF ExecSucceeds
<1>11. call'.pc = "idle" /\ call'.conn = Nil
  BY <1>10 DEF Idle
<1>12. TypeOK'
  <2>1. appTx' \in Conns \cup {Nil} /\ stmt' \in Conns \cup {Nil} /\ claim' \in BOOLEAN
    BY <1>0, <1>10 DEF TypeOK
  <2>. QED  BY <1>0, <1>5, <1>9, <1>10, <2>1, IdleType, CallsConstant DEF TypeOK, LinkSets, Verdicts
<1>13. ClusterKnown' /\ CallKnown' /\ LocalConn' /\ OpenKnown' /\ FailoverKnown'
  BY <1>0, <1>5, <1>11 DEF ClusterKnown, CallKnown, LocalConn, OpenKnown, FailoverKnown
<1>14. TxKnown'
  BY <1>0, <1>5, <1>8, <1>9 DEF TxKnown
<1>15. ClaimKnown'
  BY <1>0, <1>5, <1>10, <1>11 DEF ClaimKnown
<1>16. OpenOnes'
  BY <1>0, <1>5, <1>9, <1>11 DEF OpenOnes, IsClosed
<1>17. Promised
  <2>1. o.kind = "begin" => ~EndsTx(o)
    BY DEF EndsTx
  <2>. QED  BY <1>5, <1>10, <2>1 DEF Promised, ClaimKnown
<1>. QED  BY <1>12, <1>13, <1>14, <1>15, <1>16, <1>17 DEF Kept

LEMMA ExecBreaksStep ==
    ASSUME Inv, ExecBreaks
    PROVE  Kept
<1>. USE DEF Inv
<1>0. /\ call.pc = "exec" /\ fo.pc = "off" /\ fo.conn = Nil /\ call.op \in Ops \cup {NoOp}
      /\ svc.conn \in Conns /\ svc.conn # Nil /\ links \in LinkSets /\ svc \in Services
      /\ Nil \notin Conns /\ call.conn = Nil
      /\ UNCHANGED <<up, writer, stored, faults, cfg>>
  BY ServiceAssumption
     DEF ExecBreaks, Executing, TypeOK, Calls, CallKnown, LinkSets, Services, FailoverKnown, LocalConn, cluster
<1>1. CASE Finish("error") /\ UNCHANGED <<svc, links, marked, isInTransaction, fo>>
  <2>1. Fewer(links, links') /\ svc' = svc /\ links' = links /\ UNCHANGED <<cluster, marked, cfg, isInTransaction, fo>>
    BY <1>0, <1>1, FewerReflexive DEF cluster
  <2>2. ~TransferSessionState => Recorded(svc'.ses) = {}
    BY <2>1 DEF OpenKnown
  <2>. QED  BY <1>0, <1>1, <2>1, <2>2, FinishFacts, Settles
<1>2. CASE DealWithError(Prepared(call.op)) /\ UNCHANGED app
  <2>1. PICK s : s = Prepared(call.op)
    OBVIOUS
  <2>2. /\ s \in Services /\ s.conn = svc.conn /\ s.inTx = svc.inTx /\ s.inSplit = svc.inSplit
        /\ ~TransferSessionState => Recorded(s.ses) = {}
    BY <1>0, <2>1, PreparedFacts
  <2>3. PICK H : svc' = SetAvailability(s, H, FALSE) /\ marked' = marked \cup (H \cap Members(s.view))
    BY <1>2, <2>1 DEF DealWithError
  <2>4. /\ svc' \in Services /\ svc'.conn = svc.conn /\ svc'.inTx = svc.inTx /\ svc'.inSplit = svc.inSplit
        /\ ~TransferSessionState => Recorded(svc'.ses) = {}
    BY <2>2, <2>3, SetAvailabilityFacts DEF SameButView
  <2>5. marked' \subseteq Hosts
    BY <2>2, <2>3, ListTypes DEF TypeOK, Services
  <2>6. fo' \in Failovers /\ fo'.pc = "failover" /\ fo'.conn = Nil
    BY <1>2, IdleType DEF DealWithError, NoFailover
  <2>7. PICK m : m = IF svc.inTx THEN Rollback(links, svc.conn, appTx) ELSE links
    OBVIOUS
  <2>8. m \in LinkSets /\ Fewer(links, m)
    BY <1>0, <2>7, RollbackFacts, FewerReflexive
  <2>9. /\ links' = IF IsClosed(m, svc.conn) THEN m ELSE CloseLink(m, svc.conn)
        /\ isInTransaction' = (isInTransaction \/ svc.inTx)
    BY <1>2, <2>7 DEF DealWithError, InvalidateCurrentConnection
  <2>10. links' \in LinkSets /\ Fewer(links, links') /\ IsClosed(links', svc.conn)
    <3>1. CASE IsClosed(m, svc.conn)
      BY <2>8, <2>9, <3>1
    <3>2. CASE ~ IsClosed(m, svc.conn)
      <4>1. links' = CloseLink(m, svc.conn)
        BY <2>9, <3>2
      <4>2. links' \in LinkSets /\ Fewer(m, links') /\ links'[svc.conn] = NoLink
        BY <1>0, <2>8, <4>1, CloseLinkFacts
      <4>. QED  BY <2>8, <4>2, FewerTransitive, NoLinkType DEF IsClosed
    <3>. QED  BY <3>1, <3>2
  <2>11. \A k \in Conns : ~ links'[k].tx
    BY <2>10 DEF TxKnown, Fewer, IsClosed
  <2>12. UNCHANGED <<call, appTx, claim, stmt, verdict>>
    BY <1>2 DEF app
  <2>13. TypeOK'
    BY <1>0, <2>4, <2>5, <2>6, <2>9, <2>10, <2>12, CallsConstant DEF TypeOK, LinkSets
  <2>14. ClusterKnown' /\ CallKnown' /\ LocalConn' /\ OpenKnown'
    BY <1>0, <2>4, <2>12 DEF ClusterKnown, CallKnown, LocalConn, OpenKnown
  <2>15. FailoverKnown'
    BY <1>0, <2>4, <2>6, <2>10, <2>12 DEF FailoverKnown
  <2>16. TxKnown' /\ ClaimKnown' /\ Promised
    BY <2>4, <2>9, <2>11, <2>12 DEF TxKnown, ClaimKnown, Promised
  <2>17. OpenOnes'
    BY <1>0, <2>4, <2>6, <2>10, <2>12 DEF OpenOnes, Fewer
  <2>. QED  BY <2>13, <2>14, <2>15, <2>16, <2>17 DEF Kept
<1>. QED  BY <1>1, <1>2 DEF ExecBreaks

LEMMA CloseStep ==
    ASSUME Inv, Close
    PROVE  Kept
<1>. USE DEF Inv
<1>0. /\ call.pc = "idle" /\ svc.conn # Nil /\ svc.conn \in Conns /\ fo.pc = "off" /\ fo.conn = Nil
      /\ call.conn = Nil /\ svc \in Services /\ links \in LinkSets /\ Nil \notin Conns
      /\ UNCHANGED <<up, writer, stored, faults, marked, cfg, isInTransaction, fo>>
  BY NoFailoverYet, ServiceAssumption DEF Close, LocalConn, cluster, TypeOK, Services, LinkSets
<1>1. PICK l : l = CloseLink(links, svc.conn)
  OBVIOUS
<1>2. l \in LinkSets /\ Fewer(links, l) /\ l[svc.conn] = NoLink
  BY <1>0, <1>1, CloseLinkFacts
<1>3. PICK r : r = IF svc.split THEN CloseIdleConnections(svc, l) ELSE [svc |-> svc, links |-> l]
  OBVIOUS
<1>4. /\ r.svc \in Services /\ r.links \in LinkSets /\ Fewer(l, r.links)
      /\ r.svc.inSplit = svc.inSplit /\ r.svc.inTx = svc.inTx /\ r.svc.ses = svc.ses
  <2>1. CASE svc.split
    <3>1. r = CloseIdleConnections(svc, l)
      BY <1>3, <2>1
    <3>. QED  BY <1>0, <1>2, <3>1, CloseIdleConnectionsFacts DEF SameButCache
  <2>2. CASE ~ svc.split
    <3>1. r.svc = svc /\ r.links = l
      BY <1>3, <2>2
    <3>. QED  BY <1>0, <1>2, <3>1, FewerReflexive
  <2>. QED  BY <2>1, <2>2
<1>5. svc' = [r.svc EXCEPT !.conn = Nil] /\ links' = CloseLink(r.links, svc.conn)
  BY <1>0, <1>1, <1>3 DEF Close, ReleaseResources
<1>6. svc' \in Services /\ svc'.conn = Nil /\ svc'.inSplit = svc.inSplit /\ svc'.ses = svc.ses
  BY <1>4, <1>5 DEF Services
<1>7. links' \in LinkSets /\ Fewer(links, links') /\ IsClosed(links', svc.conn) /\ ~ links'[svc.conn].tx
  <2>1. links' \in LinkSets /\ Fewer(r.links, links') /\ links'[svc.conn] = NoLink
    BY <1>0, <1>4, <1>5, CloseLinkFacts
  <2>2. Fewer(links, links')
    BY <1>2, <1>4, <2>1, FewerTransitive
  <2>. QED  BY <2>1, <2>2, NoLinkType DEF IsClosed
<1>8. call' = Over /\ verdict' = "none" /\ appTx' = Nil /\ ~ claim' /\ claim' \in BOOLEAN /\ stmt' = Nil
  BY DEF Close
<1>9. call'.pc = "over" /\ call'.conn = Nil
  BY <1>8 DEF Over, Idle
<1>10. TypeOK'
  BY <1>0, <1>6, <1>7, <1>8, IdleType, CallsConstant DEF TypeOK, LinkSets, Verdicts
<1>11. ClusterKnown' /\ CallKnown' /\ LocalConn' /\ OpenKnown' /\ FailoverKnown'
  BY <1>0, <1>6, <1>9 DEF ClusterKnown, CallKnown, LocalConn, OpenKnown, FailoverKnown
<1>12. TxKnown' /\ ClaimKnown' /\ Promised
  BY <1>6, <1>7, <1>8 DEF TxKnown, ClaimKnown, Promised, Fewer
<1>13. OpenOnes'
  BY <1>0, <1>6, <1>7 DEF OpenOnes, Fewer
<1>. QED  BY <1>10, <1>11, <1>12, <1>13 DEF Kept

-----------------------------------------------------------------------------
(* The cluster *)

\* The cluster changes and the wrapper does not; connections may be lost.
LEMMA ClusterStep ==
    ASSUME Inv, up' \subseteq cfg.members, writer' \in Hosts, faults' \in 0 .. MaxFaults, stored' \in HostLists,
           links' \in LinkSets, Fewer(links, links'),
           \A k \in Conns : IsClosed(links, k) => IsClosed(links', k),
           UNCHANGED <<marked, cfg, svc, isInTransaction, fo, app>>
    PROVE  Kept
<1>. USE DEF Inv
<1>0. cfg.members \subseteq Hosts /\ UNCHANGED <<call, appTx, claim, stmt, verdict>>
  BY FailoverAssumption DEF TypeOK, app
<1>1. TypeOK'
  BY <1>0, CallsConstant DEF TypeOK, LinkSets
<1>2. ClusterKnown' /\ CallKnown' /\ LocalConn' /\ OpenKnown'
  BY <1>0 DEF ClusterKnown, CallKnown, LocalConn, OpenKnown
<1>3. FailoverKnown'
  BY <1>0 DEF FailoverKnown, TypeOK, Services
<1>4. TxKnown' /\ ClaimKnown' /\ Promised
  BY <1>0 DEF TxKnown, ClaimKnown, Promised, Fewer
<1>5. OpenOnes'
  BY <1>0 DEF OpenOnes, Fewer
<1>. QED  BY <1>1, <1>2, <1>3, <1>4, <1>5 DEF Kept

LEMMA CrashStep ==
    ASSUME Inv, NEW h \in Hosts, Crash(h)
    PROVE  Kept
<1>. USE DEF Inv
<1>0. /\ up' = up \ {h} /\ faults' = faults - 1 /\ faults > 0 /\ links \in LinkSets
      /\ UNCHANGED <<writer, stored, marked, cfg, svc, isInTransaction, fo, app>>
  BY DEF Crash, TypeOK, LinkSets
<1>1. links' = [c \in Conns |-> IF links[c].st = "open" /\ links[c].at = h
                                THEN [links[c] EXCEPT !.st = "lost", !.tx = FALSE] ELSE links[c]]
  BY DEF Crash
<1>2. \A k \in Conns : /\ links'[k] \in Links
                       /\ links'[k].tx => links[k].tx /\ links'[k].st = links[k].st
                       /\ links'[k].st = "closed" <=> links[k].st = "closed"
  <2>. SUFFICES ASSUME NEW k \in Conns
                PROVE  /\ links'[k] \in Links
                       /\ links'[k].tx => links[k].tx /\ links'[k].st = links[k].st
                       /\ links'[k].st = "closed" <=> links[k].st = "closed"
    OBVIOUS
  <2>1. links[k] \in Links
    BY <1>0 DEF LinkSets
  <2>2. CASE links[k].st = "open" /\ links[k].at = h
    <3>1. links'[k] = [links[k] EXCEPT !.st = "lost", !.tx = FALSE]
      BY <1>1, <2>2
    <3>. QED  BY <2>1, <2>2, <3>1 DEF Links
  <2>3. CASE ~ (links[k].st = "open" /\ links[k].at = h)
    BY <1>1, <2>1, <2>3
  <2>. QED  BY <2>2, <2>3
<1>3. links' \in LinkSets
  BY <1>1, <1>2 DEF LinkSets
<1>4. Fewer(links, links') /\ \A k \in Conns : IsClosed(links, k) => IsClosed(links', k)
  BY <1>2 DEF Fewer, IsClosed
<1>5. up' \subseteq cfg.members /\ faults' \in 0 .. MaxFaults /\ writer' \in Hosts /\ stored' \in HostLists
  BY <1>0, WrapperAssumption DEF ClusterKnown, TypeOK
<1>. QED  BY <1>0, <1>3, <1>4, <1>5, ClusterStep

LEMMA EnvironmentStep ==
    ASSUME Inv, MonitorStores \/ \E h \in Hosts : Recover(h) \/ Promote(h)
    PROVE  Kept
<1>. USE DEF Inv
<1>0. links \in LinkSets /\ faults \in 0 .. MaxFaults /\ writer \in Hosts /\ stored \in HostLists /\ up \subseteq cfg.members
  BY DEF TypeOK, LinkSets, ClusterKnown
<1>1. links' = links /\ UNCHANGED <<marked, cfg, svc, isInTransaction, fo, app>>
  BY DEF MonitorStores, Recover, Promote
<1>2. up' \subseteq cfg.members /\ writer' \in Hosts
  BY <1>0 DEF MonitorStores, Recover, Promote
<1>3. faults' \in 0 .. MaxFaults
  BY <1>0, WrapperAssumption DEF MonitorStores, Recover, Promote
<1>4. stored' \in HostLists
  BY <1>0, TrueTopologyType DEF MonitorStores, Recover, Promote
<1>. QED  BY <1>0, <1>1, <1>2, <1>3, <1>4, FewerReflexive, ClusterStep

-----------------------------------------------------------------------------
(* Read/write splitting *)

\* A setReadOnly step is taken outside failover.
Splitting ==
    /\ Inv /\ call.pc \in {"split", "pick", "dialled"} /\ fo.pc = "off"
    /\ UNCHANGED <<others, marked, fo>>

\* What the plugin has made of the service and the connections: they serve the same
\* connection and transaction, or there is no transaction and they moved.
Reached(s, l) ==
    /\ s \in Services /\ s.conn # Nil /\ l \in LinkSets /\ Fewer(links, l)
    /\ \/ s.conn = svc.conn /\ s.inTx = svc.inTx
       \/ ~svc.inTx /\ ~s.inTx /\ s.inSplit
    /\ svc.inSplit => s.inSplit
    /\ ~TransferSessionState => Recorded(s.ses) = {}

Moving(s, l) == Reached(s, l) /\ ~svc.inTx /\ ~s.inTx /\ s.inSplit

LEMMA SwitchDoneStep ==
    ASSUME Splitting, NEW s, NEW l, Reached(s, l), SwitchDone(s, l)
    PROVE  Kept
<1>1. /\ call.op \in Ops \cup {NoOp} /\ Idle \in Calls /\ verdict \in Verdicts /\ claim \in BOOLEAN
      /\ svc' = s /\ links' = l /\ UNCHANGED <<appTx, claim, stmt, verdict>>
  BY IdleType DEF Splitting, Inv, TypeOK, Calls, SwitchDone
<1>2. call' \in Calls /\ call'.pc = "exec" /\ call'.conn = Idle.conn
  BY <1>1 DEF SwitchDone, Calls
<1>3. call'.conn = Nil
  BY <1>2 DEF Idle
<1>. QED  BY <1>1, <1>2, <1>3, Settles DEF Splitting, Reached, others

LEMMA SwitchErrorStep ==
    ASSUME Splitting, NEW s, NEW l, Reached(s, l), SwitchError(s, l)
    PROVE  Kept
<1>1. PICK r : r = CloseIdleConnections(s, l)
  OBVIOUS
<1>2. svc' = r.svc /\ links' = r.links /\ Finish("error")
  BY <1>1 DEF SwitchError
<1>3. r.svc \in Services /\ SameButCache(s, r.svc) /\ r.links \in LinkSets /\ Fewer(l, r.links)
  BY <1>1, CloseIdleConnectionsFacts DEF Reached
<1>4. Reached(svc', links')
  BY <1>2, <1>3, FewerTransitive DEF Reached, SameButCache
<1>. QED  BY <1>2, <1>4, FinishFacts, Settles DEF Splitting, Reached, others, Inv

LEMMA PickStep ==
    ASSUME Splitting, NEW s, NEW l, NEW role \in Roles, Moving(s, l), Pick(s, l, role)
    PROVE  Kept
<1>1. /\ call \in Calls /\ verdict \in Verdicts /\ claim \in BOOLEAN /\ s.view \in HostLists
      /\ svc' = s /\ links' = l /\ UNCHANGED <<appTx, claim, stmt, verdict>>
      /\ call' = [call EXCEPT !.pc = "pick", !.want = role, !.list = s.view]
  BY DEF Splitting, Inv, TypeOK, Pick, Moving, Reached, Services
<1>2. call' \in Calls /\ call'.pc = "pick"
  BY <1>1 DEF Calls
<1>. QED  BY <1>1, <1>2, Settles DEF Splitting, Moving, Reached, others

LEMMA SwitchFailedStep ==
    ASSUME Splitting, NEW s, NEW l, Reached(s, l), SwitchFailed(s, l)
    PROVE  Kept
BY SwitchDoneStep, SwitchErrorStep DEF SwitchFailed

LEMMA MovingOn ==
    ASSUME Splitting, NEW s, NEW l, Moving(s, l), NEW c \in Conns, NEW hi \in HostInfos \cup {Nil},
           NEW bad, NEW o, o = SetCurrentConnection(s, l, appTx, c, hi, bad)
    PROVE  Moving(o.svc, o.links)
<1>1. SwitchedTo(s, l, c, o)
  BY SetCurrentConnectionFacts DEF Moving, Reached
<1>2. c # Nil
  BY ServiceAssumption
<1>. QED  BY <1>1, <1>2, FewerTransitive DEF Moving, Reached, SwitchedTo

LEMMA SwitchToStep ==
    ASSUME Splitting, NEW s, NEW l, Moving(s, l), NEW c \in Conns, NEW hi \in HostInfos \cup {Nil},
           SwitchTo(s, l, c, hi)
    PROVE  Kept
<1>1. CASE s.conn = c
  BY <1>1, SwitchDoneStep DEF SwitchTo, Moving
<1>2. CASE s.conn # c
  <2>1. PICK bad : LET o == SetCurrentConnection(s, l, appTx, c, hi, bad)
                   IN  IF o.ok THEN SwitchDone(o.svc, o.links) ELSE SwitchFailed(o.svc, o.links)
    BY <1>2 DEF SwitchTo
  <2>2. PICK o : o = SetCurrentConnection(s, l, appTx, c, hi, bad)
    OBVIOUS
  <2>3. SwitchDone(o.svc, o.links) \/ SwitchFailed(o.svc, o.links)
    BY <2>1, <2>2
  <2>4. Reached(o.svc, o.links)
    BY <2>2, MovingOn DEF Moving
  <2>. QED  BY <2>3, <2>4, SwitchDoneStep, SwitchFailedStep
<1>. QED  BY <1>1, <1>2

LEMMA InitializeReaderStep ==
    ASSUME Splitting, NEW s, NEW l, Moving(s, l), InitializeReader(s, l)
    PROVE  Kept
<1>1. Pick(s, l, "reader") \/ Pick(s, l, "writer") \/ SwitchFailed(s, l) \/ SwitchDone(s, l)
  BY DEF InitializeReader
<1>2. "reader" \in Roles /\ "writer" \in Roles /\ Reached(s, l)
  BY DEF Roles, Moving
<1>. QED  BY <1>1, <1>2, PickStep, SwitchFailedStep, SwitchDoneStep

LEMMA SwitchToReaderStep ==
    ASSUME Splitting, NEW s, Reached(s, links), ~svc.inTx, ~s.inTx, SwitchToReader(s)
    PROVE  Kept
<1>0. s \in Services /\ links \in LinkSets
  BY DEF Reached
<1>1. PICK d : d = IF s.rHost # Nil /\ ~ReaderListed(s) THEN CloseIdle(s, links, s.rConn)
                   ELSE [svc |-> s, links |-> links]
  OBVIOUS
<1>2. d.svc \in Services /\ SameButCache(s, d.svc) /\ d.links \in LinkSets /\ Fewer(links, d.links)
  <2>1. CASE d = CloseIdle(s, links, s.rConn)
    BY <1>0, <2>1, CloseIdleFacts
  <2>2. CASE d = [svc |-> s, links |-> links]
    <3>1. d.svc = s /\ d.links = links
      BY <2>2
    <3>. QED  BY <1>0, <3>1, FewerReflexive DEF SameButCache
  <2>. QED  BY <1>1, <2>1, <2>2
<1>3. PICK t : t = [d.svc EXCEPT !.inSplit = TRUE]
  OBVIOUS
<1>4. /\ t \in Services /\ t.conn = s.conn /\ t.inTx = s.inTx /\ t.ses = s.ses /\ t.inSplit
  BY <1>2, <1>3 DEF Services, SameButCache
<1>5. Moving(t, d.links)
  BY <1>2, <1>4 DEF Moving, Reached
<1>6. \/ InitializeReader(t, d.links)
      \/ SwitchDone(t, d.links)
      \/ /\ Usable(d.links, t.rConn)
         /\ \E bad : LET o == SetCurrentConnection(t, d.links, appTx, t.rConn, t.rHost, bad)
                     IN  IF o.ok THEN SwitchDone(o.svc, o.links)
                         ELSE InitializeReader([o.svc EXCEPT !.rConn = Nil, !.rHost = Nil],
                                               CloseLink(o.links, t.rConn))
  BY <1>1, <1>3 DEF SwitchToReader
<1>7. CASE InitializeReader(t, d.links)
  BY <1>5, <1>7, InitializeReaderStep
<1>8. CASE SwitchDone(t, d.links)
  BY <1>5, <1>8, SwitchDoneStep DEF Moving
<1>9. ASSUME Usable(d.links, t.rConn), NEW bad,
             LET o == SetCurrentConnection(t, d.links, appTx, t.rConn, t.rHost, bad)
             IN  IF o.ok THEN SwitchDone(o.svc, o.links)
                 ELSE InitializeReader([o.svc EXCEPT !.rConn = Nil, !.rHost = Nil],
                                       CloseLink(o.links, t.rConn))
      PROVE  Kept
  <2>1. t.rConn \in Conns /\ t.rHost \in HostInfos \cup {Nil}
    BY <1>4, <1>9 DEF Usable, Services
  <2>2. PICK o : o = SetCurrentConnection(t, d.links, appTx, t.rConn, t.rHost, bad)
    OBVIOUS
  <2>3. Moving(o.svc, o.links)
    BY <1>5, <2>1, <2>2, MovingOn
  <2>4. CASE SwitchDone(o.svc, o.links)
    BY <2>3, <2>4, SwitchDoneStep DEF Moving
  <2>5. CASE InitializeReader([o.svc EXCEPT !.rConn = Nil, !.rHost = Nil], CloseLink(o.links, t.rConn))
    <3>1. PICK u : u = [o.svc EXCEPT !.rConn = Nil, !.rHost = Nil]
      OBVIOUS
    <3>2. PICK m : m = CloseLink(o.links, t.rConn)
      OBVIOUS
    <3>3. /\ u \in Services /\ u.conn = o.svc.conn /\ u.inTx = o.svc.inTx /\ u.ses = o.svc.ses
          /\ u.inSplit = o.svc.inSplit
      BY <2>3, <3>1 DEF Services, Moving, Reached
    <3>4. m \in LinkSets /\ Fewer(o.links, m)
      BY <2>3, <3>2, CloseLinkFacts DEF Moving, Reached
    <3>5. Moving(u, m)
      BY <2>3, <3>3, <3>4, FewerTransitive DEF Moving, Reached
    <3>. QED  BY <2>5, <3>1, <3>2, <3>5, InitializeReaderStep
  <2>. QED  BY <1>9, <2>2, <2>4, <2>5
<1>. QED  BY <1>6, <1>7, <1>8, <1>9

LEMMA SwitchToWriterStep ==
    ASSUME Splitting, NEW s, Reached(s, links), ~svc.inTx, ~s.inTx, SwitchToWriter(s)
    PROVE  Kept
<1>1. PICK t : t = [s EXCEPT !.inSplit = TRUE]
  OBVIOUS
<1>2. t \in Services /\ t.conn = s.conn /\ t.inTx = s.inTx /\ t.ses = s.ses /\ t.inSplit
  BY <1>1 DEF Reached, Services
<1>3. Moving(t, links)
  BY <1>2 DEF Moving, Reached
<1>4. CASE Usable(links, t.wConn) /\ SwitchTo(t, links, t.wConn, t.wHost)
  <2>1. t.wConn \in Conns /\ t.wHost \in HostInfos \cup {Nil}
    BY <1>2, <1>4 DEF Usable, Services
  <2>. QED  BY <1>3, <1>4, <2>1, SwitchToStep
<1>5. CASE Pick(t, links, "writer")
  <2>1. "writer" \in Roles
    BY DEF Roles
  <2>. QED  BY <1>3, <1>5, <2>1, PickStep
<1>. QED  BY <1>1, <1>4, <1>5 DEF SwitchToWriter

LEMMA SwitchConnectionIfRequiredStep ==
    ASSUME Inv, SwitchConnectionIfRequired
    PROVE  Kept
<1>0. /\ call.pc = "split" /\ fo.pc = "off" /\ svc \in Services /\ links \in LinkSets /\ svc.conn # Nil
      /\ stored \in HostLists /\ (~TransferSessionState => Recorded(svc.ses) = {})
  BY NoFailoverYet DEF SwitchConnectionIfRequired, Inv, TypeOK, CallKnown, LinkSets, OpenKnown
<1>1. Splitting
  BY <1>0 DEF Splitting, SwitchConnectionIfRequired
<1>2. Reached(svc, links)
  BY <1>0, FewerReflexive DEF Reached
<1>3. CASE SwitchError(svc, links)
  BY <1>1, <1>2, <1>3, SwitchErrorStep
<1>4. ASSUME NEW s \in Refreshed(svc, stored),
             LET stay == IF call.op.ro THEN s.inTx \/ s.host.role = "reader"
                         ELSE s.host.role = "writer"
             IN  CASE GetHosts(s.view) = {}                -> SwitchError(s, links)
                   [] GetHosts(s.view) # {} /\ stay        -> SwitchDone(s, links)
                   [] GetHosts(s.view) # {} /\ ~stay /\ call.op.ro -> SwitchToReader(s)
                   [] OTHER -> IF s.inTx THEN SwitchError(s, links) ELSE SwitchToWriter(s)
      PROVE  Kept
  <2>1. s \in Services /\ SameButView(svc, s)
    BY <1>0, RefreshedFacts
  <2>2. Reached(s, links)
    BY <1>2, <2>1 DEF Reached, SameButView
  <2>3. \/ SwitchError(s, links)
        \/ SwitchDone(s, links)
        \/ ~ s.inTx /\ SwitchToReader(s)
        \/ ~ s.inTx /\ SwitchToWriter(s)
    BY <1>4
  <2>4. ~ s.inTx => ~ svc.inTx
    BY <2>1 DEF SameButView
  <2>. QED
    BY <1>1, <2>2, <2>3, <2>4, SwitchErrorStep, SwitchDoneStep, SwitchToReaderStep, SwitchToWriterStep
<1>. QED  BY <1>3, <1>4 DEF SwitchConnectionIfRequired

LEMMA AttemptsBound ==
    ASSUME TypeOK, NEW h \in Eligible
    PROVE  /\ h \in Members(call.list) /\ Attempts \in Nat
           /\ Attempts <= 2 * Cardinality(Hosts) /\ Cardinality(Hosts) \in Nat
<1>1. call.list \in HostLists
  BY DEF TypeOK, Calls
<1>2. GetHosts(call.list) \subseteq Hosts /\ h \in GetHosts(call.list) /\ h \in Members(call.list)
  <2>1. h \in GetHosts(call.list)
    BY DEF Eligible
  <2>. QED  BY <1>1, <2>1, ListTypes DEF GetHosts
<1>3. /\ Cardinality(Hosts) \in Nat /\ Cardinality(GetHosts(call.list)) \in Nat
      /\ Cardinality(GetHosts(call.list)) <= Cardinality(Hosts)
  BY <1>2, ServiceAssumption, FS_CardinalityType, FS_Subset
<1>4. Cardinality(Hosts) # 0
  BY <1>2, ServiceAssumption, FS_EmptySet
<1>5. Attempts = 2 * Cardinality(GetHosts(call.list)) \/ Attempts = 1
  BY DEF Attempts
<1>. QED  BY <1>2, <1>3, <1>4, <1>5

LEMMA PickHostStep ==
    ASSUME Inv, PickHost
    PROVE  Kept
<1>. USE DEF Inv
<1>0. /\ call.pc = "pick" /\ fo.pc = "off" /\ fo.conn = Nil /\ svc \in Services /\ links \in LinkSets
      /\ svc.conn # Nil /\ call \in Calls /\ svc.inSplit /\ ~ svc.inTx
      /\ ~TransferSessionState => Recorded(svc.ses) = {}
      /\ UNCHANGED <<others, marked, fo>>
  BY NoFailoverYet DEF PickHost, TypeOK, CallKnown, LinkSets, OpenKnown
<1>1. CASE SwitchFailed(svc, links)
  <2>1. Splitting /\ Reached(svc, links)
    BY <1>0, FewerReflexive DEF Splitting, Reached
  <2>. QED  BY <1>1, <2>1, SwitchFailedStep
<1>2. CASE /\ ~ (call.tries >= Attempts)
           /\ \E h \in Eligible :
                 call' = [call EXCEPT !.pc = "dial", !.host = Info(call.list, h), !.tries = @ + 1]
           /\ UNCHANGED <<svc, links, appTx, claim, stmt, verdict>>
  <2>1. PICK h \in Eligible :
                 call' = [call EXCEPT !.pc = "dial", !.host = Info(call.list, h), !.tries = @ + 1]
    BY <1>2
  <2>2. call.tries \in Nat /\ call.list \in HostLists
    BY <1>0 DEF Calls
  <2>3. PICK n : n = call.tries + 1
    OBVIOUS
  <2>4. n \in 0 .. 2 * Cardinality(Hosts)
    BY <1>2, <2>2, <2>3, AttemptsBound
  <2>5. PICK hi : hi = Info(call.list, h)
    OBVIOUS
  <2>6. hi \in HostInfos
    BY <2>2, <2>5, AttemptsBound, ListTypes
  <2>7. call' = [call EXCEPT !.pc = "dial", !.host = hi, !.tries = n]
    BY <2>1, <2>3, <2>5
  <2>8. call' \in Calls /\ call'.pc = "dial" /\ call'.host = hi
    BY <1>0, <2>4, <2>6, <2>7 DEF Calls
  <2>9. UNCHANGED <<up, writer, stored, faults, cfg, isInTransaction, marked, fo>>
    BY <1>0 DEF others, cluster
  <2>10. TypeOK'
    BY <1>2, <2>8, <2>9, CallsConstant DEF TypeOK
  <2>11. ClusterKnown' /\ CallKnown' /\ LocalConn' /\ OpenKnown' /\ FailoverKnown'
    BY <1>0, <1>2, <2>6, <2>8, <2>9 DEF ClusterKnown, CallKnown, LocalConn, OpenKnown, FailoverKnown
  <2>12. TxKnown' /\ ClaimKnown' /\ OpenOnes' /\ Promised
    BY <1>0, <1>2, <2>8 DEF TxKnown, ClaimKnown, OpenOnes, Promised
  <2>. QED  BY <2>10, <2>11, <2>12 DEF Kept
<1>. QED  BY <1>1, <1>2 DEF PickHost

LEMMA DialledStep ==
    ASSUME Inv, Dialled
    PROVE  Kept
<1>. USE DEF Inv
<1>0. /\ call.pc = "dialled" /\ fo.pc = "off" /\ svc \in Services /\ links \in LinkSets
      /\ svc.conn # Nil /\ call \in Calls /\ svc.inSplit /\ ~ svc.inTx /\ call.host \in HostInfos
      /\ ~TransferSessionState => Recorded(svc.ses) = {}
      /\ UNCHANGED <<others, marked, fo>>
  BY DEF Dialled, TypeOK, CallKnown, LinkSets, OpenKnown
<1>1. Splitting
  BY <1>0 DEF Splitting
<1>2. CASE call.result \in {"connected", "switched"}
  <2>1. PICK c : c = IF call.result = "connected" THEN call.conn ELSE svc.conn
    OBVIOUS
  <2>2. c \in Conns
    BY <1>0, <1>2, <2>1 DEF CallKnown, Services, Calls
  <2>3. PICK t : t = IF call.want = "writer" THEN [svc EXCEPT !.wConn = c, !.wHost = call.host]
                     ELSE [svc EXCEPT !.rConn = c, !.rHost = call.host]
    OBVIOUS
  <2>4. t \in Services /\ t.conn = svc.conn /\ t.inTx = svc.inTx /\ t.ses = svc.ses /\ t.inSplit = svc.inSplit
    BY <1>0, <2>2, <2>3 DEF Services
  <2>5. Moving(t, links)
    BY <1>0, <2>4, FewerReflexive DEF Moving, Reached
  <2>6. SwitchTo(t, links, c, call.host)
    BY <1>2, <2>1, <2>3 DEF Dialled
  <2>. QED  BY <1>0, <1>1, <2>2, <2>5, <2>6, SwitchToStep
<1>3. CASE call.result \notin {"connected", "switched"}
  <2>1. call' = [call EXCEPT !.pc = "pick"] /\ UNCHANGED <<svc, links, appTx, claim, stmt, verdict>>
    BY <1>3 DEF Dialled
  <2>2. call' \in Calls /\ call'.pc = "pick"
    BY <1>0, <2>1 DEF Calls
  <2>3. verdict \in Verdicts /\ claim \in BOOLEAN /\ UNCHANGED <<cluster, cfg, isInTransaction>>
    BY <1>0 DEF TypeOK, others
  <2>4. Fewer(links, links')
    BY <2>1, FewerReflexive
  <2>. QED  BY <1>0, <2>1, <2>2, <2>3, <2>4, Settles
<1>. QED  BY <1>2, <1>3

-----------------------------------------------------------------------------
(* The theorems *)

LEMMA NextStep ==
    ASSUME Inv, Next
    PROVE  Kept
<1>1. CASE CallNext
  <2>1. CASE SplittingNext
    BY <2>1, SwitchConnectionIfRequiredStep, PickHostStep, DialStep, DialledStep DEF SplittingNext
  <2>2. CASE OpenAbandons
    BY <2>2, OpenAbandonedStep DEF OpenAbandons
  <2>. QED
    BY <1>1, <2>1, <2>2, OpenDialStep, OpenEndStep, ExecSucceedsStep, ExecRefusedStep,
       ExecBreaksStep, FailoverStep DEF CallNext
<1>2. CASE \E h \in Hosts : Crash(h) \/ Recover(h) \/ Promote(h)
  BY <1>2, CrashStep, EnvironmentStep
<1>. QED
  BY <1>1, <1>2, OpenStep, CallStep, CloseStmtStep, CloseStep, EnvironmentStep DEF Next

LEMMA Stutter ==
    ASSUME Inv, UNCHANGED vars
    PROVE  Kept
<1>. USE DEF Inv, vars
<1>1. TypeOK'
  BY CallsConstant DEF TypeOK
<1>2. ClusterKnown' /\ CallKnown' /\ LocalConn' /\ OpenKnown' /\ FailoverKnown'
  BY DEF ClusterKnown, CallKnown, LocalConn, OpenKnown, FailoverKnown, IsClosed
<1>3. TxKnown' /\ ClaimKnown' /\ OpenOnes' /\ Promised
  BY DEF TxKnown, ClaimKnown, OpenOnes, Promised, IsClosed
<1>. QED  BY <1>1, <1>2, <1>3 DEF Kept

LEMMA Invariance == Spec => []Inv
<1>1. Inv /\ [Next]_vars => Inv'
  BY NextStep, Stutter DEF Kept
<1>. QED  BY <1>1, Start, PTL DEF Spec

\* Every variable keeps its type, whatever the plugins, the cluster and the
\* application do.
THEOREM TypeCorrect == Spec => []TypeOK
<1>1. Inv => TypeOK
  BY DEF Inv
<1>. QED  BY <1>1, Invariance, PTL

\* No driver connection is lost (SetCurrentConnection, the failover plugins and Open
\* close or keep what they opened), except by the two ways NoLeak names.
THEOREM NothingLeaks == Spec => []NoLeak
<1>1. Inv => NoLeak
  BY DEF Inv, OpenOnes, NoLeak
<1>. QED  BY <1>1, Invariance, PTL

\* A connection the read/write splitting plugin caches and does not use holds no
\* transaction.
THEOREM IdleClean == Spec => []IdleConnectionsClean
<1>1. Inv => IdleConnectionsClean
  BY DEF Inv, TxKnown, IdleConnectionsClean, TypeOK, Services
<1>. QED  BY <1>1, Invariance, PTL

\* The wrapper connection implements its contract with the application: the session
\* is not replaced under a transaction without an answer that says so.
THEOREM ContractKept == Spec => KeepsContract
<1>1. Init => AppContract!ContractInit
  BY DEF Init, NewService, AppContract!ContractInit
<1>2. Inv /\ [Next]_vars => [AppContract!ContractNext]_<<svc.conn, IF claim THEN appTx ELSE Nil, verdict>>
  <2>. SUFFICES ASSUME Inv, [Next]_vars
                PROVE  AppContract!ContractNext
    OBVIOUS
  <2>1. Promised
    BY NextStep, Stutter DEF Kept
  <2>2. claim => appTx = svc.conn /\ svc.conn # Nil
    BY DEF Inv, ClaimKnown
  <2>3. CASE ~ claim
    BY <2>1, <2>3 DEF Promised, AppContract!ContractNext, AppContract!Free
  <2>4. CASE claim /\ claim'
    BY <2>1, <2>2, <2>4 DEF Promised, AppContract!ContractNext, AppContract!Continue
  <2>5. CASE claim /\ ~ claim'
    BY <2>1, <2>2, <2>5
       DEF Promised, Told, AppContract!ContractNext, AppContract!End, AppContract!Told
  <2>. QED  BY <2>3, <2>4, <2>5
<1>. QED  BY <1>1, <1>2, Invariance, PTL DEF Spec, KeepsContract, AppContract!Contract

\* A failover that reports success has replayed every setting the session recorded
\* on the connection it hands over.
THEOREM SessionReplayed == Spec => SessionCarried
<1>1. ASSUME Inv, SetCandidate,
             (IF call.pc = "exec" THEN verdict' ELSE call'.result) \notin {"failed", "transfer"}
      PROVE  \A f \in Recorded(svc.ses) : links'[svc'.conn].set[f] = svc.ses[f].val
  <2>. USE DEF Inv
  <2>1. PICK bad : LET hi == [host |-> fo.host.host, role |-> fo.host.role, avail |-> TRUE]
                       o  == SetCurrentConnection(svc, links, appTx, fo.conn, hi, bad)
                   IN  /\ svc' = IF o.ok THEN [o.svc EXCEPT !.inTx = FALSE] ELSE o.svc
                       /\ links' = IF ~o.ok /\ fo.role = "writer"
                                   THEN CloseLink(o.links, fo.conn) ELSE o.links
                       /\ FailoverReturns(IF o.ok THEN SuccessError(o.svc) ELSE TransferError)
    BY <1>1 DEF SetCandidate
  <2>2. PICK hi : hi = [host |-> fo.host.host, role |-> fo.host.role, avail |-> TRUE]
    OBVIOUS
  <2>3. hi \in HostInfos
    BY <1>1, <2>2 DEF SetCandidate, FailoverKnown, HostInfos
  <2>4. PICK o : o = SetCurrentConnection(svc, links, appTx, fo.conn, hi, bad)
    OBVIOUS
  <2>5. PICK v : v = IF o.ok THEN SuccessError(o.svc) ELSE TransferError
    OBVIOUS
  <2>6. /\ svc' = IF o.ok THEN [o.svc EXCEPT !.inTx = FALSE] ELSE o.svc
        /\ links' = IF ~o.ok /\ fo.role = "writer" THEN CloseLink(o.links, fo.conn) ELSE o.links
        /\ FailoverReturns(v)
    BY <2>1, <2>2, <2>4, <2>5
  <2>7. /\ fo.conn \in Conns /\ fo.conn # svc.conn /\ svc \in Services /\ links \in LinkSets
        /\ call \in Calls /\ call.pc # "over"
    BY <1>1, ServiceAssumption DEF SetCandidate, FailoverKnown, TypeOK, LinkSets, Failovers
  <2>8. SwitchedTo(svc, links, fo.conn, o)
    BY <2>3, <2>4, <2>7, SetCurrentConnectionFacts
  <2>9. o.ok
    <3>1. (IF call.pc = "exec" THEN verdict' ELSE call'.result) = v
      BY <2>6, <2>7 DEF FailoverReturns, Finish, Calls
    <3>. QED  BY <1>1, <2>5, <3>1 DEF TransferError
  <2>10. svc'.conn = fo.conn /\ links' = o.links
    BY <2>6, <2>8, <2>9 DEF SwitchedTo, Services
  <2>11. CASE svc.conn = Nil \/ ~TransferSessionState
    BY <1>1, <2>7, <2>11 DEF OpenKnown
  <2>12. CASE svc.conn # Nil /\ TransferSessionState
    BY <2>7, <2>8, <2>9, <2>10, <2>12 DEF SwitchedTo, Services
  <2>. QED  BY <2>11, <2>12
<1>2. Inv => [(SetCandidate /\ (IF call.pc = "exec" THEN verdict' ELSE call'.result) \notin {"failed", "transfer"}) =>
                 \A f \in Recorded(svc.ses) : links'[svc'.conn].set[f] = svc.ses[f].val]_vars
  BY <1>1
<1>. QED  BY <1>2, Invariance, PTL DEF SessionCarried

=============================================================================
