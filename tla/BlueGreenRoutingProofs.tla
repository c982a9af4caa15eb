----------------------- MODULE BlueGreenRoutingProofs -----------------------
(***************************************************************************)
(* Proofs about the blue/green plugin: its types, that statements are held *)
(* while the switchover is in progress, that redirected connections reach  *)
(* the green cluster and, as long as names resolve and the monitors see a  *)
(* rollback in time, that redirection ends only when DNS has moved.  The   *)
(* operators the monitors and the provider are made of are treated one by  *)
(* one: each takes a well-formed record to a well-formed record, whatever  *)
(* the control plane and the name servers do in between.                   *)
(***************************************************************************)
EXTENDS BlueGreenRouting, FiniteSetTheorems, TLAPS

-----------------------------------------------------------------------------
(* The invariant *)

\* The status of a switchover in progress holds the statements of both roles.
HoldsStatements(p) ==
    p.phase = IN_PROGRESS => p.known /\ \A r \in Roles : Suspend(Nil, r) \in p.execute

\* A substitution says where it leads; that of a blue host by a green one leads to
\* the green cluster.
SoundRoutes ==
    {x \in Routes :
        /\ x.kind = "blue" => x.to # Nil /\ Len(x.tries) = 1
        /\ x.kind = "green" => x.to \in Names["TARGET"] \cup {GreenIp} /\ x.tries # <<>>}

SoundProvider(p) == IsProvider(p) /\ p.connect \cup p.execute \subseteq SoundRoutes

\* A statement that waits or looks again knows its role, and is not sent while
\* the hold it met at first goes on.
Waits(k) ==
    /\ k.pc \in {"look", "hold"} \/ (k.pc = "dial" /\ k.kind # Nil) => k.op # Nil
    /\ k.op = "execute" => k.pc # "dial" /\ k.via = Nil
    /\ k.op = "execute" /\ k.pc \in {"look", "hold"} => k.role \in Roles
    /\ k.during /\ k.host \in AllNames /\ k.op = "execute" => k.pc # "sent"

\* A redirected call dials a green name or the green address, or is about to
\* connect to a green name through the plugin; only for a green host is there a
\* second IAM host to try.
Redirects(k) ==
    /\ k.via = Nil <=> k.tries = <<>>
    /\ k.via \notin Names["TARGET"] => Len(k.tries) <= 1
    /\ k.kind = "green" /\ k.pc = "dial" => k.to \in Names["TARGET"] \cup {GreenIp}
    /\ k.kind = "green" /\ k.pc # "dial" => k.via \in Names["TARGET"]

Inv ==
    /\ TypeOK
    /\ SoundProvider(prov) /\ HoldsStatements(prov)
    /\ \A c \in Callers : Waits(call[c]) /\ Redirects(call[c])
    /\ \A c \in Callers : call[c].during => InProgress

-----------------------------------------------------------------------------
(* Names and phases *)

LEMMA NameFacts ==
    ASSUME NEW r \in Roles
    PROVE  /\ Hosts[r] \subseteq Names[r] /\ Names[r] \subseteq AllNames
           /\ Endpoint[r] \in Names[r] /\ ReaderEndpoint[r] \in Names[r]
           /\ Instances[r] \in [writer : Hosts[r], readers : Seq(Hosts[r])]
           /\ Nil \notin AllNames /\ AllNames \cap Addresses = {} /\ NoIp \notin AllNames \cup Addresses
<1>1. Hosts[r] \subseteq Names[r] /\ Endpoint[r] \in Names[r] /\ ReaderEndpoint[r] \in Names[r]
  BY DEF Names
<1>2. Names[r] \subseteq AllNames
  BY DEF AllNames, Roles
<1>. QED  BY <1>1, <1>2, BlueGreenAssumption DEF Addresses

LEMMA RoleFacts ==
    ASSUME NEW h \in AllNames
    PROVE  RoleOf[h] \in Roles /\ h \in Names[RoleOf[h]]
BY DEF RoleOf, AllNames, Roles

\* Where a name leads now.
LEMMA ResolveFacts ==
    ASSUME BgTypeOK, NEW r \in Roles, NEW h \in Names[r]
    PROVE  Resolve(h) \in Leads(r) /\ Leads(r) \subseteq Addresses \cup {NoIp}
<1>1. h \in AllNames /\ RoleOf[h] = r
  BY NameFacts, BlueGreenAssumption DEF RoleOf, Roles
<1>. QED  BY <1>1 DEF Resolve, BgTypeOK, Leads, Addresses

LEMMA PhaseFacts ==
    /\ Phases \subseteq Int /\ NOT_CREATED .. COMPLETED = Phases \ {Zero}
    /\ Zero \in Phases
    /\ NOT_CREATED \in Phases /\ CREATED \in Phases /\ PREPARATION \in Phases
    /\ IN_PROGRESS \in Phases /\ POST \in Phases /\ COMPLETED \in Phases
BY DEF Phases, Zero, NOT_CREATED, CREATED, PREPARATION, IN_PROGRESS, POST, COMPLETED

\* Phases and lags are compared as numbers.
LEMMA Numbers ==
    /\ \A n \in Phases : n \in Int
    /\ \A n \in Nat : n \in Int
    /\ \A n \in 0 .. MaxLag : n \in Int
BY DEF Phases

LEMMA EmptyMap ==
    ASSUME NEW D, NEW R
    PROVE  IsMap(Empty, D, R)
BY DEF IsMap, Empty

LEMMA ToSetFacts ==
    ASSUME NEW S, NEW s \in Seq(S)
    PROVE  ToSet(s) \subseteq S
BY DEF ToSet

LEMMA SingleFacts ==
    ASSUME NEW S, NEW s \in Seq(S), Len(s) = 1
    PROVE  s # <<>>
OBVIOUS

-----------------------------------------------------------------------------
(* The monitors *)

LEMMA NewMonitorType ==
    ASSUME NEW r \in Roles
    PROVE  IsMonitor(r, NewMonitor)
<1>1. IsMap(Empty, Names[r], Leads(r)) /\ 0 \in 0 .. MaxLag
  BY EmptyMap, BlueGreenAssumption
<1>. QED  BY <1>1, PhaseFacts DEF IsMonitor, NewMonitor

LEMMA OpenConnectionType ==
    ASSUME BgTypeOK, NEW r \in Roles, NEW m, IsMonitor(r, m), NEW refused \in BOOLEAN
    PROVE  IsMonitor(r, OpenConnection(m, refused))
<1>1. PICK at \in AllNames : at = IF m.at = Nil THEN Endpoint["SOURCE"] ELSE m.at
  BY NameFacts DEF IsMonitor, Roles
<1>2. PICK ip \in Addresses \cup {NoIp} : ip = IF m.at = Nil THEN NoIp ELSE m.ip
  BY DEF IsMonitor
<1>3. Resolve(at) \in Addresses \cup {NoIp}
  BY RoleFacts, ResolveFacts
<1>4. PICK target \in Addresses \cup {NoIp} : target = IF m.useIp /\ ip # NoIp THEN ip ELSE Resolve(at)
  BY <1>3
<1>5. PICK asked : asked = [m EXCEPT !.at = at, !.ip = ip]
  OBVIOUS
<1>6. OpenConnection(m, refused) = IF m.conn THEN m
          ELSE IF refused \/ target = NoIp THEN asked
          ELSE [asked EXCEPT !.conn = TRUE, !.ip = target]
  BY <1>1, <1>2, <1>4, <1>5 DEF OpenConnection
<1>7. IsMonitor(r, asked)
  BY <1>5 DEF IsMonitor
<1>8. IsMonitor(r, [asked EXCEPT !.conn = TRUE, !.ip = target])
  BY <1>7 DEF IsMonitor
<1>. QED  BY <1>6, <1>7, <1>8

LEMMA RowFoundType ==
    ASSUME NEW r \in Roles, NEW m, IsMonitor(r, m), bgd \in Phases
    PROVE  IsMonitor(r, RowFound(r, m))
<1>1. PICK names \in SUBSET Names[r] : names = m.names \cup {ReaderEndpoint[r]} \cup
              (IF m.collectTopology THEN {Endpoint[r]} ELSE {})
  BY NameFacts DEF IsMonitor
<1>2. PICK named : named = [m EXCEPT !.phase = bgd, !.names = names]
  OBVIOUS
<1>3. IsMonitor(r, named)
  BY <1>2 DEF IsMonitor
<1>4. IsMonitor(r, [named EXCEPT !.at = Endpoint[r], !.conn = FALSE, !.correct = TRUE, !.lister = TRUE])
  BY <1>3, NameFacts, ZenonT(60) DEF IsMonitor
<1>5. IsMonitor(r, [named EXCEPT !.correct = TRUE, !.lister = TRUE])
  BY <1>3, ZenonT(60) DEF IsMonitor
<1>6. named = [m EXCEPT !.phase = bgd, !.names = @ \cup {ReaderEndpoint[r]} \cup
              (IF m.collectTopology THEN {Endpoint[r]} ELSE {})]
  BY <1>1, <1>2
<1>. QED  BY <1>3, <1>4, <1>5, <1>6 DEF RowFound

LEMMA CollectStatusType ==
    ASSUME BgTypeOK, NEW r \in Roles, NEW m, IsMonitor(r, m), NEW outcome
    PROVE  IsMonitor(r, CollectStatus(r, m, outcome))
<1>1. bgd # Deleted => bgd \in Phases
  BY DEF BgTypeOK, Phases, Deleted, Zero, NOT_CREATED, COMPLETED
<1>2. bgd # Deleted => IsMonitor(r, RowFound(r, m))
  BY <1>1, RowFoundType
<1>3. IsMonitor(r, [m EXCEPT !.conn = FALSE, !.phase = Zero])
  BY PhaseFacts DEF IsMonitor
<1>4. IsMonitor(r, [m EXCEPT !.phase = NOT_CREATED]) /\ IsMonitor(r, [m EXCEPT !.phase = Zero])
  BY PhaseFacts DEF IsMonitor
<1>. QED  BY <1>2, <1>3, <1>4 DEF CollectStatus

LEMMA TopologyFacts ==
    ASSUME NEW r \in Roles, NEW t \in Topologies(r)
    PROVE  ToSet(t.readers) \cup ({t.writer} \ {Nil}) \subseteq Names[r]
BY NameFacts, ToSetFacts DEF Topologies

LEMMA CollectTopologyType ==
    ASSUME NEW r \in Roles, NEW m, IsMonitor(r, m), NEW t \in Topologies(r)
    PROVE  IsMonitor(r, CollectTopology(m, t))
<1>1. PICK names \in SUBSET Names[r] :
          names = m.names \cup ToSet(t.readers) \cup ({t.writer} \ {Nil})
  BY TopologyFacts DEF IsMonitor
<1>2. IsMonitor(r, [m EXCEPT !.startTopology = t, !.names = names])
  BY DEF IsMonitor
<1>3. [m EXCEPT !.startTopology = t, !.names = names] =
      [m EXCEPT !.startTopology = t, !.names = @ \cup ToSet(t.readers) \cup ({t.writer} \ {Nil})]
  BY <1>1
<1>. QED  BY <1>2, <1>3 DEF CollectTopology

LEMMA CollectHostIpAddressesType ==
    ASSUME BgTypeOK, NEW r \in Roles, NEW m, IsMonitor(r, m), NEW found \in BOOLEAN
    PROVE  IsMonitor(r, CollectHostIpAddresses(m, found))
<1>1. PICK current : current = [h \in m.names |-> IF found THEN Resolve(h) ELSE NoIp]
  OBVIOUS
<1>2. \A h \in m.names : h \in Names[r]
  BY DEF IsMonitor
<1>3. \A h \in m.names : Resolve(h) \in Leads(r)
  BY <1>2, ResolveFacts
<1>4. IsMap(current, Names[r], Leads(r))
  BY <1>1, <1>2, <1>3 DEF IsMap, Leads
<1>5. PICK start : start = IF m.collectIps /\ m.names # {} THEN current ELSE m.startIps
  OBVIOUS
<1>6. IsMap(start, Names[r], Leads(r))
  BY <1>4, <1>5 DEF IsMonitor
<1>7. IsMonitor(r, [m EXCEPT !.currentIps = current, !.startIps = start])
  BY <1>4, <1>6 DEF IsMonitor
<1>8. CollectHostIpAddresses(m, found) = [m EXCEPT !.currentIps = current, !.startIps = start]
  BY <1>1, <1>5 DEF CollectHostIpAddresses, IsMonitor
<1>. QED  BY <1>7, <1>8

LEMMA UpdateIpAddressFlagsType ==
    ASSUME NEW r \in Roles, NEW m, IsMonitor(r, m)
    PROVE  IsMonitor(r, UpdateIpAddressFlags(m))
<1>1. \A a, b \in BOOLEAN : IsMonitor(r, [m EXCEPT !.ipChanged = a, !.removed = b])
  BY ZenonT(60) DEF IsMonitor
<1>2. m.ipChanged \in BOOLEAN
  BY DEF IsMonitor
<1>3. \E a, b \in BOOLEAN : UpdateIpAddressFlags(m) = [m EXCEPT !.ipChanged = a, !.removed = b]
  <2>1. CASE m.collectTopology
    BY <2>1 DEF UpdateIpAddressFlags
  <2>2. CASE ~m.collectTopology
    <3>1. PICK hosts : hosts = TopologyHosts(m.startTopology)
      OBVIOUS
    <3>2. PICK a \in BOOLEAN : a = IF m.collectIps THEN m.ipChanged ELSE
                /\ hosts # {}
                /\ \A h \in hosts : /\ Known(m.startIps, h)
                                    /\ Known(m.currentIps, h)
                                    /\ m.startIps[h] # m.currentIps[h]
      BY <1>2
    <3>3. PICK b \in BOOLEAN : b = (/\ hosts # {}
                /\ \A h \in hosts : /\ At(m.startIps, h) # NoIp
                                    /\ At(m.currentIps, h) = NoIp)
      OBVIOUS
    <3>4. UpdateIpAddressFlags(m) = [m EXCEPT !.ipChanged = a, !.removed = b]
      BY <2>2, <3>1, <3>2, <3>3 DEF UpdateIpAddressFlags, IsMonitor
    <3>. QED  BY <3>4
  <2>. QED  BY <2>1, <2>2
<1>. QED  BY <1>1, <1>3

-----------------------------------------------------------------------------
(* The provider *)

LEMMA InterimType ==
    ASSUME NEW r \in Roles, NEW m, IsMonitor(r, m)
    PROVE  IsInterim(r, Interim(m))
BY DEF IsMonitor, IsInterim, Interim

\* A provider that holds statements as its status says.
LEMMA NewProviderType ==
    SoundProvider(NewProvider) /\ HoldsStatements(NewProvider)
<1>1. \A D, R : IsMap(Empty, D, R)
  BY EmptyMap
<1>2. DOMAIN Empty = {}
  BY DEF Empty
<1>. QED  BY <1>1, <1>2, PhaseFacts
          DEF SoundProvider, IsProvider, HoldsStatements, NewProvider, Zero, NOT_CREATED, IN_PROGRESS

LEMMA UpdatePhaseType ==
    ASSUME NEW p, SoundProvider(p), NEW r \in Roles, NEW i, IsInterim(r, i)
    PROVE  /\ SoundProvider(UpdatePhase(p, r, i))
           /\ UpdatePhase(p, r, i).interim = p.interim /\ UpdatePhase(p, r, i).timer = p.timer
           /\ UpdatePhase(p, r, i).blueDns = p.blueDns /\ UpdatePhase(p, r, i).greenDns = p.greenDns
<1>1. PICK last : last = IF p.interim[r] = Nil THEN NOT_CREATED ELSE p.interim[r].phase
  OBVIOUS
<1>2. PICK back \in BOOLEAN : back = (p.rollback \/ i.phase < last)
  OBVIOUS
<1>3. PICK n \in Phases : n = IF IF back THEN i.phase < p.latest ELSE i.phase >= p.latest
                             THEN i.phase ELSE p.latest
  BY DEF SoundProvider, IsProvider, IsInterim
<1>4. CASE i.phase = Zero
  <2>1. UpdatePhase(p, r, i) = p
    BY <1>4 DEF UpdatePhase
  <2>. QED  BY <2>1
<1>5. CASE i.phase # Zero
  <2>1. UpdatePhase(p, r, i) = [p EXCEPT !.rollback = back, !.latest = n]
    BY <1>1, <1>2, <1>3, <1>5 DEF UpdatePhase, SoundProvider, IsProvider
  <2>2. n \in Phases \ {Zero}
    BY <1>3, <1>5 DEF SoundProvider, IsProvider
  <2>3. SoundProvider([p EXCEPT !.rollback = back, !.latest = n])
    BY <2>2 DEF SoundProvider, IsProvider
  <2>4. PICK q : q = [p EXCEPT !.rollback = back, !.latest = n]
    OBVIOUS
  <2>5. /\ q.interim = p.interim /\ q.timer = p.timer
        /\ q.blueDns = p.blueDns /\ q.greenDns = p.greenDns
    BY <2>4 DEF SoundProvider, IsProvider
  <2>. QED  BY <2>1, <2>3, <2>4, <2>5
<1>. QED  BY <1>4, <1>5

LEMMA MergeFacts ==
    ASSUME NEW f, NEW g, NEW D, NEW R, IsMap(f, D, R), IsMap(g, D, R)
    PROVE  IsMap(Merge(f, g), D, R)
BY DEF IsMap, Merge

LEMMA PairedFacts ==
    ASSUME NEW A, NEW B, NEW pairs \in SUBSET (A \X B)
    PROVE  IsMap(Paired(pairs), A, B)
<1>1. DOMAIN Paired(pairs) \subseteq A
  BY DEF Paired
<1>2. ASSUME NEW h \in DOMAIN Paired(pairs)
      PROVE  Paired(pairs)[h] \in B
  <2>1. \E q \in pairs : q[1] = h
    BY DEF Paired
  <2>2. PICK q \in pairs : q = CHOOSE x \in pairs : x[1] = h
    BY <2>1
  <2>3. Paired(pairs)[h] = q[2]
    BY <2>2 DEF Paired
  <2>. QED  BY <2>3
<1>. QED  BY <1>1, <1>2 DEF IsMap

\* A reader of the other side, in turn.
LEMMA InTurn ==
    ASSUME NEW S, NEW s \in Seq(S), s # <<>>, NEW i \in Nat \ {0}
    PROVE  s[((i - 1) % Len(s)) + 1] \in S
<1>1. Len(s) \in Nat \ {0}
  OBVIOUS
<1>2. \A a \in Nat, b \in Nat \ {0} : a % b \in 0 .. (b - 1)
  OBVIOUS
<1>3. (i - 1) % Len(s) \in 0 .. (Len(s) - 1)
  <2>1. PICK a \in Nat : a = i - 1
    OBVIOUS
  <2>2. PICK n \in Nat \ {0} : n = Len(s)
    BY <1>1
  <2>. QED  BY <1>2, <2>1, <2>2
<1>4. ((i - 1) % Len(s)) + 1 \in 1 .. Len(s)
  BY <1>1, <1>3
<1>. QED  BY <1>4

LEMMA CorrespondingHostsType ==
    ASSUME NEW p, SoundProvider(p)
    PROVE  IsMap(CorrespondingHosts(p), Names["SOURCE"], Names["TARGET"] \cup {Nil})
<1>1. PICK blue : blue = p.interim["SOURCE"]
  OBVIOUS
<1>2. PICK green : green = p.interim["TARGET"]
  OBVIOUS
<1>3. PICK both \in BOOLEAN : both = (blue # Nil /\ green # Nil)
  OBVIOUS
<1>4. both => IsInterim("SOURCE", blue) /\ IsInterim("TARGET", green)
  BY <1>1, <1>2, <1>3 DEF SoundProvider, IsProvider, Roles
<1>5. PICK bt : bt = blue.startTopology
  OBVIOUS
<1>6. PICK gt : gt = green.startTopology
  OBVIOUS
<1>7. both => bt \in Topologies("SOURCE") \cup {Nil} /\ gt \in Topologies("TARGET") \cup {Nil}
  BY <1>4, <1>5, <1>6 DEF IsInterim
<1>8. PICK reader : reader = [i \in DOMAIN bt.readers |->
                        IF gt.readers = <<>> THEN gt.writer
                        ELSE gt.readers[((i - 1) % Len(gt.readers)) + 1]]
  OBVIOUS
<1>9. PICK instances : instances =
            IF ~both THEN {} ELSE IF bt = Nil \/ gt = Nil THEN {}
            ELSE {<<bt.writer, gt.writer>> : x \in {bt.writer} \ {Nil}}
                 \cup {<<bt.readers[i], reader[i]>> : i \in DOMAIN bt.readers}
  OBVIOUS
<1>10. PICK endpoints : endpoints =
            IF ~both THEN {}
            ELSE {<<e["SOURCE"], e["TARGET"]>> : e \in
                    {e \in {Endpoint, ReaderEndpoint} :
                        e["SOURCE"] \in blue.names /\ e["TARGET"] \in green.names}}
  OBVIOUS
<1>11. CorrespondingHosts(p) = Paired(instances \cup endpoints)
  BY <1>1, <1>2, <1>3, <1>5, <1>6, <1>8, <1>9, <1>10 DEF CorrespondingHosts
<1>12. endpoints \subseteq Names["SOURCE"] \X (Names["TARGET"] \cup {Nil})
  BY <1>4, <1>10 DEF IsInterim
<1>13. instances \subseteq Names["SOURCE"] \X (Names["TARGET"] \cup {Nil})
  <2>1. SUFFICES ASSUME both, bt \in Topologies("SOURCE"), gt \in Topologies("TARGET")
                 PROVE  instances \subseteq Names["SOURCE"] \X (Names["TARGET"] \cup {Nil})
    BY <1>7, <1>9
  <2>2. Hosts["SOURCE"] \subseteq Names["SOURCE"] /\ Hosts["TARGET"] \subseteq Names["TARGET"]
    BY NameFacts DEF Roles
  <2>3. bt.writer # Nil => bt.writer \in Names["SOURCE"]
    BY <2>1, <2>2 DEF Topologies
  <2>4. gt.writer \in Names["TARGET"] \cup {Nil} /\ gt.readers \in Seq(Hosts["TARGET"])
    BY <2>1, <2>2 DEF Topologies
  <2>5. \A i \in DOMAIN bt.readers : bt.readers[i] \in Names["SOURCE"] /\ i \in Nat \ {0}
    BY <2>1, <2>2 DEF Topologies
  <2>6. \A i \in DOMAIN bt.readers : reader[i] \in Names["TARGET"] \cup {Nil}
    BY <1>8, <2>2, <2>4, <2>5, InTurn
  <2>. QED  BY <1>9, <2>3, <2>4, <2>5, <2>6
<1>14. instances \cup endpoints \in SUBSET (Names["SOURCE"] \X (Names["TARGET"] \cup {Nil}))
  BY <1>12, <1>13
<1>. QED  BY <1>11, <1>14, PairedFacts

LEMMA StoredType ==
    ASSUME NEW p, SoundProvider(p), NEW r \in Roles, NEW i, IsInterim(r, i), NEW x
    PROVE  SoundProvider([p EXCEPT !.interim[r] = i, !.context = x, !.ips = Merge(@, i.startIps),
                                !.roles = Merge(@, [h \in i.names |-> r])])
<1>1. PICK ips : ips = Merge(p.ips, i.startIps)
  OBVIOUS
<1>2. PICK roles : roles = Merge(p.roles, [h \in i.names |-> r])
  OBVIOUS
<1>3. PICK interim : interim = [p.interim EXCEPT ![r] = i]
  OBVIOUS
<1>4. Leads(r) \subseteq Addresses \cup {NoIp} /\ Names[r] \subseteq AllNames
  BY NameFacts DEF Leads, Addresses
<1>5. IsMap(ips, AllNames, Addresses \cup {NoIp})
  <2>1. IsMap(i.startIps, AllNames, Addresses \cup {NoIp})
    BY <1>4 DEF IsInterim, IsMap
  <2>. QED  BY <1>1, <2>1, MergeFacts DEF SoundProvider, IsProvider
<1>6. \A h \in DOMAIN ips : h \in Names["TARGET"] => ips[h] \in Leads("TARGET")
  <2>1. \A h \in DOMAIN i.startIps : h \in Names["TARGET"] => i.startIps[h] \in Leads("TARGET")
    BY BlueGreenAssumption DEF IsInterim, IsMap, Roles
  <2>2. \A h \in DOMAIN p.ips : h \in Names["TARGET"] => p.ips[h] \in Leads("TARGET")
    BY DEF SoundProvider, IsProvider
  <2>. QED  BY <1>1, <2>1, <2>2 DEF Merge
<1>7. IsMap(roles, AllNames, Roles)
  <2>1. IsMap([h \in i.names |-> r], AllNames, Roles)
    BY <1>4 DEF IsInterim, IsMap
  <2>. QED  BY <1>2, <2>1, MergeFacts DEF SoundProvider, IsProvider
<1>8. DOMAIN interim = Roles /\ \A s \in Roles : interim[s] = Nil \/ IsInterim(s, interim[s])
  BY <1>3 DEF SoundProvider, IsProvider
<1>9. PICK q : q = [p EXCEPT !.interim = interim, !.context = x, !.ips = ips, !.roles = roles]
  OBVIOUS
<1>10. /\ q \in [latest : Phases \ {Zero}, rollback : BOOLEAN, phase : Phases,
              connect : SUBSET Routes, execute : SUBSET Routes, known : BOOLEAN,
              roles : {q.roles}, corresponding : {q.corresponding}, ips : {q.ips},
              interim : {q.interim}, context : {q.context}, blueDns : BOOLEAN,
              greenDns : BOOLEAN, connects : {q.connects}, renamed : BOOLEAN,
              timer : {"off", "on", "expired"}, active : BOOLEAN]
       /\ q.interim = interim /\ q.ips = ips /\ q.roles = roles
       /\ q.corresponding = p.corresponding /\ q.connects = p.connects
       /\ q.connect = p.connect /\ q.execute = p.execute
  BY <1>9 DEF SoundProvider, IsProvider
<1>11. SoundProvider(q)
  BY <1>5, <1>6, <1>7, <1>8, <1>10 DEF SoundProvider, IsProvider
<1>12. q = [p EXCEPT !.interim[r] = i, !.context = x, !.ips = Merge(@, i.startIps),
                     !.roles = Merge(@, [h \in i.names |-> r])]
  BY <1>1, <1>2, <1>3, <1>9
<1>. QED  BY <1>11, <1>12

\* A step of the provider that leaves its maps and its phase alone.
LEMMA FlagsType ==
    ASSUME NEW p, SoundProvider(p), HoldsStatements(p)
    PROVE  /\ \A a, b \in BOOLEAN : SoundProvider([p EXCEPT !.blueDns = a, !.greenDns = b])
           /\ \A t \in {"off", "on", "expired"} :
                 SoundProvider([p EXCEPT !.timer = t]) /\ HoldsStatements([p EXCEPT !.timer = t])
           /\ \A a \in BOOLEAN :
                 SoundProvider([p EXCEPT !.active = a]) /\ HoldsStatements([p EXCEPT !.active = a])
<1>1. ASSUME NEW a \in BOOLEAN, NEW b \in BOOLEAN
      PROVE  SoundProvider([p EXCEPT !.blueDns = a, !.greenDns = b])
  BY <1>1 DEF SoundProvider, IsProvider
<1>2. ASSUME NEW t \in {"off", "on", "expired"}
      PROVE  SoundProvider([p EXCEPT !.timer = t]) /\ HoldsStatements([p EXCEPT !.timer = t])
  BY <1>2 DEF SoundProvider, IsProvider, HoldsStatements
<1>3. ASSUME NEW a \in BOOLEAN
      PROVE  SoundProvider([p EXCEPT !.active = a]) /\ HoldsStatements([p EXCEPT !.active = a])
  BY <1>3 DEF SoundProvider, IsProvider, HoldsStatements
<1>. QED  BY <1>1, <1>2, <1>3

LEMMA CorrespondingType ==
    ASSUME NEW p, SoundProvider(p), NEW f, IsMap(f, Names["SOURCE"], Names["TARGET"] \cup {Nil})
    PROVE  SoundProvider([p EXCEPT !.corresponding = f])
BY DEF SoundProvider, IsProvider

-----------------------------------------------------------------------------
(* The routings *)

LEMMA RouteType ==
    ASSUME NEW kind \in {"blue", "suspend", "until", "green", "reject"},
           NEW host \in AllNames \cup Addresses \cup {Nil}, NEW role \in Roles \cup {Nil},
           NEW to \in AllNames \cup Addresses \cup {Nil}, NEW tries \in Seq(IamHosts),
           kind = "blue" => to # Nil /\ Len(tries) = 1,
           kind = "green" => to \in Names["TARGET"] \cup {GreenIp} /\ tries # <<>>
    PROVE  Route(kind, host, role, to, tries) \in SoundRoutes
BY DEF Route, Routes, SoundRoutes

LEMMA SuspendType ==
    ASSUME NEW host \in AllNames \cup Addresses \cup {Nil}, NEW role \in Roles \cup {Nil}
    PROVE  Suspend(host, role) \in SoundRoutes
<1>1. <<>> \in Seq(IamHosts)
  OBVIOUS
<1>. QED  BY <1>1, RouteType DEF Suspend

\* A name leads to its recorded address, or to itself.
LEMMA AddressOrFacts ==
    ASSUME NEW p, SoundProvider(p), NEW h \in AllNames
    PROVE  /\ AddressOr(p, h) \in AllNames \cup Addresses
           /\ h \in Names["TARGET"] => AddressOr(p, h) \in Names["TARGET"] \cup {GreenIp}
<1>1. At(p.ips, h) # NoIp => h \in DOMAIN p.ips /\ p.ips[h] # NoIp
  BY DEF At, Known
<1>. QED  BY <1>1 DEF AddressOr, SoundProvider, IsProvider, IsMap, Leads

LEMMA BlueHostFacts ==
    ASSUME NEW p, SoundProvider(p), NEW h \in BlueHosts(p)
    PROVE  h \in Names["SOURCE"] /\ h \in AllNames /\ p.corresponding[h] \in Names["TARGET"] \cup {Nil}
BY NameFacts DEF BlueHosts, SoundProvider, IsProvider, IsMap, Roles

LEMMA BlueByAddressType ==
    ASSUME NEW p, SoundProvider(p)
    PROVE  BlueByAddress(p) \subseteq SoundRoutes
<1>1. SUFFICES ASSUME NEW h \in BlueHosts(p)
               PROVE  Route("blue", h, "SOURCE", AddressOr(p, h), <<h>>) \in SoundRoutes
  BY DEF BlueByAddress
<1>2. h \in AllNames /\ AddressOr(p, h) \in AllNames \cup Addresses
  BY BlueHostFacts, AddressOrFacts
<1>3. <<h>> \in Seq(IamHosts) /\ Len(<<h>>) = 1
  BY <1>2 DEF IamHosts
<1>4. AddressOr(p, h) # Nil /\ "SOURCE" \in Roles
  BY <1>2, BlueGreenAssumption DEF Addresses, Roles
<1>. QED  BY <1>2, <1>3, <1>4, RouteType

LEMMA GreenRouteType ==
    ASSUME NEW p, SoundProvider(p), NEW h \in BlueHosts(p)
    PROVE  GreenRoute(p, h) \in SoundRoutes
<1>1. PICK g \in Names["TARGET"] \cup {Nil} : g = p.corresponding[h]
  BY BlueHostFacts
<1>2. h \in AllNames /\ "SOURCE" \in Roles
  BY BlueHostFacts DEF Roles
<1>3. CASE g = Nil
  <2>1. GreenRoute(p, h) = Route("until", h, "SOURCE", Nil, <<>>) /\ <<>> \in Seq(IamHosts)
    BY <1>1, <1>3 DEF GreenRoute
  <2>. QED  BY <1>2, <2>1, RouteType
<1>4. CASE g # Nil
  <2>1. g \in Names["TARGET"] /\ g \in AllNames
    BY <1>1, <1>4 DEF AllNames
  <2>2. g \in IamHosts /\ Renamed(g) \in IamHosts
    BY <2>1 DEF IamHosts
  <2>3. PICK tries : tries = IF IsAlreadySuccessfullyConnected(p, g, Renamed(g))
                             THEN <<Renamed(g)>> ELSE <<g, Renamed(g)>>
    OBVIOUS
  <2>4. tries \in Seq(IamHosts) /\ tries # <<>>
    BY <2>2, <2>3
  <2>5. PICK to : to = AddressOr(p, g)
    OBVIOUS
  <2>6. to \in Names["TARGET"] \cup {GreenIp} /\ to \in AllNames \cup Addresses
    BY <2>1, <2>5, AddressOrFacts
  <2>7. GreenRoute(p, h) = Route("green", h, "SOURCE", to, tries)
    BY <1>1, <1>4, <2>3, <2>5 DEF GreenRoute
  <2>. QED  BY <1>2, <2>4, <2>6, <2>7, RouteType
<1>. QED  BY <1>3, <1>4

LEMMA CreatePostRoutingType ==
    ASSUME NEW p, SoundProvider(p)
    PROVE  CreatePostRouting(p) \subseteq SoundRoutes
<1>1. Route("reject", Nil, "TARGET", Nil, <<>>) \in SoundRoutes
  <2>1. <<>> \in Seq(IamHosts) /\ "TARGET" \in Roles
    BY DEF Roles
  <2>. QED  BY <2>1, RouteType
<1>. QED  BY <1>1, GreenRouteType DEF CreatePostRouting

LEMMA StatusType ==
    ASSUME NEW p, SoundProvider(p), NEW phase \in Phases,
           NEW connect \in SUBSET SoundRoutes, NEW execute \in SUBSET SoundRoutes,
           phase = IN_PROGRESS => \A r \in Roles : Suspend(Nil, r) \in execute
    PROVE  /\ SoundProvider(Status(p, phase, connect, execute))
           /\ HoldsStatements(Status(p, phase, connect, execute))
<1>1. PICK q : q = Status(p, phase, connect, execute)
  OBVIOUS
<1>2. PICK known \in BOOLEAN : known = (phase # NOT_CREATED)
  OBVIOUS
<1>3. q = [p EXCEPT !.phase = phase, !.connect = connect, !.execute = execute, !.known = known]
  BY <1>1, <1>2 DEF Status
<1>4. SoundProvider(q)
  <2>1. connect \in SUBSET Routes /\ execute \in SUBSET Routes
    BY DEF SoundRoutes
  <2>2. IsProvider(q) /\ q.connect = connect /\ q.execute = execute
    BY <1>3, <2>1 DEF SoundProvider, IsProvider
  <2>. QED  BY <2>2 DEF SoundProvider
<1>5. q.phase = phase /\ q.execute = execute /\ q.known = known
  BY <1>3 DEF SoundProvider, IsProvider
<1>6. HoldsStatements(q)
  <2>1. IN_PROGRESS # NOT_CREATED
    BY DEF NOT_CREATED, IN_PROGRESS
  <2>2. CASE phase = IN_PROGRESS
    <3>1. q.known
      BY <1>2, <1>5, <2>1, <2>2
    <3>2. \A r \in Roles : Suspend(Nil, r) \in q.execute
      BY <1>5, <2>2
    <3>. QED  BY <3>1, <3>2 DEF HoldsStatements
  <2>3. CASE phase # IN_PROGRESS
    BY <1>5, <2>3 DEF HoldsStatements
  <2>. QED  BY <2>2, <2>3
<1>. QED  BY <1>1, <1>4, <1>6

LEMMA InProgressType ==
    ASSUME NEW p, SoundProvider(p)
    PROVE  SoundProvider(GetStatusOfInProgress(p)) /\ HoldsStatements(GetStatusOfInProgress(p))
<1>1. PICK connect : connect =
           (IF SuspendBlue THEN {Suspend(Nil, "SOURCE")} ELSE BlueByAddress(p))
               \cup {Suspend(Nil, "TARGET")}
               \cup {Suspend(a, Nil) : a \in SuspendedAddresses(p)}
  OBVIOUS
<1>2. PICK execute : execute =
           {Suspend(Nil, r) : r \in Roles}
               \cup {Suspend(p.ips[h], Nil) : h \in {h \in DOMAIN p.ips : p.ips[h] # NoIp}}
  OBVIOUS
<1>3. \A h \in DOMAIN p.ips : p.ips[h] # NoIp => p.ips[h] \in Addresses
  BY DEF SoundProvider, IsProvider, IsMap
<1>4. SuspendedAddresses(p) \subseteq Addresses
  BY <1>3 DEF SuspendedAddresses
<1>5. \A r \in Roles : Suspend(Nil, r) \in SoundRoutes
  BY SuspendType
<1>6. \A a \in Addresses : Suspend(a, Nil) \in SoundRoutes
  BY SuspendType
<1>7. connect \in SUBSET SoundRoutes
  <2>1. Suspend(Nil, "SOURCE") \in SoundRoutes /\ Suspend(Nil, "TARGET") \in SoundRoutes
    BY <1>5 DEF Roles
  <2>. QED  BY <1>1, <1>4, <1>6, <2>1, BlueByAddressType
<1>8. execute \in SUBSET SoundRoutes /\ \A r \in Roles : Suspend(Nil, r) \in execute
  BY <1>2, <1>3, <1>5, <1>6
<1>9. GetStatusOfInProgress(p) = Status(p, IN_PROGRESS, connect, execute)
  BY <1>1, <1>2 DEF GetStatusOfInProgress
<1>. QED  BY <1>7, <1>8, <1>9, PhaseFacts, StatusType

\* A status without a hold.
LEMMA CalmStatusType ==
    ASSUME NEW p, SoundProvider(p), NEW phase \in Phases, phase # IN_PROGRESS,
           NEW connect \in SUBSET SoundRoutes
    PROVE  SoundProvider(Status(p, phase, connect, {})) /\ HoldsStatements(Status(p, phase, connect, {}))
BY StatusType

LEMMA PhasesDiffer ==
    IN_PROGRESS \notin {Zero, NOT_CREATED, CREATED, PREPARATION, POST, COMPLETED}
BY DEF Zero, NOT_CREATED, CREATED, PREPARATION, IN_PROGRESS, POST, COMPLETED

LEMMA CompletedType ==
    ASSUME NEW p, SoundProvider(p)
    PROVE  SoundProvider(GetStatusOfCompleted(p)) /\ HoldsStatements(GetStatusOfCompleted(p))
<1>1. PICK q : q = Status(p, COMPLETED, {}, {})
  OBVIOUS
<1>2. SoundProvider(q) /\ HoldsStatements(q) /\ q.phase = COMPLETED
  <2>1. q.phase = COMPLETED
    BY <1>1 DEF Status, SoundProvider, IsProvider
  <2>. QED  BY <1>1, <2>1, CalmStatusType, PhaseFacts, PhasesDiffer
<1>3. SoundProvider([q EXCEPT !.corresponding = Empty])
  BY <1>2, CorrespondingType, EmptyMap
<1>4. HoldsStatements([q EXCEPT !.corresponding = Empty])
  BY <1>2, PhasesDiffer DEF HoldsStatements, SoundProvider, IsProvider
<1>5. /\ SoundProvider(Status(p, POST, CreatePostRouting(p), {}))
      /\ HoldsStatements(Status(p, POST, CreatePostRouting(p), {}))
  BY CalmStatusType, CreatePostRoutingType, PhaseFacts, PhasesDiffer
<1>. QED  BY <1>1, <1>3, <1>4, <1>5 DEF GetStatusOfCompleted

LEMMA SummaryType ==
    ASSUME NEW p, SoundProvider(p), NEW r \in Roles, NEW i, IsInterim(r, i)
    PROVE  SoundProvider(UpdateSummaryStatus(p, r, i)) /\ HoldsStatements(UpdateSummaryStatus(p, r, i))
<1>1. PICK f : f = UpdateDnsFlags(p, r, i)
  OBVIOUS
<1>2. SoundProvider(f) /\ f.latest = p.latest
  <2>1. PICK a \in BOOLEAN : a = (p.blueDns \/ (r = "SOURCE" /\ i.ipChanged))
    OBVIOUS
  <2>2. PICK b \in BOOLEAN : b = (p.greenDns \/ (r = "TARGET" /\ i.removed))
    OBVIOUS
  <2>3. f = [p EXCEPT !.blueDns = a, !.greenDns = b]
    BY <1>1, <2>1, <2>2 DEF UpdateDnsFlags, SoundProvider, IsProvider
  <2>4. f.latest = p.latest
    BY <2>3 DEF SoundProvider, IsProvider
  <2>5. SoundProvider(f)
    BY <2>3, ZenonT(60) DEF SoundProvider, IsProvider
  <2>. QED  BY <2>4, <2>5
<1>3. PICK t : t = IF f.latest = PREPARATION /\ f.timer = "off"
                   THEN [f EXCEPT !.timer = "on"] ELSE f
  OBVIOUS
<1>4. SoundProvider(t)
  BY <1>2, <1>3 DEF SoundProvider, IsProvider
<1>5. PICK s : s = UpdateSummaryStatus(p, r, i)
  OBVIOUS
<1>6. s = IF p.latest >= PREPARATION /\ t.timer = "expired" THEN GivenUp(t)
          ELSE CASE p.latest = NOT_CREATED -> Status(p, NOT_CREATED, {}, {})
               [] p.latest = CREATED -> Status(f, CREATED, {}, {})
               [] p.latest = PREPARATION -> Status(t, PREPARATION, BlueByAddress(t), {})
               [] p.latest = IN_PROGRESS -> GetStatusOfInProgress(t)
               [] p.latest = POST -> Status(t, POST, CreatePostRouting(t), {})
               [] OTHER -> GetStatusOfCompleted(t)
  BY <1>1, <1>3, <1>5 DEF UpdateSummaryStatus
<1>7. s \in {GivenUp(t), Status(p, NOT_CREATED, {}, {}), Status(f, CREATED, {}, {}),
             Status(t, PREPARATION, BlueByAddress(t), {}), GetStatusOfInProgress(t),
             Status(t, POST, CreatePostRouting(t), {}), GetStatusOfCompleted(t)}
  BY <1>6 DEF NOT_CREATED, CREATED, PREPARATION, IN_PROGRESS, POST
<1>8. SoundProvider(GivenUp(t)) /\ HoldsStatements(GivenUp(t))
  BY <1>4, CalmStatusType, PhaseFacts, PhasesDiffer DEF GivenUp
<1>9. /\ SoundProvider(Status(p, NOT_CREATED, {}, {})) /\ HoldsStatements(Status(p, NOT_CREATED, {}, {}))
      /\ SoundProvider(Status(f, CREATED, {}, {})) /\ HoldsStatements(Status(f, CREATED, {}, {}))
  BY <1>2, CalmStatusType, PhaseFacts, PhasesDiffer
<1>10. /\ SoundProvider(Status(t, PREPARATION, BlueByAddress(t), {}))
       /\ HoldsStatements(Status(t, PREPARATION, BlueByAddress(t), {}))
  BY <1>4, BlueByAddressType, CalmStatusType, PhaseFacts, PhasesDiffer
<1>11. /\ SoundProvider(Status(t, POST, CreatePostRouting(t), {}))
       /\ HoldsStatements(Status(t, POST, CreatePostRouting(t), {}))
  BY <1>4, CreatePostRoutingType, CalmStatusType, PhaseFacts, PhasesDiffer
<1>12. /\ SoundProvider(GetStatusOfInProgress(t)) /\ HoldsStatements(GetStatusOfInProgress(t))
       /\ SoundProvider(GetStatusOfCompleted(t)) /\ HoldsStatements(GetStatusOfCompleted(t))
  BY <1>4, InProgressType, CompletedType
<1>. QED  BY <1>5, <1>7, <1>8, <1>9, <1>10, <1>11, <1>12

LEMMA PreparedType ==
    ASSUME NEW p, SoundProvider(p), NEW r \in Roles, NEW i, IsInterim(r, i)
    PROVE  SoundProvider(Prepared(p, r, i)) /\ HoldsStatements(Prepared(p, r, i))
<1>1. PICK phased : phased = UpdatePhase(p, r, i)
  OBVIOUS
<1>2. SoundProvider(phased)
  BY <1>1, UpdatePhaseType
<1>3. PICK stored : stored = [phased EXCEPT !.interim[r] = i, !.context = ContextHash(p),
                     !.ips = Merge(@, i.startIps), !.roles = Merge(@, [h \in i.names |-> r])]
  OBVIOUS
<1>4. SoundProvider(stored)
  BY <1>2, <1>3, StoredType
<1>5. PICK matched : matched = [stored EXCEPT !.corresponding = CorrespondingHosts(stored)]
  OBVIOUS
<1>6. SoundProvider(matched)
  BY <1>4, <1>5, CorrespondingHostsType, CorrespondingType
<1>7. PICK summed : summed = UpdateSummaryStatus(matched, r, i)
  OBVIOUS
<1>8. SoundProvider(summed) /\ HoldsStatements(summed)
  BY <1>6, <1>7, SummaryType
<1>9. PICK a \in BOOLEAN : a = (summed.active \/ IsActiveSwitchoverOrCompleted(summed.phase))
  OBVIOUS
<1>10. Prepared(p, r, i) = [summed EXCEPT !.active = a]
  BY <1>1, <1>3, <1>5, <1>7, <1>9 DEF Prepared, SoundProvider, IsProvider
<1>. QED  BY <1>8, <1>10, FlagsType

LEMMA ResetType ==
    ASSUME NEW p, SoundProvider(p), HoldsStatements(p)
    PROVE  SoundProvider(ResetContextWhenCompleted(p)) /\ HoldsStatements(ResetContextWhenCompleted(p))
<1>1. p.blueDns \in BOOLEAN
  BY DEF SoundProvider, IsProvider
<1>2. PICK n : n = NewProvider
  OBVIOUS
<1>3. SoundProvider(n) /\ HoldsStatements(n)
  BY <1>2, NewProviderType
<1>4. SoundProvider([n EXCEPT !.blueDns = p.blueDns]) /\ HoldsStatements([n EXCEPT !.blueDns = p.blueDns])
  BY <1>1, <1>3 DEF SoundProvider, IsProvider, HoldsStatements
<1>. QED  BY <1>2, <1>4 DEF ResetContextWhenCompleted

\* What the provider tells a monitor leaves it well formed.
LEMMA UpdateMonitorsType ==
    ASSUME NEW p, NEW r \in Roles, NEW s \in Roles, NEW m, IsMonitor(r, m), NEW stop \in BOOLEAN
    PROVE  /\ IsMonitor(r, UpdateMonitors(p, m, s))
           /\ IsMonitor(r, [UpdateMonitors(p, m, s) EXCEPT !.stop = @ \/ stop])
<1>1. ASSUME NEW collect \in BOOLEAN, NEW useIp \in BOOLEAN
      PROVE  IsMonitor(r, [m EXCEPT !.collectIps = collect, !.collectTopology = collect, !.useIp = useIp])
  BY <1>1, ZenonT(60) DEF IsMonitor
<1>2. ASSUME NEW n, IsMonitor(r, n)
      PROVE  IsMonitor(r, ResetCollectedData(n))
  <2>1. IsMap(Empty, Names[r], Leads(r))
    BY EmptyMap
  <2>. QED  BY <1>2, <2>1 DEF ResetCollectedData, IsMonitor
<1>3. ASSUME NEW n, IsMonitor(r, n), NEW b \in BOOLEAN
      PROVE  IsMonitor(r, [n EXCEPT !.stop = @ \/ b])
  <2>1. PICK a \in BOOLEAN : a = (n.stop \/ b)
    OBVIOUS
  <2>2. [n EXCEPT !.stop = @ \/ b] = [n EXCEPT !.stop = a]
    BY <1>3, <2>1 DEF IsMonitor
  <2>3. IsMonitor(r, [n EXCEPT !.stop = a])
    BY <1>3 DEF IsMonitor
  <2>. QED  BY <2>2, <2>3
<1>4. PICK quiet : quiet = [m EXCEPT !.collectIps = FALSE, !.collectTopology = FALSE, !.useIp = FALSE]
  OBVIOUS
<1>5. PICK eager : eager = [m EXCEPT !.collectIps = TRUE, !.collectTopology = TRUE, !.useIp = FALSE]
  OBVIOUS
<1>6. PICK post : post = [m EXCEPT !.collectIps = FALSE, !.collectTopology = FALSE, !.useIp = TRUE]
  OBVIOUS
<1>7. PICK b \in BOOLEAN : b = (~p.rollback /\ s = "SOURCE")
  OBVIOUS
<1>8. IsMonitor(r, quiet) /\ IsMonitor(r, eager) /\ IsMonitor(r, post)
  BY <1>1, <1>4, <1>5, <1>6
<1>9. UpdateMonitors(p, m, s) \in {quiet, eager, post, m, ResetCollectedData(eager),
                                  [ResetCollectedData(quiet) EXCEPT !.stop = @ \/ b]}
  BY <1>4, <1>5, <1>6, <1>7 DEF UpdateMonitors, NOT_CREATED, CREATED, POST, COMPLETED
<1>10. IsMonitor(r, UpdateMonitors(p, m, s))
  BY <1>2, <1>3, <1>8, <1>9
<1>. QED  BY <1>3, <1>10

-----------------------------------------------------------------------------
(* The steps of the deployment, the monitors and the provider *)

LEMMA SpendFacts ==
    ASSUME faults \in Nat, NEW kinds, IsFiniteSet(kinds), Spend(kinds)
    PROVE  faults' \in Nat
<1>1. Cardinality(kinds) \in Nat
  BY FS_CardinalityType
<1>. QED  BY <1>1 DEF Spend

\* The part of the invariant about the status.
Told == BgTypeOK /\ SoundProvider(prov) /\ HoldsStatements(prov)

LEMMA OvertakesType ==
    ASSUME BgTypeOK, Overtakes
    PROVE  DOMAIN mon' = Roles /\ \A r \in Roles : IsMonitor(r, mon'[r])
<1>1. DOMAIN mon' = Roles
  BY DEF Overtakes
<1>2. ASSUME NEW r \in Roles
      PROVE  IsMonitor(r, mon'[r])
  <2>1. IsMonitor(r, mon[r]) /\ mon[r].lag < MaxLag /\ MaxLag \in Nat
    BY BlueGreenAssumption DEF BgTypeOK, Overtakes
  <2>2. PICK n : n = IF mon[r].pc \in {"poll", "report"} THEN mon[r].lag + 1 ELSE mon[r].lag
    OBVIOUS
  <2>3. n \in 0 .. MaxLag
    BY <2>1, <2>2 DEF IsMonitor
  <2>4. mon'[r] = [mon[r] EXCEPT !.lag = n]
    BY <2>2 DEF Overtakes
  <2>. QED  BY <2>1, <2>3, <2>4 DEF IsMonitor
<1>. QED  BY <1>1, <1>2

LEMMA DeploymentTold ==
    ASSUME Told, Advance \/ RollBack \/ UpdateDns
    PROVE  Told'
<1>1. DOMAIN mon' = Roles /\ \A r \in Roles : IsMonitor(r, mon'[r])
  BY OvertakesType DEF Told, Advance, RollBack, UpdateDns
<1>2. prov' = prov /\ cached' = cached
  BY DEF Advance, RollBack, UpdateDns
<1>3. bgd' \in NOT_CREATED .. Deleted
  BY DEF Told, BgTypeOK, Advance, RollBack, UpdateDns, NOT_CREATED, CREATED, Deleted
<1>4. faults' \in Nat
  <2>1. CASE RollBack
    <3>1. Spend({"rollback"}) /\ IsFiniteSet({"rollback"})
      BY <2>1, FS_Singleton DEF RollBack
    <3>. QED  BY <3>1, SpendFacts DEF Told, BgTypeOK
  <2>2. CASE Advance \/ UpdateDns
    BY <2>2 DEF Told, BgTypeOK, Advance, UpdateDns
  <2>. QED  BY <2>1, <2>2
<1>5. DOMAIN dns' = Roles /\ \A r \in Roles : dns'[r] \in Leads(r)
  BY DEF Told, BgTypeOK, Advance, RollBack, UpdateDns, Leads, Roles
<1>. QED  BY <1>1, <1>2, <1>3, <1>4, <1>5 DEF Told, BgTypeOK

LEMMA ObserveTold ==
    ASSUME Told, NEW r \in Roles, Observe(r)
    PROVE  Told'
<1>1. PICK outcome \in {"rows", "refused", "lost", "unavailable"},
           whole \in BOOLEAN, found \in BOOLEAN :
        LET due == outcome = IF bgd = NOT_CREATED THEN "unavailable" ELSE "rows"
            polled == CollectStatus(r, OpenConnection(mon[r], outcome = "refused"),
                                    outcome)
            topology == IF whole THEN Instances[r]
                        ELSE [Instances[r] EXCEPT !.writer = Nil]
            listed == CollectTopology(polled, topology)
            seen == UpdateIpAddressFlags(CollectHostIpAddresses(listed, found))
            upset == (IF due THEN {} ELSE {outcome})
                     \cup (IF whole THEN {} ELSE {"topology"})
                     \cup (IF found THEN {} ELSE {"lookup"})
        IN  /\ Spend(upset)
            /\ outcome = "refused" => ~mon[r].conn
            /\ ~whole => listed # polled
            /\ mon' = [mon EXCEPT ![r] = [seen EXCEPT !.pc = "report", !.lag = 0]]
  BY DEF Observe
<1>2. PICK refused \in BOOLEAN : refused = (outcome = "refused")
  OBVIOUS
<1>3. PICK polled : polled = CollectStatus(r, OpenConnection(mon[r], refused), outcome)
  OBVIOUS
<1>4. PICK topology : topology = IF whole THEN Instances[r] ELSE [Instances[r] EXCEPT !.writer = Nil]
  OBVIOUS
<1>5. PICK listed : listed = CollectTopology(polled, topology)
  OBVIOUS
<1>6. PICK seen : seen = UpdateIpAddressFlags(CollectHostIpAddresses(listed, found))
  OBVIOUS
<1>7. PICK upset : upset = (IF outcome = IF bgd = NOT_CREATED THEN "unavailable" ELSE "rows"
                            THEN {} ELSE {outcome})
                     \cup (IF whole THEN {} ELSE {"topology"})
                     \cup (IF found THEN {} ELSE {"lookup"})
  OBVIOUS
<1>8. Spend(upset) /\ mon' = [mon EXCEPT ![r] = [seen EXCEPT !.pc = "report", !.lag = 0]]
  BY <1>1, <1>2, <1>3, <1>4, <1>5, <1>6, <1>7
<1>9. IsMonitor(r, polled)
  <2>1. IsMonitor(r, OpenConnection(mon[r], refused))
    BY OpenConnectionType DEF Told, BgTypeOK
  <2>. QED  BY <1>3, <2>1, CollectStatusType DEF Told
<1>10. topology \in Topologies(r)
  BY <1>4, NameFacts DEF Topologies
<1>11. IsMonitor(r, listed)
  BY <1>5, <1>9, <1>10, CollectTopologyType
<1>12. IsMonitor(r, seen)
  <2>1. IsMonitor(r, CollectHostIpAddresses(listed, found))
    BY <1>11, CollectHostIpAddressesType DEF Told
  <2>. QED  BY <1>6, <2>1, UpdateIpAddressFlagsType
<1>13. IsMonitor(r, [seen EXCEPT !.pc = "report", !.lag = 0])
  <2>1. 0 \in 0 .. MaxLag
    BY BlueGreenAssumption
  <2>. QED  BY <1>12, <2>1 DEF IsMonitor
<1>14. DOMAIN mon' = Roles /\ \A s \in Roles : IsMonitor(s, mon'[s])
  BY <1>8, <1>13 DEF Told, BgTypeOK
<1>15. faults' \in Nat
  <2>1. IsFiniteSet(upset)
    <3>1. upset \in SUBSET ({outcome} \cup {"topology"} \cup {"lookup"})
      BY <1>7
    <3>2. IsFiniteSet({outcome} \cup {"topology"} \cup {"lookup"})
      BY FS_Singleton, FS_Union
    <3>. QED  BY <3>1, <3>2, FS_Subset
  <2>. QED  BY <1>8, <2>1, SpendFacts DEF Told, BgTypeOK
<1>16. UNCHANGED <<bgd, dns, prov, cached>>
  BY DEF Observe
<1>. QED  BY <1>14, <1>15, <1>16 DEF Told, BgTypeOK

LEMMA StopMonitorTold ==
    ASSUME Told, NEW r \in Roles, StopMonitor(r)
    PROVE  Told'
<1>1. PICK n : n = NewMonitor
  OBVIOUS
<1>2. IsMonitor(r, n)
  BY <1>1, NewMonitorType
<1>3. IsMonitor(r, [n EXCEPT !.pc = "done"])
  BY <1>2 DEF IsMonitor
<1>4. DOMAIN mon' = Roles /\ \A s \in Roles : IsMonitor(s, mon'[s])
  BY <1>1, <1>3 DEF Told, BgTypeOK, StopMonitor
<1>. QED  BY <1>4 DEF Told, BgTypeOK, StopMonitor

LEMMA ReportTold ==
    ASSUME Told, NEW r \in Roles, Report(r)
    PROVE  Told'
<1>1. PICK i : i = Interim(mon[r])
  OBVIOUS
<1>2. PICK p : p = Prepared(prov, r, i)
  OBVIOUS
<1>3. PICK done \in BOOLEAN : done = SwitchoverCompleted(p)
  BY DEF SwitchoverCompleted
<1>4. PICK told : told = [s \in Roles |->
                   [UpdateMonitors(p, mon[s], s) EXCEPT !.stop = @ \/ (done /\ s = "TARGET")]]
  OBVIOUS
<1>5. SoundProvider(p) /\ HoldsStatements(p)
  BY <1>1, <1>2, InterimType, PreparedType DEF Told, BgTypeOK
<1>6. \A s \in Roles : IsMonitor(s, told[s])
  <2>1. SUFFICES ASSUME NEW s \in Roles
                 PROVE  IsMonitor(s, told[s])
    OBVIOUS
  <2>2. PICK b \in BOOLEAN : b = (done /\ s = "TARGET")
    OBVIOUS
  <2>3. told[s] = [UpdateMonitors(p, mon[s], s) EXCEPT !.stop = @ \/ b]
    BY <1>4, <2>2
  <2>4. IsMonitor(s, mon[s])
    BY DEF Told, BgTypeOK
  <2>. QED  BY <2>3, <2>4, UpdateMonitorsType
<1>7. \/ /\ prov' = ResetContextWhenCompleted(p) /\ mon' = [told EXCEPT ![r].pc = "poll"]
         /\ cached' = TRUE
      \/ mon' = [mon EXCEPT ![r].pc = "poll"] /\ UNCHANGED <<prov, cached>>
  BY <1>1, <1>2, <1>3, <1>4 DEF Report
<1>8. SoundProvider(prov') /\ HoldsStatements(prov') /\ cached' \in BOOLEAN
  BY <1>5, <1>7, ResetType DEF Told, BgTypeOK
<1>9. ASSUME NEW f, DOMAIN f = Roles, \A s \in Roles : IsMonitor(s, f[s]),
             mon' = [f EXCEPT ![r].pc = "poll"]
      PROVE  DOMAIN mon' = Roles /\ \A s \in Roles : IsMonitor(s, mon'[s])
  <2>1. IsMonitor(r, [f[r] EXCEPT !.pc = "poll"])
    BY <1>9 DEF IsMonitor
  <2>. QED  BY <1>9, <2>1
<1>10. DOMAIN mon' = Roles /\ \A s \in Roles : IsMonitor(s, mon'[s])
  <2>1. DOMAIN told = Roles
    BY <1>4
  <2>. QED  BY <1>6, <1>7, <1>9, <2>1 DEF Told, BgTypeOK
<1>11. UNCHANGED <<bgd, dns, faults>>
  BY DEF Report
<1>. QED  BY <1>8, <1>10, <1>11 DEF Told, BgTypeOK, SoundProvider

\* Every step of the status component keeps its part of the invariant.
LEMMA BgNextTold ==
    ASSUME Told, BgNext
    PROVE  Told'
<1>1. CASE Advance \/ RollBack \/ UpdateDns
  BY <1>1, DeploymentTold
<1>2. CASE TimerExpires
  <2>1. SoundProvider(prov') /\ HoldsStatements(prov')
    BY <1>2, FlagsType DEF TimerExpires, Told
  <2>. QED  BY <1>2, <2>1 DEF TimerExpires, Told, BgTypeOK, SoundProvider
<1>3. CASE EntryExpires
  BY <1>3 DEF EntryExpires, Told, BgTypeOK
<1>4. ASSUME NEW r \in Roles, MonitorStep(r)
      PROVE  Told'
  BY <1>4, ObserveTold, ReportTold, StopMonitorTold DEF MonitorStep
<1>. QED  BY <1>1, <1>2, <1>3, <1>4 DEF BgNext

-----------------------------------------------------------------------------
(* Calls *)

\* The part of the invariant about one call.
Good(k) == k \in Calls /\ Waits(k) /\ Redirects(k)

LEMMA IdleGood == Good(Idle) /\ Idle.during = FALSE
<1>1. <<>> \in Seq(IamHosts) /\ Len(<<>>) = 0
  OBVIOUS
<1>2. Idle \in Calls
  BY <1>1 DEF Idle, Calls
<1>3. /\ Idle.pc = "idle" /\ Idle.op = Nil /\ Idle.kind = Nil /\ Idle.via = Nil
      /\ Idle.tries = <<>> /\ Idle.during = FALSE
  BY DEF Idle
<1>4. Waits(Idle)
  BY <1>3, RoutingAssumption DEF Waits
<1>5. Redirects(Idle)
  BY <1>1, <1>3, RoutingAssumption DEF Redirects
<1>. QED  BY <1>2, <1>3, <1>4, <1>5 DEF Good

LEMMA SubjectRoleType ==
    ASSUME Told, NEW k \in Calls
    PROVE  SubjectRole(k) \in Roles \cup {Nil}
<1>1. \A h : GetRole(h) \in Roles \cup {Nil}
  BY DEF GetRole, Told, BgTypeOK, SoundProvider, IsProvider, IsMap
<1>. QED  BY <1>1 DEF SubjectRole, Calls

LEMMA ApplyGood ==
    ASSUME NEW k, Good(k), k.op = "connect", k.pc # "dial", NEW route \in SoundRoutes
    PROVE  Good(Apply(k, route)) /\ Apply(k, route).during = k.during
<1>1. k \in Calls
  BY DEF Good
<1>2. PICK n : n = Apply(k, route)
  OBVIOUS
<1>3. /\ route.to \in AllNames \cup Addresses \cup {Nil} /\ route.tries \in Seq(IamHosts)
      /\ route.kind \in {"blue", "suspend", "until", "green", "reject"}
      /\ route.kind = "blue" => route.to # Nil /\ Len(route.tries) = 1
      /\ route.kind = "green" => route.to \in Names["TARGET"] \cup {GreenIp} /\ route.tries # <<>>
  BY DEF SoundRoutes, Routes
<1>4. CASE route.kind \in {"suspend", "until", "reject"}
  <2>1. PICK pc \in {"look", "hold"} : n = [k EXCEPT !.pc = pc]
    BY <1>2, <1>4 DEF Apply
  <2>2. n \in Calls
    BY <1>1, <2>1 DEF Calls
  <2>3. /\ n.pc \in {"look", "hold"} /\ n.op = "connect" /\ n.kind = k.kind /\ n.via = k.via
        /\ n.tries = k.tries /\ n.during = k.during
    BY <1>1, <2>1 DEF Calls
  <2>4. Waits(n)
    BY <2>3, RoutingAssumption DEF Waits
  <2>5. Redirects(n)
    BY <2>3 DEF Good, Redirects
  <2>. QED  BY <1>2, <2>2, <2>3, <2>4, <2>5 DEF Good
<1>5. CASE route.kind \in {"blue", "green"} /\ IamInUse /\ route.to \in AllNames
  <2>1. n = [k EXCEPT !.pc = "look", !.via = route.to, !.viaRole = Nil,
                      !.tries = route.tries, !.kind = route.kind]
    BY <1>2, <1>5 DEF Apply
  <2>2. n \in Calls
    BY <1>1, <1>3, <1>5, <2>1 DEF Calls
  <2>3. /\ n.pc = "look" /\ n.via = route.to /\ n.tries = route.tries /\ n.kind = route.kind
        /\ n.op = "connect" /\ n.during = k.during
    BY <1>1, <2>1 DEF Calls
  <2>4. route.to # Nil /\ (route.kind = "green" => route.to \in Names["TARGET"])
    BY <1>3, <1>5, BlueGreenAssumption
  <2>5. route.tries # <<>> /\ (route.kind = "blue" => Len(route.tries) <= 1)
    <3>1. CASE route.kind = "blue"
      <4>1. Len(route.tries) = 1
        BY <1>3, <3>1
      <4>2. route.tries # <<>>
        BY <1>3, <4>1, SingleFacts
      <4>. QED  BY <4>1, <4>2
    <3>2. CASE route.kind = "green"
      BY <1>3, <3>2
    <3>. QED  BY <1>5, <3>1, <3>2
  <2>6. Redirects(n)
    BY <1>5, <2>3, <2>4, <2>5 DEF Redirects
  <2>7. Waits(n)
    BY <2>3, RoutingAssumption DEF Waits
  <2>. QED  BY <1>2, <2>2, <2>3, <2>6, <2>7 DEF Good
<1>6. CASE route.kind \in {"blue", "green"} /\ ~(IamInUse /\ route.to \in AllNames)
  <2>1. n = [k EXCEPT !.pc = "dial", !.to = route.to, !.kind = route.kind]
    BY <1>2, <1>6 DEF Apply
  <2>2. n \in Calls
    BY <1>1, <1>3, <1>6, <2>1 DEF Calls
  <2>3. /\ n.pc = "dial" /\ n.to = route.to /\ n.kind = route.kind /\ n.via = k.via
        /\ n.tries = k.tries /\ n.op = "connect" /\ n.during = k.during
    BY <1>1, <2>1 DEF Calls
  <2>. QED  BY <1>2, <1>3, <2>2, <2>3, RoutingAssumption DEF Good, Waits, Redirects
<1>. QED  BY <1>3, <1>4, <1>5, <1>6

LEMMA LookConnectGood ==
    ASSUME Told, NEW k, Good(k), k.op = "connect", k.pc # "dial", NEW n \in LookConnect(k)
    PROVE  Good(n) /\ (n.during => k.during)
<1>1. k \in Calls
  BY DEF Good
<1>2. PICK role \in Roles \cup {Nil} : role = SubjectRole(k)
  BY <1>1, SubjectRoleType
<1>3. PICK routes : routes = Matching(prov.connect, Subject(k), role)
  OBVIOUS
<1>4. routes \subseteq SoundRoutes
  BY <1>3 DEF Matching, Told, BgTypeOK, SoundProvider, IsProvider
<1>5. PICK looked : looked = IF k.via # Nil THEN [k EXCEPT !.viaRole = role] ELSE [k EXCEPT !.role = role]
  OBVIOUS
<1>6. looked \in Calls
  BY <1>1, <1>5 DEF Calls
<1>7. /\ looked.pc = k.pc /\ looked.op = k.op /\ looked.via = k.via /\ looked.kind = k.kind
      /\ looked.tries = k.tries /\ looked.to = k.to /\ looked.during = k.during /\ looked.host = k.host
  BY <1>1, <1>5 DEF Calls
<1>8. Good(looked)
  BY <1>6, <1>7 DEF Good, Waits, Redirects
<1>9. CASE routes # {}
  <2>1. PICK route \in routes : n = Apply(looked, route)
    BY <1>2, <1>3, <1>5, <1>9 DEF LookConnect
  <2>2. route \in SoundRoutes
    BY <1>4
  <2>. QED  BY <1>7, <1>8, <2>1, <2>2, ApplyGood
<1>10. CASE routes = {} /\ k.via = Nil
  <2>1. n = [Idle EXCEPT !.pc = "dial", !.to = k.host]
    BY <1>2, <1>3, <1>5, <1>10 DEF LookConnect
  <2>2. n = [pc |-> "dial", op |-> Nil, host |-> Nil, role |-> Nil, to |-> k.host,
             kind |-> Nil, via |-> Nil, viaRole |-> Nil, tries |-> <<>>, during |-> FALSE]
    BY <2>1 DEF Idle
  <2>3. Idle \in Calls
    BY IdleGood DEF Good
  <2>4. n \in Calls
    BY <1>1, <2>1, <2>3 DEF Calls
  <2>5. /\ n.pc = "dial" /\ n.op = Nil /\ n.kind = Nil /\ n.via = Nil /\ n.tries = <<>> /\ n.during = FALSE
    BY <2>2
  <2>6. Waits(n)
    BY <2>5, RoutingAssumption DEF Waits
  <2>7. Redirects(n)
    <3>1. Len(<<>>) = 0
      OBVIOUS
    <3>. QED  BY <2>5, <3>1, RoutingAssumption DEF Redirects
  <2>. QED  BY <2>4, <2>5, <2>6, <2>7 DEF Good
<1>11. CASE routes = {} /\ k.via # Nil
  <2>1. n = [looked EXCEPT !.pc = "dial", !.to = k.via]
    BY <1>2, <1>3, <1>5, <1>11 DEF LookConnect
  <2>2. n \in Calls
    BY <1>1, <1>6, <2>1 DEF Calls
  <2>3. /\ n.pc = "dial" /\ n.op = k.op /\ n.kind = k.kind /\ n.via = k.via /\ n.to = k.via
        /\ n.tries = k.tries /\ n.during = k.during
    BY <1>6, <1>7, <2>1 DEF Calls
  <2>. QED  BY <2>2, <2>3, RoutingAssumption DEF Good, Waits, Redirects
<1>. QED  BY <1>9, <1>10, <1>11

\* A statement whose role is known is held as long as the hold goes on.
LEMMA LookExecuteGood ==
    ASSUME Told, NEW k \in Calls, Redirects(k), k.op = "execute", k.pc # "dial", k.via = Nil,
           k.during => InProgress, k.during /\ k.host \in AllNames => SubjectRole(k) \in Roles,
           NEW n \in LookExecute(k)
    PROVE  Good(n) /\ (n.during => k.during)
<1>1. PICK role \in Roles \cup {Nil} : role = SubjectRole(k)
  BY SubjectRoleType
<1>2. PICK routes : routes = Matching(prov.execute, k.host, role)
  OBVIOUS
<1>3. n = IF routes = {} THEN [k EXCEPT !.pc = "sent"] ELSE [k EXCEPT !.pc = "hold", !.role = role]
  BY <1>1, <1>2 DEF LookExecute
<1>4. ASSUME InProgress, role \in Roles
      PROVE  routes # {}
  <2>1. Suspend(Nil, role) \in prov.execute /\ cached
    BY <1>4 DEF Told, HoldsStatements, InProgress
  <2>2. IsMatch(Suspend(Nil, role), k.host, role)
    BY DEF IsMatch, Suspend, Route
  <2>3. role # Nil
    BY <1>4, BlueGreenAssumption
  <2>. QED  BY <1>2, <2>1, <2>2, <2>3 DEF Matching
<1>5. routes # {} => role \in Roles
  BY <1>2 DEF Matching
<1>6. CASE routes = {}
  <2>1. n = [k EXCEPT !.pc = "sent"]
    BY <1>3, <1>6
  <2>2. n \in Calls
    BY <2>1 DEF Calls
  <2>3. /\ n.pc = "sent" /\ n.op = "execute" /\ n.via = Nil /\ n.kind = k.kind /\ n.tries = k.tries
        /\ n.during = k.during /\ n.host = k.host /\ n.to = k.to
    BY <2>1 DEF Calls
  <2>4. ~(k.during /\ k.host \in AllNames)
    BY <1>1, <1>4, <1>6
  <2>. QED  BY <2>2, <2>3, <2>4 DEF Good, Waits, Redirects
<1>7. CASE routes # {}
  <2>1. n = [k EXCEPT !.pc = "hold", !.role = role]
    BY <1>3, <1>7
  <2>2. n \in Calls
    BY <2>1, ZenonT(60) DEF Calls
  <2>3. /\ n.pc = "hold" /\ n.op = "execute" /\ n.via = Nil /\ n.kind = k.kind /\ n.tries = k.tries
        /\ n.during = k.during /\ n.host = k.host /\ n.to = k.to /\ n.role = role
    BY <2>1 DEF Calls
  <2>4. Waits(n)
    BY <1>5, <1>7, <2>3, RoutingAssumption DEF Waits
  <2>5. Redirects(n)
    BY <2>3 DEF Redirects
  <2>. QED  BY <2>2, <2>3, <2>4, <2>5 DEF Good
<1>. QED  BY <1>6, <1>7

-----------------------------------------------------------------------------
(* The steps of a call *)

\* Inv, by its two parts and the calls begun in a hold.
LEMMA InvParts ==
    Inv <=> /\ Told /\ DOMAIN call = Callers /\ call = [c \in Callers |-> call[c]]
            /\ \A c \in Callers : Good(call[c])
            /\ \A c \in Callers : call[c].during => InProgress
<1>1. call \in [Callers -> Calls] <=>
        call = [c \in Callers |-> call[c]] /\ \A c \in Callers : call[c] \in Calls
  OBVIOUS
<1>. QED  BY <1>1 DEF Inv, TypeOK, Told, Good

LEMMA InitProviderType ==
    ASSUME BgTypeOK, InitProvider
    PROVE  DOMAIN mon' = Roles /\ \A r \in Roles : IsMonitor(r, mon'[r])
<1>1. \A r \in Roles : IsMonitor(r, [mon[r] EXCEPT !.pc = "poll"])
  BY DEF BgTypeOK, IsMonitor
<1>. QED  BY <1>1 DEF InitProvider, BgTypeOK

LEMMA RegisterType ==
    ASSUME NEW p, SoundProvider(p), HoldsStatements(p), NEW g \in AllNames, NEW iam \in IamHosts
    PROVE  /\ SoundProvider(RegisterIamHost(p, g, iam)) /\ HoldsStatements(RegisterIamHost(p, g, iam))
           /\ RegisterIamHost(p, g, iam).phase = p.phase
<1>1. PICK answered : answered = {iam} \cup (IF g \in DOMAIN p.connects THEN p.connects[g] ELSE {})
  OBVIOUS
<1>2. answered \in SUBSET IamHosts
  BY <1>1 DEF SoundProvider, IsProvider, IsMap
<1>3. PICK new : new = Merge(p.connects, [h \in {g} |-> answered])
  OBVIOUS
<1>4. IsMap(new, AllNames, SUBSET IamHosts)
  <2>1. IsMap([h \in {g} |-> answered], AllNames, SUBSET IamHosts)
    BY <1>2 DEF IsMap
  <2>. QED  BY <1>3, <2>1, MergeFacts DEF SoundProvider, IsProvider
<1>5. PICK b \in BOOLEAN : b = (p.renamed \/ (g # iam /\ \A h \in DOMAIN new : new[h] # {h}))
  OBVIOUS
<1>6. RegisterIamHost(p, g, iam) = [p EXCEPT !.connects = new, !.renamed = b]
  BY <1>1, <1>3, <1>5 DEF RegisterIamHost, SoundProvider, IsProvider
<1>7. PICK q : q = [p EXCEPT !.connects = new, !.renamed = b]
  OBVIOUS
<1>8. SoundProvider(q) /\ q.phase = p.phase /\ q.known = p.known /\ q.execute = p.execute
  BY <1>4, <1>7 DEF SoundProvider, IsProvider
<1>9. HoldsStatements(q)
  BY <1>8 DEF HoldsStatements
<1>. QED  BY <1>6, <1>7, <1>8, <1>9

\* A step of one call to a good call, with the status still well told.
LEMMA OneCall ==
    ASSUME Inv, Told', NEW c \in Callers, NEW n, Good(n), n.during => InProgress,
           call' = [call EXCEPT ![c] = n], cached' = cached, prov'.phase = prov.phase
    PROVE  Inv'
<1>1. InProgress' = InProgress
  BY DEF InProgress
<1>2. \A d \in Callers : Good(call'[d]) /\ (call'[d].during => InProgress')
  BY <1>1, InvParts
<1>3. call' \in [Callers -> Calls]
  BY <1>2, InvParts DEF Good
<1>. QED  BY <1>2, <1>3 DEF Inv, TypeOK, Told, Good

LEMMA StartInv ==
    ASSUME Inv, NEW c \in Callers, NEW op \in {"connect", "execute", "close"}, NEW h \in Requested,
           Start(c, op, h)
    PROVE  Inv'
<1>1. Told /\ Good(call[c])
  BY InvParts
<1>2. Told'
  <2>1. DOMAIN mon' = Roles /\ \A r \in Roles : IsMonitor(r, mon'[r])
    BY <1>1, InitProviderType DEF Start, Told, BgTypeOK
  <2>. QED  BY <1>1, <2>1 DEF Start, Told, BgTypeOK
<1>3. PICK during \in BOOLEAN : during = (/\ op = "execute" /\ InProgress
                                          /\ h \in AllNames => GetRole(h) # Nil)
  OBVIOUS
<1>4. PICK k : k = [Idle EXCEPT !.op = op, !.host = h, !.during = during]
  OBVIOUS
<1>5. PICK n \in Look(k) : call' = [call EXCEPT ![c] = n]
  BY <1>3, <1>4 DEF Start
<1>6. /\ k.pc = "idle" /\ k.op = op /\ k.host = h /\ k.during = during /\ k.role = Nil
      /\ k.via = Nil /\ k.viaRole = Nil /\ k.tries = <<>> /\ k.kind = Nil
  BY <1>4 DEF Idle
<1>7. op # "close" => k \in Calls
  BY <1>4, IdleGood DEF Good, Calls
<1>8. Redirects(k)
  <2>1. Len(<<>>) = 0
    OBVIOUS
  <2>. QED  BY <1>6, <2>1, RoutingAssumption DEF Redirects
<1>9. Good(n) /\ (n.during => InProgress)
  <2>1. CASE op = "connect"
    <3>1. n \in LookConnect(k)
      BY <1>5, <1>6, <2>1 DEF Look
    <3>2. Good(k) /\ ~k.during
      BY <1>3, <1>6, <1>7, <1>8, <2>1 DEF Good, Waits
    <3>. QED  BY <1>1, <1>6, <2>1, <3>1, <3>2, LookConnectGood
  <2>2. CASE op = "execute"
    <3>1. n \in LookExecute(k)
      BY <1>5, <1>6, <2>2 DEF Look
    <3>2. SubjectRole(k) = GetRole(h)
      BY <1>6 DEF SubjectRole, Subject
    <3>3. k.during => InProgress /\ (h \in AllNames => GetRole(h) # Nil)
      BY <1>3, <1>6
    <3>4. k.during /\ k.host \in AllNames => SubjectRole(k) \in Roles
      BY <1>1, <1>6, <1>7, <2>2, <3>2, <3>3, SubjectRoleType
    <3>. QED  BY <1>1, <1>6, <1>7, <1>8, <2>2, <3>1, <3>3, <3>4, LookExecuteGood
  <2>3. CASE op = "close"
    <3>1. n = [Idle EXCEPT !.pc = "sent"]
      BY <1>5, <1>6, <2>3 DEF Look
    <3>2. n \in Calls
      BY <3>1, IdleGood DEF Good, Calls
    <3>3. /\ n.pc = "sent" /\ n.op = Nil /\ n.kind = Nil /\ n.via = Nil /\ n.tries = <<>>
          /\ n.during = FALSE
      BY <3>1 DEF Idle
    <3>4. Waits(n)
      BY <3>3, RoutingAssumption DEF Waits
    <3>5. Redirects(n)
      <4>1. Len(<<>>) = 0
        OBVIOUS
      <4>. QED  BY <3>3, <4>1, RoutingAssumption DEF Redirects
    <3>. QED  BY <3>2, <3>3, <3>4, <3>5 DEF Good
  <2>. QED  BY <2>1, <2>2, <2>3
<1>. QED  BY <1>2, <1>5, <1>9, OneCall DEF Start

LEMMA LookAgainInv ==
    ASSUME Inv, NEW c \in Callers, LookAgain(c)
    PROVE  Inv'
<1>1. PICK k : k = call[c]
  OBVIOUS
<1>2. Told /\ Good(k) /\ (k.during => InProgress) /\ k.pc = "look"
  BY <1>1, InvParts DEF LookAgain
<1>3. Told'
  BY <1>2 DEF LookAgain, Told, BgTypeOK
<1>4. PICK n \in Look(k) : call' = [call EXCEPT ![c] = n]
  BY <1>1 DEF LookAgain
<1>5. k.op \in {"connect", "execute"}
  BY <1>2 DEF Good, Waits, Calls
<1>6. Good(n) /\ (n.during => InProgress)
  <2>1. CASE k.op = "connect"
    <3>1. n \in LookConnect(k)
      BY <1>4, <2>1 DEF Look
    <3>. QED  BY <1>2, <2>1, <3>1, LookConnectGood
  <2>2. CASE k.op = "execute"
    <3>1. n \in LookExecute(k)
      BY <1>4, <2>2 DEF Look
    <3>2. k.via = Nil /\ k.role \in Roles
      BY <1>2, <2>2 DEF Good, Waits
    <3>3. SubjectRole(k) \in Roles
      BY <3>2, BlueGreenAssumption DEF SubjectRole
    <3>. QED  BY <1>2, <2>2, <3>1, <3>2, <3>3, LookExecuteGood DEF Good
  <2>. QED  BY <1>5, <2>1, <2>2
<1>. QED  BY <1>3, <1>4, <1>6, OneCall DEF LookAgain

LEMMA HoldEndsInv ==
    ASSUME Inv, NEW c \in Callers, HoldEnds(c)
    PROVE  Inv'
<1>1. PICK k : k = call[c]
  OBVIOUS
<1>2. Told /\ Good(k) /\ (k.during => InProgress) /\ k.pc = "hold"
  BY <1>1, InvParts DEF HoldEnds
<1>3. Told'
  BY <1>2 DEF HoldEnds, Told, BgTypeOK
<1>4. PICK n : n = IF k.op = "execute" /\ InProgress THEN Idle ELSE [k EXCEPT !.pc = "look"]
  OBVIOUS
<1>5. call' = [call EXCEPT ![c] = n]
  BY <1>1, <1>4 DEF HoldEnds
<1>6. Good([k EXCEPT !.pc = "look"]) /\ [k EXCEPT !.pc = "look"].during = k.during
  <2>1. PICK l : l = [k EXCEPT !.pc = "look"]
    OBVIOUS
  <2>2. l \in Calls
    BY <1>2, <2>1 DEF Good, Calls
  <2>3. /\ l.pc = "look" /\ l.op = k.op /\ l.via = k.via /\ l.kind = k.kind /\ l.tries = k.tries
        /\ l.role = k.role /\ l.during = k.during
    BY <1>2, <2>1 DEF Good, Calls
  <2>. QED  BY <1>2, <2>1, <2>2, <2>3 DEF Good, Waits, Redirects
<1>7. Good(n) /\ (n.during => InProgress)
  BY <1>2, <1>4, <1>6, IdleGood
<1>. QED  BY <1>3, <1>5, <1>7, OneCall DEF HoldEnds

LEMMA AnsweredInv ==
    ASSUME Inv, NEW c \in Callers, Answered(c)
    PROVE  Inv'
<1>1. Told'
  BY InvParts DEF Answered, Told, BgTypeOK
<1>. QED  BY <1>1, IdleGood, OneCall DEF Answered

LEMMA DialInv ==
    ASSUME Inv, NEW c \in Callers, Dial(c)
    PROVE  Inv'
<1>1. PICK k : k = call[c]
  OBVIOUS
<1>2. Told /\ Good(k)
  BY <1>1, InvParts
<1>3. call' = [call EXCEPT ![c] = Idle] /\ UNCHANGED <<bgd, dns, faults, cached>> /\ InitProvider
  BY DEF Dial
<1>4. prov' = prov \/ (k.via # Nil /\ prov' = RegisterIamHost(prov, k.via, Head(k.tries)))
  BY <1>1 DEF Dial
<1>5. SoundProvider(prov') /\ HoldsStatements(prov') /\ prov'.phase = prov.phase
  <2>1. CASE prov' = prov
    BY <1>2, <2>1 DEF Told, BgTypeOK
  <2>2. CASE k.via # Nil /\ prov' = RegisterIamHost(prov, k.via, Head(k.tries))
    <3>1. k.via \in AllNames /\ k.tries \in Seq(IamHosts) /\ k.tries # <<>>
      BY <1>2, <2>2 DEF Good, Calls, Redirects
    <3>2. Head(k.tries) \in IamHosts
      BY <3>1
    <3>. QED  BY <1>2, <2>2, <3>1, <3>2, RegisterType DEF Told, BgTypeOK
  <2>. QED  BY <1>4, <2>1, <2>2
<1>6. DOMAIN mon' = Roles /\ \A r \in Roles : IsMonitor(r, mon'[r])
  BY <1>2, <1>3, InitProviderType DEF Told
<1>7. Told'
  BY <1>2, <1>3, <1>5, <1>6, SMTT(30) DEF Told, BgTypeOK, SoundProvider
<1>. QED  BY <1>3, <1>5, <1>7, IdleGood, OneCall

LEMMA DialFailsInv ==
    ASSUME Inv, NEW c \in Callers, DialFails(c)
    PROVE  Inv'
<1>1. PICK k : k = call[c]
  OBVIOUS
<1>2. Told /\ Good(k) /\ (k.during => InProgress) /\ k.pc = "dial"
  BY <1>1, InvParts DEF DialFails
<1>3. k \in Calls
  BY <1>2 DEF Good
<1>4. PICK rest : rest = IF k.tries = <<>> THEN <<>> ELSE Tail(k.tries)
  OBVIOUS
<1>5. rest \in Seq(IamHosts) /\ (rest # <<>> => Len(k.tries) > 1 /\ Len(rest) <= Len(k.tries))
  <2>1. k.tries \in Seq(IamHosts)
    BY <1>3 DEF Calls
  <2>. QED  BY <1>4, <2>1
<1>6. PICK kind \in {"blue", "green", Nil} : kind = IF rest = <<>> THEN Nil ELSE k.kind
  BY <1>3 DEF Calls
<1>7. PICK via \in AllNames \cup {Nil} : via = IF rest = <<>> THEN Nil ELSE k.via
  BY <1>3 DEF Calls
<1>8. PICK l : l = [k EXCEPT !.pc = "look", !.to = Nil, !.kind = kind, !.via = via,
                             !.viaRole = Nil, !.tries = rest]
  OBVIOUS
<1>9. call' = [call EXCEPT ![c] = IF k.kind = Nil THEN Idle ELSE l]
  <2>1. l = [k EXCEPT !.pc = "look", !.to = Nil, !.kind = IF rest = <<>> THEN Nil ELSE @,
                     !.via = IF rest = <<>> THEN Nil ELSE @, !.viaRole = Nil, !.tries = rest]
    BY <1>6, <1>7, <1>8
  <2>. QED  BY <1>1, <1>4, <2>1 DEF DialFails
<1>10. l \in Calls
  BY <1>3, <1>5, <1>8 DEF Calls
<1>11. /\ l.pc = "look" /\ l.op = k.op /\ l.kind = kind /\ l.via = via /\ l.tries = rest
       /\ l.during = k.during
  BY <1>3, <1>8 DEF Calls
<1>12. Redirects(l)
  <2>1. CASE rest = <<>>
    <3>1. Len(rest) = 0
      BY <2>1
    <3>. QED  BY <1>6, <1>7, <1>11, <2>1, <3>1, RoutingAssumption DEF Redirects
  <2>2. CASE rest # <<>>
    <3>1. k.via \in Names["TARGET"]
      BY <1>2, <1>3, <1>5, <2>2 DEF Good, Redirects, Calls
    <3>2. k.via # Nil
      BY <3>1, BlueGreenAssumption DEF AllNames
    <3>. QED  BY <1>6, <1>7, <1>11, <2>2, <3>1, <3>2 DEF Redirects
  <2>. QED  BY <2>1, <2>2
<1>13. k.kind # Nil => Waits(l)
  <2>1. k.kind # Nil => k.op = "connect"
    BY <1>2, <1>3 DEF Good, Waits, Calls
  <2>. QED  BY <1>11, <2>1, RoutingAssumption DEF Waits
<1>14. PICK n : n = IF k.kind = Nil THEN Idle ELSE l
  OBVIOUS
<1>15. Good(n) /\ (n.during => InProgress)
  BY <1>2, <1>10, <1>11, <1>12, <1>13, <1>14, IdleGood DEF Good
<1>16. Told'
  <2>1. DOMAIN mon' = Roles /\ \A r \in Roles : IsMonitor(r, mon'[r])
    BY <1>2, InitProviderType DEF DialFails, Told, BgTypeOK
  <2>2. faults' \in Nat
    <3>1. PICK kinds : kinds = IF Resolve(k.to) = NoIp THEN {} ELSE {"dial"}
      OBVIOUS
    <3>2. Spend(kinds) /\ IsFiniteSet(kinds)
      BY <1>1, <3>1, FS_EmptySet, FS_Singleton DEF DialFails
    <3>. QED  BY <1>2, <3>2, SpendFacts DEF Told, BgTypeOK
  <2>. QED  BY <1>2, <2>1, <2>2 DEF DialFails, Told, BgTypeOK
<1>. QED  BY <1>9, <1>14, <1>15, <1>16, OneCall DEF DialFails

-----------------------------------------------------------------------------
(* The theorems *)

LEMMA InitInv ==
    ASSUME Init
    PROVE  Inv
<1>1. /\ bgd \in NOT_CREATED .. Deleted /\ faults \in Nat /\ cached \in BOOLEAN
  <2>1. MaxFaults \in Nat
    BY BlueGreenAssumption
  <2>2. \A n \in InitialPhases : n \in NOT_CREATED .. IN_PROGRESS
    BY BlueGreenAssumption
  <2>3. bgd \in NOT_CREATED .. IN_PROGRESS
    BY <2>2 DEF Init, BgInit
  <2>4. bgd \in NOT_CREATED .. Deleted
    BY <2>3 DEF NOT_CREATED, IN_PROGRESS, Deleted
  <2>5. faults \in Nat /\ cached \in BOOLEAN
    BY <2>1 DEF Init, BgInit
  <2>. QED  BY <2>4, <2>5
<1>2. DOMAIN dns = Roles /\ \A r \in Roles : dns[r] \in Leads(r)
  BY DEF Init, BgInit, Leads, Roles
<1>3. DOMAIN mon = Roles /\ \A r \in Roles : IsMonitor(r, mon[r])
  BY NewMonitorType DEF Init, BgInit
<1>4. SoundProvider(prov) /\ HoldsStatements(prov)
  BY NewProviderType DEF Init, BgInit
<1>5. call = [c \in Callers |-> Idle]
  BY DEF Init
<1>6. \A c \in Callers : Good(call[c]) /\ ~call[c].during
  BY <1>5, IdleGood
<1>7. call \in [Callers -> Calls]
  BY <1>5, IdleGood DEF Good
<1>. QED  BY <1>1, <1>2, <1>3, <1>4, <1>6, <1>7 DEF Inv, TypeOK, BgTypeOK, Good, SoundProvider

\* A step of the status component: calls only lose their mark.
LEMMA BgStepInv ==
    ASSUME Inv, BgNext, call' = Marked(call)
    PROVE  Inv'
<1>1. Told /\ \A c \in Callers : Good(call[c])
  BY InvParts
<1>2. Told'
  BY <1>1, BgNextTold
<1>3. ASSUME NEW c \in Callers
      PROVE  Good(call'[c]) /\ (call'[c].during => InProgress')
  <2>1. PICK k : k = call[c]
    OBVIOUS
  <2>2. PICK b \in BOOLEAN : b = (k.during /\ cached' /\ prov'.phase = IN_PROGRESS)
    OBVIOUS
  <2>3. PICK l : l = [k EXCEPT !.during = b]
    OBVIOUS
  <2>4. k \in Calls
    BY <1>1, <2>1 DEF Good
  <2>5. call'[c] = l
    BY <2>1, <2>2, <2>3, <2>4 DEF Marked, Calls
  <2>6. l \in Calls
    BY <2>3, <2>4 DEF Calls
  <2>7. /\ l.pc = k.pc /\ l.op = k.op /\ l.via = k.via /\ l.kind = k.kind /\ l.tries = k.tries
        /\ l.role = k.role /\ l.host = k.host /\ l.to = k.to /\ l.during = b
    BY <2>3, <2>4 DEF Calls
  <2>8. (b => k.during) /\ (b => cached' /\ prov'.phase = IN_PROGRESS)
    BY <2>2
  <2>9. Waits(l)
    BY <1>1, <2>1, <2>7, <2>8 DEF Good, Waits
  <2>10. Redirects(l)
    BY <1>1, <2>1, <2>7 DEF Good, Redirects
  <2>11. l.during => InProgress'
    BY <2>7, <2>8 DEF InProgress
  <2>. QED  BY <2>5, <2>6, <2>9, <2>10, <2>11 DEF Good
<1>4. call' \in [Callers -> Calls]
  BY <1>3 DEF Marked, Good
<1>. QED  BY <1>2, <1>3, <1>4 DEF Inv, TypeOK, Told, Good

LEMMA NextInv ==
    ASSUME Inv, [Next]_vars
    PROVE  Inv'
<1>1. CASE BgNext /\ call' = Marked(call)
  BY <1>1, BgStepInv
<1>2. ASSUME NEW c \in Callers, Begin(c)
      PROVE  Inv'
  BY <1>2, StartInv DEF Begin
<1>3. ASSUME NEW c \in Callers, CallStep(c)
      PROVE  Inv'
  BY <1>3, LookAgainInv, HoldEndsInv, AnsweredInv, DialInv, DialFailsInv DEF CallStep
<1>4. CASE UNCHANGED vars
  BY <1>4 DEF vars, Inv, TypeOK, BgTypeOK, InProgress
<1>. QED  BY <1>1, <1>2, <1>3, <1>4 DEF Next

LEMMA Invariant == Spec => []Inv
<1>1. Init => Inv
  BY InitInv
<1>2. Inv /\ [Next]_vars => Inv'
  BY NextInv
<1>. QED  BY <1>1, <1>2, PTL DEF Spec

\* What the monitors report, the provider merges and the calls carry is well formed:
\* the phase never leaves its range, every corresponding host is a pair of a blue
\* and a green one, and no record says that a green name leads to the blue cluster.
THEOREM TypeCorrect == Spec => []TypeOK
<1>1. Inv => TypeOK
  BY DEF Inv
<1>. QED  BY <1>1, Invariant, PTL

\* SuspendExecuteRouting: a statement begun in the hold, on a host whose role the
\* status knows, is not sent while the status says IN_PROGRESS.
THEOREM StatementsAreHeld == Spec => []StatementsHeld
<1>1. Inv => StatementsHeld
  BY DEF Inv, Waits, StatementsHeld
<1>. QED  BY <1>1, Invariant, PTL

\* SubstituteConnectRouting after the switchover: a redirected connection never
\* reaches the old blue cluster, whatever the names resolve to meanwhile.
THEOREM RedirectedReachGreen == Spec => []RedirectedToGreen
<1>1. ASSUME Inv, NEW c \in Callers, call[c].pc = "dial", call[c].kind = "green"
      PROVE  Resolve(call[c].to) # BlueIp
  <2>1. PICK to \in Names["TARGET"] \cup {GreenIp} : to = call[c].to
    BY <1>1 DEF Inv, Redirects
  <2>2. CASE to = GreenIp
    BY <2>1, <2>2, BlueGreenAssumption DEF Resolve
  <2>3. CASE to \in Names["TARGET"]
    <3>1. BgTypeOK /\ "TARGET" \in Roles
      BY <1>1 DEF Inv, TypeOK, Roles
    <3>2. Resolve(to) \in Leads("TARGET")
      BY <2>3, <3>1, ResolveFacts
    <3>. QED  BY <2>1, <3>2, BlueGreenAssumption DEF Leads
  <2>. QED  BY <2>2, <2>3
<1>2. Inv => RedirectedToGreen
  BY <1>1 DEF RedirectedToGreen
<1>. QED  BY <1>2, Invariant, PTL

-----------------------------------------------------------------------------
(* The end of the routing: what the monitors saw of the name servers, and   *)
(* that reports never go backward unless the deployment does.              *)

\* The addresses of blue names: found, and green only once they have moved.
BlueSeen(ips, d) == \A h \in DOMAIN ips : ips[h] # NoIp /\ (ips[h] = GreenIp => d = GreenIp)

\* What monitor m of role r keeps is true of d, the address its names lead to.
Seen(r, m, d) ==
    /\ TopologyHosts(m.startTopology) \subseteq m.names
    /\ r = "SOURCE" => /\ BlueSeen(m.startIps, d) /\ BlueSeen(m.currentIps, d)
                       /\ m.ipChanged => d = GreenIp
    /\ r = "TARGET" => (m.removed => d = NoIp)

DnsSeen ==
    /\ dns["SOURCE"] # NoIp
    /\ \A r \in Roles : Seen(r, mon[r], dns[r])
    /\ prov.blueDns => dns["SOURCE"] = GreenIp
    /\ prov.greenDns => dns["TARGET"] = NoIp

LEMMA SeenGrows ==
    ASSUME NEW r, NEW m, NEW n, NEW d, Seen(r, m, d), m.names \subseteq n.names,
           n.startTopology = m.startTopology, n.startIps = m.startIps, n.currentIps = m.currentIps,
           n.ipChanged = m.ipChanged, n.removed = m.removed
    PROVE  Seen(r, n, d)
BY DEF Seen

\* Connecting and reading the status table only adds names.
LEMMA PolledSeen ==
    ASSUME NEW r \in Roles, NEW m, IsMonitor(r, m), NEW d, Seen(r, m, d), NEW refused, NEW outcome
    PROVE  Seen(r, CollectStatus(r, OpenConnection(m, refused), outcome), d)
<1>1. PICK o : o = OpenConnection(m, refused)
  OBVIOUS
<1>2. /\ o.names = m.names /\ o.startTopology = m.startTopology /\ o.startIps = m.startIps
      /\ o.currentIps = m.currentIps /\ o.ipChanged = m.ipChanged /\ o.removed = m.removed
      /\ DOMAIN o = DOMAIN m
  BY <1>1 DEF OpenConnection, IsMonitor
<1>3. PICK n : n = CollectStatus(r, o, outcome)
  OBVIOUS
<1>4. {"names", "startTopology", "startIps", "currentIps", "ipChanged", "removed", "phase", "conn",
       "correct", "lister", "at"} \subseteq DOMAIN o
  BY <1>2 DEF IsMonitor
<1>5. PICK f : f = RowFound(r, o)
  OBVIOUS
<1>6. /\ o.names \subseteq f.names /\ f.startTopology = o.startTopology /\ f.startIps = o.startIps
      /\ f.currentIps = o.currentIps /\ f.ipChanged = o.ipChanged /\ f.removed = o.removed
  BY <1>4, <1>5 DEF RowFound
<1>7. n \in {o, f, [o EXCEPT !.conn = FALSE, !.phase = Zero], [o EXCEPT !.phase = NOT_CREATED],
             [o EXCEPT !.phase = Zero]}
  BY <1>3, <1>5 DEF CollectStatus
<1>8. /\ o.names \subseteq n.names /\ n.startTopology = o.startTopology /\ n.startIps = o.startIps
      /\ n.currentIps = o.currentIps /\ n.ipChanged = o.ipChanged /\ n.removed = o.removed
  BY <1>4, <1>6, <1>7
<1>9. Seen(r, n, d)
  BY <1>2, <1>8, SeenGrows
<1>. QED  BY <1>1, <1>3, <1>9

LEMMA ListedSeen ==
    ASSUME NEW r \in Roles, NEW m, IsMonitor(r, m), NEW d, Seen(r, m, d), NEW t \in Topologies(r)
    PROVE  Seen(r, CollectTopology(m, t), d)
<1>1. PICK hosts : hosts = ToSet(t.readers) \cup ({t.writer} \ {Nil})
  OBVIOUS
<1>2. TopologyHosts(t) \subseteq hosts
  BY <1>1 DEF TopologyHosts
<1>3. PICK n : n = CollectTopology(m, t)
  OBVIOUS
<1>4. CASE m.lister /\ m.conn /\ m.collectTopology
  <2>1. n = [m EXCEPT !.startTopology = t, !.names = m.names \cup hosts]
    BY <1>1, <1>3, <1>4 DEF CollectTopology, IsMonitor
  <2>2. /\ n.startTopology = t /\ n.names = m.names \cup hosts /\ n.startIps = m.startIps
        /\ n.currentIps = m.currentIps /\ n.ipChanged = m.ipChanged /\ n.removed = m.removed
    BY <2>1 DEF IsMonitor
  <2>. QED  BY <1>2, <1>3, <2>2 DEF Seen
<1>5. CASE ~(m.lister /\ m.conn /\ m.collectTopology)
  BY <1>5 DEF CollectTopology
<1>. QED  BY <1>4, <1>5

\* The addresses read now, and the flags drawn from them.
LEMMA FlagsSeen ==
    ASSUME BgTypeOK, NEW r \in Roles, NEW m, IsMonitor(r, m), Seen(r, m, dns[r]), dns["SOURCE"] # NoIp
    PROVE  Seen(r, UpdateIpAddressFlags(CollectHostIpAddresses(m, TRUE)), dns[r])
<1>1. PICK n : n = CollectHostIpAddresses(m, TRUE)
  OBVIOUS
<1>2. PICK current : current = [h \in m.names |-> Resolve(h)]
  OBVIOUS
<1>3. \A h \in m.names : Resolve(h) = dns[r]
  <2>1. \A h \in m.names : h \in Names[r]
    BY DEF IsMonitor
  <2>2. \A h \in Names[r] : h \in AllNames /\ RoleOf[h] = r
    BY NameFacts, BlueGreenAssumption DEF RoleOf, Roles
  <2>. QED  BY <2>1, <2>2 DEF Resolve
<1>4. n = [m EXCEPT !.currentIps = current,
                    !.startIps = IF m.collectIps /\ m.names # {} THEN current ELSE m.startIps]
  BY <1>1, <1>2 DEF CollectHostIpAddresses, IsMonitor
<1>5. /\ n.currentIps = current /\ n.startIps \in {current, m.startIps} /\ n.names = m.names
      /\ n.startTopology = m.startTopology /\ n.ipChanged = m.ipChanged /\ n.removed = m.removed
  BY <1>4 DEF IsMonitor
<1>6. r = "SOURCE" => BlueSeen(current, dns[r])
  BY <1>2, <1>3 DEF BlueSeen
<1>7. r = "SOURCE" => BlueSeen(n.startIps, dns[r]) /\ BlueSeen(n.currentIps, dns[r])
  BY <1>5, <1>6 DEF Seen
<1>8. PICK hosts : hosts = TopologyHosts(n.startTopology)
  OBVIOUS
<1>9. hosts \subseteq n.names
  BY <1>5, <1>8 DEF Seen
<1>10. PICK u : u = UpdateIpAddressFlags(n)
  OBVIOUS
<1>11. IsMonitor(r, n)
  BY <1>1, CollectHostIpAddressesType
<1>12. /\ u.names = n.names /\ u.startTopology = n.startTopology /\ u.startIps = n.startIps
       /\ u.currentIps = n.currentIps
       /\ u.ipChanged => n.ipChanged \/ \E h \in hosts : /\ h \in DOMAIN n.startIps
                                                         /\ h \in DOMAIN n.currentIps
                                                         /\ n.startIps[h] # n.currentIps[h]
       /\ u.removed => \E h \in hosts : At(n.currentIps, h) = NoIp
  <2>1. CASE n.collectTopology
    BY <1>10, <1>11, <2>1 DEF UpdateIpAddressFlags, IsMonitor
  <2>2. CASE ~n.collectTopology
    <3>1. PICK a \in BOOLEAN : a = IF n.collectIps THEN n.ipChanged ELSE
                /\ hosts # {}
                /\ \A h \in hosts : /\ Known(n.startIps, h)
                                    /\ Known(n.currentIps, h)
                                    /\ n.startIps[h] # n.currentIps[h]
      BY <1>11 DEF IsMonitor
    <3>2. PICK b \in BOOLEAN : b = (/\ hosts # {}
                /\ \A h \in hosts : /\ At(n.startIps, h) # NoIp
                                    /\ At(n.currentIps, h) = NoIp)
      OBVIOUS
    <3>3. u = [n EXCEPT !.ipChanged = a, !.removed = b]
      BY <1>8, <1>10, <1>11, <2>2, <3>1, <3>2 DEF UpdateIpAddressFlags, IsMonitor
    <3>4. /\ u.names = n.names /\ u.startTopology = n.startTopology /\ u.startIps = n.startIps
          /\ u.currentIps = n.currentIps /\ u.ipChanged = a /\ u.removed = b
      BY <1>11, <3>3 DEF IsMonitor
    <3>5. a => n.ipChanged \/ \E h \in hosts : /\ h \in DOMAIN n.startIps
                                               /\ h \in DOMAIN n.currentIps
                                               /\ n.startIps[h] # n.currentIps[h]
      BY <3>1 DEF Known
    <3>6. b => \E h \in hosts : At(n.currentIps, h) = NoIp
      BY <3>2
    <3>. QED  BY <3>4, <3>5, <3>6
  <2>. QED  BY <2>1, <2>2
<1>13. r = "SOURCE" => (u.ipChanged => dns[r] = GreenIp)
  <2>1. SUFFICES ASSUME r = "SOURCE", u.ipChanged, ~n.ipChanged
                 PROVE  dns[r] = GreenIp
    BY <1>5 DEF Seen
  <2>2. PICK h \in hosts : /\ h \in DOMAIN n.startIps /\ h \in DOMAIN n.currentIps
                           /\ n.startIps[h] # n.currentIps[h]
    BY <1>12, <2>1
  <2>3. n.startIps[h] \in Leads(r) \ {NoIp} /\ n.currentIps[h] \in Leads(r) \ {NoIp}
    BY <1>7, <1>11, <2>1, <2>2 DEF IsMonitor, IsMap, BlueSeen
  <2>4. n.startIps[h] = GreenIp \/ n.currentIps[h] = GreenIp
    BY <2>2, <2>3 DEF Leads
  <2>. QED  BY <1>7, <2>1, <2>2, <2>4 DEF BlueSeen
<1>14. u.removed => dns[r] = NoIp
  <2>1. SUFFICES ASSUME u.removed
                 PROVE  dns[r] = NoIp
    OBVIOUS
  <2>2. PICK h \in hosts : At(n.currentIps, h) = NoIp
    BY <1>12, <2>1
  <2>3. h \in m.names
    BY <1>5, <1>9
  <2>4. At(n.currentIps, h) = dns[r]
    BY <1>2, <1>3, <1>5, <2>3 DEF At, Known
  <2>. QED  BY <2>2, <2>4
<1>15. Seen(r, u, dns[r])
  BY <1>7, <1>8, <1>9, <1>12, <1>13, <1>14 DEF Seen
<1>. QED  BY <1>1, <1>10, <1>15

\* What the provider tells a monitor changes neither its step nor what it last saw.
LEMMA ToldSeen ==
    ASSUME NEW p, NEW r \in Roles, NEW s, NEW m, IsMonitor(r, m), NEW d, Seen(r, m, d), NEW stop \in BOOLEAN
    PROVE  /\ Seen(r, [UpdateMonitors(p, m, s) EXCEPT !.stop = @ \/ stop], d)
           /\ [UpdateMonitors(p, m, s) EXCEPT !.stop = @ \/ stop].pc = m.pc
           /\ [UpdateMonitors(p, m, s) EXCEPT !.stop = @ \/ stop].phase = m.phase
           /\ [UpdateMonitors(p, m, s) EXCEPT !.stop = @ \/ stop].lag = m.lag
<1>0. PICK n : n = [UpdateMonitors(p, m, s) EXCEPT !.stop = @ \/ stop]
  OBVIOUS
<1>1. PICK u : u = UpdateMonitors(p, m, s)
  OBVIOUS
<1>2. {"names", "startTopology", "startIps", "currentIps", "ipChanged", "removed", "phase", "pc", "lag",
       "collectIps", "collectTopology", "useIp", "stop"} \subseteq DOMAIN m
  BY DEF IsMonitor
<1>3. /\ \/ u.names = m.names /\ u.startTopology = m.startTopology /\ u.startIps = m.startIps
         \/ u.names = {} /\ u.startTopology = Nil /\ u.startIps = Empty
      /\ u.currentIps = m.currentIps /\ u.ipChanged = m.ipChanged /\ u.removed = m.removed
      /\ u.pc = m.pc /\ u.phase = m.phase /\ u.lag = m.lag /\ DOMAIN u = DOMAIN m
  BY <1>1, <1>2 DEF UpdateMonitors, ResetCollectedData, NOT_CREATED, CREATED, POST, COMPLETED
<1>4. /\ \/ n.names = m.names /\ n.startTopology = m.startTopology /\ n.startIps = m.startIps
         \/ n.names = {} /\ n.startTopology = Nil /\ n.startIps = Empty
      /\ n.currentIps = m.currentIps /\ n.ipChanged = m.ipChanged /\ n.removed = m.removed
      /\ n.pc = m.pc /\ n.phase = m.phase /\ n.lag = m.lag
  BY <1>0, <1>1, <1>2, <1>3
<1>5. TopologyHosts(Nil) = {} /\ BlueSeen(Empty, d)
  BY DEF TopologyHosts, BlueSeen, Empty
<1>6. Seen(r, n, d)
  BY <1>4, <1>5 DEF Seen
<1>. QED  BY <1>0, <1>4, <1>6

LEMMA StatusFields ==
    ASSUME NEW p, IsProvider(p), NEW phase, NEW connect, NEW execute,
           NEW s, s = Status(p, phase, connect, execute)
    PROVE  /\ s.phase = phase /\ s.latest = p.latest /\ s.rollback = p.rollback /\ s.interim = p.interim
           /\ s.blueDns = p.blueDns /\ s.greenDns = p.greenDns /\ DOMAIN s = DOMAIN p
BY DEF Status, IsProvider

\* How a status comes about: it is COMPLETED only when both names have moved, or when
\* the timer has run out.
LEMMA SummaryFacts ==
    ASSUME NEW p, SoundProvider(p), NEW r \in Roles, NEW i, IsInterim(r, i),
           NEW s, s = UpdateSummaryStatus(p, r, i)
    PROVE  /\ s.rollback = p.rollback /\ s.interim = p.interim /\ s.phase # Zero
           /\ s.blueDns => p.blueDns \/ (r = "SOURCE" /\ i.ipChanged)
           /\ s.greenDns => p.greenDns \/ (r = "TARGET" /\ i.removed)
           /\ s.phase = COMPLETED => p.timer = "expired" \/ (s.blueDns /\ s.greenDns)
<1>1. PICK f : f = UpdateDnsFlags(p, r, i)
  OBVIOUS
<1>2. PICK a \in BOOLEAN : a = (p.blueDns \/ (r = "SOURCE" /\ i.ipChanged))
  OBVIOUS
<1>3. PICK b \in BOOLEAN : b = (p.greenDns \/ (r = "TARGET" /\ i.removed))
  OBVIOUS
<1>4. f = [p EXCEPT !.blueDns = a, !.greenDns = b]
  BY <1>1, <1>2, <1>3 DEF UpdateDnsFlags, SoundProvider, IsProvider
<1>5. /\ f.rollback = p.rollback /\ f.interim = p.interim /\ f.timer = p.timer
      /\ f.blueDns = a /\ f.greenDns = b
  BY <1>4 DEF SoundProvider, IsProvider
<1>6. IsProvider(f)
  BY <1>4, ZenonT(60) DEF SoundProvider, IsProvider
<1>7. PICK t : t = IF f.latest = PREPARATION /\ f.timer = "off"
                   THEN [f EXCEPT !.timer = "on"] ELSE f
  OBVIOUS
<1>8. /\ t.rollback = p.rollback /\ t.interim = p.interim /\ t.blueDns = a /\ t.greenDns = b
      /\ t.timer = "expired" => p.timer = "expired"
  BY <1>5, <1>6, <1>7 DEF IsProvider
<1>9. IsProvider(t)
  BY <1>6, <1>7 DEF IsProvider
<1>10. IsProvider(p) /\ p.blueDns \in BOOLEAN /\ p.greenDns \in BOOLEAN
  BY DEF SoundProvider, IsProvider
<1>11. (p.blueDns => a) /\ (p.greenDns => b)
  BY <1>2, <1>3
<1>12. s = IF p.latest >= PREPARATION /\ t.timer = "expired" THEN GivenUp(t)
          ELSE CASE p.latest = NOT_CREATED -> Status(p, NOT_CREATED, {}, {})
               [] p.latest = CREATED -> Status(f, CREATED, {}, {})
               [] p.latest = PREPARATION -> Status(t, PREPARATION, BlueByAddress(t), {})
               [] p.latest = IN_PROGRESS -> GetStatusOfInProgress(t)
               [] p.latest = POST -> Status(t, POST, CreatePostRouting(t), {})
               [] OTHER -> GetStatusOfCompleted(t)
  BY <1>1, <1>7 DEF UpdateSummaryStatus
<1>13. \/ t.timer = "expired" /\ s = GivenUp(t)
       \/ s = Status(p, NOT_CREATED, {}, {})
       \/ s = Status(f, CREATED, {}, {})
       \/ s = Status(t, PREPARATION, BlueByAddress(t), {})
       \/ s = GetStatusOfInProgress(t)
       \/ s = Status(t, POST, CreatePostRouting(t), {})
       \/ s = GetStatusOfCompleted(t)
  BY <1>12 DEF NOT_CREATED, CREATED, PREPARATION, IN_PROGRESS, POST
<1>14. Zero \notin {NOT_CREATED, CREATED, PREPARATION, IN_PROGRESS, POST, COMPLETED}
       /\ COMPLETED \notin {NOT_CREATED, CREATED, PREPARATION, IN_PROGRESS, POST}
  BY DEF Zero, NOT_CREATED, CREATED, PREPARATION, IN_PROGRESS, POST, COMPLETED
<1>15. CASE t.timer = "expired" /\ s = GivenUp(t)
  <2>1. /\ s.phase \in {CREATED, COMPLETED} /\ s.rollback = t.rollback /\ s.interim = t.interim
        /\ s.blueDns = t.blueDns /\ s.greenDns = t.greenDns
    BY <1>9, <1>15, StatusFields DEF GivenUp
  <2>. QED  BY <1>2, <1>3, <1>8, <1>14, <1>15, <2>1
<1>16. CASE s = Status(p, NOT_CREATED, {}, {})
  BY <1>10, <1>14, <1>16, StatusFields
<1>17. CASE s = Status(f, CREATED, {}, {})
  <2>1. /\ s.phase = CREATED /\ s.rollback = f.rollback /\ s.interim = f.interim
        /\ s.blueDns = f.blueDns /\ s.greenDns = f.greenDns
    BY <1>6, <1>17, StatusFields
  <2>. QED  BY <1>2, <1>3, <1>5, <1>14, <2>1
<1>18. ASSUME NEW phase \in {PREPARATION, IN_PROGRESS, POST}, NEW connect, NEW execute,
              s = Status(t, phase, connect, execute)
       PROVE  /\ s.rollback = p.rollback /\ s.interim = p.interim /\ s.phase # Zero
              /\ s.blueDns => p.blueDns \/ (r = "SOURCE" /\ i.ipChanged)
              /\ s.greenDns => p.greenDns \/ (r = "TARGET" /\ i.removed)
              /\ s.phase = COMPLETED => p.timer = "expired" \/ (s.blueDns /\ s.greenDns)
  <2>1. /\ s.phase = phase /\ s.rollback = t.rollback /\ s.interim = t.interim
        /\ s.blueDns = t.blueDns /\ s.greenDns = t.greenDns
    BY <1>9, <1>18, StatusFields
  <2>. QED  BY <1>2, <1>3, <1>8, <1>14, <1>18, <2>1
<1>19. CASE s = Status(t, PREPARATION, BlueByAddress(t), {}) \/ s = GetStatusOfInProgress(t)
            \/ s = Status(t, POST, CreatePostRouting(t), {})
  BY <1>18, <1>19 DEF GetStatusOfInProgress
<1>20. CASE s = GetStatusOfCompleted(t)
  <2>1. CASE t.blueDns /\ t.greenDns
    <3>1. PICK q : q = Status(t, COMPLETED, {}, {})
      OBVIOUS
    <3>2. s = [q EXCEPT !.corresponding = Empty]
      BY <1>20, <2>1, <3>1 DEF GetStatusOfCompleted
    <3>3. /\ q.phase = COMPLETED /\ q.rollback = t.rollback /\ q.interim = t.interim
          /\ q.blueDns = t.blueDns /\ q.greenDns = t.greenDns /\ DOMAIN q = DOMAIN t
      BY <1>9, <3>1, StatusFields
    <3>4. /\ s.phase = COMPLETED /\ s.rollback = t.rollback /\ s.interim = t.interim
          /\ s.blueDns = t.blueDns /\ s.greenDns = t.greenDns
      BY <1>9, <3>2, <3>3 DEF IsProvider
    <3>. QED  BY <1>2, <1>3, <1>8, <1>14, <2>1, <3>4
  <2>2. CASE ~(t.blueDns /\ t.greenDns)
    BY <1>18, <1>20, <2>2 DEF GetStatusOfCompleted
  <2>. QED  BY <2>1, <2>2
<1>. QED  BY <1>13, <1>15, <1>16, <1>17, <1>19, <1>20

LEMMA PreparedFacts ==
    ASSUME NEW p, SoundProvider(p), NEW r \in Roles, NEW i, IsInterim(r, i),
           NEW s, s = Prepared(p, r, i)
    PROVE  /\ s.rollback = UpdatePhase(p, r, i).rollback
           /\ s.interim = [p.interim EXCEPT ![r] = i] /\ s.phase # Zero
           /\ s.blueDns => p.blueDns \/ (r = "SOURCE" /\ i.ipChanged)
           /\ s.greenDns => p.greenDns \/ (r = "TARGET" /\ i.removed)
           /\ s.phase = COMPLETED => p.timer = "expired" \/ (s.blueDns /\ s.greenDns)
<1>1. PICK phased : phased = UpdatePhase(p, r, i)
  OBVIOUS
<1>2. SoundProvider(phased)
  BY <1>1, UpdatePhaseType
<1>3. /\ phased.interim = p.interim /\ phased.blueDns = p.blueDns /\ phased.greenDns = p.greenDns
      /\ phased.timer = p.timer
  BY <1>1, UpdatePhaseType
<1>4. PICK stored : stored = [phased EXCEPT !.interim[r] = i, !.context = ContextHash(p),
                     !.ips = Merge(@, i.startIps), !.roles = Merge(@, [h \in i.names |-> r])]
  OBVIOUS
<1>5. SoundProvider(stored)
  BY <1>2, <1>4, StoredType
<1>6. /\ stored.interim = [p.interim EXCEPT ![r] = i] /\ stored.blueDns = p.blueDns
      /\ stored.greenDns = p.greenDns /\ stored.timer = p.timer /\ stored.rollback = phased.rollback
  BY <1>2, <1>3, <1>4 DEF SoundProvider, IsProvider
<1>7. PICK matched : matched = [stored EXCEPT !.corresponding = CorrespondingHosts(stored)]
  OBVIOUS
<1>8. SoundProvider(matched)
  BY <1>5, <1>7, CorrespondingHostsType, CorrespondingType
<1>9. /\ matched.interim = stored.interim /\ matched.blueDns = p.blueDns
      /\ matched.greenDns = p.greenDns /\ matched.timer = p.timer /\ matched.rollback = phased.rollback
  BY <1>5, <1>6, <1>7 DEF SoundProvider, IsProvider
<1>10. PICK summed : summed = UpdateSummaryStatus(matched, r, i)
  OBVIOUS
<1>11. SoundProvider(summed)
  BY <1>8, <1>10, SummaryType
<1>12. /\ summed.rollback = matched.rollback /\ summed.interim = matched.interim /\ summed.phase # Zero
       /\ summed.blueDns => matched.blueDns \/ (r = "SOURCE" /\ i.ipChanged)
       /\ summed.greenDns => matched.greenDns \/ (r = "TARGET" /\ i.removed)
       /\ summed.phase = COMPLETED => matched.timer = "expired" \/ (summed.blueDns /\ summed.greenDns)
  BY <1>8, <1>10, SummaryFacts
<1>13. PICK a \in BOOLEAN : a = (summed.active \/ IsActiveSwitchoverOrCompleted(summed.phase))
  OBVIOUS
<1>14. s = [summed EXCEPT !.active = a]
  BY <1>1, <1>4, <1>7, <1>10, <1>13 DEF Prepared, SoundProvider, IsProvider
<1>15. /\ s.rollback = summed.rollback /\ s.interim = summed.interim /\ s.phase = summed.phase
       /\ s.blueDns = summed.blueDns /\ s.greenDns = summed.greenDns
  BY <1>11, <1>14 DEF SoundProvider, IsProvider
<1>. QED  BY <1>1, <1>6, <1>9, <1>12, <1>15

\* How a status comes about: it is POST only from that phase on, and CREATED only in
\* that phase or when the timer has run out.
LEMMA SummaryLatest ==
    ASSUME NEW p, SoundProvider(p), NEW r \in Roles, NEW i, IsInterim(r, i),
           NEW s, s = UpdateSummaryStatus(p, r, i)
    PROVE  /\ s.latest = p.latest /\ (s.phase = POST => p.latest >= POST)
           /\ s.phase = CREATED => p.latest = CREATED \/ p.timer = "expired"
<1>1. PICK f : f = UpdateDnsFlags(p, r, i)
  OBVIOUS
<1>2. PICK t : t = IF f.latest = PREPARATION /\ f.timer = "off"
                   THEN [f EXCEPT !.timer = "on"] ELSE f
  OBVIOUS
<1>3. IsProvider(p) /\ p.latest \in Phases
  BY DEF SoundProvider, IsProvider
<1>4. IsProvider(f) /\ f.latest = p.latest /\ f.timer = p.timer
  <2>1. PICK a \in BOOLEAN : a = (p.blueDns \/ (r = "SOURCE" /\ i.ipChanged))
    OBVIOUS
  <2>2. PICK b \in BOOLEAN : b = (p.greenDns \/ (r = "TARGET" /\ i.removed))
    OBVIOUS
  <2>3. f = [p EXCEPT !.blueDns = a, !.greenDns = b]
    BY <1>1, <1>3, <2>1, <2>2 DEF UpdateDnsFlags, IsProvider
  <2>. QED  BY <1>3, <2>3, ZenonT(60) DEF IsProvider
<1>5. IsProvider(t) /\ t.latest = p.latest /\ (t.timer = "expired" => p.timer = "expired")
  BY <1>2, <1>4 DEF IsProvider
<1>6. s = IF p.latest >= PREPARATION /\ t.timer = "expired" THEN GivenUp(t)
          ELSE CASE p.latest = NOT_CREATED -> Status(p, NOT_CREATED, {}, {})
               [] p.latest = CREATED -> Status(f, CREATED, {}, {})
               [] p.latest = PREPARATION -> Status(t, PREPARATION, BlueByAddress(t), {})
               [] p.latest = IN_PROGRESS -> GetStatusOfInProgress(t)
               [] p.latest = POST -> Status(t, POST, CreatePostRouting(t), {})
               [] OTHER -> GetStatusOfCompleted(t)
  BY <1>1, <1>2 DEF UpdateSummaryStatus
<1>7. \/ t.timer = "expired" /\ s = GivenUp(t)
      \/ s = Status(p, NOT_CREATED, {}, {})
      \/ p.latest = CREATED /\ s = Status(f, CREATED, {}, {})
      \/ s = Status(t, PREPARATION, BlueByAddress(t), {})
      \/ s = GetStatusOfInProgress(t)
      \/ p.latest = POST /\ s = Status(t, POST, CreatePostRouting(t), {})
      \/ p.latest = COMPLETED /\ s = GetStatusOfCompleted(t)
  <2>1. p.latest \in {NOT_CREATED, CREATED, PREPARATION, IN_PROGRESS, POST, COMPLETED}
    BY DEF SoundProvider, IsProvider, Phases, Zero, NOT_CREATED, CREATED, PREPARATION, IN_PROGRESS, POST,
           COMPLETED
  <2>. QED  BY <1>6, <2>1 DEF NOT_CREATED, CREATED, PREPARATION, IN_PROGRESS, POST, COMPLETED
<1>8. /\ POST \notin {NOT_CREATED, CREATED, PREPARATION, IN_PROGRESS, COMPLETED}
      /\ CREATED \notin {NOT_CREATED, PREPARATION, IN_PROGRESS, POST, COMPLETED}
      /\ POST >= POST /\ COMPLETED >= POST
  BY DEF NOT_CREATED, CREATED, PREPARATION, IN_PROGRESS, POST, COMPLETED
<1>9. CASE t.timer = "expired" /\ s = GivenUp(t)
  <2>1. s.phase \in {CREATED, COMPLETED} /\ s.latest = t.latest
    BY <1>5, <1>9, StatusFields DEF GivenUp
  <2>. QED  BY <1>5, <1>8, <1>9, <2>1
<1>10. CASE s = Status(p, NOT_CREATED, {}, {})
  <2>1. s.phase = NOT_CREATED /\ s.latest = p.latest
    BY <1>3, <1>10, StatusFields
  <2>. QED  BY <1>8, <2>1
<1>11. CASE p.latest = CREATED /\ s = Status(f, CREATED, {}, {})
  <2>1. s.phase = CREATED /\ s.latest = f.latest
    BY <1>4, <1>11, StatusFields
  <2>. QED  BY <1>4, <1>8, <1>11, <2>1
<1>12. CASE s = Status(t, PREPARATION, BlueByAddress(t), {}) \/ s = GetStatusOfInProgress(t)
  <2>1. s.phase \in {PREPARATION, IN_PROGRESS} /\ s.latest = t.latest
    BY <1>5, <1>12, StatusFields DEF GetStatusOfInProgress
  <2>. QED  BY <1>5, <1>8, <2>1
<1>13. CASE p.latest = POST /\ s = Status(t, POST, CreatePostRouting(t), {})
  <2>1. s.phase = POST /\ s.latest = t.latest
    BY <1>5, <1>13, StatusFields
  <2>. QED  BY <1>5, <1>8, <1>13, <2>1
<1>14. CASE p.latest = COMPLETED /\ s = GetStatusOfCompleted(t)
  <2>1. PICK q : q = Status(t, COMPLETED, {}, {})
    OBVIOUS
  <2>2. q.phase = COMPLETED /\ q.latest = t.latest /\ DOMAIN q = DOMAIN t
    BY <1>5, <2>1, StatusFields
  <2>3. s = [q EXCEPT !.corresponding = Empty] \/ s = Status(t, POST, CreatePostRouting(t), {})
    BY <1>14, <2>1 DEF GetStatusOfCompleted
  <2>4. s.phase \in {COMPLETED, POST} /\ s.latest = t.latest
    <3>1. {"phase", "latest"} \subseteq DOMAIN t
      BY <1>5 DEF IsProvider
    <3>. QED  BY <1>5, <2>2, <2>3, <3>1, StatusFields
  <2>. QED  BY <1>5, <1>8, <1>14, <2>4
<1>. QED  BY <1>7, <1>9, <1>10, <1>11, <1>12, <1>13, <1>14

LEMMA PreparedLatest ==
    ASSUME NEW p, SoundProvider(p), NEW r \in Roles, NEW i, IsInterim(r, i),
           NEW s, s = Prepared(p, r, i), NEW u, u = UpdatePhase(p, r, i)
    PROVE  /\ s.latest = u.latest /\ (s.phase = POST => s.latest >= POST)
           /\ s.phase = CREATED => s.latest = CREATED \/ p.timer = "expired"
<1>1. SoundProvider(u) /\ u.timer = p.timer
  BY UpdatePhaseType
<1>2. PICK stored : stored = [u EXCEPT !.interim[r] = i, !.context = ContextHash(p),
                     !.ips = Merge(@, i.startIps), !.roles = Merge(@, [h \in i.names |-> r])]
  OBVIOUS
<1>3. SoundProvider(stored)
  BY <1>1, <1>2, StoredType
<1>4. stored.latest = u.latest /\ stored.timer = p.timer
  BY <1>1, <1>2 DEF SoundProvider, IsProvider
<1>5. PICK matched : matched = [stored EXCEPT !.corresponding = CorrespondingHosts(stored)]
  OBVIOUS
<1>6. SoundProvider(matched)
  BY <1>3, <1>5, CorrespondingHostsType, CorrespondingType
<1>7. matched.latest = u.latest /\ matched.timer = p.timer
  BY <1>3, <1>4, <1>5 DEF SoundProvider, IsProvider
<1>8. PICK summed : summed = UpdateSummaryStatus(matched, r, i)
  OBVIOUS
<1>9. SoundProvider(summed)
  BY <1>6, <1>8, SummaryType
<1>10. /\ summed.latest = matched.latest /\ (summed.phase = POST => matched.latest >= POST)
       /\ summed.phase = CREATED => matched.latest = CREATED \/ matched.timer = "expired"
  BY <1>6, <1>8, SummaryLatest
<1>11. PICK a \in BOOLEAN : a = (summed.active \/ IsActiveSwitchoverOrCompleted(summed.phase))
  OBVIOUS
<1>12. s = [summed EXCEPT !.active = a]
  BY <1>2, <1>5, <1>8, <1>11 DEF Prepared, SoundProvider, IsProvider
<1>13. s.latest = summed.latest /\ s.phase = summed.phase
  BY <1>9, <1>12 DEF SoundProvider, IsProvider
<1>. QED  BY <1>7, <1>10, <1>13

LEMMA PreparedPhase ==
    ASSUME NEW p, SoundProvider(p), NEW r \in Roles, NEW i, IsInterim(r, i)
    PROVE  Prepared(p, r, i).phase # Zero
<1>1. PICK s : s = Prepared(p, r, i)
  OBVIOUS
<1>2. s.interim = [p.interim EXCEPT ![r] = i] /\ s.phase # Zero
  BY <1>1, PreparedFacts
<1>. QED  BY <1>1, <1>2

\* A report of what the monitors saw keeps the flags true.
LEMMA ReportSeen ==
    ASSUME Told, DnsSeen, NEW r \in Roles, Report(r)
    PROVE  /\ DnsSeen'
           /\ \A s \in Roles : /\ mon'[s].phase = mon[s].phase /\ mon'[s].lag = mon[s].lag
                               /\ mon'[s].pc = IF s = r THEN "poll" ELSE mon[s].pc
           /\ \/ UNCHANGED prov /\ prov.interim[r] = Interim(mon[r])
              \/ \E p : /\ p = Prepared(prov, r, Interim(mon[r]))
                        /\ prov' = ResetContextWhenCompleted(p)
<1>1. PICK i : i = Interim(mon[r])
  OBVIOUS
<1>2. PICK p : p = Prepared(prov, r, i)
  OBVIOUS
<1>3. PICK done \in BOOLEAN : done = SwitchoverCompleted(p)
  BY DEF SwitchoverCompleted
<1>4. PICK told : told = [s \in Roles |->
                   [UpdateMonitors(p, mon[s], s) EXCEPT !.stop = @ \/ (done /\ s = "TARGET")]]
  OBVIOUS
<1>5. \/ /\ prov' = ResetContextWhenCompleted(p) /\ mon' = [told EXCEPT ![r].pc = "poll"]
      \/ mon' = [mon EXCEPT ![r].pc = "poll"] /\ UNCHANGED prov /\ prov.interim[r] = i
  BY <1>1, <1>2, <1>3, <1>4 DEF Report
<1>6. IsInterim(r, i) /\ SoundProvider(prov) /\ SoundProvider(p) /\ i.ipChanged = mon[r].ipChanged
      /\ i.removed = mon[r].removed
  BY <1>1, <1>2, InterimType, PreparedType DEF Told, BgTypeOK, Interim
<1>7. \A s \in Roles : /\ Seen(s, told[s], dns[s]) /\ told[s].pc = mon[s].pc /\ told[s].phase = mon[s].phase
                       /\ told[s].lag = mon[s].lag /\ IsMonitor(s, told[s])
  <2>1. SUFFICES ASSUME NEW s \in Roles
                 PROVE  /\ Seen(s, told[s], dns[s]) /\ told[s].pc = mon[s].pc
                        /\ told[s].phase = mon[s].phase /\ told[s].lag = mon[s].lag /\ IsMonitor(s, told[s])
    OBVIOUS
  <2>2. PICK b \in BOOLEAN : b = (done /\ s = "TARGET")
    OBVIOUS
  <2>3. told[s] = [UpdateMonitors(p, mon[s], s) EXCEPT !.stop = @ \/ b]
    BY <1>4, <2>2
  <2>4. IsMonitor(s, mon[s]) /\ Seen(s, mon[s], dns[s])
    BY DEF Told, BgTypeOK, DnsSeen
  <2>5. IsMonitor(s, told[s])
    BY <2>3, <2>4, UpdateMonitorsType
  <2>6. /\ Seen(s, told[s], dns[s]) /\ told[s].pc = mon[s].pc /\ told[s].phase = mon[s].phase
        /\ told[s].lag = mon[s].lag
    BY <2>3, <2>4, ToldSeen
  <2>. QED  BY <2>5, <2>6
<1>8. ASSUME NEW f, DOMAIN f = Roles, mon' = [f EXCEPT ![r].pc = "poll"],
             \A s \in Roles : /\ Seen(s, f[s], dns[s]) /\ f[s].pc = mon[s].pc /\ f[s].phase = mon[s].phase
                              /\ f[s].lag = mon[s].lag /\ IsMonitor(s, f[s])
      PROVE  /\ \A s \in Roles : Seen(s, mon'[s], dns[s])
             /\ \A s \in Roles : /\ mon'[s].phase = mon[s].phase /\ mon'[s].lag = mon[s].lag
                                 /\ mon'[s].pc = IF s = r THEN "poll" ELSE mon[s].pc
  <2>1. PICK n : n = [f[r] EXCEPT !.pc = "poll"]
    OBVIOUS
  <2>2. /\ n.names = f[r].names /\ n.startTopology = f[r].startTopology /\ n.startIps = f[r].startIps
        /\ n.currentIps = f[r].currentIps /\ n.ipChanged = f[r].ipChanged /\ n.removed = f[r].removed
        /\ n.phase = f[r].phase /\ n.lag = f[r].lag /\ n.pc = "poll"
    BY <1>8, <2>1 DEF IsMonitor
  <2>3. Seen(r, n, dns[r])
    BY <1>8, <2>2, SeenGrows
  <2>4. mon[r].pc = "report"
    BY DEF Report
  <2>5. \A s \in Roles : mon'[s] = IF s = r THEN n ELSE f[s]
    BY <1>8, <2>1
  <2>. QED  BY <1>8, <2>2, <2>3, <2>4, <2>5
<1>9. /\ \A s \in Roles : Seen(s, mon'[s], dns[s])
      /\ \A s \in Roles : /\ mon'[s].phase = mon[s].phase /\ mon'[s].lag = mon[s].lag
                          /\ mon'[s].pc = IF s = r THEN "poll" ELSE mon[s].pc
  <2>1. CASE mon' = [told EXCEPT ![r].pc = "poll"]
    <3>1. DOMAIN told = Roles
      BY <1>4
    <3>. QED  BY <1>7, <1>8, <2>1, <3>1
  <2>2. CASE mon' = [mon EXCEPT ![r].pc = "poll"]
    <3>1. /\ DOMAIN mon = Roles
          /\ \A s \in Roles : Seen(s, mon[s], dns[s]) /\ IsMonitor(s, mon[s])
      BY DEF Told, BgTypeOK, DnsSeen
    <3>. QED  BY <1>8, <2>2, <3>1
  <2>. QED  BY <1>5, <2>1, <2>2
<1>10. (p.blueDns => dns["SOURCE"] = GreenIp) /\ (p.greenDns => dns["TARGET"] = NoIp)
  <2>1. /\ p.blueDns => prov.blueDns \/ (r = "SOURCE" /\ i.ipChanged)
        /\ p.greenDns => prov.greenDns \/ (r = "TARGET" /\ i.removed)
    BY <1>2, <1>6, PreparedFacts
  <2>. QED  BY <1>6, <2>1 DEF DnsSeen, Seen
<1>11. (prov'.blueDns => dns["SOURCE"] = GreenIp) /\ (prov'.greenDns => dns["TARGET"] = NoIp)
  <2>1. CASE UNCHANGED prov
    BY <2>1 DEF DnsSeen
  <2>2. CASE prov' = ResetContextWhenCompleted(p)
    <3>1. (prov'.blueDns => p.blueDns) /\ (prov'.greenDns => p.greenDns)
      BY <2>2 DEF ResetContextWhenCompleted, NewProvider
    <3>. QED  BY <1>10, <3>1
  <2>. QED  BY <1>5, <2>1, <2>2
<1>12. UNCHANGED dns
  BY DEF Report
<1>13. DnsSeen'
  BY <1>9, <1>11, <1>12 DEF DnsSeen
<1>. QED  BY <1>1, <1>2, <1>5, <1>9, <1>13

\* The phase of the last report of a monitor.
LastReport(r) == IF prov.interim[r] = Nil THEN NOT_CREATED ELSE prov.interim[r].phase

\* A phase on record that no rollback can undo is one the deployment has reached.
Reached(n) == "rollback" \notin FaultKinds \/ n >= POST => n <= bgd

\* A report under way that will announce a rollback: the deployment has come no
\* further since than the monitor is late.
Late(r) ==
    /\ "rollback" \in FaultKinds /\ LastReport(r) < POST
    /\ mon[r].pc = "report" /\ bgd <= mon[r].phase + mon[r].lag

\* Any other report is not behind the last one of its monitor.
InTime(r) ==
    \/ mon[r].pc = "done" \/ mon[r].phase \in {Zero, NOT_CREATED}
    \/ LastReport(r) <= mon[r].phase \/ Late(r)

Forward(r) == Reached(mon[r].phase) /\ Reached(LastReport(r)) /\ InTime(r)

Forwards ==
    /\ \A r \in Roles : Forward(r)
    /\ Reached(prov.latest) /\ (prov.latest >= POST => ~prov.rollback)
    /\ prov.phase = POST => prov.latest >= POST

\* What a monitor keeps in a step that is not its own.
Alike(m, n) ==
    /\ n.names = m.names /\ n.startTopology = m.startTopology /\ n.startIps = m.startIps
    /\ n.currentIps = m.currentIps /\ n.ipChanged = m.ipChanged /\ n.removed = m.removed
    /\ n.phase = m.phase /\ (m.pc \in {"report", "done"} => n.pc = m.pc)

LEMMA PhaseInts ==
    ASSUME BgTypeOK, NEW r \in Roles
    PROVE  /\ bgd \in Nat /\ mon[r].phase \in Phases /\ mon[r].lag \in 0 .. MaxLag
           /\ prov.interim[r] # Nil => prov.interim[r].phase \in Phases
           /\ LastReport(r) \in Phases /\ prov.latest \in Phases \ {Zero}
<1>1. prov.interim[r] # Nil => prov.interim[r].phase \in Phases
  BY DEF BgTypeOK, IsProvider, IsInterim
<1>2. bgd \in Nat /\ mon[r].phase \in Phases /\ mon[r].lag \in 0 .. MaxLag /\ prov.latest \in Phases \ {Zero}
  BY DEF BgTypeOK, IsMonitor, IsProvider, NOT_CREATED, Deleted
<1>. QED  BY <1>1, <1>2, PhaseFacts DEF LastReport

\* Steps that leave what the monitors know alone: the names move one way only, the
\* deployment goes back only before POST and forward only as the monitors fall behind.
LEMMA AlikeSeen ==
    ASSUME Told, Told', DnsSeen, Forwards, \A r \in Roles : Alike(mon[r], mon'[r]),
           bgd' < bgd => "rollback" \in FaultKinds /\ bgd < POST,
           \A r \in Roles : mon[r].pc = "report" => bgd' - bgd <= mon'[r].lag - mon[r].lag,
           dns'["SOURCE"] \in {dns["SOURCE"], GreenIp}, dns'["TARGET"] \in {dns["TARGET"], NoIp},
           prov'.rollback = prov.rollback, prov'.interim = prov.interim,
           prov'.latest = prov.latest, prov'.phase = prov.phase,
           prov'.blueDns = prov.blueDns, prov'.greenDns = prov.greenDns
    PROVE  DnsSeen' /\ Forwards'
<1>1. \A r \in Roles : Seen(r, mon'[r], dns'[r])
  <2>1. SUFFICES ASSUME NEW r \in Roles
                 PROVE  Seen(r, mon'[r], dns'[r])
    OBVIOUS
  <2>2. Seen(r, mon'[r], dns[r])
    BY SeenGrows DEF DnsSeen, Alike
  <2>3. dns'[r] \in {dns[r], IF r = "SOURCE" THEN GreenIp ELSE NoIp}
    BY DEF Roles
  <2>. QED  BY <2>2, <2>3 DEF Seen, BlueSeen
<1>2. DnsSeen'
  BY <1>1, BlueGreenAssumption DEF DnsSeen
<1>3. ASSUME NEW n \in Phases, Reached(n)
      PROVE  "rollback" \notin FaultKinds \/ n >= POST => n <= bgd'
  <2>1. bgd \in Nat /\ bgd' \in Nat
    BY DEF Told, BgTypeOK, NOT_CREATED, Deleted
  <2>. QED  BY <1>3, <2>1 DEF Reached, Phases, Zero, COMPLETED, POST
<1>4. ASSUME NEW r \in Roles
      PROVE  Forward(r)'
  <2>1. Forward(r) /\ Alike(mon[r], mon'[r])
    BY DEF Forwards
  <2>2. /\ bgd \in Nat /\ mon[r].phase \in Phases /\ LastReport(r) \in Phases
        /\ mon[r].lag \in 0 .. MaxLag
    BY PhaseInts DEF Told
  <2>3. bgd' \in Nat /\ mon'[r].lag \in 0 .. MaxLag
    BY DEF Told, BgTypeOK, IsMonitor, NOT_CREATED, Deleted
  <2>4. LastReport(r)' = LastReport(r) /\ mon'[r].phase = mon[r].phase
    BY <2>1 DEF LastReport, Alike
  <2>5. Reached(mon[r].phase)' /\ Reached(LastReport(r))'
    BY <1>3, <2>1, <2>2, <2>4 DEF Forward, Reached
  <2>6. Late(r) => Late(r)'
    <3>1. SUFFICES ASSUME Late(r)
                   PROVE  Late(r)'
      OBVIOUS
    <3>2. mon[r].pc = "report" /\ mon'[r].pc = "report" /\ bgd <= mon[r].phase + mon[r].lag
      BY <2>1, <3>1 DEF Late, Alike
    <3>3. bgd' <= mon'[r].phase + mon'[r].lag
      <4>1. /\ bgd \in Int /\ bgd' \in Int /\ mon[r].lag \in Int /\ mon'[r].lag \in Int
            /\ mon[r].phase \in Int
        BY <2>2, <2>3, Numbers, Zenon
      <4>2. bgd' - bgd <= mon'[r].lag - mon[r].lag
        BY <3>2
      <4>. QED  BY <2>4, <3>2, <4>1, <4>2
    <3>. QED  BY <2>4, <3>1, <3>2, <3>3 DEF Late
  <2>7. InTime(r)'
    BY <2>1, <2>4, <2>6 DEF Forward, InTime, Alike
  <2>. QED  BY <2>5, <2>7 DEF Forward
<1>5. Reached(prov.latest)'
  BY <1>3 DEF Forwards, Told, BgTypeOK, IsProvider, Reached
<1>. QED  BY <1>2, <1>4, <1>5 DEF Forwards

LEMMA ObserveSeen ==
    ASSUME Told, DnsSeen, NEW r \in Roles, Observe(r),
           "lookup" \notin FaultKinds
    PROVE  /\ DnsSeen' /\ mon'[r].phase \in {mon[r].phase, Zero, NOT_CREATED, bgd}
           /\ mon[r].pc = "poll" /\ mon'[r].pc = "report" /\ mon'[r].lag = 0
           /\ \A s \in Roles \ {r} : mon'[s] = mon[s]
<1>1. PICK outcome \in {"rows", "refused", "lost", "unavailable"},
           whole \in BOOLEAN, found \in BOOLEAN :
        LET due == outcome = IF bgd = NOT_CREATED THEN "unavailable" ELSE "rows"
            polled == CollectStatus(r, OpenConnection(mon[r], outcome = "refused"),
                                    outcome)
            topology == IF whole THEN Instances[r]
                        ELSE [Instances[r] EXCEPT !.writer = Nil]
            listed == CollectTopology(polled, topology)
            seen == UpdateIpAddressFlags(CollectHostIpAddresses(listed, found))
            upset == (IF due THEN {} ELSE {outcome})
                     \cup (IF whole THEN {} ELSE {"topology"})
                     \cup (IF found THEN {} ELSE {"lookup"})
        IN  /\ Spend(upset)
            /\ outcome = "refused" => ~mon[r].conn
            /\ ~whole => listed # polled
            /\ mon' = [mon EXCEPT ![r] = [seen EXCEPT !.pc = "report", !.lag = 0]]
  BY DEF Observe
<1>2. PICK refused \in BOOLEAN : refused = (outcome = "refused")
  OBVIOUS
<1>3. PICK opened : opened = OpenConnection(mon[r], refused)
  OBVIOUS
<1>4. PICK polled : polled = CollectStatus(r, opened, outcome)
  OBVIOUS
<1>5. PICK topology : topology = IF whole THEN Instances[r] ELSE [Instances[r] EXCEPT !.writer = Nil]
  OBVIOUS
<1>6. PICK listed : listed = CollectTopology(polled, topology)
  OBVIOUS
<1>7. PICK addressed : addressed = CollectHostIpAddresses(listed, found)
  OBVIOUS
<1>8. PICK seen : seen = UpdateIpAddressFlags(addressed)
  OBVIOUS
<1>9. PICK upset : upset = (IF outcome = IF bgd = NOT_CREATED THEN "unavailable" ELSE "rows"
                            THEN {} ELSE {outcome})
                     \cup (IF whole THEN {} ELSE {"topology"})
                     \cup (IF found THEN {} ELSE {"lookup"})
  OBVIOUS
<1>10. Spend(upset) /\ mon' = [mon EXCEPT ![r] = [seen EXCEPT !.pc = "report", !.lag = 0]]
  BY <1>1, <1>2, <1>3, <1>4, <1>5, <1>6, <1>7, <1>8, <1>9
<1>11. found = TRUE
  BY <1>9, <1>10 DEF Spend
<1>12. IsMonitor(r, mon[r]) /\ Seen(r, mon[r], dns[r]) /\ BgTypeOK /\ DOMAIN mon = Roles
  BY DEF Told, BgTypeOK, DnsSeen
<1>13. IsMonitor(r, opened) /\ opened.phase = mon[r].phase
  <2>1. opened.phase = mon[r].phase
    BY <1>3, <1>12 DEF OpenConnection, IsMonitor
  <2>. QED  BY <1>3, <1>12, <2>1, OpenConnectionType
<1>14. IsMonitor(r, polled) /\ Seen(r, polled, dns[r])
  BY <1>3, <1>4, <1>12, <1>13, CollectStatusType, PolledSeen
<1>15. polled.phase \in {opened.phase, Zero, NOT_CREATED, bgd}
  <2>1. RowFound(r, opened).phase = bgd
    BY <1>13 DEF RowFound, IsMonitor
  <2>. QED  BY <1>4, <1>11, <1>13, <2>1 DEF CollectStatus, IsMonitor
<1>16. topology \in Topologies(r)
  BY <1>5, NameFacts DEF Topologies
<1>17. IsMonitor(r, listed) /\ Seen(r, listed, dns[r]) /\ listed.phase = polled.phase
  <2>1. listed.phase = polled.phase
    BY <1>6, <1>14 DEF CollectTopology, IsMonitor
  <2>. QED  BY <1>6, <1>14, <1>16, <2>1, CollectTopologyType, ListedSeen
<1>18. IsMonitor(r, addressed) /\ addressed.phase = listed.phase
  <2>1. addressed.phase = listed.phase
    BY <1>7, <1>17 DEF CollectHostIpAddresses, IsMonitor
  <2>. QED  BY <1>7, <1>12, <1>17, <2>1, CollectHostIpAddressesType
<1>19. IsMonitor(r, seen) /\ seen.phase = addressed.phase
  <2>1. seen.phase = addressed.phase
    BY <1>8, <1>18 DEF UpdateIpAddressFlags, IsMonitor
  <2>. QED  BY <1>8, <1>18, <2>1, UpdateIpAddressFlagsType
<1>20. Seen(r, seen, dns[r])
  <2>1. dns["SOURCE"] # NoIp
    BY DEF DnsSeen
  <2>. QED  BY <1>7, <1>8, <1>11, <1>12, <1>17, <2>1, FlagsSeen
<1>21. PICK n : n = [seen EXCEPT !.pc = "report", !.lag = 0]
  OBVIOUS
<1>22. /\ n.names = seen.names /\ n.startTopology = seen.startTopology /\ n.startIps = seen.startIps
       /\ n.currentIps = seen.currentIps /\ n.ipChanged = seen.ipChanged /\ n.removed = seen.removed
       /\ n.phase = seen.phase /\ n.pc = "report" /\ n.lag = 0
  BY <1>19, <1>21 DEF IsMonitor
<1>23. Seen(r, n, dns[r])
  BY <1>20, <1>22, SeenGrows
<1>24. mon'[r] = n /\ \A s \in Roles \ {r} : mon'[s] = mon[s]
  BY <1>10, <1>12, <1>21
<1>25. UNCHANGED <<dns, prov>> /\ mon[r].pc = "poll"
  BY DEF Observe
<1>26. \A s \in Roles : Seen(s, mon'[s], dns[s])
  BY <1>23, <1>24 DEF DnsSeen
<1>27. DnsSeen'
  BY <1>25, <1>26 DEF DnsSeen
<1>. QED  BY <1>13, <1>15, <1>17, <1>18, <1>19, <1>22, <1>24, <1>25, <1>27

\* A report that announces a rollback leaves no phase that is past it, and to CREATED
\* leads only one that was late, or one after a rollback.
LEMMA ReportPhase ==
    ASSUME Told, Forwards, NEW r \in Roles, mon[r].pc = "report", NEW i, i = Interim(mon[r]),
           NEW u, u = UpdatePhase(prov, r, i)
    PROVE  /\ u.latest \in {mon[r].phase, prov.latest}
           /\ u.latest >= POST => ~u.rollback
           /\ u.latest = CREATED /\ u.rollback =>
                prov.latest < POST \/ ("rollback" \in FaultKinds /\ bgd <= CREATED + mon[r].lag)
<1>1. SoundProvider(prov) /\ IsInterim(r, i) /\ i.phase = mon[r].phase
  BY InterimType DEF Told, BgTypeOK, Interim
<1>2. /\ bgd \in Nat /\ mon[r].phase \in Phases /\ LastReport(r) \in Phases
      /\ mon[r].lag \in 0 .. MaxLag /\ prov.latest \in Phases \ {Zero}
  BY PhaseInts DEF Told
<1>3. prov.latest >= POST => ~prov.rollback
  BY DEF Forwards
<1>4. CASE i.phase = Zero
  <2>1. u = prov
    BY <1>4 DEF UpdatePhase
  <2>. QED  BY <1>2, <1>3, <2>1 DEF CREATED, POST
<1>5. CASE i.phase # Zero
  <2>0. /\ i.phase \in Int /\ LastReport(r) \in Int /\ prov.latest \in Int
        /\ bgd \in Int /\ mon[r].lag \in Int
    BY <1>1, <1>2, Numbers, Zenon
  <2>1. PICK back \in BOOLEAN : back = (prov.rollback \/ i.phase < LastReport(r))
    OBVIOUS
  <2>2. PICK n : n = IF IF back THEN i.phase < prov.latest ELSE i.phase >= prov.latest
                    THEN i.phase ELSE prov.latest
    OBVIOUS
  <2>3. u = [prov EXCEPT !.rollback = back, !.latest = n]
    BY <1>5, <2>1, <2>2 DEF UpdatePhase, LastReport
  <2>4. u.rollback = back /\ u.latest = n
    BY <1>1, <2>3 DEF SoundProvider, IsProvider
  <2>5. i.phase = NOT_CREATED \/ LastReport(r) <= i.phase \/ Late(r)
    BY <1>1, <1>5 DEF Forwards, Forward, InTime
  <2>6. Late(r) => /\ "rollback" \in FaultKinds /\ LastReport(r) < POST
                   /\ bgd <= i.phase + mon[r].lag
    BY <1>1 DEF Late
  <2>7. back /\ ~prov.rollback =>
            \/ i.phase = NOT_CREATED
            \/ "rollback" \in FaultKinds /\ i.phase < POST /\ bgd <= i.phase + mon[r].lag
    <3>1. SUFFICES ASSUME back, ~prov.rollback, i.phase # NOT_CREATED
                   PROVE  "rollback" \in FaultKinds /\ i.phase < POST /\ bgd <= i.phase + mon[r].lag
      OBVIOUS
    <3>2. i.phase < LastReport(r)
      BY <2>1, <3>1
    <3>3. Late(r)
      BY <2>0, <2>5, <3>1, <3>2
    <3>. QED  BY <2>0, <2>6, <3>2, <3>3 DEF POST
  <2>8. n >= POST => ~back
    <3>1. SUFFICES ASSUME back
                   PROVE  n < POST
      BY <2>0, <2>2 DEF POST
    <3>2. n <= i.phase /\ n <= prov.latest
      BY <2>0, <2>2, <3>1
    <3>3. prov.latest < POST \/ i.phase < POST
      <4>1. CASE prov.rollback
        BY <2>0, <1>3, <4>1 DEF POST
      <4>2. CASE ~prov.rollback
        BY <2>7, <3>1, <4>2 DEF POST, NOT_CREATED
      <4>. QED  BY <4>1, <4>2
    <3>. QED  BY <2>0, <2>2, <3>2, <3>3 DEF POST
  <2>9. n = CREATED /\ back =>
          prov.latest < POST \/ ("rollback" \in FaultKinds /\ bgd <= CREATED + mon[r].lag)
    <3>1. SUFFICES ASSUME n = CREATED, back, ~(prov.latest < POST)
                   PROVE  "rollback" \in FaultKinds /\ bgd <= CREATED + mon[r].lag
      OBVIOUS
    <3>2. ~prov.rollback
      BY <2>0, <1>3, <3>1 DEF POST
    <3>3. i.phase = CREATED
      BY <2>0, <2>2, <3>1 DEF CREATED, POST
    <3>. QED  BY <2>7, <3>1, <3>2, <3>3 DEF CREATED, NOT_CREATED
  <2>. QED  BY <1>1, <2>2, <2>4, <2>8, <2>9
<1>. QED  BY <1>4, <1>5

LEMMA ReportForward ==
    ASSUME Told, DnsSeen, Forwards, NEW r \in Roles, Report(r)
    PROVE  Forwards'
<1>1. PICK i : i = Interim(mon[r])
  OBVIOUS
<1>2. PICK p : p = Prepared(prov, r, i)
  OBVIOUS
<1>3. SoundProvider(prov) /\ IsInterim(r, i) /\ i.phase = mon[r].phase
  BY <1>1, InterimType DEF Told, BgTypeOK, Interim
<1>4. mon[r].pc = "report" /\ UNCHANGED bgd
  BY DEF Report
<1>5. ASSUME NEW s \in Roles
      PROVE  bgd \in Nat /\ mon[s].phase \in Phases /\ LastReport(s) \in Phases
  BY PhaseInts DEF Told
<1>6. PICK u : u = UpdatePhase(prov, r, i)
  OBVIOUS
<1>7. /\ u.latest \in {mon[r].phase, prov.latest} /\ (u.latest >= POST => ~u.rollback)
      /\ p.rollback = u.rollback /\ p.latest = u.latest /\ (p.phase = POST => p.latest >= POST)
      /\ p.interim = [prov.interim EXCEPT ![r] = i]
  <2>1. u.latest \in {mon[r].phase, prov.latest} /\ (u.latest >= POST => ~u.rollback)
    BY <1>1, <1>4, <1>6, ReportPhase
  <2>2. p.latest = u.latest /\ (p.phase = POST => p.latest >= POST)
    BY <1>2, <1>3, <1>6, PreparedLatest
  <2>3. p.rollback = u.rollback /\ p.interim = [prov.interim EXCEPT ![r] = i]
    BY <1>2, <1>3, <1>6, PreparedFacts
  <2>. QED  BY <2>1, <2>2, <2>3
<1>8. /\ \A s \in Roles : /\ mon'[s].phase = mon[s].phase /\ mon'[s].lag = mon[s].lag
                          /\ mon'[s].pc = IF s = r THEN "poll" ELSE mon[s].pc
      /\ (UNCHANGED prov /\ prov.interim[r] = i) \/ prov' = ResetContextWhenCompleted(p)
  BY <1>1, <1>2, ReportSeen
<1>9. Reached(NOT_CREATED)
  BY <1>5 DEF Reached, NOT_CREATED, POST
<1>10. Reached(prov.latest)' /\ (prov'.latest >= POST => ~prov'.rollback)
       /\ (prov'.phase = POST => prov'.latest >= POST)
  <2>1. Reached(p.latest)
    BY <1>7 DEF Forwards, Forward
  <2>2. CASE UNCHANGED prov
    BY <1>4, <2>2 DEF Forwards, Reached
  <2>3. CASE prov' = p
    BY <1>4, <1>7, <2>1, <2>3 DEF Reached
  <2>4. CASE prov' = [NewProvider EXCEPT !.blueDns = p.blueDns]
    <3>1. prov'.latest = NOT_CREATED /\ prov'.rollback = FALSE /\ prov'.phase = Zero
      BY <2>4 DEF NewProvider
    <3>. QED  BY <1>4, <1>9, <3>1 DEF Zero, POST, NOT_CREATED, Reached
  <2>. QED  BY <1>8, <2>2, <2>3, <2>4 DEF ResetContextWhenCompleted
<1>11. ASSUME NEW s \in Roles
       PROVE  Forward(s)'
  <2>1. LastReport(s)' \in {IF s = r THEN i.phase ELSE LastReport(s), NOT_CREATED}
    <3>1. DOMAIN prov.interim = Roles
      BY <1>3 DEF SoundProvider, IsProvider
    <3>2. prov'.interim[s] \in {IF s = r THEN i ELSE prov.interim[s], Nil}
      BY <1>7, <1>8, <3>1 DEF ResetContextWhenCompleted, NewProvider
    <3>3. s # r /\ prov'.interim[s] = prov.interim[s] => LastReport(s)' = LastReport(s)
      BY DEF LastReport
    <3>. QED  BY <3>2, <3>3 DEF LastReport
  <2>2. Forward(s)
    BY DEF Forwards
  <2>3. Reached(mon[s].phase)' /\ Reached(LastReport(s))'
    BY <1>3, <1>4, <1>8, <1>9, <2>1, <2>2 DEF Forward, Reached
  <2>4. NOT_CREATED <= mon[s].phase \/ mon[s].phase = Zero
    BY <1>5 DEF Phases, Zero, NOT_CREATED
  <2>5. InTime(s)'
    <3>1. CASE LastReport(s)' = NOT_CREATED
      BY <1>8, <2>4, <3>1 DEF InTime
    <3>2. CASE s = r /\ LastReport(s)' = i.phase
      <4>1. mon'[s].phase = i.phase /\ i.phase <= i.phase
        <5>1. i.phase \in Int
          BY <1>3, <1>5, Numbers, Zenon
        <5>. QED  BY <1>3, <1>8, <3>2, <5>1
      <4>. QED  BY <3>2, <4>1 DEF InTime
    <3>3. CASE s # r /\ LastReport(s)' = LastReport(s)
      <4>1. mon'[s].pc = mon[s].pc /\ mon'[s].phase = mon[s].phase /\ mon'[s].lag = mon[s].lag
        BY <1>8, <3>3
      <4>2. Late(s) => Late(s)'
        BY <1>4, <3>3, <4>1 DEF Late
      <4>. QED  BY <2>2, <3>3, <4>1, <4>2 DEF InTime, Forward
    <3>. QED  BY <2>1, <3>1, <3>2, <3>3
  <2>. QED  BY <2>3, <2>5 DEF Forward
<1>. QED  BY <1>10, <1>11 DEF Forwards

\* Names resolve; a deployment that is rolled back reaches POST again only after the
\* monitors have looked.
Steady == "lookup" \notin FaultKinds /\ ("rollback" \in FaultKinds => MaxLag <= 2)

LEMMA BgStepSeen ==
    ASSUME Steady, Told, Told', DnsSeen, Forwards, BgNext
    PROVE  DnsSeen' /\ Forwards'
<1>1. \A r \in Roles : IsMonitor(r, mon[r])
  BY DEF Told, BgTypeOK
<1>2. CASE Advance \/ RollBack \/ UpdateDns
  <2>1. ASSUME NEW r \in Roles
        PROVE  /\ Alike(mon[r], mon'[r]) /\ mon[r].lag \in Int
               /\ mon'[r].lag = IF mon[r].pc \in {"poll", "report"} THEN mon[r].lag + 1 ELSE mon[r].lag
    <3>1. mon'[r] = [mon[r] EXCEPT !.lag = IF mon[r].pc \in {"poll", "report"} THEN @ + 1 ELSE @]
      BY <1>2 DEF Advance, RollBack, UpdateDns, Overtakes
    <3>. QED  BY <1>1, <3>1 DEF Alike, IsMonitor
  <2>2. /\ prov' = prov /\ bgd \in Int /\ bgd' \in Int /\ bgd' <= bgd + 1
        /\ bgd' < bgd => "rollback" \in FaultKinds /\ bgd < POST
    <3>1. bgd \in Int
      BY DEF Told, BgTypeOK, NOT_CREATED, Deleted
    <3>2. CASE Advance \/ UpdateDns
      BY <3>1, <3>2 DEF Advance, UpdateDns
    <3>3. CASE RollBack
      <4>1. /\ bgd \in {PREPARATION, IN_PROGRESS} /\ bgd' = CREATED /\ prov' = prov
            /\ "rollback" \in FaultKinds
        BY <3>3 DEF RollBack, Spend
      <4>. QED  BY <4>1 DEF CREATED, PREPARATION, IN_PROGRESS, POST
    <3>. QED  BY <1>2, <3>2, <3>3
  <2>3. dns'["SOURCE"] \in {dns["SOURCE"], GreenIp} /\ dns'["TARGET"] \in {dns["TARGET"], NoIp}
    BY <1>2 DEF Advance, RollBack, UpdateDns, Told, BgTypeOK, Roles
  <2>4. \A r \in Roles : mon[r].pc = "report" => bgd' - bgd <= mon'[r].lag - mon[r].lag
    BY <2>1, <2>2
  <2>. QED  BY <2>1, <2>2, <2>3, <2>4, AlikeSeen
<1>3. CASE TimerExpires \/ EntryExpires
  <2>1. \A r \in Roles : Alike(mon[r], mon'[r])
    BY <1>3 DEF TimerExpires, EntryExpires, Alike
  <2>2. /\ prov'.rollback = prov.rollback /\ prov'.interim = prov.interim
        /\ prov'.blueDns = prov.blueDns /\ prov'.greenDns = prov.greenDns
        /\ prov'.latest = prov.latest /\ prov'.phase = prov.phase
    BY <1>3 DEF TimerExpires, EntryExpires, Told, SoundProvider, IsProvider
  <2>3. bgd' = bgd /\ dns' = dns /\ mon' = mon
    BY <1>3 DEF TimerExpires, EntryExpires
  <2>4. /\ ~(bgd' < bgd)
        /\ \A r \in Roles : mon[r].pc = "report" => bgd' - bgd <= mon'[r].lag - mon[r].lag
    <3>1. bgd \in Int /\ \A r \in Roles : mon[r].lag \in Int
      BY DEF Told, BgTypeOK, IsMonitor, NOT_CREATED, Deleted
    <3>. QED  BY <2>3, <3>1
  <2>. QED  BY <2>1, <2>2, <2>3, <2>4, AlikeSeen
<1>4. ASSUME NEW r \in Roles, Report(r)
      PROVE  DnsSeen' /\ Forwards'
  BY <1>4, ReportSeen, ReportForward
<1>5. ASSUME NEW r \in Roles, Observe(r)
      PROVE  DnsSeen' /\ Forwards'
  <2>1. /\ DnsSeen' /\ mon'[r].phase \in {mon[r].phase, Zero, NOT_CREATED, bgd}
        /\ mon[r].pc = "poll" /\ mon'[r].pc = "report" /\ mon'[r].lag = 0
        /\ \A s \in Roles \ {r} : mon'[s] = mon[s]
    BY <1>5, ObserveSeen DEF Steady
  <2>2. UNCHANGED <<bgd, prov>>
    BY <1>5 DEF Observe
  <2>3. ASSUME NEW s \in Roles
        PROVE  Forward(s)'
    <3>1. bgd \in Nat /\ mon[s].phase \in Phases /\ LastReport(s) \in Phases
      BY PhaseInts DEF Told
    <3>2. Forward(s) /\ LastReport(s)' = LastReport(s)
      BY <2>2 DEF Forwards, LastReport
    <3>3. CASE s # r
      BY <2>1, <2>2, <3>2, <3>3 DEF Forward, Reached, InTime, Late
    <3>4. CASE s = r
      <4>1. Reached(mon[r].phase)' /\ Reached(LastReport(r))'
        BY <2>1, <2>2, <3>1, <3>2, <3>4 DEF Forward, Reached, Zero, NOT_CREATED, POST
      <4>2. mon[r].phase \in {Zero, NOT_CREATED} \/ LastReport(r) <= mon[r].phase
        BY <2>1, <3>2, <3>4 DEF Forward, InTime, Late
      <4>3. ASSUME mon'[r].phase = bgd
            PROVE  LastReport(r)' <= mon'[r].phase \/ Late(r)'
        <5>1. bgd <= mon'[r].phase + mon'[r].lag
          BY <2>1, <3>1, <4>3
        <5>2. CASE "rollback" \in FaultKinds /\ LastReport(r) < POST
          BY <2>1, <2>2, <3>2, <3>4, <5>1, <5>2 DEF Late
        <5>3. CASE "rollback" \notin FaultKinds \/ LastReport(r) >= POST
          BY <3>2, <3>4, <4>3, <5>3 DEF Forward, Reached
        <5>4. LastReport(r) \in Int
          BY <3>1, <3>4, Numbers, Zenon
        <5>. QED  BY <5>2, <5>3, <5>4 DEF POST
      <4>4. InTime(r)'
        BY <2>1, <3>2, <3>4, <4>2, <4>3 DEF InTime
      <4>. QED  BY <3>4, <4>1, <4>4 DEF Forward
    <3>. QED  BY <3>3, <3>4
  <2>. QED  BY <2>1, <2>2, <2>3 DEF Forwards, Reached
<1>6. ASSUME NEW r \in Roles, StopMonitor(r)
      PROVE  DnsSeen' /\ Forwards'
  <2>1. PICK n : n = [NewMonitor EXCEPT !.pc = "done"]
    OBVIOUS
  <2>2. /\ n.pc = "done" /\ n.phase = NOT_CREATED /\ n.names = {} /\ n.startTopology = Nil
        /\ n.startIps = Empty /\ n.currentIps = Empty /\ n.ipChanged = FALSE /\ n.removed = FALSE
    BY <2>1 DEF NewMonitor
  <2>3. Seen(r, n, dns[r])
    <3>1. TopologyHosts(Nil) = {} /\ BlueSeen(Empty, dns[r])
      BY DEF TopologyHosts, BlueSeen, Empty
    <3>. QED  BY <2>2, <3>1 DEF Seen
  <2>4. mon'[r] = n /\ (\A s \in Roles \ {r} : mon'[s] = mon[s]) /\ UNCHANGED <<bgd, dns, prov>>
    BY <1>6, <2>1 DEF StopMonitor, Told, BgTypeOK
  <2>5. \A s \in Roles : Seen(s, mon'[s], dns[s])
    BY <2>3, <2>4 DEF DnsSeen
  <2>6. DnsSeen'
    BY <2>4, <2>5 DEF DnsSeen
  <2>7. NOT_CREATED <= bgd
    BY PhaseInts, <1>6 DEF Told, NOT_CREATED
  <2>8. ASSUME NEW s \in Roles
        PROVE  Forward(s)'
    <3>1. Forward(s) /\ LastReport(s)' = LastReport(s)
      BY <2>4 DEF Forwards, LastReport
    <3>2. CASE s = r
      BY <2>2, <2>4, <2>7, <3>1, <3>2 DEF Forward, Reached, InTime
    <3>3. CASE s # r
      BY <2>4, <3>1, <3>3 DEF Forward, Reached, InTime, Late
    <3>. QED  BY <3>2, <3>3
  <2>. QED  BY <2>4, <2>6, <2>8 DEF Forwards, Reached
<1>. QED  BY <1>2, <1>3, <1>4, <1>5, <1>6 DEF BgNext, MonitorStep

LEMMA CallSeen ==
    ASSUME Inv, Inv', DnsSeen, Forwards, NEW c \in Callers, Begin(c) \/ CallStep(c)
    PROVE  DnsSeen' /\ Forwards' /\ prov'.phase = prov.phase
<1>1. Told /\ Told'
  BY DEF Inv, TypeOK, Told
<1>2. \A r \in Roles : Alike(mon[r], mon'[r]) /\ mon'[r].lag = mon[r].lag
  <2>1. mon' = mon \/ InitProvider
    BY DEF Begin, Start, CallStep, LookAgain, HoldEnds, Answered, Dial, DialFails
  <2>2. CASE mon' = mon
    BY <2>2 DEF Alike
  <2>3. CASE InitProvider
    <3>1. \A r \in Roles : IsMonitor(r, mon[r])
      BY <1>1 DEF Told, BgTypeOK
    <3>2. \A r \in Roles : mon'[r] = mon[r] \/ (mon[r].pc = "off" /\ mon'[r] = [mon[r] EXCEPT !.pc = "poll"])
      BY <2>3 DEF InitProvider
    <3>3. SUFFICES ASSUME NEW r \in Roles
                   PROVE  Alike(mon[r], mon'[r]) /\ mon'[r].lag = mon[r].lag
      OBVIOUS
    <3>4. CASE mon'[r] = mon[r]
      BY <3>4 DEF Alike
    <3>5. CASE mon[r].pc = "off" /\ mon'[r] = [mon[r] EXCEPT !.pc = "poll"]
      <4>1. IsMonitor(r, mon[r])
        BY <3>1
      <4>2. \A k \in DOMAIN mon[r] \ {"pc"} : mon'[r][k] = mon[r][k]
        BY <3>5
      <4>. QED  BY <3>5, <4>1, <4>2 DEF Alike, IsMonitor
    <3>. QED  BY <3>2, <3>4, <3>5
  <2>. QED  BY <2>1, <2>2, <2>3
<1>3. bgd' = bgd /\ dns' = dns
  BY DEF Begin, Start, CallStep, LookAgain, HoldEnds, Answered, Dial, DialFails
<1>4. /\ prov'.rollback = prov.rollback /\ prov'.interim = prov.interim /\ prov'.phase = prov.phase
      /\ prov'.latest = prov.latest /\ prov'.blueDns = prov.blueDns /\ prov'.greenDns = prov.greenDns
  <2>1. prov' = prov \/ \E g, iam : prov' = RegisterIamHost(prov, g, iam)
    BY DEF Begin, Start, CallStep, LookAgain, HoldEnds, Answered, Dial, DialFails
  <2>2. ASSUME NEW g, NEW iam
        PROVE  LET q == RegisterIamHost(prov, g, iam)
               IN  /\ q.rollback = prov.rollback /\ q.interim = prov.interim /\ q.phase = prov.phase
                   /\ q.latest = prov.latest /\ q.blueDns = prov.blueDns /\ q.greenDns = prov.greenDns
    BY <1>1 DEF RegisterIamHost, Told, SoundProvider, IsProvider
  <2>. QED  BY <2>1, <2>2
<1>5. /\ ~(bgd' < bgd)
      /\ \A r \in Roles : mon[r].pc = "report" => bgd' - bgd <= mon'[r].lag - mon[r].lag
  <2>1. bgd \in Int /\ \A r \in Roles : mon[r].lag \in Int
    BY <1>1 DEF Told, BgTypeOK, IsMonitor, NOT_CREATED, Deleted
  <2>. QED  BY <1>2, <1>3, <2>1
<1>. QED  BY <1>1, <1>2, <1>3, <1>4, <1>5, AlikeSeen

LEMMA EndInvariant ==
    ASSUME Steady
    PROVE  Spec => [](Inv /\ DnsSeen /\ Forwards)
<1>1. Init => Inv /\ DnsSeen /\ Forwards
  <2>1. SUFFICES ASSUME Init
                 PROVE  Inv /\ DnsSeen /\ Forwards
    OBVIOUS
  <2>2. Inv
    BY <2>1, InitInv
  <2>3. bgd \in Nat /\ 0 <= bgd
    BY <2>2, PhaseInts DEF Inv, TypeOK, Roles
  <2>4. \A r \in Roles : /\ mon[r].names = {} /\ mon[r].startTopology = Nil /\ mon[r].phase = NOT_CREATED
                         /\ mon[r].startIps = Empty /\ mon[r].currentIps = Empty
                         /\ mon[r].ipChanged = FALSE /\ mon[r].removed = FALSE
    BY <2>1 DEF Init, BgInit, NewMonitor
  <2>5. TopologyHosts(Nil) = {} /\ \A d : BlueSeen(Empty, d)
    BY DEF TopologyHosts, BlueSeen, Empty
  <2>6. \A r \in Roles : Seen(r, mon[r], dns[r])
    BY <2>4, <2>5 DEF Seen
  <2>7. /\ prov.rollback = FALSE /\ prov.blueDns = FALSE /\ prov.greenDns = FALSE
        /\ \A r \in Roles : prov.interim[r] = Nil
    BY <2>1 DEF Init, BgInit, NewProvider
  <2>8. dns["SOURCE"] # NoIp
    BY <2>1, BlueGreenAssumption DEF Init, BgInit, Roles
  <2>9. DnsSeen
    BY <2>6, <2>7, <2>8 DEF DnsSeen
  <2>10. Forwards
    <3>1. prov.latest = NOT_CREATED /\ prov.phase = Zero
      BY <2>1 DEF Init, BgInit, NewProvider
    <3>. QED  BY <2>3, <2>4, <2>7, <3>1
              DEF Forwards, Forward, Reached, InTime, LastReport, NOT_CREATED, Zero, POST
  <2>. QED  BY <2>2, <2>9, <2>10
<1>2. Inv /\ DnsSeen /\ Forwards /\ [Next]_vars => (Inv /\ DnsSeen /\ Forwards)'
  <2>1. SUFFICES ASSUME Inv, DnsSeen, Forwards, [Next]_vars
                 PROVE  (Inv /\ DnsSeen /\ Forwards)'
    OBVIOUS
  <2>2. Inv'
    BY <2>1, NextInv
  <2>3. Told /\ Told'
    BY <2>1, <2>2 DEF Inv, TypeOK, Told
  <2>4. CASE BgNext /\ call' = Marked(call)
    BY <2>1, <2>2, <2>3, <2>4, BgStepSeen
  <2>5. ASSUME NEW c \in Callers, Begin(c) \/ CallStep(c)
        PROVE  DnsSeen' /\ Forwards'
    BY <2>1, <2>2, <2>5, CallSeen
  <2>6. CASE UNCHANGED vars
    <3>1. mon' = mon /\ dns' = dns /\ prov' = prov /\ bgd' = bgd
      BY <2>6 DEF vars
    <3>2. DnsSeen'
      BY <2>1, <3>1 DEF DnsSeen
    <3>3. \A r \in Roles : Forward(r)'
      <4>1. SUFFICES ASSUME NEW r \in Roles
                     PROVE  Forward(r)'
        OBVIOUS
      <4>2. Forward(r)
        BY <2>1 DEF Forwards
      <4>. QED  BY <3>1, <4>2 DEF Forward, Reached, InTime, Late, LastReport
    <3>4. Forwards'
      BY <2>1, <3>1, <3>3 DEF Forwards, Reached
    <3>. QED  BY <2>2, <3>2, <3>4
  <2>. QED  BY <2>1, <2>2, <2>4, <2>5, <2>6 DEF Next
<1>. QED  BY <1>1, <1>2, PTL DEF Spec

\* GetStatusOfCompleted, whatever polls are lost or find no status table, whichever
\* topologies are partial: as long as names resolve, the routing is withdrawn only when
\* both sides of DNS have moved, or by the timer. A switchover may be rolled back and
\* started again, any number of times, if the monitors are at most two steps of the
\* deployment behind; without rollbacks they may be as late as they like.
THEOREM RoutingEnds == ASSUME Steady PROVE Spec => RoutingEndsWithDns
<1>1. Inv /\ DnsSeen /\ Forwards /\ (Inv /\ DnsSeen /\ Forwards)' /\ [Next]_vars =>
        [prov.phase = POST /\ prov'.phase = Zero /\ prov.timer # "expired"
            => dns["SOURCE"] = GreenIp /\ dns["TARGET"] = NoIp]_vars
  <2>1. SUFFICES ASSUME Inv, DnsSeen, Forwards, Inv', DnsSeen', Forwards', Next,
                        prov.phase = POST, prov'.phase = Zero, prov.timer # "expired"
                 PROVE  dns["SOURCE"] = GreenIp /\ dns["TARGET"] = NoIp
    OBVIOUS
  <2>2. Told /\ POST # Zero
    BY <2>1 DEF Inv, TypeOK, Told, POST, Zero
  <2>3. BgNext
    <3>1. ASSUME NEW c \in Callers, Begin(c) \/ CallStep(c)
          PROVE  prov'.phase = prov.phase
      BY <2>1, <3>1, CallSeen
    <3>. QED  BY <2>1, <2>2, <3>1 DEF Next
  <2>4. PICK r \in Roles : Report(r)
    <3>1. ASSUME TimerExpires
          PROVE  prov'.phase = prov.phase
      BY <2>2, <3>1 DEF TimerExpires, Told, SoundProvider, IsProvider
    <3>2. ASSUME Advance \/ RollBack \/ UpdateDns \/ EntryExpires
          PROVE  prov' = prov
      BY <3>2 DEF Advance, RollBack, UpdateDns, EntryExpires
    <3>3. ASSUME NEW s \in Roles, Observe(s) \/ StopMonitor(s)
          PROVE  prov' = prov
      BY <3>3 DEF Observe, StopMonitor
    <3>4. prov' # prov /\ prov'.phase # prov.phase
      BY <2>1, <2>2
    <3>. QED  BY <2>3, <3>1, <3>2, <3>3, <3>4 DEF BgNext, MonitorStep
  <2>5. PICK i : i = Interim(mon[r])
    OBVIOUS
  <2>6. PICK p : p = Prepared(prov, r, i)
    OBVIOUS
  <2>7. SoundProvider(prov) /\ IsInterim(r, i) /\ i.ipChanged = mon[r].ipChanged /\ i.removed = mon[r].removed
    BY <2>2, <2>5, InterimType DEF Told, BgTypeOK, Interim
  <2>8. /\ p.phase # Zero
        /\ p.blueDns => prov.blueDns \/ (r = "SOURCE" /\ i.ipChanged)
        /\ p.greenDns => prov.greenDns \/ (r = "TARGET" /\ i.removed)
        /\ p.phase = COMPLETED => prov.timer = "expired" \/ (p.blueDns /\ p.greenDns)
        /\ p.phase = CREATED => p.latest = CREATED \/ prov.timer = "expired"
    <3>1. SoundProvider(prov) /\ IsInterim(r, i)
      BY <2>7
    <3>2. p.phase # Zero
      BY <2>6, <3>1, PreparedPhase
    <3>3. p.phase = CREATED => p.latest = CREATED \/ prov.timer = "expired"
      BY <2>6, <3>1, PreparedLatest
    <3>4. p.blueDns => prov.blueDns \/ (r = "SOURCE" /\ i.ipChanged)
      BY <2>6, <3>1, PreparedFacts
    <3>5. p.greenDns => prov.greenDns \/ (r = "TARGET" /\ i.removed)
      BY <2>6, <3>1, PreparedFacts
    <3>6. p.phase = COMPLETED => prov.timer = "expired" \/ (p.blueDns /\ p.greenDns)
      BY <2>6, <3>1, PreparedFacts
    <3>. QED  BY <3>2, <3>3, <3>4, <3>5, <3>6
  <2>9. prov' = ResetContextWhenCompleted(p)
    BY <2>1, <2>2, <2>4, <2>5, <2>6, ReportSeen
  <2>10. SwitchoverCompleted(p)
    BY <2>1, <2>8, <2>9 DEF ResetContextWhenCompleted
  <2>11. ~p.rollback
    <3>1. SUFFICES ASSUME p.rollback
                   PROVE  FALSE
      OBVIOUS
    <3>2. PICK u : u = UpdatePhase(prov, r, i)
      OBVIOUS
    <3>3. p.latest = u.latest /\ p.rollback = u.rollback
      <4>1. SoundProvider(prov) /\ IsInterim(r, i)
        BY <2>7
      <4>2. p.latest = u.latest
        BY <2>6, <3>2, <4>1, PreparedLatest
      <4>3. p.rollback = UpdatePhase(prov, r, i).rollback /\ p.interim = [prov.interim EXCEPT ![r] = i]
        BY <2>6, <4>1, PreparedFacts
      <4>. QED  BY <3>2, <4>2, <4>3
    <3>4. p.latest = CREATED
      BY <2>1, <2>8, <2>10, <3>1 DEF SwitchoverCompleted
    <3>5. mon[r].pc = "report"
      BY <2>4 DEF Report
    <3>6. prov.latest < POST \/ ("rollback" \in FaultKinds /\ bgd <= CREATED + mon[r].lag)
      BY <2>1, <2>2, <2>5, <3>1, <3>2, <3>3, <3>4, <3>5, ReportPhase
    <3>7. bgd \in Nat /\ mon[r].lag \in 0 .. MaxLag /\ prov.latest \in Phases
      BY <2>2, PhaseInts DEF Told
    <3>8. prov.latest \in Int /\ bgd \in Int /\ mon[r].lag \in Int
      BY <3>7, Numbers, Zenon
    <3>9. prov.latest >= POST /\ prov.latest <= bgd
      BY <2>1 DEF Forwards, Reached
    <3>10. "rollback" \in FaultKinds /\ bgd <= CREATED + mon[r].lag /\ bgd >= POST
      BY <3>6, <3>8, <3>9 DEF POST
    <3>11. MaxLag \in Nat /\ MaxLag <= 2
      BY <3>10, BlueGreenAssumption DEF Steady
    <3>. QED  BY <3>7, <3>10, <3>11 DEF CREATED, POST
  <2>12. p.blueDns /\ p.greenDns
    BY <2>1, <2>8, <2>10, <2>11 DEF SwitchoverCompleted
  <2>. QED  BY <2>1, <2>7, <2>8, <2>12 DEF DnsSeen, Seen
<1>. QED  BY <1>1, EndInvariant, PTL DEF Spec, RoutingEndsWithDns

=============================================================================
