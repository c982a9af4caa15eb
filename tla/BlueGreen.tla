------------------------------ MODULE BlueGreen ------------------------------
(***************************************************************************)
(* The status provider of the blue/green plugin and its two monitors.      *)
(*                                                                         *)
(* One monitor goroutine per role (SOURCE: the blue cluster, TARGET: the   *)
(* green one) repeats: connect, read the status table, the topology and    *)
(* the addresses of the hosts (Observe), then hand what it has to the      *)
(* provider (Report).  The provider merges both views under a lock  *)
(* into one summary status, which the storage holds by reference: readers  *)
(* see the provider's own field for as long as the entry has not expired.  *)
(*                                                                         *)
(* All the hosts of a role share one address here.  Intervals, panic mode, *)
(* versions and ports only pace or label the polls and are left out, and   *)
(* so is allTopologyChanged, which is only logged.                         *)
(***************************************************************************)
EXTENDS Integers, Sequences, FiniteSets, SequencesExt

CONSTANTS
    Nil,
    BlueIp, GreenIp, NoIp,  \* addresses; NoIp: the name does not resolve
    Endpoint,       \* role -> the writer endpoint in the status table
    ReaderEndpoint, \* role -> its reader endpoint
    Instances,      \* role -> [writer, readers]: the cluster's topology
    SuspendBlue,    \* bgSuspendNewBlueConnections
    InitialPhases,  \* what the deployment may have reached at start-up
    FaultKinds,     \* of "refused", "lost", "unavailable", "topology",
                    \* "lookup", "rollback", "dial"
    MaxFaults,      \* faults in a behaviour
    MaxLag          \* changes of the deployment a monitor may miss

Roles == {"SOURCE", "TARGET"}

\* BlueGreenPhase: the zero value, then the phases in their order.
Zero == -1
NOT_CREATED == 0
CREATED == 1
PREPARATION == 2
IN_PROGRESS == 3
POST == 4
COMPLETED == 5
Deleted == 6        \* of the deployment itself: no rows in the status table
Phases == Zero .. COMPLETED

IsActiveSwitchoverOrCompleted(p) == p >= PREPARATION

Hosts == [r \in Roles |-> {Instances[r].writer} \cup ToSet(Instances[r].readers)]

Names == [r \in Roles |-> {Endpoint[r], ReaderEndpoint[r]} \cup Hosts[r]]

AllNames == Names["SOURCE"] \cup Names["TARGET"]

RoleOf == [h \in AllNames |-> IF h \in Names["SOURCE"] THEN "SOURCE" ELSE "TARGET"]

ASSUME BlueGreenAssumption ==
    /\ {MaxFaults, MaxLag} \subseteq Nat
    /\ SuspendBlue \in BOOLEAN
    /\ InitialPhases \subseteq NOT_CREATED .. IN_PROGRESS
    /\ Names["SOURCE"] \cap Names["TARGET"] = {}
    /\ \A r \in Roles : Instances[r] \in [writer : Hosts[r], readers : Seq(Hosts[r])]
    /\ {Nil, NoIp, BlueIp, GreenIp} \cap AllNames = {}
    /\ Nil \notin Roles \cup {NoIp, BlueIp, GreenIp}
    /\ NoIp \notin {BlueIp, GreenIp} /\ BlueIp # GreenIp

VARIABLES
    bgd,        \* the phase of the deployment, as the control plane has it
    dns,        \* role -> the address its names resolve to
    faults,     \* faults left
    mon,        \* role -> BlueGreenStatusMonitor
    prov,       \* BlueGreenStatusProvider
    cached      \* the storage holds the status entry

\* The faults of the given kinds happen, if the bound allows.
Spend(kinds) ==
    /\ kinds \subseteq FaultKinds
    /\ faults >= Cardinality(kinds)
    /\ faults' = faults - Cardinality(kinds)

\* The name servers; an address stands for itself.
Resolve(h) == IF h \in AllNames THEN dns[RoleOf[h]] ELSE h

Empty == [h \in {} |-> Nil]

NewMonitor ==
    [pc |-> "off", lag |-> 0, phase |-> NOT_CREATED, conn |-> FALSE, at |-> Nil,
     ip |-> NoIp, correct |-> FALSE, lister |-> FALSE, names |-> {},
     startTopology |-> Nil, startIps |-> Empty, currentIps |-> Empty,
     ipChanged |-> FALSE, removed |-> FALSE, collectIps |-> FALSE,
     collectTopology |-> FALSE, useIp |-> FALSE, stop |-> FALSE]

NewProvider ==
    [latest |-> NOT_CREATED, rollback |-> FALSE, phase |-> Zero,
     connect |-> {}, execute |-> {}, known |-> FALSE,
     roles |-> Empty, corresponding |-> Empty, ips |-> Empty,
     interim |-> [r \in Roles |-> Nil],
     context |-> Nil, blueDns |-> FALSE, greenDns |-> FALSE,
     connects |-> Empty, renamed |-> FALSE, timer |-> "off", active |-> FALSE]

BgInit ==
    /\ bgd \in InitialPhases
    /\ dns = [r \in Roles |-> IF r = "SOURCE" THEN BlueIp ELSE GreenIp]
    /\ faults = MaxFaults
    /\ mon = [r \in Roles |-> NewMonitor]
    /\ prov = NewProvider
    /\ cached = FALSE

-----------------------------------------------------------------------------
(* The control plane and the name servers. *)

\* A bound: a monitor is overtaken by at most MaxLag changes between one pass of
\* its loop, the wait for the provider's lock included, and the next.
Overtakes ==
    /\ \A r \in Roles : mon[r].pc # "off" /\ mon[r].lag < MaxLag
    /\ mon' = [r \in Roles |-> [mon[r] EXCEPT
                !.lag = IF mon[r].pc \in {"poll", "report"} THEN @ + 1 ELSE @]]

\* A switchover advances, or completes and its metadata is removed.
Advance ==
    /\ bgd < Deleted
    /\ bgd = COMPLETED => dns["TARGET"] = NoIp
    /\ bgd' = bgd + 1
    /\ Overtakes
    /\ UNCHANGED <<dns, faults, prov, cached>>

RollBack ==
    /\ bgd \in {PREPARATION, IN_PROGRESS}
    /\ dns["SOURCE"] = BlueIp
    /\ bgd' = CREATED
    /\ Spend({"rollback"})
    /\ Overtakes
    /\ UNCHANGED <<dns, prov, cached>>

\* The blue names move to the green cluster, then the green names go away.
UpdateDns ==
    /\ bgd >= IN_PROGRESS
    /\ \/ /\ dns["SOURCE"] = BlueIp
          /\ dns' = [dns EXCEPT !["SOURCE"] = GreenIp]
       \/ /\ dns["SOURCE"] = GreenIp /\ dns["TARGET"] = GreenIp
          /\ dns' = [dns EXCEPT !["TARGET"] = NoIp]
    /\ Overtakes
    /\ UNCHANGED <<bgd, faults, prov, cached>>

-----------------------------------------------------------------------------
(* The monitors *)

\* OpenConnection, when there is none: to the initial host at first, by the
\* address connected to before once the switchover is past its turning point.
OpenConnection(m, refused) ==
    LET at == IF m.at = Nil THEN Endpoint["SOURCE"] ELSE m.at
        ip == IF m.at = Nil THEN NoIp ELSE m.ip
        target == IF m.useIp /\ ip # NoIp THEN ip ELSE Resolve(at)
        asked == [m EXCEPT !.at = at, !.ip = ip]
    IN  IF m.conn THEN m
        ELSE IF refused \/ target = NoIp THEN asked
        ELSE [asked EXCEPT !.conn = TRUE, !.ip = target]

\* The row of the role was read: the names it gives, and whether the
\* connection leads to the role's own cluster.
RowFound(r, m) ==
    LET named == [m EXCEPT !.phase = bgd,
                    !.names = @ \cup {ReaderEndpoint[r]} \cup
                        (IF m.collectTopology THEN {Endpoint[r]} ELSE {})]
    IN  IF m.correct THEN named
        ELSE IF m.ip # NoIp /\ m.ip # Resolve(Endpoint[r])
        THEN [named EXCEPT !.at = Endpoint[r], !.conn = FALSE,
                           !.correct = TRUE, !.lister = TRUE]
        ELSE [named EXCEPT !.correct = TRUE, !.lister = TRUE]

CollectStatus(r, m, outcome) ==
    IF ~m.conn THEN m
    ELSE IF outcome = "lost" THEN [m EXCEPT !.conn = FALSE, !.phase = Zero]
    ELSE IF outcome = "unavailable" THEN [m EXCEPT !.phase = NOT_CREATED]
    ELSE IF bgd = Deleted THEN [m EXCEPT !.phase = Zero]
    ELSE RowFound(r, m)

\* CollectTopology: only with a host list provider and an open connection.
CollectTopology(m, topology) ==
    IF m.lister /\ m.conn /\ m.collectTopology
    THEN [m EXCEPT !.startTopology = topology,
            !.names = @ \cup ToSet(topology.readers) \cup
                      ({topology.writer} \ {Nil})]
    ELSE m

CollectHostIpAddresses(m, found) ==
    LET current == [h \in m.names |-> IF found THEN Resolve(h) ELSE NoIp]
    IN  [m EXCEPT !.currentIps = current,
                  !.startIps = IF m.collectIps /\ m.names # {}
                               THEN current ELSE @]

TopologyHosts(t) ==
    IF t = Nil THEN {} ELSE ToSet(t.readers) \cup ({t.writer} \ {Nil})

\* The map lookup h -> address: whether the key exists, with an address.
Known(ips, h) == h \in DOMAIN ips
At(ips, h) == IF Known(ips, h) THEN ips[h] ELSE NoIp

UpdateIpAddressFlags(m) ==
    LET hosts == TopologyHosts(m.startTopology) IN
    IF m.collectTopology
    THEN [m EXCEPT !.ipChanged = FALSE, !.removed = FALSE]
    ELSE [m EXCEPT
            !.ipChanged = IF m.collectIps THEN @ ELSE
                /\ hosts # {}
                /\ \A h \in hosts : /\ Known(m.startIps, h)
                                    /\ Known(m.currentIps, h)
                                    /\ m.startIps[h] # m.currentIps[h],
            !.removed =
                /\ hosts # {}
                /\ \A h \in hosts : /\ At(m.startIps, h) # NoIp
                                    /\ At(m.currentIps, h) = NoIp]

\* One pass of runMonitoringLoop, up to the call of the provider.  A topology may
\* be read while the cluster has no writer, or not at all.  stop is checked
\* before the provider's lock is taken.
Observe(r) ==
    /\ mon[r].pc = "poll" /\ ~mon[r].stop
    /\ \E outcome \in {"rows", "refused", "lost", "unavailable"},
          whole \in BOOLEAN, found \in BOOLEAN :
        LET due == outcome = IF bgd = NOT_CREATED THEN "unavailable" ELSE "rows"
            polled == CollectStatus(r, OpenConnection(mon[r], outcome = "refused"),
                                    outcome)
            topology == IF whole THEN Instances[r]
                        ELSE [Instances[r] EXCEPT !.writer = Nil]
            listed == CollectTopology(polled, topology)
            seen == UpdateIpAddressFlags(CollectHostIpAddresses(listed, found))
            upset == (IF due THEN {} ELSE {outcome})
                     \cup (IF whole THEN {} ELSE {"topology"})
                     \cup (IF found THEN {} ELSE {"lookup"})
        IN  /\ Spend(upset)
            /\ outcome = "refused" => ~mon[r].conn
            /\ ~whole => listed # polled
            /\ mon' = [mon EXCEPT ![r] = [seen EXCEPT !.pc = "report", !.lag = 0]]
    /\ UNCHANGED <<bgd, dns, prov, cached>>

\* The loop ends once it is told to stop: the connection is closed.
StopMonitor(r) ==
    /\ mon[r].pc = "poll" /\ mon[r].stop
    /\ mon' = [mon EXCEPT ![r] = [NewMonitor EXCEPT !.pc = "done"]]
    /\ UNCHANGED <<bgd, dns, faults, prov, cached>>

-----------------------------------------------------------------------------
(* The provider *)

Interim(m) ==
    [phase |-> m.phase, names |-> m.names, startTopology |-> m.startTopology,
     startIps |-> m.startIps, currentIps |-> m.currentIps,
     ipChanged |-> m.ipChanged, removed |-> m.removed]

ContextHash(p) == <<p.renamed, Cardinality(DOMAIN p.connects)>>

\* The phase moves forward until one monitor sees it go backward, and from
\* then on only backward.
UpdatePhase(p, r, i) ==
    LET last == IF p.interim[r] = Nil THEN NOT_CREATED ELSE p.interim[r].phase
        back == p.rollback \/ i.phase < last
    IN  IF i.phase = Zero THEN p
        ELSE [p EXCEPT !.rollback = back,
                !.latest = IF IF back THEN i.phase < @ ELSE i.phase >= @
                           THEN i.phase ELSE @]

Merge(f, g) == [h \in DOMAIN f \cup DOMAIN g |->
                   IF h \in DOMAIN g THEN g[h] ELSE f[h]]

\* MUTANT of Paired: the pair is entered under its green host.
UnderGreen(pairs) ==
    [h \in {q[2] : q \in pairs} |-> (CHOOSE q \in pairs : q[2] = h)[1]]

Paired(pairs) ==
    [h \in {q[1] : q \in pairs} |-> (CHOOSE q \in pairs : q[1] = h)[2]]

\* Blue host -> green host: writers, readers in turn (or the writer when there
\* are no green readers), then the cluster endpoints both sides have named.
CorrespondingHosts(p) ==
    LET blue == p.interim["SOURCE"]
        green == p.interim["TARGET"]
        both == blue # Nil /\ green # Nil
        bt == blue.startTopology
        gt == green.startTopology
        reader(i) == IF gt.readers = <<>> THEN gt.writer
                     ELSE gt.readers[((i - 1) % Len(gt.readers)) + 1]
        instances ==
            IF ~both THEN {} ELSE IF bt = Nil \/ gt = Nil THEN {}
            ELSE {<<bt.writer, gt.writer>> : x \in {bt.writer} \ {Nil}}
                 \cup {<<bt.readers[i], reader(i)>> : i \in DOMAIN bt.readers}
        endpoints ==
            IF ~both THEN {}
            ELSE {<<e["SOURCE"], e["TARGET"]>> : e \in
                    {e \in {Endpoint, ReaderEndpoint} :
                        e["SOURCE"] \in blue.names /\ e["TARGET"] \in green.names}}
    IN  Paired(instances \cup endpoints)

UpdateDnsFlags(p, r, i) ==
    [p EXCEPT !.blueDns = @ \/ (r = "SOURCE" /\ i.ipChanged),
              !.greenDns = @ \/ (r = "TARGET" /\ i.removed)]

Route(kind, host, role, to, tries) ==
    [kind |-> kind, host |-> host, role |-> role, to |-> to, tries |-> tries]

\* The blue hosts that have a counterpart entry.
BlueHosts(p) ==
    {h \in DOMAIN p.corresponding : h \in DOMAIN p.roles /\ p.roles[h] = "SOURCE"}

AddressOr(p, h) == IF At(p.ips, h) # NoIp THEN p.ips[h] ELSE h

\* AddSubstituteBlueWithIpAddressConnectRouting
BlueByAddress(p) ==
    {Route("blue", h, "SOURCE", AddressOr(p, h), <<h>>) : h \in BlueHosts(p)}

\* Suspend routes by address: what the monitors said of each address.
SuspendedAddresses(p) ==
    {a \in {p.ips[h] : h \in DOMAIN p.ips} \ {NoIp} :
        \E r \in (IF SuspendBlue THEN Roles ELSE {"TARGET"}) :
            /\ p.interim[r] # Nil
            /\ \E h \in DOMAIN p.interim[r].startIps : p.interim[r].startIps[h] = a}

Suspend(host, role) == Route("suspend", host, role, Nil, <<>>)

\* RemoveGreenInstancePrefix: the name a green host takes over.
Renamed(g) ==
    CASE g = Endpoint["TARGET"] -> Endpoint["SOURCE"]
      [] g = ReaderEndpoint["TARGET"] -> ReaderEndpoint["SOURCE"]
      [] g = Instances["TARGET"].writer -> Instances["SOURCE"].writer
      [] OTHER -> Instances["SOURCE"].readers[
                    CHOOSE i \in DOMAIN Instances["TARGET"].readers :
                        Instances["TARGET"].readers[i] = g]

IsAlreadySuccessfullyConnected(p, g, iam) ==
    g \in DOMAIN p.connects /\ iam \in p.connects[g]

\* MUTANT of GreenRoute: the blue side of the pair is substituted.
BlueRoute(p, h) ==
    Route("green", h, "SOURCE", AddressOr(p, h), <<h>>)

\* Where a new connection to blue host h goes after the switchover.
GreenRoute(p, h) ==
    LET g == p.corresponding[h] IN
    IF g = Nil THEN Route("until", h, "SOURCE", Nil, <<>>)
    ELSE Route("green", h, "SOURCE", AddressOr(p, g),
               IF IsAlreadySuccessfullyConnected(p, g, Renamed(g))
               THEN <<Renamed(g)>> ELSE <<g, Renamed(g)>>)

CreatePostRouting(p) ==
    IF p.blueDns /\ p.renamed THEN {}
    ELSE {GreenRoute(p, h) : h \in BlueHosts(p)} \cup
         (IF p.greenDns THEN {} ELSE {Route("reject", Nil, "TARGET", Nil, <<>>)})

Status(p, phase, connect, execute) ==
    [p EXCEPT !.phase = phase, !.connect = connect, !.execute = execute,
              !.known = phase # NOT_CREATED]

\* MUTANT of GetStatusOfInProgress: only the green side is put on hold.
HoldGreenOnly(p) ==
    Status(p, IN_PROGRESS, BlueByAddress(p) \cup {Suspend(Nil, "TARGET")},
           {Suspend(Nil, "TARGET")})

GetStatusOfInProgress(p) ==
    Status(p, IN_PROGRESS,
           (IF SuspendBlue THEN {Suspend(Nil, "SOURCE")} ELSE BlueByAddress(p))
               \cup {Suspend(Nil, "TARGET")}
               \cup {Suspend(a, Nil) : a \in SuspendedAddresses(p)},
           {Suspend(Nil, r) : r \in Roles}
               \cup {Suspend(p.ips[h], Nil) : h \in
                        {h \in DOMAIN p.ips : p.ips[h] # NoIp}})

\* MUTANT of GetStatusOfCompleted: completed once the blue names have moved.
BlueDnsSuffices(p) ==
    IF p.blueDns THEN Status(p, COMPLETED, {}, {})
    ELSE Status(p, POST, CreatePostRouting(p), {})

\* Completed only when the names have moved; a post-switchover status before.
GetStatusOfCompleted(p) ==
    IF p.blueDns /\ p.greenDns
    THEN [Status(p, COMPLETED, {}, {}) EXCEPT !.corresponding = Empty]
    ELSE Status(p, POST, CreatePostRouting(p), {})

\* What an expired switchover timer makes of any phase from PREPARATION on.
GivenUp(p) == Status(p, IF p.rollback THEN CREATED ELSE COMPLETED, {}, {})

UpdateSummaryStatus(p, r, i) ==
    LET f == UpdateDnsFlags(p, r, i)
        t == IF f.latest = PREPARATION /\ f.timer = "off"
             THEN [f EXCEPT !.timer = "on"] ELSE f
    IN  IF p.latest >= PREPARATION /\ t.timer = "expired" THEN GivenUp(t)
        ELSE CASE p.latest = NOT_CREATED -> Status(p, NOT_CREATED, {}, {})
               [] p.latest = CREATED -> Status(f, CREATED, {}, {})
               [] p.latest = PREPARATION -> Status(t, PREPARATION, BlueByAddress(t), {})
               [] p.latest = IN_PROGRESS -> GetStatusOfInProgress(t)
               [] p.latest = POST -> Status(t, POST, CreatePostRouting(t), {})
               [] OTHER -> GetStatusOfCompleted(t)

ResetCollectedData(m) ==
    [m EXCEPT !.startIps = Empty, !.startTopology = Nil, !.names = {}]

\* Nothing changes in PREPARATION and IN_PROGRESS.
UpdateMonitors(p, m, r) ==
    LET set(collect, useIp) ==
            [m EXCEPT !.collectIps = collect, !.collectTopology = collect,
                      !.useIp = useIp]
    IN  CASE p.phase = NOT_CREATED -> set(FALSE, FALSE)
          [] p.phase = CREATED ->
                IF p.rollback THEN ResetCollectedData(set(TRUE, FALSE))
                ELSE set(TRUE, FALSE)
          [] p.phase = POST -> set(FALSE, TRUE)
          [] p.phase = COMPLETED ->
                [ResetCollectedData(set(FALSE, FALSE)) EXCEPT
                    !.stop = @ \/ (~p.rollback /\ r = "SOURCE")]
          [] OTHER -> m

SwitchoverCompleted(p) ==
    /\ p.phase = (IF p.rollback THEN CREATED ELSE COMPLETED)
    /\ p.active

\* Everything but blueDnsUpdateCompleted; the status readers hold becomes the
\* zero value.
ResetContextWhenCompleted(p) ==
    IF SwitchoverCompleted(p)
    THEN [NewProvider EXCEPT !.blueDns = p.blueDns] ELSE p

\* PrepareStatus, up to the reset.
Prepared(p, r, i) ==
    LET phased == UpdatePhase(p, r, i)
        stored == [phased EXCEPT
                     !.interim[r] = i, !.context = ContextHash(p),
                     !.ips = Merge(@, i.startIps),
                     !.roles = Merge(@, [h \in i.names |-> r])]
        matched == [stored EXCEPT !.corresponding = CorrespondingHosts(stored)]
        summed == UpdateSummaryStatus(matched, r, i)
    IN  [summed EXCEPT !.active = @ \/ IsActiveSwitchoverOrCompleted(summed.phase)]

\* The monitor's call of PrepareStatus.  rollback is cleared before it is read,
\* so a reset stops the TARGET monitor whether or not there was a rollback.
Report(r) ==
    LET i == Interim(mon[r])
        p == Prepared(prov, r, i)
        done == SwitchoverCompleted(p)
        changed == prov.interim[r] # i \/ prov.context # ContextHash(prov)
        told == [s \in Roles |->
                   [UpdateMonitors(p, mon[s], s) EXCEPT
                       !.stop = @ \/ (done /\ s = "TARGET")]]
    IN  /\ mon[r].pc = "report"
        /\ IF changed
           THEN /\ prov' = ResetContextWhenCompleted(p)
                /\ mon' = [told EXCEPT ![r].pc = "poll"]
                /\ cached' = TRUE
           ELSE /\ mon' = [mon EXCEPT ![r].pc = "poll"]
                /\ UNCHANGED <<prov, cached>>
        /\ UNCHANGED <<bgd, dns, faults>>

\* The switchover timer runs out; it is looked at when a change is reported.
TimerExpires ==
    /\ prov.timer = "on" /\ \E r \in Roles : mon[r].pc = "report"
    /\ prov' = [prov EXCEPT !.timer = "expired"]
    /\ UNCHANGED <<bgd, dns, faults, mon, cached>>

\* MUTANT of EntryExpires: running monitors keep the entry alive.
KeptAlive ==
    /\ cached /\ \A r \in Roles : mon[r].pc = "done"
    /\ cached' = FALSE
    /\ UNCHANGED <<bgd, dns, faults, mon, prov>>

\* The storage entry outlives its last update by five minutes, in which the
\* monitors polled and had nothing new to report.
EntryExpires ==
    /\ cached
    /\ \A r \in Roles : mon[r].pc = "done" \/ prov.interim[r] = Interim(mon[r])
    /\ cached' = FALSE
    /\ UNCHANGED <<bgd, dns, faults, mon, prov>>

MonitorStep(r) == Observe(r) \/ Report(r) \/ StopMonitor(r)

BgNext ==
    \/ Advance \/ RollBack \/ UpdateDns \/ TimerExpires \/ EntryExpires
    \/ \E r \in Roles : MonitorStep(r)

-----------------------------------------------------------------------------
(* Types *)

\* f maps some members of D into R.
IsMap(f, D, R) == DOMAIN f \subseteq D /\ \A x \in DOMAIN f : f[x] \in R

Addresses == {BlueIp, GreenIp}

\* What the names of role r may resolve to, or fail to.
Leads(r) == {GreenIp, NoIp} \cup (IF r = "SOURCE" THEN {BlueIp} ELSE {})

Topologies(r) == [writer : Hosts[r] \cup {Nil}, readers : Seq(Hosts[r])]

IsMonitor(r, m) ==
    /\ m \in [pc : {"off", "poll", "report", "done"}, lag : 0 .. MaxLag,
              phase : Phases, conn : BOOLEAN, at : AllNames \cup {Nil},
              ip : Addresses \cup {NoIp}, correct : BOOLEAN, lister : BOOLEAN,
              names : SUBSET Names[r], startTopology : Topologies(r) \cup {Nil},
              startIps : {m.startIps}, currentIps : {m.currentIps},
              ipChanged : BOOLEAN, removed : BOOLEAN, collectIps : BOOLEAN,
              collectTopology : BOOLEAN, useIp : BOOLEAN, stop : BOOLEAN]
    /\ IsMap(m.startIps, Names[r], Leads(r))
    /\ IsMap(m.currentIps, Names[r], Leads(r))

IsInterim(r, i) ==
    /\ i \in [phase : Phases, names : SUBSET Names[r],
              startTopology : Topologies(r) \cup {Nil}, startIps : {i.startIps},
              currentIps : {i.currentIps}, ipChanged : BOOLEAN, removed : BOOLEAN]
    /\ IsMap(i.startIps, Names[r], Leads(r))

\* The names a connection to a green host may present to IAM.
IamHosts == AllNames \cup {Renamed(g) : g \in Names["TARGET"]}

Routes ==
    [kind : {"blue", "suspend", "until", "green", "reject"},
     host : AllNames \cup Addresses \cup {Nil}, role : Roles \cup {Nil},
     to : AllNames \cup Addresses \cup {Nil}, tries : Seq(IamHosts)]

IsProvider(p) ==
    /\ p \in [latest : Phases \ {Zero}, rollback : BOOLEAN, phase : Phases,
              connect : SUBSET Routes, execute : SUBSET Routes, known : BOOLEAN,
              roles : {p.roles}, corresponding : {p.corresponding}, ips : {p.ips},
              interim : {p.interim}, context : {p.context}, blueDns : BOOLEAN,
              greenDns : BOOLEAN, connects : {p.connects}, renamed : BOOLEAN,
              timer : {"off", "on", "expired"}, active : BOOLEAN]
    /\ IsMap(p.roles, AllNames, Roles)
    /\ IsMap(p.corresponding, Names["SOURCE"], Names["TARGET"] \cup {Nil})
    /\ IsMap(p.ips, AllNames, Addresses \cup {NoIp})
    /\ \A h \in DOMAIN p.ips : h \in Names["TARGET"] => p.ips[h] \in Leads("TARGET")
    /\ IsMap(p.connects, AllNames, SUBSET IamHosts)
    /\ DOMAIN p.interim = Roles
    /\ \A r \in Roles : p.interim[r] = Nil \/ IsInterim(r, p.interim[r])

BgTypeOK ==
    /\ bgd \in NOT_CREATED .. Deleted
    /\ faults \in Nat /\ cached \in BOOLEAN
    /\ DOMAIN dns = Roles /\ \A r \in Roles : dns[r] \in Leads(r)
    /\ DOMAIN mon = Roles /\ \A r \in Roles : IsMonitor(r, mon[r])
    /\ IsProvider(prov)

=============================================================================
