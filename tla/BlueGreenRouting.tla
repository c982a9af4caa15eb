-------------------------- MODULE BlueGreenRouting --------------------------
(***************************************************************************)
(* An application's calls through the blue/green plugin: Connect and       *)
(* Execute look the status up, take the route that matches the host, hold, *)
(* reject or redirect the call, and look again.                            *)
(***************************************************************************)
EXTENDS BlueGreen

CONSTANTS
    Callers,        \* goroutines calling through the plugin
    Requested,      \* the hosts and addresses they ask for
    IamInUse        \* the IAM plugin is in the chain

ASSUME RoutingAssumption ==
    IamInUse \in BOOLEAN /\ Nil \notin {"connect", "execute", "blue", "green"}

VARIABLE call       \* caller -> the call in progress

vars == <<bgd, dns, faults, mon, prov, cached, call>>

\* via: the green host a substitution under IAM connects to, through the plugin
\* again; tries: the IAM hosts left for it; role: Nil until it is looked up.
Idle ==
    [pc |-> "idle", op |-> Nil, host |-> Nil, role |-> Nil, to |-> Nil,
     kind |-> Nil, via |-> Nil, viaRole |-> Nil, tries |-> <<>>,
     during |-> FALSE]

Init == BgInit /\ call = [c \in Callers |-> Idle]

-----------------------------------------------------------------------------
(* What a call sees *)

\* GetRole of the status in the storage, nil statuses included.
GetRole(h) ==
    IF cached /\ prov.known /\ h \in DOMAIN prov.roles THEN prov.roles[h] ELSE Nil

IsMatch(route, h, role) == route.host \in {Nil, h} /\ route.role \in {Nil, role}

Matching(routes, h, role) ==
    IF cached /\ role # Nil THEN {x \in routes : IsMatch(x, h, role)} ELSE {}

InProgress == cached /\ prov.phase = IN_PROGRESS

\* The calls begun in this hold, on a host the status knows.
Marked(f) ==
    [c \in Callers |-> [f[c] EXCEPT !.during = @ /\ cached' /\ prov'.phase = IN_PROGRESS]]

\* initProvider: the first call starts the provider and its monitors.
InitProvider ==
    mon' = IF \E r \in Roles : mon[r].pc # "off" THEN mon
           ELSE [r \in Roles |-> [mon[r] EXCEPT !.pc = "poll"]]

-----------------------------------------------------------------------------
(* Calls *)

\* The host looked up: the requested one, or the green one under IAM.
Subject(k) == IF k.via # Nil THEN k.via ELSE k.host

SubjectRole(k) ==
    LET known == IF k.via # Nil THEN k.viaRole ELSE k.role
    IN  IF known # Nil THEN known ELSE GetRole(Subject(k))

\* The route of a connection is applied: hold it, send it elsewhere, or refuse
\* it and look again.  A name substituted under IAM is connected to through the
\* whole plugin chain, this plugin included.
Apply(k, route) ==
    IF route.kind \in {"suspend", "until"} THEN [k EXCEPT !.pc = "hold"]
    ELSE IF route.kind = "reject" THEN [k EXCEPT !.pc = "look"]
    ELSE IF IamInUse /\ route.to \in AllNames
    THEN [k EXCEPT !.pc = "look", !.via = route.to, !.viaRole = Nil,
                   !.tries = route.tries, !.kind = route.kind]
    ELSE [k EXCEPT !.pc = "dial", !.to = route.to, !.kind = route.kind]

\* Connect, from a look at the status on.
LookConnect(k) ==
    LET role == SubjectRole(k)
        routes == Matching(prov.connect, Subject(k), role)
        looked == IF k.via # Nil THEN [k EXCEPT !.viaRole = role]
                  ELSE [k EXCEPT !.role = role]
    IN  IF routes = {}
        THEN {IF k.via = Nil THEN [Idle EXCEPT !.pc = "dial", !.to = k.host]
              ELSE [looked EXCEPT !.pc = "dial", !.to = k.via]}
        ELSE {Apply(looked, route) : route \in routes}

\* Execute, from a look at the status on.
LookExecute(k) ==
    LET role == SubjectRole(k) IN
    {IF Matching(prov.execute, k.host, role) = {} THEN [k EXCEPT !.pc = "sent"]
     ELSE [k EXCEPT !.pc = "hold", !.role = role]}

\* What a look makes of call k.
Look(k) ==
    CASE k.op = "connect" -> LookConnect(k)
      [] k.op = "execute" -> LookExecute(k)
      [] k.op = "close" -> {[Idle EXCEPT !.pc = "sent"]}

Start(c, op, h) ==
    /\ call[c].pc = "idle"
    /\ \E k \in Look([Idle EXCEPT !.op = op, !.host = h,
                        !.during = /\ op = "execute" /\ InProgress
                                   /\ h \in AllNames => GetRole(h) # Nil]) :
          call' = [call EXCEPT ![c] = k]
    /\ IF op = "connect" THEN mon' = mon ELSE InitProvider
    /\ UNCHANGED <<bgd, dns, faults, prov, cached>>

LookAgain(c) ==
    /\ call[c].pc = "look"
    /\ \E k \in Look(call[c]) : call' = [call EXCEPT ![c] = k]
    /\ UNCHANGED <<bgd, dns, faults, mon, prov, cached>>

\* MUTANT of HoldEnds: the hold waits for another phase, and for nothing else.
WaitForPhase(c) ==
    /\ call[c].pc = "hold" /\ cached /\ prov.phase # IN_PROGRESS
    /\ call' = [call EXCEPT ![c].pc = "look"]
    /\ UNCHANGED <<bgd, dns, faults, mon, prov, cached>>

\* The hold ends with the phase or the timeout.  A statement still on hold
\* fails; a connection looks again in either case.
HoldEnds(c) ==
    /\ call[c].pc = "hold"
    /\ call' = [call EXCEPT ![c] =
                  IF call[c].op = "execute" /\ InProgress
                  THEN Idle
                  ELSE [@ EXCEPT !.pc = "look"]]
    /\ UNCHANGED <<bgd, dns, faults, mon, prov, cached>>

Answered(c) ==
    /\ call[c].pc = "sent"
    /\ call' = [call EXCEPT ![c] = Idle]
    /\ UNCHANGED <<bgd, dns, faults, mon, prov, cached>>

\* A green host answered to the name iam: once every green host that was
\* connected to has answered to another name than its own, all are renamed.
RegisterIamHost(p, g, iam) ==
    LET new == Merge(p.connects, [h \in {g} |->
                 {iam} \cup (IF g \in DOMAIN p.connects THEN p.connects[g] ELSE {})])
    IN  [p EXCEPT !.connects = new,
                  !.renamed = @ \/ (g # iam /\ \A h \in DOMAIN new : new[h] # {h})]

\* The connection is opened at the address its name resolves to now.
Dial(c) ==
    LET k == call[c] IN
        /\ k.pc = "dial" /\ Resolve(k.to) # NoIp
        /\ call' = [call EXCEPT ![c] = Idle]
        /\ IF k.via # Nil /\ k.kind = "green" /\ k.host \in Hosts["SOURCE"]
           THEN prov' = RegisterIamHost(prov, k.via, Head(k.tries))
           ELSE prov' = prov
        /\ InitProvider
        /\ UNCHANGED <<bgd, dns, faults, cached>>

\* It cannot be opened: an ordinary one fails, a substituted one is tried with
\* the next IAM host or looked up again.
DialFails(c) ==
    LET k == call[c]
        rest == IF k.tries = <<>> THEN <<>> ELSE Tail(k.tries)
    IN  /\ k.pc = "dial"
        /\ Spend(IF Resolve(k.to) = NoIp THEN {} ELSE {"dial"})
        /\ call' = [call EXCEPT ![c] =
             IF k.kind = Nil THEN Idle
             ELSE [k EXCEPT !.pc = "look", !.to = Nil, !.kind = IF rest = <<>> THEN Nil ELSE @,
                     !.via = IF rest = <<>> THEN Nil ELSE @,
                     !.viaRole = Nil, !.tries = rest]]
        /\ IF k.kind = Nil THEN InitProvider ELSE mon' = mon
        /\ UNCHANGED <<bgd, dns, prov, cached>>

CallStep(c) ==
    \/ LookAgain(c) \/ HoldEnds(c)
    \/ Answered(c) \/ Dial(c) \/ DialFails(c)

Begin(c) == \E op \in {"connect", "execute", "close"}, h \in Requested : Start(c, op, h)

Next ==
    \/ BgNext /\ call' = Marked(call)
    \/ \E c \in Callers : Begin(c) \/ CallStep(c)

Spec == Init /\ [][Next]_vars

\* A monitor loop takes step after step until it ends: weak fairness of
\* MonitorStep(r), which moves the loop's pc and is enabled until "done".
MonitorRuns(r) ==
    \/ []<>(mon[r].pc \in {"off", "done"})
    \/ []<><<mon[r].pc # mon'[r].pc>>_vars

\* Goroutines run, and an entry nobody updates expires.
Fairness ==
    /\ \A r \in Roles : MonitorRuns(r)
    /\ \A c \in Callers : WF_vars(CallStep(c))
    /\ WF_vars(EntryExpires /\ call' = Marked(call))

FairSpec == Spec /\ Fairness

-----------------------------------------------------------------------------
(* Properties *)

Calls ==
    [pc : {"idle", "look", "hold", "dial", "sent"}, op : {"connect", "execute", Nil},
     host : Requested \cup {Nil}, role : Roles \cup {Nil},
     to : AllNames \cup Addresses \cup Requested \cup {Nil}, kind : {"blue", "green", Nil},
     via : AllNames \cup {Nil}, viaRole : Roles \cup {Nil}, tries : Seq(IamHosts),
     during : BOOLEAN]

TypeOK == BgTypeOK /\ call \in [Callers -> Calls]

\* Unless its timer ran out, the post-switchover routing is withdrawn only when the
\* blue names really lead to the green cluster and the green names are gone
\* (GetStatusOfCompleted: "DNS hasn't yet updated completely").
RoutingEndsWithDns ==
    [][prov.phase = POST /\ prov'.phase = Zero /\ prov.timer # "expired"
        => dns["SOURCE"] = GreenIp /\ dns["TARGET"] = NoIp]_vars

\* A statement begun while the status says IN_PROGRESS, on a host whose role is
\* known, is not sent as long as the status says so.
StatementsHeld ==
    \A c \in Callers :
        call[c].during /\ call[c].host \in AllNames
            /\ call[c].op = "execute" => call[c].pc # "sent"

\* A connection to a blue host redirected after the switchover never reaches
\* the old blue cluster, whatever the names resolve to meanwhile.
RedirectedToGreen ==
    \A c \in Callers : call[c].pc = "dial" /\ call[c].kind = "green"
                         => Resolve(call[c].to) # BlueIp

\* No routing stays in effect for good: whatever the deployment and the monitors
\* do, traffic is back to normal in the end.
RoutingsEnd == <>[](~cached \/ prov.connect \cup prov.execute = {})

\* Every call returns, even if the switchover or the monitors never move again.
CallsReturn == \A c \in Callers : call[c].pc # "idle" ~> call[c].pc = "idle"

=============================================================================
