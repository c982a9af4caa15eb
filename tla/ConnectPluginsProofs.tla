------------------------ MODULE ConnectPluginsProofs ------------------------
(***************************************************************************)
(* Proofs about ConnectPlugins, for any callers, hosts, configurations,    *)
(* endpoint monitors and bounds: the type invariant, that a refused login  *)
(* is reported only if the credentials changed during the call, that a     *)
(* verified connection has the role asked for, and that a call leaves no   *)
(* connection behind.                                                      *)
(*                                                                         *)
(* What a call k must satisfy is said as a predicate of k and of what the  *)
(* environment may change, so that a step is a lemma about the new k and   *)
(* the calls of the others keep theirs.                                    *)
(***************************************************************************)
EXTENDS ConnectPlugins, FiniteSetTheorems, TLAPS

Assumptions == ConnectAssumption /\ LimitlessAssumption /\ EndpointAssumption

-----------------------------------------------------------------------------
(* The inductive invariant.                                                *)

\* The steps inside ConnectTo, and those it may return to.
Logging == {"auth", "fetch", "store", "dial"}
Answers == {"plain", "identify", "verify", "staleCheck", "staleWriter", "lmDialect",
            "lmRouter", "lmSelected", "lmLeast", "lmOpened"}

\* The step of the plugin: the one a call in ConnectTo will return to.
Where(k) == IF k.pc \in Logging THEN k.ret ELSE k.pc

\* Steps at which the call has kept no connection yet.
Fresh == {"idle", "pick", "monitor", "ask", "wait", "lmStart", "plain", "identify", "verify",
          "staleCheck", "lmDialect", "lmRouter", "lmOpened"}

\* New credentials are the valid ones, unless they changed since the call began.
Credentials(k, f, s) ==
  /\ f.auth = "none" => ~ k.fetched
  /\ k.pc \in {"store", "dial"} /\ k.fetched /\ ~ k.rotated => k.cred = s
  /\ "login" \in {k.res, k.outcome} => k.rotated

\* The writer is among those the call has seen, and so is a verified one.
Roles(k, f, w) ==
  /\ k.pc \notin {"idle", "done"} => w \in k.writers
  /\ k.verified => k.pc = "done"
  /\ k.verified /\ f.url = "writer" => ConnHost(k.conn) \in k.writers

\* The open connections are the one just opened and the one kept.
Owned(k) ==
  /\ k.pc # "done" => k.open = {k.cand, k.conn} \ {None}
  /\ k.pc \in Logging => k.ret \in Answers
  /\ k.pc \in Answers => (k.res = "ok" <=> k.cand # None)
  /\ k.pc \notin Answers => k.cand = None
  /\ k.cand # None => k.cand # k.conn
  /\ Where(k) \in Fresh => k.conn = None

\* What is left when the call has returned.
Ended(k, f) ==
  k.pc = "done" =>
    IF k.outcome = "ok" THEN k.open = {k.conn} ELSE f.plugin = "initial" => k.open = {}

\* The steps of the initial connection plugin; what is at hand at some steps.
InPlace(k, f) ==
  /\ f.plugin = "initial" => Where(k) \in {"idle", "done", "pick", "identify", "verify", "plain"}
  /\ Where(k) = "verify" => k.tgt \in Hosts
  /\ Where(k) \in {"lmChoose", "lmRetry", "lmStill", "lmRouter", "lmSelected", "lmLeast"} =>
       k.list # None

Sound(k, f, s, w) ==
  /\ k \in Calls
  /\ Credentials(k, f, s) /\ Roles(k, f, w) /\ Owned(k) /\ Ended(k, f) /\ InPlace(k, f)

SoundCalls == \A c \in Callers : Sound(call[c], cfg, secret, writer)

Inv == TypeOK /\ SoundCalls

-----------------------------------------------------------------------------
(* What a step does to one call.                                           *)

\* A step that changes one call and leaves configuration, credentials and writer
\* keeps all calls sound if it keeps that one.
LEMMA OneCall ==
  ASSUME Inv, UNCHANGED <<cfg, secret, writer>>, NEW c \in Callers, NEW k,
         Update(c, k), Sound(k, cfg, secret, writer)
  PROVE  SoundCalls' /\ (call \in [Callers -> Calls])'
  BY DEF Inv, TypeOK, SoundCalls, Update, Sound

\* A step inside ConnectTo that the environment cannot disturb.
LEMMA LoggingMoves ==
  ASSUME Assumptions, NEW f \in Configs, NEW s \in 0..MaxRotations, NEW w \in Hosts,
         NEW k, Sound(k, f, s, w), k.pc \in Logging,
         NEW pc \in Logging, NEW cred \in 0..MaxRotations \cup {None}, NEW fetched \in BOOLEAN,
         f.auth = "none" => ~ fetched,
         pc \in {"store", "dial"} /\ fetched /\ ~ k.rotated => cred = s
  PROVE  Sound([k EXCEPT !.pc = pc, !.cred = cred, !.fetched = fetched], f, s, w)
<1> PICK r : r = [k EXCEPT !.pc = pc, !.cred = cred, !.fetched = fetched]
  OBVIOUS
<1>1. r \in Calls
  BY DEF Sound, Calls, Steps, Logging
<1>2. Credentials(r, f, s)
  BY DEF Sound, Calls, Credentials
<1>3. Roles(r, f, w) /\ Owned(r) /\ Ended(r, f) /\ InPlace(r, f)
  BY DEF Sound, Calls, Roles, Owned, Ended, InPlace, Where, Logging, Answers, Fresh
<1> QED
  BY <1>1, <1>2, <1>3 DEF Sound

\* The next step of it, with what the call has.
LEMMA LoggingGoesOn ==
  ASSUME NEW f \in Configs, NEW s \in 0..MaxRotations, NEW w \in Hosts,
         NEW k, Sound(k, f, s, w), k.pc \in Logging,
         NEW pc \in Logging, pc \in {"store", "dial"} => k.pc \in {"store", "dial"}
  PROVE  Sound([k EXCEPT !.pc = pc], f, s, w)
<1> PICK r : r = [k EXCEPT !.pc = pc]
  OBVIOUS
<1>1. r \in Calls
  BY DEF Sound, Calls, Steps, Logging
<1>2. Credentials(r, f, s)
  BY DEF Sound, Calls, Credentials
<1>3. Roles(r, f, w) /\ Owned(r) /\ Ended(r, f) /\ InPlace(r, f)
  BY DEF Sound, Calls, Roles, Owned, Ended, InPlace, Where, Logging, Answers, Fresh
<1> QED
  BY <1>1, <1>2, <1>3 DEF Sound

\* ConnectTo returns an error.
LEMMA ReturnsSound ==
  ASSUME Assumptions, NEW f \in Configs, NEW s \in 0..MaxRotations, NEW w \in Hosts,
         NEW k, Sound(k, f, s, w), k.pc \in Logging,
         NEW res \in {"error", "login"}, res = "login" => k.rotated
  PROVE  Sound(Returns(k, res), f, s, w)
<1> PICK r : r = Returns(k, res)
  OBVIOUS
<1>0. r = [k EXCEPT !.pc = k.ret, !.res = res] /\ k \in Calls
  BY DEF Returns, Sound
<1>1. r \in Calls /\ r = [k EXCEPT !.pc = k.ret, !.res = res]
  BY <1>0 DEF Calls, Results
<1>2. Credentials(r, f, s)
  BY <1>1 DEF Sound, Calls, Credentials, Owned, Answers
<1>3. Roles(r, f, w) /\ Owned(r) /\ Ended(r, f) /\ InPlace(r, f)
  BY <1>1 DEF Sound, Calls, Roles, Owned, Ended, InPlace, Where, Logging, Answers, Fresh
<1> QED
  BY <1>1, <1>2, <1>3 DEF Sound

\* ConnectTo returns a connection the call does not have yet.
LEMMA DialledSound ==
  ASSUME Assumptions, NEW f \in Configs, NEW s \in 0..MaxRotations, NEW w \in Hosts,
         NEW k, Sound(k, f, s, w), k.pc = "dial",
         NEW h \in Hosts, NEW x, x = IF <<h, 0>> \in k.open THEN <<h, 1>> ELSE <<h, 0>>
  PROVE  Sound([Returns(k, "ok") EXCEPT !.cand = x, !.open = @ \cup {x}], f, s, w)
<1> PICK r : r = [Returns(k, "ok") EXCEPT !.cand = x, !.open = @ \cup {x}]
  OBVIOUS
<1>0. r = [k EXCEPT !.pc = k.ret, !.res = "ok", !.cand = x, !.open = @ \cup {x}] /\ k \in Calls
  BY DEF Returns, Sound, Calls
<1>1. x \in Handles /\ x # None
  BY DEF Handles, Assumptions, ConnectAssumption
<1>2. r \in Calls
  <2>1. k.open \cup {x} \in SUBSET Handles /\ x \in Handles \cup {None} /\ "ok" \in Results
    BY <1>0, <1>1 DEF Calls, Results
  <2> QED  BY <1>0, <2>1 DEF Calls
<1>3. k.cand = None /\ k.open = {k.conn} \ {None}
  BY DEF Sound, Owned, Answers
<1>4. x # k.conn
  BY <1>1, <1>3
<1>5. Credentials(r, f, s)
  BY <1>0 DEF Sound, Calls, Credentials, Owned, Answers, Logging
<1>6. Roles(r, f, w) /\ Ended(r, f) /\ InPlace(r, f)
  BY <1>0 DEF Sound, Calls, Roles, Owned, Ended, InPlace, Where, Logging, Answers
<1>7. Owned(r)
  <2>1. /\ r.pc = k.ret /\ r.res = "ok" /\ r.cand = x /\ r.conn = k.conn
        /\ r.open = k.open \cup {x}
    BY <1>0 DEF Calls
  <2>2. k.ret \in Answers /\ (k.ret \in Fresh => k.conn = None)
    BY DEF Sound, Owned, Where, Logging
  <2> QED
    BY <1>1, <1>3, <1>4, <2>1, <2>2 DEF Owned, Where, Logging, Answers
<1> QED
  BY <1>2, <1>5, <1>6, <1>7 DEF Sound

\* A call between two steps, with no connection but the one it keeps.
Clear(k, f, w) ==
  /\ k \in Calls
  /\ f.auth = "none" => ~ k.fetched
  /\ "login" \in {k.res, k.outcome} => k.rotated
  /\ w \in k.writers /\ ~ k.verified /\ k.open = {k.conn} \ {None}

LEMMA SoundIsClear ==
  ASSUME NEW f, NEW s, NEW w, NEW k, Sound(k, f, s, w),
         k.pc \notin Answers \cup {"idle", "done"}
  PROVE  Clear(k, f, w)
  BY DEF Sound, Clear, Credentials, Roles, Owned

\* A connection is requested.
LEMMA ConnectToSound ==
  ASSUME Assumptions, NEW s \in 0..MaxRotations, NEW w \in Hosts, NEW k, Clear(k, cfg, w),
         NEW host \in HostOrNone \cup {"writer", "reader", "other"}, NEW ret \in Answers,
         ret \in Fresh => k.conn = None,
         cfg.plugin = "initial" => ret \in {"identify", "verify", "plain"},
         ret = "verify" => host \in Hosts,
         ret \in {"lmRouter", "lmSelected", "lmLeast"} => k.list # None
  PROVE  Sound(ConnectTo(k, host, ret), cfg, s, w)
<1> PICK pc : pc = IF cfg.auth # "none" THEN "auth" ELSE "dial"
  OBVIOUS
<1> PICK r : r = ConnectTo(k, host, ret)
  OBVIOUS
<1>0. r = [k EXCEPT !.pc = pc, !.tgt = host, !.ret = ret, !.cand = None] /\ k \in Calls
  BY DEF ConnectTo, Clear
<1>1. r \in Calls
  <2>1. pc \in Steps /\ ret \in Steps /\ None \in Handles \cup {None}
    BY DEF Steps, Answers
  <2> QED
    BY <1>0, <2>1 DEF Calls
<1>2. Credentials(r, cfg, s)
  BY <1>0 DEF Clear, Calls, Credentials
<1>3. Roles(r, cfg, w) /\ Owned(r) /\ Ended(r, cfg) /\ InPlace(r, cfg)
  BY <1>0 DEF Clear, Calls, Roles, Owned, Ended, InPlace, Where, Logging, Answers, Fresh
<1> QED
  BY <1>1, <1>2, <1>3 DEF Sound

\* Steps between two requests.
Between == Steps \ (Logging \cup Answers \cup {"idle", "done"})

\* The call goes on at another step of its plugin,
LEMMA MovesSound ==
  ASSUME NEW f \in Configs, NEW s, NEW w, NEW k, Clear(k, f, w), k.cand = None,
         NEW pc \in Between, pc \in Fresh => k.conn = None,
         f.plugin = "initial" => pc = "pick",
         pc \in {"lmChoose", "lmRetry", "lmStill"} => k.list # None
  PROVE  Sound([k EXCEPT !.pc = pc], f, s, w)
<1> PICK r : r = [k EXCEPT !.pc = pc]
  OBVIOUS
<1>1. r \in Calls
  BY DEF Calls, Clear, Between
<1>2. Credentials(r, f, s)
  BY DEF Clear, Calls, Credentials, Between, Steps, Logging, Answers
<1>3. Roles(r, f, w) /\ Owned(r) /\ Ended(r, f) /\ InPlace(r, f)
  BY DEF Clear, Calls, Roles, Owned, Ended, InPlace, Where, Between, Steps, Logging, Answers, Fresh
<1> QED
  BY <1>1, <1>2, <1>3 DEF Sound

\* after the answer has been dealt with,
LEMMA SettledSound ==
  ASSUME NEW f \in Configs, NEW s, NEW w, NEW k, Clear(k, f, w),
         NEW pc \in Between, pc \in Fresh => k.conn = None,
         f.plugin = "initial" => pc = "pick",
         pc \in {"lmChoose", "lmRetry", "lmStill"} => k.list # None
  PROVE  Sound(Settled(k, pc), f, s, w)
<1> PICK r : r = Settled(k, pc)
  OBVIOUS
<1>0. r = [k EXCEPT !.pc = pc, !.tgt = None, !.ret = "idle", !.res = "none", !.cand = None]
      /\ k \in Calls
  BY DEF Settled, Clear
<1>1. r \in Calls
  <2>1. /\ pc \in Steps /\ "idle" \in Steps /\ "none" \in Results
        /\ None \in Handles \cup {None} /\ None \in HostOrNone
    BY DEF Between, Steps, Results, HostOrNone
  <2> QED
    BY <1>0, <2>1 DEF Calls
<1>2. Credentials(r, f, s)
  BY <1>0 DEF Clear, Calls, Credentials, Between, Steps, Logging, Answers
<1>3. Roles(r, f, w) /\ Owned(r) /\ Ended(r, f) /\ InPlace(r, f)
  BY <1>0 DEF Clear, Calls, Roles, Owned, Ended, InPlace, Where, Between, Steps, Logging, Answers,
       Fresh
<1> QED
  BY <1>1, <1>2, <1>3 DEF Sound

\* or returns.
LEMMA DoneSound ==
  ASSUME Assumptions, NEW f \in Configs, NEW s, NEW w, NEW k \in Calls,
         f.auth = "none" => ~ k.fetched,
         NEW outcome \in Results, "login" \in {outcome, k.res} => k.rotated,
         NEW conn \in Handles \cup {None},
         k.verified /\ f.url = "writer" => ConnHost(conn) \in k.writers,
         IF outcome = "ok" THEN k.open = {conn} ELSE f.plugin = "initial" => k.open = {}
  PROVE  Sound(Done(k, outcome, conn), f, s, w)
<1> PICK r : r = Done(k, outcome, conn)
  OBVIOUS
<1>0. r = [k EXCEPT !.pc = "done", !.tgt = None, !.ret = "idle", !.res = "none", !.cand = None,
                    !.outcome = outcome, !.conn = conn, !.list = None, !.tries = 0]
  BY DEF Done, Settled, Calls
<1>1. r \in Calls
  <2>1. /\ "done" \in Steps /\ "idle" \in Steps /\ "none" \in Results /\ 0 \in 0..MaxRouterRetries
        /\ None \in Handles \cup {None} /\ None \in HostOrNone
    BY DEF Steps, Results, HostOrNone, Assumptions, LimitlessAssumption
  <2>2. Settled(k, "done") \in Calls
    BY <2>1 DEF Calls, Settled
  <2> QED
    BY <2>1, <2>2 DEF Calls, Done
<1>2. Credentials(r, f, s)
  BY <1>0 DEF Calls, Credentials
<1>3. Roles(r, f, w) /\ Owned(r) /\ Ended(r, f) /\ InPlace(r, f)
  BY <1>0 DEF Calls, Roles, Owned, Ended, InPlace, Where, Logging, Answers, Fresh
<1> QED
  BY <1>1, <1>2, <1>3 DEF Sound

-----------------------------------------------------------------------------
(* The steps.                                                              *)

\* The types of all but the calls.
Elsewhere ==
  /\ cfg \in Configs /\ writer \in Hosts /\ dns \in Hosts
  /\ secret \in 0..MaxRotations /\ cached \in 0..MaxRotations \cup {None}
  /\ faults \in 0..cfg.maxFaults
  /\ members \in MemberSets /\ {info, allowed} \subseteq MemberSets \cup {None}
  /\ mcache \in EndpointMonitors \cup {None}
  /\ emon \in [EndpointMonitors ->
               [pc : {"none", "loop", "compare", "put", "sleep"},
                resp : MemberSets \cup {None}, stop : BOOLEAN]]
  /\ lists \in [Callers \cup {"stored"} -> [all : SUBSET Hosts, ok : SUBSET Hosts]]
  /\ \A l \in DOMAIN lists : lists[l].ok \subseteq lists[l].all
  /\ lock \in Callers \cup {None} /\ rmon \in {"none", "open", "query", "ended"}

LEMMA TypesSplit == TypeOK <=> Elsewhere /\ call \in [Callers -> Calls]
  BY DEF TypeOK, Elsewhere

LEMMA OneCallStep ==
  ASSUME Inv, UNCHANGED <<cfg, secret, writer>>, Elsewhere', NEW c \in Callers, NEW k,
         Update(c, k), Sound(k, cfg, secret, writer)
  PROVE  Inv'
<1>1. SoundCalls' /\ (call \in [Callers -> Calls])'
  BY OneCall
<1>2. TypeOK'
  BY <1>1 DEF TypeOK, Elsewhere
<1> QED
  BY <1>1, <1>2 DEF Inv

LEMMA ConfigFacts ==
  ASSUME Assumptions, Inv
  PROVE  /\ cfg.url \in HostOrNone \cup {"writer", "reader", "other"}
         /\ cfg.up \subseteq Hosts /\ cfg.maxFaults \in Nat
         /\ cfg.plugin \in {"none", "initial", "stale", "custom", "limitless"}
  BY DEF Assumptions, ConnectAssumption, Inv, TypeOK, HostOrNone

LEMMA SpendKeeps ==
  ASSUME Assumptions, Inv, Spend
  PROVE  faults' \in 0..cfg.maxFaults
  BY ConfigFacts DEF Spend, Inv, TypeOK

LEMMA SameElsewhere ==
  ASSUME Assumptions, Inv, UNCHANGED <<cluster, endpoint, shardGroup>>,
         Spend \/ UNCHANGED faults, UNCHANGED cached
  PROVE  Elsewhere'
<1>1. faults' \in 0..cfg.maxFaults
  BY SpendKeeps DEF Inv, TypeOK
<1> QED
  BY <1>1 DEF Inv, TypeOK, Elsewhere, cluster, endpoint, shardGroup

LEMMA AuthSound ==
  ASSUME Assumptions, Inv, NEW c \in Callers, AuthStep(c), UNCHANGED <<endpoint, shardGroup>>
  PROVE  Inv'
<1> PICK k : k = call[c]
  OBVIOUS
<1>0. /\ cfg \in Configs /\ secret \in 0..MaxRotations /\ writer \in Hosts
      /\ cached \in 0..MaxRotations \cup {None}
      /\ Sound(k, cfg, secret, writer) /\ k \in Calls
  BY DEF Inv, TypeOK, SoundCalls
<1>f. ASSUME k.pc \in Logging, Fails(c)
      PROVE  Inv'
  <2>1. Sound(Returns(k, "error"), cfg, secret, writer)
    BY <1>0, <1>f, ReturnsSound
  <2>2. Elsewhere'
    BY <1>f, SameElsewhere DEF Fails
  <2> QED
    BY <1>f, <2>1, <2>2, OneCallStep DEF Fails, cluster
<1>1. CASE ConnectInternal(c)
  <2>1. k.pc = "auth" /\ cfg.auth # "none" /\ (UseCached(c) \/ Fails(c))
    BY <1>1 DEF ConnectInternal, At, ConnectIam, ConnectFederated, ConnectOkta,
                ConnectSecretsManager
  <2>2. ASSUME UseCached(c)
        PROVE  Inv'
    <3>1. Elsewhere' /\ UNCHANGED <<cfg, secret, writer>>
      BY <2>2, SameElsewhere DEF UseCached, cluster
    <3>2. CASE cached # None
      <4>1. Sound([k EXCEPT !.pc = "dial", !.cred = cached, !.fetched = FALSE], cfg, secret, writer)
        BY <1>0, <2>1, LoggingMoves DEF Logging
      <4> QED
        BY <2>2, <3>1, <3>2, <4>1, OneCallStep DEF UseCached
    <3>3. CASE cached = None
      <4>1. Sound([k EXCEPT !.pc = "fetch"], cfg, secret, writer)
        BY <1>0, <2>1, LoggingGoesOn DEF Logging
      <4> QED
        BY <2>2, <3>1, <3>3, <4>1, OneCallStep DEF UseCached, GoTo
    <3> QED
      BY <3>2, <3>3
  <2> QED
    BY <1>f, <2>1, <2>2 DEF Logging
<1>2. CASE Fetch(c)
  <2>1. k.pc = "fetch" /\ cfg.auth # "none" /\ (Fetched(c) \/ Fails(c))
    BY <1>2 DEF Fetch, At, FetchIamToken, FetchFederatedToken, FetchOktaToken, FetchSecret
  <2>2. ASSUME Fetched(c)
        PROVE  Inv'
    <3>1. Elsewhere' /\ UNCHANGED <<cfg, secret, writer>>
      BY <2>2, SameElsewhere DEF Fetched, cluster
    <3>2. Sound([k EXCEPT !.pc = "store", !.cred = secret, !.fetched = TRUE], cfg, secret, writer)
      BY <1>0, <2>1, LoggingMoves DEF Logging
    <3> QED
      BY <2>2, <3>1, <3>2, OneCallStep DEF Fetched
  <2> QED
    BY <1>f, <2>1, <2>2 DEF Logging
<1>3. CASE Store(c)
  <2>1. k.pc = "store" /\ k.cred \in 0..MaxRotations \cup {None}
    BY <1>0, <1>3 DEF Store, At, Calls
  <2>2. Elsewhere' /\ UNCHANGED <<cfg, secret, writer>>
    BY <1>0, <1>3, <2>1
       DEF Store, Inv, TypeOK, Elsewhere, cluster, endpoint, shardGroup
  <2>3. Sound([k EXCEPT !.pc = "dial"], cfg, secret, writer)
    BY <1>0, <2>1, LoggingGoesOn DEF Logging
  <2> QED
    BY <1>3, <2>2, <2>3, OneCallStep DEF Store, GoTo
<1>4. CASE Dial(c)
  <2>1. k.pc = "dial" /\ k.pc \in Logging
    BY <1>4 DEF Dial, At, Logging
  <2>2. Elsewhere' /\ UNCHANGED <<cfg, secret, writer>>
    BY <1>4, SameElsewhere DEF Dial, cluster
  <2>3. ASSUME Update(c, Returns(k, "error"))
        PROVE  Inv'
    BY <1>0, <2>1, <2>2, <2>3, ReturnsSound, OneCallStep
  <2>4. ASSUME NEW h \in cfg.up, LoginFails(c), k.fetched, Update(c, Returns(k, "login"))
        PROVE  Inv'
    <3>1. k.rotated
      BY <1>0, <2>1, <2>4 DEF LoginFails, Sound, Credentials, Calls
    <3> QED
      BY <1>0, <2>1, <2>2, <2>4, <3>1, ReturnsSound, OneCallStep
  <2>5. ASSUME GoTo(c, "fetch")
        PROVE  Inv'
    <3>1. Sound([k EXCEPT !.pc = "fetch"], cfg, secret, writer)
      BY <1>0, <2>1, LoggingGoesOn DEF Logging
    <3> QED
      BY <2>2, <2>5, <3>1, OneCallStep DEF GoTo
  <2>6. ASSUME NEW h \in cfg.up,
               Update(c, [Returns(call[c], "ok") EXCEPT !.cand = Handle(c, h),
                                                        !.open = @ \cup {Handle(c, h)}])
        PROVE  Inv'
    <3>1. h \in Hosts
      BY ConfigFacts
    <3>2. Handle(c, h) = IF <<h, 0>> \in k.open THEN <<h, 1>> ELSE <<h, 0>>
      BY DEF Handle
    <3>3. Sound([Returns(k, "ok") EXCEPT !.cand = Handle(c, h), !.open = @ \cup {Handle(c, h)}],
                cfg, secret, writer)
      BY <1>0, <2>1, <3>1, <3>2, DialledSound
    <3> QED
      BY <2>2, <2>6, <3>3, OneCallStep
  <2> QED
    BY <1>4, <2>3, <2>4, <2>5, <2>6 DEF Dial
<1> QED
  BY <1>1, <1>2, <1>3, <1>4 DEF AuthStep

\* Answered calls: what is open, and what the call may do next.
LEMMA AnswerFacts ==
  ASSUME NEW f, NEW s, NEW w, NEW k, Sound(k, f, s, w), k.pc \in Answers
  PROVE  /\ k \in Calls /\ w \in k.writers /\ ~ k.verified
         /\ f.auth = "none" => ~ k.fetched
         /\ "login" \in {k.res, k.outcome} => k.rotated
         /\ k.open = {k.cand, k.conn} \ {None}
         /\ k.res = "ok" <=> k.cand # None
         /\ k.cand # None => k.cand # k.conn
         /\ k.pc \in Fresh => k.conn = None
         /\ k.cand \in Handles \cup {None} /\ k.conn \in Handles \cup {None}
         /\ k.res \in Results /\ k.list \in Callers \cup {None, "stored"}
         /\ k.topo \in HostOrNone /\ k.writerInfo \in HostOrNone
<1>1. k \in Calls
  BY DEF Sound
<1>2. k.pc \notin Logging /\ k.pc # "idle" /\ k.pc # "done"
  BY DEF Answers, Logging
<1>3. k.pc \in Fresh => k.conn = None
  BY <1>2 DEF Sound, Owned, Where
<1> QED
  BY <1>1, <1>2, <1>3 DEF Sound, Credentials, Roles, Owned, Calls

LEMMA NewOpen ==
  ASSUME NEW k \in Calls, NEW open \in SUBSET Handles, NEW unavail \in SUBSET Hosts
  PROVE  /\ [k EXCEPT !.open = open, !.unavail = unavail] \in Calls
         /\ \A topo \in HostOrNone :
              [k EXCEPT !.topo = topo, !.unavail = unavail, !.open = open] \in Calls
  BY DEF Calls

LEMMA PickSound ==
  ASSUME Assumptions, Inv, NEW c \in Callers, Pick(c), UNCHANGED <<endpoint, shardGroup>>
  PROVE  Inv'
<1> PICK k : k = call[c]
  OBVIOUS
<1>0. /\ cfg \in Configs /\ secret \in 0..MaxRotations /\ writer \in Hosts
      /\ Sound(k, cfg, secret, writer) /\ k \in Calls /\ k.pc = "pick"
  BY DEF Inv, TypeOK, SoundCalls, Pick, At
<1>1. Elsewhere' /\ UNCHANGED <<cfg, secret, writer>>
  BY SameElsewhere DEF Pick, cluster
<1>2. Clear(k, cfg, writer) /\ k.conn = None
  BY <1>0, SoundIsClear DEF Answers, Sound, Owned, Where, Logging, Fresh
<1>3. ASSUME NEW ret \in {"plain", "identify"}, Update(c, ConnectTo(k, cfg.url, ret))
      PROVE  Inv'
  <2>1. Sound(ConnectTo(k, cfg.url, ret), cfg, secret, writer)
    BY <1>0, <1>2, ConfigFacts, ConnectToSound DEF Answers
  <2> QED
    BY <1>1, <1>3, <2>1, OneCallStep
<1>4. ASSUME NEW h \in Hosts, Update(c, ConnectTo(k, h, "verify"))
      PROVE  Inv'
  <2>1. Sound(ConnectTo(k, h, "verify"), cfg, secret, writer)
    BY <1>0, <1>2, ConnectToSound DEF Answers, HostOrNone
  <2> QED
    BY <1>1, <1>4, <2>1, OneCallStep
<1>5. Candidates(c) \subseteq Hosts \cup {None}
  <2>1. k.topo \in HostOrNone
    BY <1>0 DEF Calls
  <2> QED
    BY <2>1 DEF Candidates, HostOrNone
<1> QED
  BY <1>3, <1>4, <1>5 DEF Pick

LEMMA CheckCandidateSound ==
  ASSUME Assumptions, Inv, NEW c \in Callers, CheckCandidate(c),
         UNCHANGED <<endpoint, shardGroup>>
  PROVE  Inv'
<1> PICK k : k = call[c]
  OBVIOUS
<1>0. /\ cfg \in Configs /\ secret \in 0..MaxRotations /\ writer \in Hosts
      /\ Sound(k, cfg, secret, writer) /\ k \in Calls /\ k.pc \in {"identify", "verify"}
  BY DEF Inv, TypeOK, SoundCalls, CheckCandidate
<1>1. Elsewhere' /\ UNCHANGED <<cfg, secret, writer>>
  BY SameElsewhere DEF CheckCandidate, cluster
<1>a. k.pc \in Answers /\ k.pc \in Fresh
  BY <1>0 DEF Answers, Fresh
<1>2. /\ k \in Calls /\ writer \in k.writers /\ ~ k.verified
      /\ cfg.auth = "none" => ~ k.fetched
      /\ "login" \in {k.res, k.outcome} => k.rotated
      /\ k.open = {k.cand} \ {None} /\ k.conn = None
      /\ k.res = "ok" <=> k.cand # None
      /\ k.cand \in Handles \cup {None}
  BY <1>0, <1>a, AnswerFacts
<1>3. ASSUME NEW h \in Hosts \cup {None}, Update(c, HandleError(c, h))
      PROVE  Inv'
  <2>1. CASE k.res = "login"
    <3>1. k.open = {}
      BY <1>2, <2>1
    <3>2. Sound(Done(k, "login", None), cfg, secret, writer)
      BY <1>0, <1>2, <2>1, <3>1, DoneSound DEF Results
    <3> QED
      BY <1>1, <1>3, <2>1, <3>2, OneCallStep DEF HandleError
  <2>2. CASE k.res # "login"
    <3> PICK j : j = [k EXCEPT !.open = Closed(c), !.unavail = @ \cup ({h} \ {None})]
      OBVIOUS
    <3>1. Closed(c) = {} /\ Closed(c) \in SUBSET Handles
      BY <1>2 DEF Closed
    <3>2. k.unavail \cup ({h} \ {None}) \in SUBSET Hosts
      BY <1>2 DEF Calls
    <3>3. Clear(j, cfg, writer)
      <4>1. j \in Calls
        <5>1. \A open \in SUBSET Handles, u \in SUBSET Hosts :
                [k EXCEPT !.open = open, !.unavail = u] \in Calls
          BY <1>0, NewOpen
        <5>2. [k EXCEPT !.open = Closed(c), !.unavail = k.unavail \cup ({h} \ {None})] \in Calls
          BY <3>1, <3>2, <5>1
        <5> QED
          BY <5>2
      <4>2. /\ j.open = {} /\ j.conn = k.conn
            /\ j.fetched = k.fetched /\ j.res = k.res /\ j.outcome = k.outcome /\ j.rotated = k.rotated
            /\ j.writers = k.writers /\ j.verified = k.verified
        BY <1>2, <3>1 DEF Calls
      <4> QED
        BY <1>2, <4>1, <4>2 DEF Clear
    <3>4. Sound(Settled(j, "pick"), cfg, secret, writer)
      BY <1>0, <1>2, <3>3, SettledSound DEF Between, Steps, Logging, Answers, Calls
    <3> QED
      BY <1>1, <1>3, <2>2, <3>4, OneCallStep DEF HandleError
  <2> QED
    BY <2>1, <2>2
<1>4. ASSUME NEW j \in Calls, j.cand = k.cand, j.open = k.open, j.fetched = k.fetched,
             j.res = k.res, j.rotated = k.rotated, j.writers = k.writers, k.res = "ok",
             cfg.url = "writer" => RoleFits(c), Update(c, Verified(j))
      PROVE  Inv'
  <2> PICK i : i = [j EXCEPT !.verified = TRUE]
    OBVIOUS
  <2>1. /\ i \in Calls /\ i.fetched = k.fetched /\ i.res = "ok" /\ i.rotated = k.rotated
        /\ i.writers = k.writers /\ i.open = k.open
    BY <1>4 DEF Calls
  <2>2. cfg.url = "writer" => ConnHost(k.cand) \in i.writers
    BY <1>2, <1>4, <2>1 DEF RoleFits, RoleOf
  <2>3. k.open = {k.cand}
    BY <1>2, <1>4
  <2>4. Sound(Done(i, "ok", k.cand), cfg, secret, writer)
    BY <1>0, <1>2, <2>1, <2>2, <2>3, DoneSound DEF Results
  <2> QED
    BY <1>1, <1>4, <2>4, OneCallStep DEF Verified
<1>5. ASSUME Update(c, Again(c))
      PROVE  Inv'
  <2> PICK j : j = [k EXCEPT !.topo = writer, !.unavail = {}, !.open = Closed(c)]
    OBVIOUS
  <2>1. /\ Closed(c) = {} /\ Closed(c) \in SUBSET Handles /\ writer \in HostOrNone
        /\ {} \in SUBSET Hosts
    BY <1>0, <1>2 DEF Closed, HostOrNone
  <2>2. Clear(j, cfg, writer)
    <3>1. j \in Calls
      BY <1>0, <2>1, NewOpen
    <3>2. /\ j.open = {} /\ j.conn = k.conn
          /\ j.fetched = k.fetched /\ j.res = k.res /\ j.outcome = k.outcome /\ j.rotated = k.rotated
          /\ j.writers = k.writers /\ j.verified = k.verified
      BY <1>2, <2>1 DEF Calls
    <3> QED
      BY <1>2, <3>1, <3>2 DEF Clear
  <2>3. Sound(Settled(j, "pick"), cfg, secret, writer)
    BY <1>0, <1>2, <2>2, SettledSound DEF Between, Steps, Logging, Answers, Calls
  <2> QED
    BY <1>1, <1>5, <2>3, OneCallStep DEF Again
<1>6. ASSUME k.res = "ok", Judge(c)
      PROVE  Inv'
  <2>1. ASSUME RoleFits(c), Update(c, Verified(k))
        PROVE  Inv'
    BY <1>2, <1>4, <1>6, <2>1
  <2>2. ASSUME RoleFits(c) \/ HasNoReaders,
               Update(c, Verified([k EXCEPT !.topo = writer, !.unavail = {}]))
        PROVE  Inv'
    <3>1. cfg.url = "writer" => RoleFits(c)
      BY <2>2 DEF HasNoReaders
    <3>2. writer \in HostOrNone
      BY <1>0 DEF HostOrNone
    <3> QED
      BY <1>2, <1>4, <1>6, <2>2, <3>1, <3>2 DEF Calls
  <2> QED
    BY <1>5, <1>6, <2>1, <2>2 DEF Judge
<1>7. (IF At(c, "verify") THEN k.tgt ELSE None) \in Hosts \cup {None}
  BY <1>0 DEF Sound, InPlace, Where, Logging, At
<1> QED
  BY <1>0, <1>3, <1>6, <1>7 DEF CheckCandidate

LEMMA PlainSound ==
  ASSUME Assumptions, Inv, NEW c \in Callers, Plain(c), UNCHANGED <<endpoint, shardGroup>>
  PROVE  Inv'
<1> PICK k : k = call[c]
  OBVIOUS
<1>0. /\ cfg \in Configs /\ Sound(k, cfg, secret, writer) /\ k.pc = "plain"
  BY DEF Inv, TypeOK, SoundCalls, Plain, At
<1>1. Elsewhere' /\ UNCHANGED <<cfg, secret, writer>>
  BY SameElsewhere DEF Plain, cluster
<1>2. /\ k \in Calls /\ ~ k.verified
      /\ cfg.auth = "none" => ~ k.fetched
      /\ "login" \in {k.res, k.outcome} => k.rotated
      /\ k.open = {k.cand} \ {None}
      /\ k.res = "ok" <=> k.cand # None
      /\ k.cand \in Handles \cup {None} /\ k.res \in Results
  BY <1>0, AnswerFacts DEF Answers, Fresh
<1>3. Sound(Done(k, k.res, k.cand), cfg, secret, writer)
  BY <1>0, <1>2, DoneSound
<1> QED
  BY <1>1, <1>3, OneCallStep DEF Plain

LEMMA StaleDnsSound ==
  ASSUME Assumptions, Inv, NEW c \in Callers, StaleDnsCheck(c) \/ StaleDnsReplace(c),
         UNCHANGED <<endpoint, shardGroup>>
  PROVE  Inv'
<1> PICK k : k = call[c]
  OBVIOUS
<1>0. /\ cfg \in Configs /\ secret \in 0..MaxRotations /\ writer \in Hosts
      /\ Sound(k, cfg, secret, writer) /\ k.pc \in {"staleCheck", "staleWriter"}
  BY DEF Inv, TypeOK, SoundCalls, StaleDnsCheck, StaleDnsReplace, At
<1>1. Elsewhere' /\ UNCHANGED <<cfg, secret, writer>>
  BY SameElsewhere DEF StaleDnsCheck, StaleDnsReplace, cluster
<1>a. k.pc \in Answers /\ cfg.plugin # "initial"
  BY <1>0 DEF Answers, Sound, InPlace, Where, Logging
<1>2. /\ k \in Calls /\ writer \in k.writers /\ ~ k.verified
      /\ cfg.auth = "none" => ~ k.fetched
      /\ "login" \in {k.res, k.outcome} => k.rotated
      /\ k.open = {k.cand, k.conn} \ {None}
      /\ k.res = "ok" <=> k.cand # None
      /\ k.cand # None => k.cand # k.conn
      /\ k.cand \in Handles \cup {None} /\ k.res \in Results
      /\ k.topo \in HostOrNone /\ k.writerInfo \in HostOrNone
  BY <1>0, <1>a, AnswerFacts
<1>3. ASSUME NEW outcome \in {k.res, "error"}, outcome # "ok", Update(c, Done(k, outcome, None))
      PROVE  Inv'
  <2>1. Sound(Done(k, outcome, None), cfg, secret, writer)
    BY <1>0, <1>a, <1>2, <1>3, DoneSound DEF Results
  <2> QED
    BY <1>1, <1>3, <2>1, OneCallStep
<1>4. ASSUME k.pc = "staleCheck", k.res = "ok", NEW w \in HostOrNone, NEW r \in HostOrNone, NEW i,
             i = [k EXCEPT !.topo = w, !.writerInfo = r],
             \/ Update(c, ConnectTo([i EXCEPT !.conn = k.cand], r, "staleWriter"))
             \/ Update(c, Done(i, "ok", k.cand))
      PROVE  Inv'
  <2>1. k.conn = None /\ k.open = {k.cand} /\ k.cand # None
    BY <1>0, <1>2, <1>4, AnswerFacts DEF Answers, Fresh
  <2>2. i \in Calls
    BY <1>2, <1>4 DEF Calls
  <2>3. CASE Update(c, ConnectTo([i EXCEPT !.conn = k.cand], r, "staleWriter"))
    <3> PICK j : j = [i EXCEPT !.conn = k.cand]
      OBVIOUS
    <3>1. Clear(j, cfg, writer)
      <4>1. j \in Calls
        BY <1>2, <2>2 DEF Calls
      <4>2. /\ j.open = k.open /\ j.conn = k.cand
            /\ j.fetched = k.fetched /\ j.res = k.res /\ j.outcome = k.outcome /\ j.rotated = k.rotated
            /\ j.writers = k.writers /\ j.verified = k.verified
        BY <1>2, <1>4, <2>2 DEF Calls
      <4> QED
        BY <1>2, <2>1, <4>1, <4>2 DEF Clear
    <3>2. Sound(ConnectTo(j, r, "staleWriter"), cfg, secret, writer)
      BY <1>0, <1>a, <3>1, ConnectToSound DEF Answers, Fresh
    <3> QED
      BY <1>1, <2>3, <3>2, OneCallStep
  <2>4. CASE Update(c, Done(i, "ok", k.cand))
    <3>1. /\ i.fetched = k.fetched /\ i.res = k.res /\ i.rotated = k.rotated
          /\ i.verified = k.verified /\ i.open = k.open
      BY <1>2, <1>4 DEF Calls
    <3>2. Sound(Done(i, "ok", k.cand), cfg, secret, writer)
      BY <1>0, <1>2, <1>4, <2>1, <2>2, <3>1, DoneSound DEF Results
    <3> QED
      BY <1>1, <2>4, <3>2, OneCallStep
  <2> QED
    BY <1>4, <2>3, <2>4
<1>5. ASSUME k.res = "ok", Update(c, Done([k EXCEPT !.open = @ \ {k.conn}], "ok", k.cand))
      PROVE  Inv'
  <2> PICK i : i = [k EXCEPT !.open = @ \ {k.conn}]
    OBVIOUS
  <2>1. k.open \ {k.conn} = {k.cand} /\ k.open \ {k.conn} \in SUBSET Handles
    BY <1>2, <1>5 DEF Calls
  <2>2. /\ i \in Calls /\ i.open = {k.cand} /\ i.fetched = k.fetched /\ i.res = k.res
        /\ i.rotated = k.rotated /\ i.verified = k.verified
    BY <1>2, <2>1 DEF Calls
  <2>3. Sound(Done(i, "ok", k.cand), cfg, secret, writer)
    BY <1>0, <1>2, <1>5, <2>2, DoneSound DEF Results
  <2> QED
    BY <1>1, <1>5, <2>3, OneCallStep
<1>6. CASE StaleDnsReplace(c)
  BY <1>3, <1>5, <1>6 DEF StaleDnsReplace
<1>7. CASE StaleDnsCheck(c)
  <2>1. k.pc = "staleCheck"
    BY <1>7 DEF StaleDnsCheck, At
  <2>2. CASE k.res # "ok" /\ Update(c, Done(k, k.res, None))
    BY <1>3, <2>2
  <2>3. CASE Update(c, Done(k, "error", None))
    BY <1>3, <2>3
  <2>4. CASE \E w \in {writer, k.topo}, r \in HostOrNone :
               /\ k.res = "ok"
               /\ \/ Update(c, ConnectTo([[k EXCEPT !.topo = w, !.writerInfo = r]
                                            EXCEPT !.conn = k.cand], r, "staleWriter"))
                  \/ Update(c, Done([k EXCEPT !.topo = w, !.writerInfo = r], "ok", k.cand))
    <3>1. {writer, k.topo} \subseteq HostOrNone
      BY <1>0, <1>2 DEF HostOrNone
    <3> QED
      BY <1>4, <2>1, <2>4, <3>1
  <2>5. ASSUME k.res = "ok",
               NEW w \in {writer, k.topo},
               NEW r, r = IF k.writerInfo = None THEN w ELSE k.writerInfo
        PROVE  r \in HostOrNone
    BY <1>0, <1>2, <2>5 DEF HostOrNone
  <2> QED
    BY <1>7, <2>2, <2>3, <2>4, <2>5 DEF StaleDnsCheck
<1> QED
  BY <1>6, <1>7

LEMMA EndpointSound ==
  ASSUME Assumptions, Inv, NEW c \in Callers, EndpointStep(c), UNCHANGED shardGroup
  PROVE  Inv'
<1> PICK k : k = call[c]
  OBVIOUS
<1>0. /\ cfg \in Configs /\ secret \in 0..MaxRotations /\ writer \in Hosts
      /\ Sound(k, cfg, secret, writer) /\ k.pc \in {"monitor", "ask", "wait"}
  BY DEF Inv, TypeOK, SoundCalls, EndpointStep, CreateMonitorIfAbsent, HasInfo, At
<1>1. cfg.plugin # "initial" /\ k.pc \notin Answers \cup Logging \cup {"idle", "done"}
  BY <1>0 DEF Answers, Logging, Sound, InPlace, Where
<1>2. Clear(k, cfg, writer) /\ k.conn = None /\ k.cand = None
  BY <1>0, <1>1, SoundIsClear DEF Sound, Owned, Where, Fresh
<1>3. Sound(ConnectTo(k, cfg.url, "plain"), cfg, secret, writer)
  BY <1>0, <1>1, <1>2, ConfigFacts, ConnectToSound DEF Answers
<1>4. /\ Sound([k EXCEPT !.pc = "ask"], cfg, secret, writer)
      /\ Sound([k EXCEPT !.pc = "wait"], cfg, secret, writer)
  BY <1>0, <1>1, <1>2, MovesSound DEF Between, Steps, Logging, Answers
<1>5. Sound(Done(k, "error", None), cfg, secret, writer)
  BY <1>0, <1>1, <1>2, DoneSound DEF Clear, Results
<1>6. CASE CreateMonitorIfAbsent(c)
  <2>1. Elsewhere' /\ UNCHANGED <<cfg, secret, writer>>
    BY <1>6 DEF CreateMonitorIfAbsent, NoMonitor, Inv, TypeOK, Elsewhere, cluster, shardGroup
  <2> QED
    BY <1>3, <1>4, <1>6, <2>1, OneCallStep DEF CreateMonitorIfAbsent, GoTo
<1>7. CASE HasInfo(c)
  <2>1. Elsewhere' /\ UNCHANGED <<cfg, secret, writer>>
    BY <1>7, SameElsewhere DEF HasInfo, cluster
  <2> QED
    BY <1>3, <1>4, <1>5, <1>7, <2>1, OneCallStep DEF HasInfo, GoTo
<1> QED
  BY <1>6, <1>7 DEF EndpointStep

-----------------------------------------------------------------------------
(* Limitless.                                                              *)

\* A list that is replaced while a call holds it finds a name no call uses: there
\* are as many names as callers, and one of the callers holds the stored list.
LEMMA SpareFree ==
  ASSUME Assumptions, Inv, Held("stored")
  PROVE  Spare \in Callers
<1>1. PICK c \in Callers : call[c].list = "stored"
  BY DEF Held
<1>2. SUFFICES ASSUME \A l \in Callers : Held(l)
               PROVE  FALSE
  BY DEF Spare
<1> DEFINE others == Callers \ {c}
           image == {call[d].list : d \in others}
<1>3. Callers \subseteq image
  BY <1>1, <1>2 DEF Held, Assumptions, LimitlessAssumption
<1>4. IsFiniteSet(Callers)
  BY DEF Assumptions, ConnectAssumption
<1>5. IsFiniteSet(others) /\ Cardinality(others) = Cardinality(Callers) - 1
  BY <1>4, FS_RemoveElement
<1>6. IsFiniteSet(image) /\ Cardinality(image) <= Cardinality(others)
  <2> DEFINE f == [d \in others |-> call[d].list]
  <2>1. f \in Surjection(others, image)
    BY DEF Surjection
  <2> QED
    BY <1>5, <2>1, FS_Surjection
<1>7. Cardinality(Callers) <= Cardinality(image)
  BY <1>3, <1>6, FS_Subset
<1> QED
  BY <1>4, <1>5, <1>6, <1>7, FS_CardinalityType

\* Replacing the stored list keeps lists and calls well formed.
LEMMA ReplaceTyped ==
  ASSUME Inv, NEW new \in [all : SUBSET Hosts, ok : SUBSET Hosts], new.ok \subseteq new.all,
         Replace(new)
  PROVE  /\ lists' \in [Callers \cup {"stored"} -> [all : SUBSET Hosts, ok : SUBSET Hosts]]
         /\ \A l \in DOMAIN lists' : lists'[l].ok \subseteq lists'[l].all
  BY DEF Inv, TypeOK, Replace, NoList

LEMMA KeptSound ==
  ASSUME Assumptions, Inv
  PROVE  /\ Kept \in [Callers -> Calls]
         /\ \A d \in Callers : Sound(Kept[d], cfg, secret, writer)
<1>1. ASSUME NEW d \in Callers
      PROVE  Sound(Kept[d], cfg, secret, writer)
  <2> PICK k : k = call[d]
    OBVIOUS
  <2>0. Sound(k, cfg, secret, writer) /\ k \in Calls
    BY DEF Inv, SoundCalls, Sound
  <2>1. CASE k.list = "stored"
    <3> PICK l : l = Spare
      OBVIOUS
    <3> PICK r : r = [k EXCEPT !.list = l]
      OBVIOUS
    <3>1. l \in Callers /\ l # None
      BY <2>1, SpareFree DEF Held, Assumptions, ConnectAssumption
    <3>2. r \in Calls
      BY <2>0, <3>1 DEF Calls
    <3>3. Credentials(r, cfg, secret) /\ Roles(r, cfg, writer)
      BY <2>0 DEF Sound, Calls, Credentials, Roles
    <3>4. Owned(r) /\ Ended(r, cfg)
      BY <2>0 DEF Sound, Calls, Owned, Ended, Where
    <3>5. InPlace(r, cfg)
      BY <2>0, <3>1 DEF Sound, Calls, InPlace, Where
    <3> QED
      BY <2>1, <3>2, <3>3, <3>4, <3>5 DEF Sound, Kept
  <2>2. CASE k.list # "stored"
    BY <2>0, <2>2 DEF Kept
  <2> QED
    BY <2>1, <2>2
<1> QED
  BY <1>1 DEF Sound, Kept

LEMMA NewListTyped ==
  ASSUME Assumptions, Inv, NEW l \in NewLists
  PROVE  l \in [all : SUBSET Hosts, ok : SUBSET Hosts] /\ l.ok \subseteq l.all
  BY DEF NewLists, Assumptions, ConnectAssumption, Inv, TypeOK

\* The connection of the context is returned, or one to the given host requested.
LEMMA OwnConnectionSound ==
  ASSUME Assumptions, Inv, NEW c \in Callers, Clear(call[c], cfg, writer), cfg.plugin # "initial",
         NEW ret \in {"plain", "lmRouter"}, ret = "lmRouter" => call[c].list # None
  PROVE  Sound(OwnConnection(c, ret), cfg, secret, writer)
<1> PICK k : k = call[c]
  OBVIOUS
<1>0. cfg \in Configs /\ secret \in 0..MaxRotations /\ writer \in Hosts /\ k \in Calls
  BY DEF Inv, TypeOK
<1>1. CASE k.conn # None
  <2>1. /\ k.open = {k.conn} /\ k.conn \in Handles \cup {None}
        /\ ~ k.verified /\ (cfg.auth = "none" => ~ k.fetched) /\ (k.res = "login" => k.rotated)
    BY <1>0, <1>1 DEF Clear, Calls
  <2>2. Sound(Done(k, "ok", k.conn), cfg, secret, writer)
    BY <1>0, <2>1, DoneSound DEF Results
  <2> QED
    BY <1>1, <2>2 DEF OwnConnection
<1>2. CASE k.conn = None
  <2>1. Sound(ConnectTo(k, cfg.url, ret), cfg, secret, writer)
    BY <1>0, <1>2, ConfigFacts, ConnectToSound DEF Answers, Fresh
  <2> QED
    BY <1>2, <2>1 DEF OwnConnection
<1> QED
  BY <1>1, <1>2

\* Steps of the limitless plugin between two requests.
LEMMA LimitlessFacts ==
  ASSUME Inv, NEW c \in Callers, call[c].pc \in Between \ {"pick", "monitor", "ask", "wait"}
  PROVE  /\ cfg \in Configs /\ secret \in 0..MaxRotations /\ writer \in Hosts
         /\ Sound(call[c], cfg, secret, writer) /\ call[c] \in Calls
         /\ Clear(call[c], cfg, writer) /\ call[c].cand = None /\ cfg.plugin # "initial"
         /\ call[c].pc = "lmStart" => call[c].conn = None
         /\ call[c].pc \in {"lmChoose", "lmRetry", "lmStill"} => call[c].list # None
<1>1. /\ cfg \in Configs /\ secret \in 0..MaxRotations /\ writer \in Hosts
      /\ Sound(call[c], cfg, secret, writer) /\ call[c] \in Calls
  BY DEF Inv, TypeOK, SoundCalls
<1>2. /\ call[c].pc \notin Answers \cup Logging \cup {"idle", "done"}
      /\ call[c].pc \notin {"pick", "identify", "verify", "plain"}
  BY DEF Between, Answers
<1> QED
  BY <1>1, <1>2, SoundIsClear DEF Sound, Owned, InPlace, Where, Fresh

\* A router of the list a call holds.
LEMMA ChooseSound ==
  ASSUME Assumptions, Inv, NEW c \in Callers, Clear(call[c], cfg, writer), call[c].list # None,
         cfg.plugin # "initial", NEW h \in Available(c), NEW ret \in {"lmSelected", "lmLeast"}
  PROVE  Sound(ConnectTo(call[c], h, ret), cfg, secret, writer)
<1>1. secret \in 0..MaxRotations /\ writer \in Hosts /\ call[c].list \in Callers \cup {"stored"}
  BY DEF Inv, TypeOK, Calls
<1>2. h \in HostOrNone
  BY <1>1 DEF Available, HostOrNone, Inv, TypeOK
<1> QED
  BY <1>1, <1>2, ConnectToSound DEF Answers, Fresh

LEMMA DialectSound ==
  ASSUME Assumptions, Inv, NEW c \in Callers, CheckDialect(c) \/ StartMonitoring(c),
         UNCHANGED endpoint
  PROVE  Inv'
<1> PICK k : k = call[c]
  OBVIOUS
<1>1. k.pc \in {"lmStart", "lmMonitor"} /\ k.pc \in Between \ {"pick", "monitor", "ask", "wait"}
  BY DEF CheckDialect, StartMonitoring, At, Between, Steps, Logging, Answers
<1>2. Elsewhere' /\ UNCHANGED <<cfg, secret, writer>>
  BY DEF CheckDialect, StartMonitoring, Inv, TypeOK, Elsewhere, cluster, endpoint, shardGroup
<1>3. /\ Sound([k EXCEPT !.pc = "lmMonitor"], cfg, secret, writer)
      /\ Sound([k EXCEPT !.pc = "lmEstablish"], cfg, secret, writer)
  BY <1>1, LimitlessFacts, MovesSound DEF Between, Steps, Logging, Answers, Fresh
<1>4. k.pc = "lmStart" => Sound(ConnectTo(k, cfg.url, "lmDialect"), cfg, secret, writer)
  BY <1>1, LimitlessFacts, ConfigFacts, ConnectToSound DEF Answers
<1>5. CASE CheckDialect(c)
  BY <1>2, <1>3, <1>4, <1>5, OneCallStep DEF CheckDialect, GoTo, At
<1>6. CASE StartMonitoring(c)
  BY <1>2, <1>3, <1>6, OneCallStep DEF StartMonitoring, GoTo
<1> QED
  BY <1>5, <1>6

LEMMA EstablishSound ==
  ASSUME Assumptions, Inv, NEW c \in Callers,
         EstablishConnection(c) \/ SelectRouter(c) \/ RetryConnect(c), UNCHANGED endpoint
  PROVE  Inv'
<1> PICK k : k = call[c]
  OBVIOUS
<1>1. /\ k.pc \in {"lmEstablish", "lmChoose", "lmRetry", "lmStill"}
      /\ k.pc \in Between \ {"pick", "monitor", "ask", "wait"}
  BY DEF EstablishConnection, SelectRouter, RetryConnect, At, Between, Steps, Logging, Answers
<1>2. Elsewhere' /\ UNCHANGED <<cfg, secret, writer>>
  BY SameElsewhere DEF EstablishConnection, SelectRouter, RetryConnect, cluster
<1>3. /\ cfg \in Configs /\ k \in Calls /\ Clear(k, cfg, writer) /\ k.cand = None
      /\ cfg.plugin # "initial"
      /\ k.pc # "lmEstablish" => k.list # None
  BY <1>1, LimitlessFacts
<1>4. Sound([k EXCEPT !.pc = "lmGet"], cfg, secret, writer)
  BY <1>3, MovesSound DEF Between, Steps, Logging, Answers, Fresh
<1>5. k.list # None => Sound([k EXCEPT !.pc = "lmRetry"], cfg, secret, writer)
  BY <1>3, MovesSound DEF Between, Steps, Logging, Answers, Fresh
<1>6. Sound(OwnConnection(c, "plain"), cfg, secret, writer)
  BY <1>3, OwnConnectionSound
<1>7. k.list # None => Sound(OwnConnection(c, "lmRouter"), cfg, secret, writer)
  BY <1>3, OwnConnectionSound
<1>8. ASSUME k.list # None, NEW ret \in {"lmSelected", "lmLeast"}, Choose(c, ret)
      PROVE  Inv'
  <2>1. PICK h \in Available(c) : Update(c, ConnectTo(call[c], h, ret))
    BY <1>8 DEF Choose
  <2>2. Sound(ConnectTo(call[c], h, ret), cfg, secret, writer)
    BY <1>3, <1>8, ChooseSound
  <2> QED
    BY <1>2, <2>1, <2>2, OneCallStep
<1>9. CASE EstablishConnection(c)
  <2>1. Sound([k EXCEPT !.pc = "lmChoose", !.list = "stored"], cfg, secret, writer)
    <3> PICK j : j = [k EXCEPT !.list = "stored"]
      OBVIOUS
    <3>1. Clear(j, cfg, writer) /\ j.cand = None /\ j.list # None
      BY <1>3 DEF Clear, Calls, Assumptions, LimitlessAssumption
    <3>2. Sound([j EXCEPT !.pc = "lmChoose"], cfg, secret, writer)
      BY <1>3, <3>1, MovesSound DEF Between, Steps, Logging, Answers, Fresh
    <3>3. [j EXCEPT !.pc = "lmChoose"] = [k EXCEPT !.pc = "lmChoose", !.list = "stored"]
      BY <1>3 DEF Calls
    <3> QED
      BY <3>2, <3>3
  <2> QED
    BY <1>2, <1>4, <1>6, <1>9, <2>1, OneCallStep DEF EstablishConnection, GoTo
<1>10. CASE SelectRouter(c)
  <2>1. k.list # None
    BY <1>3, <1>10 DEF SelectRouter, At
  <2> QED
    BY <1>2, <1>5, <1>7, <1>8, <1>10, <2>1, OneCallStep DEF SelectRouter, GoTo
<1>11. CASE RetryConnect(c)
  <2>1. k.list # None
    BY <1>3, <1>11 DEF RetryConnect
  <2> QED
    BY <1>2, <1>4, <1>6, <1>8, <1>11, <2>1, OneCallStep DEF RetryConnect, GoTo
<1> QED
  BY <1>9, <1>10, <1>11

\* The answers of the limitless plugin.
LEMMA LimitlessAnswers ==
  ASSUME Inv, NEW c \in Callers,
         call[c].pc \in {"lmDialect", "lmRouter", "lmSelected", "lmLeast", "lmOpened"}
  PROVE  /\ cfg \in Configs /\ secret \in 0..MaxRotations /\ writer \in Hosts
         /\ Sound(call[c], cfg, secret, writer) /\ call[c] \in Calls
         /\ call[c].pc \in Answers /\ cfg.plugin # "initial"
         /\ call[c].pc \in {"lmDialect", "lmRouter", "lmOpened"} => call[c].conn = None
         /\ call[c].pc \in {"lmRouter", "lmSelected", "lmLeast"} => call[c].list # None
  BY DEF Inv, TypeOK, SoundCalls, Sound, Owned, InPlace, Where, Logging, Answers, Fresh

\* Without a new connection the call has the one it keeps; with one it may keep that.
LEMMA AnswerClear ==
  ASSUME NEW f, NEW s, NEW w, NEW k, Sound(k, f, s, w), k.pc \in Answers
  PROVE  /\ k.res # "ok" => Clear(k, f, w)
         /\ k.res = "ok" /\ k.conn = None => Clear([k EXCEPT !.conn = k.cand], f, w)
<1>1. /\ k \in Calls /\ w \in k.writers /\ ~ k.verified
      /\ f.auth = "none" => ~ k.fetched
      /\ "login" \in {k.res, k.outcome} => k.rotated
      /\ k.open = {k.cand, k.conn} \ {None}
      /\ k.res = "ok" <=> k.cand # None
      /\ k.cand \in Handles \cup {None}
  BY AnswerFacts
<1>2. k.res # "ok" => Clear(k, f, w)
  BY <1>1 DEF Clear
<1>3. ASSUME k.res = "ok", k.conn = None
      PROVE  Clear([k EXCEPT !.conn = k.cand], f, w)
  <2> PICK j : j = [k EXCEPT !.conn = k.cand]
    OBVIOUS
  <2>1. j \in Calls
    BY <1>1 DEF Calls
  <2>2. /\ j.open = k.open /\ j.conn = k.cand
        /\ j.fetched = k.fetched /\ j.res = k.res /\ j.outcome = k.outcome
        /\ j.rotated = k.rotated /\ j.writers = k.writers /\ j.verified = k.verified
    BY <1>1 DEF Calls
  <2>3. k.open = {k.cand} \ {None}
    BY <1>1, <1>3
  <2> QED
    BY <1>1, <2>1, <2>2, <2>3 DEF Clear
<1> QED
  BY <1>2, <1>3

\* A call that fails, whatever it leaves behind.
LEMMA FailSound ==
  ASSUME Assumptions, NEW f \in Configs, f.plugin # "initial", NEW s, NEW w, NEW k \in Calls,
         f.auth = "none" => ~ k.fetched, ~ k.verified, "login" \in {k.res, k.outcome} => k.rotated,
         NEW outcome \in {k.res, "error"}, outcome # "ok"
  PROVE  Sound(Done(k, outcome, None), f, s, w)
<1>1. outcome \in Results
  BY DEF Calls, Results
<1> QED
  BY <1>1, DoneSound

LEMMA LimitlessDialectSound ==
  ASSUME Assumptions, Inv, NEW c \in Callers, Dialect(c), UNCHANGED endpoint
  PROVE  Inv'
<1> PICK k : k = call[c]
  OBVIOUS
<1>1. k.pc = "lmDialect"
  BY DEF Dialect, At
<1>2. /\ cfg \in Configs /\ Sound(k, cfg, secret, writer) /\ k \in Calls /\ k.pc \in Answers
      /\ cfg.plugin # "initial" /\ k.conn = None
  BY <1>1, LimitlessAnswers
<1>3. Elsewhere' /\ UNCHANGED <<cfg, secret, writer>>
  BY SameElsewhere DEF Dialect, cluster
<1>4. ASSUME NEW outcome \in {k.res, "error"}, outcome # "ok", Update(c, Done(k, outcome, None))
      PROVE  Inv'
  <2>1. ~ k.verified /\ (cfg.auth = "none" => ~ k.fetched)
        /\ ("login" \in {k.res, k.outcome} => k.rotated)
    BY <1>2, AnswerFacts
  <2>2. Sound(Done(k, outcome, None), cfg, secret, writer)
    BY <1>2, <1>4, <2>1, FailSound
  <2> QED
    BY <1>3, <1>4, <2>2, OneCallStep
<1>5. ASSUME k.res = "ok", Update(c, Settled([k EXCEPT !.conn = k.cand], "lmMonitor"))
      PROVE  Inv'
  <2>1. Clear([k EXCEPT !.conn = k.cand], cfg, writer)
    BY <1>2, <1>5, AnswerClear
  <2>2. Sound(Settled([k EXCEPT !.conn = k.cand], "lmMonitor"), cfg, secret, writer)
    BY <1>2, <2>1, SettledSound DEF Between, Steps, Logging, Answers, Fresh
  <2> QED
    BY <1>3, <1>5, <2>2, OneCallStep
<1> QED
  BY <1>4, <1>5 DEF Dialect

LEMMA ConnectedSound ==
  ASSUME Assumptions, Inv, NEW c \in Callers, Connected(c), UNCHANGED endpoint
  PROVE  Inv'
<1> PICK k : k = call[c]
  OBVIOUS
<1>1. k.pc \in {"lmRouter", "lmSelected", "lmLeast"}
  BY DEF Connected
<1>2. /\ cfg \in Configs /\ Sound(k, cfg, secret, writer) /\ k \in Calls /\ k.pc \in Answers
      /\ cfg.plugin # "initial" /\ k.list # None
  BY <1>1, LimitlessAnswers
<1>3. Elsewhere' /\ UNCHANGED <<cfg, secret, writer>>
  <2>1. k.list \in Callers \cup {"stored"}
    BY <1>2 DEF Calls
  <2>2. /\ lists' \in [Callers \cup {"stored"} -> [all : SUBSET Hosts, ok : SUBSET Hosts]]
        /\ \A l \in DOMAIN lists' : lists'[l].ok \subseteq lists'[l].all
    BY <2>1 DEF Connected, Inv, TypeOK
  <2> QED
    BY <2>2 DEF Connected, Inv, TypeOK, Elsewhere, cluster, endpoint
<1>4. /\ writer \in k.writers /\ ~ k.verified
      /\ cfg.auth = "none" => ~ k.fetched
      /\ "login" \in {k.res, k.outcome} => k.rotated
      /\ k.open = {k.cand, k.conn} \ {None}
      /\ k.res = "ok" <=> k.cand # None
      /\ k.cand # None => k.cand # k.conn
      /\ k.cand \in Handles \cup {None} /\ k.conn \in Handles \cup {None}
  BY <1>2, AnswerFacts
<1>5. CASE k.res = "ok"
  <2> PICK j : j = SetConnection(c)
    OBVIOUS
  <2>1. j = [k EXCEPT !.open = k.open \ {k.conn}, !.conn = k.cand]
    BY <1>2 DEF SetConnection, Calls
  <2>2. k.open \ {k.conn} = {k.cand} /\ k.open \ {k.conn} \in SUBSET Handles
    BY <1>2, <1>4, <1>5 DEF Calls
  <2>3. /\ j \in Calls /\ j.open = {k.cand} /\ j.fetched = k.fetched /\ j.res = k.res
        /\ j.rotated = k.rotated /\ j.verified = k.verified
    <3>1. \A open \in SUBSET Handles, x \in Handles \cup {None} :
            [k EXCEPT !.open = open, !.conn = x] \in Calls
      BY <1>2 DEF Calls
    <3>2. [k EXCEPT !.open = k.open \ {k.conn}, !.conn = k.cand] \in Calls
      <4>1. k.open \ {k.conn} \in SUBSET Handles /\ k.cand \in Handles \cup {None}
        BY <1>4, <2>2
      <4> HIDE <2>1, <2>2
      <4> QED
        BY <3>1, <4>1
    <3>3. j \in Calls
      BY <2>1, <3>2
    <3> QED
      BY <1>2, <2>1, <2>2, <3>3 DEF Calls
  <2>4. Sound(Done(j, "ok", k.cand), cfg, secret, writer)
    BY <1>2, <1>4, <1>5, <2>3, DoneSound DEF Results
  <2> QED
    BY <1>3, <1>5, <2>4, OneCallStep DEF Connected
<1>6. CASE k.res = "login"
  <2>1. Sound(Done(k, "login", None), cfg, secret, writer)
    BY <1>2, <1>4, <1>6, FailSound
  <2> QED
    BY <1>3, <1>6, <2>1, OneCallStep DEF Connected
<1>7. CASE k.res \notin {"ok", "login"}
  <2>1. Clear(k, cfg, writer)
    BY <1>2, <1>7, AnswerClear
  <2>2. Sound(Settled(k, "lmRetry"), cfg, secret, writer)
    BY <1>2, <2>1, SettledSound DEF Between, Steps, Logging, Answers, Fresh
  <2> QED
    BY <1>3, <1>7, <2>2, OneCallStep DEF Connected
<1> QED
  BY <1>5, <1>6, <1>7

\* Going on with a list, and after an attempt to get one that failed.
LEMMA ResumeSound ==
  ASSUME Assumptions, NEW c \in Callers, cfg \in Configs, cfg.plugin # "initial",
         Clear(call[c], cfg, writer), NEW l \in Callers \cup {"stored"}
  PROVE  Sound(Resume(c, l), cfg, secret, writer)
<1> PICK k : k = call[c]
  OBVIOUS
<1> PICK j : j = [k EXCEPT !.tries = 0, !.list = l]
  OBVIOUS
<1>1. 0 \in 0..MaxRouterRetries /\ l # None
  BY DEF Assumptions, LimitlessAssumption, ConnectAssumption
<1>2. Clear(j, cfg, writer) /\ j.list # None
  BY <1>1 DEF Clear, Calls
<1>3. \A pc \in {"lmChoose", "lmStill"} : Sound(Settled(j, pc), cfg, secret, writer)
  BY <1>2, SettledSound DEF Between, Steps, Logging, Answers, Fresh
<1> QED
  BY <1>3 DEF Resume

LEMMA GetFailedSound ==
  ASSUME Assumptions, NEW c \in Callers, cfg \in Configs, cfg.plugin # "initial",
         Clear(call[c], cfg, writer)
  PROVE  Sound(GetFailed(c), cfg, secret, writer)
<1> PICK k : k = call[c]
  OBVIOUS
<1>0. /\ k \in Calls /\ k.list \in Callers \cup {None, "stored"}
      /\ k.tries \in 0..MaxRouterRetries /\ MaxRouterRetries \in Nat
  BY DEF Clear, Calls, Assumptions, LimitlessAssumption
<1>1. k.list # None => Sound(Resume(c, k.list), cfg, secret, writer)
  BY <1>0, ResumeSound
<1>2. Sound(Done(k, "error", None), cfg, secret, writer)
  BY FailSound DEF Clear
<1>3. ASSUME k.tries < MaxRouterRetries
      PROVE  Sound(Settled([k EXCEPT !.tries = @ + 1], "lmGet"), cfg, secret, writer)
  <2> PICK t : t = k.tries + 1
    OBVIOUS
  <2> PICK j : j = [k EXCEPT !.tries = t]
    OBVIOUS
  <2>1. t \in 0..MaxRouterRetries
    BY <1>0, <1>3
  <2>2. Clear(j, cfg, writer)
    BY <2>1 DEF Clear, Calls
  <2>3. Sound(Settled(j, "lmGet"), cfg, secret, writer)
    BY <2>2, SettledSound DEF Between, Steps, Logging, Answers, Fresh
  <2>4. j = [k EXCEPT !.tries = @ + 1]
    OBVIOUS
  <2> QED
    BY <2>3, <2>4
<1> QED
  BY <1>0, <1>1, <1>2, <1>3 DEF GetFailed

LEMMA GetRoutersSound ==
  ASSUME Assumptions, Inv, NEW c \in Callers, LockRouters(c) \/ Opened(c), UNCHANGED endpoint
  PROVE  Inv'
<1> PICK k : k = call[c]
  OBVIOUS
<1>1. Elsewhere' /\ UNCHANGED <<cfg, secret, writer>>
  BY DEF LockRouters, Opened, Unlock, Inv, TypeOK, Elsewhere, cluster, endpoint
<1>2. CASE LockRouters(c)
  <2>1. k.pc = "lmGet" /\ k.pc \in Between \ {"pick", "monitor", "ask", "wait"}
    BY <1>2 DEF LockRouters, At, Between, Steps, Logging, Answers
  <2>2. /\ cfg \in Configs /\ Clear(k, cfg, writer) /\ k.cand = None /\ cfg.plugin # "initial"
        /\ secret \in 0..MaxRotations /\ writer \in Hosts
    BY <2>1, LimitlessFacts
  <2>3. Sound(Resume(c, "stored"), cfg, secret, writer)
    BY <2>2, ResumeSound
  <2>4. k.conn = None => Sound(ConnectTo(k, cfg.url, "lmOpened"), cfg, secret, writer)
    BY <2>2, ConfigFacts, ConnectToSound DEF Answers
  <2>5. Sound([k EXCEPT !.pc = "lmQuery"], cfg, secret, writer)
    BY <2>2, MovesSound DEF Between, Steps, Logging, Answers, Fresh
  <2> QED
    BY <1>1, <1>2, <2>3, <2>4, <2>5, OneCallStep DEF LockRouters, GoTo
<1>3. CASE Opened(c)
  <2>1. k.pc = "lmOpened"
    BY <1>3 DEF Opened, At
  <2>2. /\ cfg \in Configs /\ Sound(k, cfg, secret, writer) /\ k.pc \in Answers
        /\ cfg.plugin # "initial" /\ k.conn = None
    BY <2>1, LimitlessAnswers
  <2>3. CASE k.res = "ok"
    <3>1. Clear([k EXCEPT !.conn = k.cand], cfg, writer)
      BY <2>2, <2>3, AnswerClear
    <3>2. Sound(Settled([k EXCEPT !.conn = k.cand], "lmQuery"), cfg, secret, writer)
      BY <2>2, <3>1, SettledSound DEF Between, Steps, Logging, Answers, Fresh
    <3> QED
      BY <1>1, <1>3, <2>3, <3>2, OneCallStep DEF Opened
  <2>4. CASE k.res # "ok"
    <3>1. Clear(k, cfg, writer)
      BY <2>2, <2>4, AnswerClear
    <3>2. Sound(GetFailed(c), cfg, secret, writer)
      BY <2>2, <3>1, GetFailedSound
    <3> QED
      BY <1>1, <1>3, <2>4, <3>2, OneCallStep DEF Opened
  <2> QED
    BY <2>3, <2>4
<1> QED
  BY <1>2, <1>3

LEMMA QueryRoutersSound ==
  ASSUME Assumptions, Inv, NEW c \in Callers, QueryRouters(c), UNCHANGED endpoint
  PROVE  Inv'
<1> PICK k : k = call[c]
  OBVIOUS
<1>1. k.pc = "lmQuery" /\ k.pc \in Between \ {"pick", "monitor", "ask", "wait"}
  BY DEF QueryRouters, At, Between, Steps, Logging, Answers
<1>2. cfg \in Configs /\ Clear(k, cfg, writer) /\ cfg.plugin # "initial"
  BY <1>1, LimitlessFacts
<1>3. ASSUME NEW l \in NewLists, Replace(l), UNCHANGED faults,
             call' = [Kept EXCEPT ![c] = Resume(c, "stored")]
      PROVE  Inv'
  <2>1. Sound(Resume(c, "stored"), cfg, secret, writer)
    BY <1>2, ResumeSound
  <2>2. /\ Kept \in [Callers -> Calls]
        /\ \A d \in Callers : Sound(Kept[d], cfg, secret, writer)
    BY KeptSound
  <2>3. \A d \in Callers : Sound(call'[d], cfg, secret, writer) /\ call' \in [Callers -> Calls]
    BY <1>3, <2>1, <2>2 DEF Sound
  <2>4. Elsewhere' /\ UNCHANGED <<cfg, secret, writer>>
    BY <1>3, NewListTyped, ReplaceTyped
       DEF QueryRouters, Unlock, Inv, TypeOK, Elsewhere, cluster, endpoint
  <2> QED
    BY <2>3, <2>4 DEF Inv, TypeOK, Elsewhere, SoundCalls
<1>4. ASSUME Update(c, GetFailed(c)), Spend, UNCHANGED lists
      PROVE  Inv'
  <2>1. Sound(GetFailed(c), cfg, secret, writer)
    BY <1>2, GetFailedSound
  <2>2. Elsewhere' /\ UNCHANGED <<cfg, secret, writer>>
    BY <1>4, SpendKeeps DEF QueryRouters, Unlock, Inv, TypeOK, Elsewhere, cluster, endpoint
  <2> QED
    BY <1>4, <2>1, <2>2, OneCallStep
<1> QED
  BY <1>3, <1>4 DEF QueryRouters

LEMMA RouterMonitorSound ==
  ASSUME Assumptions, Inv, RouterMonitorStep \/ LimitlessEnvironment, UNCHANGED endpoint
  PROVE  Inv'
<1>1. ASSUME NEW l \in NewLists \cup {NoList}, Replace(l), call' = Kept,
             UNCHANGED <<cluster, cached, faults, lock>>, UNCHANGED rmon
      PROVE  Inv'
  <2>1. /\ Kept \in [Callers -> Calls]
        /\ \A d \in Callers : Sound(Kept[d], cfg, secret, writer)
    BY KeptSound
  <2>2. l \in [all : SUBSET Hosts, ok : SUBSET Hosts] /\ l.ok \subseteq l.all
    BY NewListTyped DEF NoList
  <2>3. Elsewhere' /\ UNCHANGED <<cfg, secret, writer>>
    BY <1>1, <2>2, ReplaceTyped DEF Inv, TypeOK, Elsewhere, cluster, endpoint
  <2> QED
    BY <1>1, <2>1, <2>3 DEF Inv, TypeOK, Elsewhere, SoundCalls
<1>2. ASSUME UNCHANGED <<cluster, cached, call, lists, lock>>, Spend \/ UNCHANGED faults,
             rmon' \in {"none", "open", "query", "ended"}
      PROVE  Inv'
  <2>1. faults' \in 0..cfg.maxFaults
    BY <1>2, SpendKeeps DEF Inv, TypeOK
  <2> QED
    BY <1>2, <2>1 DEF Inv, TypeOK, SoundCalls, cluster, endpoint
<1> QED
  BY <1>1, <1>2
     DEF RouterMonitorStep, LimitlessEnvironment, OpenConnection, MonitorQuery, Recreate,
         RoutersExpire, StopRouterMonitor

-----------------------------------------------------------------------------
(* The endpoint monitors, the database, and the calls themselves.          *)

EndpointTypes ==
  /\ members \in MemberSets /\ info \in MemberSets \cup {None}
  /\ allowed \in MemberSets \cup {None} /\ mcache \in EndpointMonitors \cup {None}
  /\ emon \in [EndpointMonitors ->
               [pc : {"none", "loop", "compare", "put", "sleep"},
                resp : MemberSets \cup {None}, stop : BOOLEAN]]

LEMMA EndpointMonitorSound ==
  ASSUME Assumptions, Inv, UNCHANGED shardGroup,
         EndpointEnvironment \/ \E m \in EndpointMonitors : EndpointMonitorStep(m)
  PROVE  Inv'
<1>1. UNCHANGED <<cluster, cached, call>> /\ (Spend \/ UNCHANGED faults)
  BY DEF EndpointEnvironment, StopMonitor, ChangeMembers, InfoExpires, AllowedExpires,
         EndpointMonitorStep, Describe, Compare, PutInfo, Wake, EndMonitor
<1>2. faults' \in 0..cfg.maxFaults
  BY <1>1, SpendKeeps DEF Inv, TypeOK
<1>3. EndpointTypes'
  <2>0. EndpointTypes
    BY DEF Inv, TypeOK, EndpointTypes
  <2>1. CASE EndpointEnvironment
    BY <2>0, <2>1 DEF EndpointTypes, EndpointEnvironment, StopMonitor, ChangeMembers, InfoExpires,
                AllowedExpires, NoMonitor
  <2>2. ASSUME NEW m \in EndpointMonitors, EndpointMonitorStep(m)
        PROVE  EndpointTypes'
    <3>1. CASE Describe(m) \/ Wake(m)
      BY <2>0, <3>1 DEF EndpointTypes, Describe, Wake, MonitorTo
    <3>2. CASE Compare(m) \/ PutInfo(m)
      <4>1. emon[m].resp \in MemberSets \cup {None}
        BY <2>0 DEF EndpointTypes
      <4> QED
        BY <2>0, <3>2, <4>1 DEF EndpointTypes, Compare, PutInfo, MonitorTo
    <3>3. CASE EndMonitor(m)
      BY <2>0, <3>3 DEF EndpointTypes, EndMonitor, NoMonitor
    <3> QED
      BY <2>2, <3>1, <3>2, <3>3 DEF EndpointMonitorStep
  <2> QED
    BY <2>1, <2>2
<1> QED
  BY <1>1, <1>2, <1>3 DEF EndpointTypes, Inv, TypeOK, SoundCalls, cluster, shardGroup

\* The credentials change, and calls in progress are told,
LEMMA RotatedSound ==
  ASSUME NEW f, NEW s, NEW t, NEW w, NEW k, Sound(k, f, s, w)
  PROVE  IF k.pc \in {"idle", "done"} THEN Sound(k, f, t, w)
         ELSE Sound([k EXCEPT !.rotated = TRUE], f, t, w)
<1>1. CASE k.pc \in {"idle", "done"}
  BY <1>1 DEF Sound, Credentials
<1>2. CASE k.pc \notin {"idle", "done"}
  <2> PICK r : r = [k EXCEPT !.rotated = TRUE]
    OBVIOUS
  <2>1. r \in Calls
    BY DEF Sound, Calls
  <2>2. Credentials(r, f, t)
    BY DEF Sound, Calls, Credentials
  <2>3. Roles(r, f, w) /\ Owned(r) /\ Ended(r, f) /\ InPlace(r, f)
    BY DEF Sound, Calls, Roles, Owned, Ended, InPlace, Where
  <2> QED
    BY <1>2, <2>1, <2>2, <2>3 DEF Sound
<1> QED
  BY <1>1, <1>2

\* or the writer.
LEMMA FailedOverSound ==
  ASSUME NEW f, NEW s, NEW w, NEW h \in Hosts, NEW k, Sound(k, f, s, w)
  PROVE  IF k.pc \in {"idle", "done"} THEN Sound(k, f, s, h)
         ELSE Sound([k EXCEPT !.writers = @ \cup {h}], f, s, h)
<1>1. CASE k.pc \in {"idle", "done"}
  BY <1>1 DEF Sound, Roles
<1>2. CASE k.pc \notin {"idle", "done"}
  <2> PICK ws : ws = k.writers \cup {h}
    OBVIOUS
  <2> PICK r : r = [k EXCEPT !.writers = ws]
    OBVIOUS
  <2>0. ws \in SUBSET Hosts /\ k \in Calls /\ h \in ws
    BY DEF Sound, Calls
  <2>1. r \in Calls
    BY <2>0 DEF Calls
  <2>2. Roles(r, f, h)
    BY <1>2, <2>0 DEF Sound, Calls, Roles
  <2>3. Credentials(r, f, s) /\ Owned(r) /\ Ended(r, f) /\ InPlace(r, f)
    BY <2>0 DEF Sound, Calls, Credentials, Owned, Ended, InPlace, Where
  <2>4. r = [k EXCEPT !.writers = @ \cup {h}]
    OBVIOUS
  <2> QED
    BY <1>2, <2>1, <2>2, <2>3, <2>4 DEF Sound
<1> QED
  BY <1>1, <1>2

LEMMA EnvironmentSound ==
  ASSUME Assumptions, Inv, EnvironmentStep, UNCHANGED <<endpoint, shardGroup>>
  PROVE  Inv'
<1>1. CASE Rotate
  <2>1. \A c \in Callers : Sound(call'[c], cfg, secret', writer)
    <3> SUFFICES ASSUME NEW c \in Callers
                 PROVE  Sound(call'[c], cfg, secret', writer)
      OBVIOUS
    <3>1. call'[c] = IF call[c].pc \in {"idle", "done"} THEN call[c]
                     ELSE [call[c] EXCEPT !.rotated = TRUE]
      BY <1>1 DEF Rotate, Told
    <3>2. Sound(call[c], cfg, secret, writer)
      BY DEF Inv, SoundCalls
    <3> QED
      BY <3>1, <3>2, RotatedSound
  <2>2. call' \in [Callers -> Calls]
    BY <1>1, <2>1 DEF Rotate, Told, Sound
  <2> QED
    BY <1>1, <2>1, <2>2
       DEF Rotate, Inv, TypeOK, SoundCalls, endpoint, shardGroup, Assumptions, ConnectAssumption
<1>2. CASE FailOver
  <2>0. PICK h \in Hosts : /\ writer' = h
                           /\ Told(LAMBDA c : [call[c] EXCEPT !.writers = @ \cup {h}])
    BY <1>2 DEF FailOver
  <2>1. \A c \in Callers : Sound(call'[c], cfg, secret, h)
    <3> SUFFICES ASSUME NEW c \in Callers
                 PROVE  Sound(call'[c], cfg, secret, h)
      OBVIOUS
    <3>1. call'[c] = IF call[c].pc \in {"idle", "done"} THEN call[c]
                     ELSE [call[c] EXCEPT !.writers = @ \cup {h}]
      BY <2>0 DEF Told
    <3>2. Sound(call[c], cfg, secret, writer)
      BY DEF Inv, SoundCalls
    <3> QED
      BY <3>1, <3>2, FailedOverSound
  <2>2. call' \in [Callers -> Calls]
    BY <2>0, <2>1 DEF Told, Sound
  <2>3. faults' \in 0..cfg.maxFaults
    BY <1>2, SpendKeeps DEF FailOver
  <2> QED
    BY <1>2, <2>0, <2>1, <2>2, <2>3 DEF FailOver, Inv, TypeOK, SoundCalls, endpoint, shardGroup
<1>3. CASE CredentialsExpire \/ DnsFollows
  BY <1>3 DEF CredentialsExpire, DnsFollows, Inv, TypeOK, SoundCalls, cluster, endpoint, shardGroup
<1> QED
  BY <1>1, <1>2, <1>3 DEF EnvironmentStep

\* A caller between two calls.
LEMMA NoCallSound ==
  ASSUME Assumptions, NEW f, NEW s, NEW w, NEW t \in HostOrNone, NEW i \in HostOrNone
  PROVE  Sound(NoCall(t, i), f, s, w)
<1> PICK r : r = NoCall(t, i)
  OBVIOUS
<1>1. r \in Calls
  BY DEF NoCall, Calls, Steps, Results, HostOrNone, Handles, Assumptions, LimitlessAssumption
<1>2. Credentials(r, f, s) /\ Roles(r, f, w)
  BY DEF NoCall, Credentials, Roles
<1>3. Owned(r) /\ Ended(r, f) /\ InPlace(r, f)
  BY DEF NoCall, Owned, Ended, InPlace, Where, Logging, Answers
<1> QED
  BY <1>1, <1>2, <1>3 DEF Sound

LEMMA CallerSound ==
  ASSUME Assumptions, Inv, NEW c \in Callers, Connect(c) \/ Finish(c) \/ TimeIsUp(c),
         UNCHANGED <<endpoint, shardGroup>>
  PROVE  Inv'
<1> PICK k : k = call[c]
  OBVIOUS
<1>0. /\ cfg \in Configs /\ secret \in 0..MaxRotations /\ writer \in Hosts
      /\ Sound(k, cfg, secret, writer) /\ k \in Calls
  BY DEF Inv, TypeOK, SoundCalls
<1>1. Elsewhere' /\ UNCHANGED <<cfg, secret, writer>>
  BY SameElsewhere DEF Connect, Finish, TimeIsUp, cluster
<1>2. CASE Connect(c)
  <2> PICK j : j = [k EXCEPT !.writers = {writer}]
    OBVIOUS
  <2>1. k.pc = "idle" /\ k.conn = None /\ k.cand = None /\ k.open = {} /\ ~ k.verified
    BY <1>0, <1>2 DEF Connect, At, Sound, Owned, Roles, Where, Logging, Answers, Fresh
  <2>2. {writer} \in SUBSET Hosts
    BY <1>0
  <2>3. j \in Calls
    BY <1>0, <2>2 DEF Calls
  <2>4. /\ j.conn = None /\ j.cand = None /\ j.open = {} /\ ~ j.verified /\ writer \in j.writers
        /\ j.fetched = k.fetched /\ j.res = k.res /\ j.outcome = k.outcome /\ j.rotated = k.rotated
    BY <1>0, <2>1 DEF Calls
  <2>5. Clear(j, cfg, writer)
    BY <1>0, <2>3, <2>4 DEF Clear, Sound, Credentials
  <2>6. \A ret \in {"plain", "staleCheck"} : cfg.plugin # "initial" =>
          Sound(ConnectTo(j, cfg.url, ret), cfg, secret, writer)
    BY <1>0, <2>4, <2>5, ConfigFacts, ConnectToSound DEF Answers
  <2>7. \A pc \in {"pick", "monitor", "lmStart"} : (cfg.plugin = "initial" => pc = "pick") =>
          Sound([j EXCEPT !.pc = pc], cfg, secret, writer)
    BY <1>0, <2>4, <2>5, MovesSound DEF Between, Steps, Logging, Answers
  <2>8. Sound(Begin(j), cfg, secret, writer)
    BY <2>6, <2>7, ConfigFacts DEF Begin
  <2> QED
    BY <1>1, <1>2, <2>8, OneCallStep DEF Connect
<1>3. CASE Finish(c)
  <2>1. \A t, w \in HostOrNone : Sound(NoCall(t, w), cfg, secret, writer)
    BY NoCallSound, <1>0
  <2>2. k.topo \in HostOrNone /\ k.writerInfo \in HostOrNone /\ None \in HostOrNone
    BY <1>0 DEF Calls, HostOrNone
  <2> QED
    BY <1>1, <1>3, <2>1, <2>2, OneCallStep DEF Finish, Update
<1>4. CASE TimeIsUp(c)
  <2> PICK r : r = [k EXCEPT !.late = TRUE]
    OBVIOUS
  <2>1. r \in Calls
    BY <1>0 DEF Calls
  <2>2. Credentials(r, cfg, secret) /\ Roles(r, cfg, writer)
    BY <1>0 DEF Sound, Calls, Credentials, Roles
  <2>3. Owned(r) /\ Ended(r, cfg) /\ InPlace(r, cfg)
    BY <1>0 DEF Sound, Calls, Owned, Ended, InPlace, Where
  <2>4. Sound(r, cfg, secret, writer)
    BY <2>1, <2>2, <2>3 DEF Sound
  <2> QED
    BY <1>1, <1>4, <2>4, OneCallStep DEF TimeIsUp
<1> QED
  BY <1>2, <1>3, <1>4

-----------------------------------------------------------------------------
(* The theorems.                                                           *)

LEMMA InvInitially ==
  ASSUME Assumptions, Init
  PROVE  Inv
<1>1. \A c \in Callers : Sound(call[c], cfg, secret, writer)
  BY NoCallSound DEF Init, HostOrNone
<1>2. call \in [Callers -> Calls]
  BY <1>1 DEF Init, Sound
<1> QED
  BY <1>1, <1>2
     DEF Init, EndpointInit, LimitlessInit, NoMonitor, NoList, Inv, TypeOK, SoundCalls,
         Assumptions, ConnectAssumption

LEMMA InvKept ==
  ASSUME Assumptions, Inv, [Next]_vars
  PROVE  Inv'
<1>1. ASSUME NEW c \in Callers, CallStep(c)
      PROVE  Inv'
  <2>1. CASE AuthStep(c) /\ UNCHANGED <<endpoint, shardGroup>>
    BY <2>1, AuthSound
  <2>2. CASE InitialStep(c) /\ UNCHANGED <<endpoint, shardGroup>>
    BY <2>2, PickSound, CheckCandidateSound, PlainSound, StaleDnsSound DEF InitialStep
  <2>3. CASE EndpointStep(c) /\ UNCHANGED shardGroup
    BY <2>3, EndpointSound
  <2>4. CASE LimitlessStep(c) /\ UNCHANGED endpoint
    BY <2>4, DialectSound, LimitlessDialectSound, EstablishSound, ConnectedSound,
       GetRoutersSound, QueryRoutersSound DEF LimitlessStep
  <2> QED
    BY <1>1, <2>1, <2>2, <2>3, <2>4 DEF CallStep
<1>2. CASE UNCHANGED vars
  BY <1>2 DEF vars, Inv, TypeOK, SoundCalls, cluster, endpoint, shardGroup
<1> QED
  BY <1>1, <1>2, CallerSound, GetRoutersSound, EndpointMonitorSound, EnvironmentSound,
     RouterMonitorSound DEF Next

LEMMA AlwaysInv == Spec => []Inv
<1>1. Assumptions
  BY ConnectAssumption, LimitlessAssumption, EndpointAssumption DEF Assumptions
<1>2. Init => Inv
  BY <1>1, InvInitially
<1>3. Inv /\ [Next]_vars => Inv'
  BY <1>1, InvKept
<1> QED
  BY <1>2, <1>3, PTL DEF Spec

\* Every variable keeps its type: the calls of all plugins, the caches, the lists of
\* routers with the names they move to, the monitors, within the bounds of retries,
\* rotations and faults.
THEOREM TypeCorrect == Spec => []TypeOK
<1>1. Inv => TypeOK
  BY DEF Inv
<1> QED
  BY <1>1, AlwaysInv, PTL

\* A login refused by the database is reported only if the credentials changed
\* during the call, for any number of callers that share the cache.
THEOREM StaleLoginsRetried == Spec => []NoStaleLogin
<1>1. Inv => NoStaleLogin
  BY DEF Inv, SoundCalls, Sound, Credentials, NoStaleLogin
<1> QED
  BY <1>1, AlwaysInv, PTL

\* A connection returned as verified for the writer endpoint leads to a host that was
\* the writer at some time of the call, however often the cluster fails over.
THEOREM RolesVerified == Spec => []VerifiedRole
<1>1. Inv => VerifiedRole
  BY DEF Inv, SoundCalls, Sound, Roles, VerifiedRole
<1> QED
  BY <1>1, AlwaysInv, PTL

\* A call that succeeds hands over its one open connection, and a call of the initial
\* connection plugin that fails leaves none open.
THEOREM HandsOver == Spec => []Handover
<1>1. Inv => Handover
  BY DEF Inv, SoundCalls, Sound, Ended, Handover, At
<1> QED
  BY <1>1, AlwaysInv, PTL

=============================================================================
