--------------------------- MODULE Authentication ---------------------------
(***************************************************************************)
(* Connecting to a host of a cluster through the authentication plugins:   *)
(* IAM, federated (ADFS), Okta and AWS Secrets Manager.  They share one    *)
(* scheme: use the cached token or secret, else fetch one and cache it; if *)
(* the login fails with a cached one, fetch again and try once more.       *)
(*                                                                         *)
(* This module also has what the modules of the other connect-time plugins *)
(* share: the cluster, and the calls of Connect.  Such a plugin sends a    *)
(* call here (ConnectTo) and goes on at the step it names, with the        *)
(* outcome.  A secret or token is the number of rotations before it.       *)
(***************************************************************************)
EXTENDS Naturals, FiniteSets

CONSTANTS
  Callers,       \* goroutines that connect, each with its own plugin service
  Hosts,         \* instances of the cluster, or transaction routers
  None,
  Configs,       \* configurations of the plugins, one of which is used
  MaxRotations   \* bound: times the credentials of the database change

ASSUME ConnectAssumption ==
  /\ MaxRotations \in Nat
  /\ None \notin Hosts \cup Callers \cup Hosts \X {0, 1} \cup 0..MaxRotations
  /\ IsFiniteSet(Callers)
  /\ \A f \in Configs :
       /\ f.plugin \in {"none", "initial", "stale", "custom", "limitless"}
       /\ f.auth \in {"none", "iam", "federated", "okta", "secrets"}
       /\ f.wait \in BOOLEAN /\ f.dialect \in BOOLEAN
       /\ f.url \in {"writer", "reader", "other"} \cup Hosts
       /\ f.callers \subseteq Callers
       /\ f.writer \in Hosts /\ f.up \subseteq Hosts
       /\ f.routers \subseteq (SUBSET Hosts) \ {{}}
       /\ f.maxFaults \in Nat   \* bound: faults of a behaviour

VARIABLES
  cfg,       \* the configuration
  writer,    \* the writer of the cluster
  dns,       \* the host the writer endpoint of the cluster resolves to
  secret,    \* the credentials the database accepts
  cached,    \* those in the cache of the plugin
  call,      \* each caller: its call of Connect
  faults

cluster == <<cfg, writer, dns, secret>>

Spend == faults < cfg.maxFaults /\ faults' = faults + 1

(* A connection of a call is a host and a number.                          *)
ConnHost(k) == k[1]

NoCall(t, w) ==
  [pc |-> "idle",
   tgt |-> None, ret |-> "idle", res |-> "none",  \* ConnectTo: where, and then
   cand |-> None,              \* the connection just opened
   conn |-> None,              \* the connection kept, or returned
   open |-> {},                \* the connections of the call that are open
   cred |-> None, fetched |-> FALSE,
   late |-> FALSE,             \* the time limit of the step has passed
   verified |-> FALSE,         \* returned by way of a verification
   unavail |-> {},             \* hosts marked UNAVAILABLE
   list |-> None, tries |-> 0, \* see Limitless
   topo |-> t,                 \* AllHosts of the plugin service: the writer known
   writerInfo |-> w,           \* StaleDnsHelper.writerHostInfo
   rotated |-> FALSE, writers |-> {},  \* what changed meanwhile, for the properties
   outcome |-> "none"]

Update(c, k) == call' = [call EXCEPT ![c] = k]

At(c, pc) == call[c].pc = pc

GoTo(c, pc) == Update(c, [call[c] EXCEPT !.pc = pc])

(* What becomes of a call k.                                               *)

\* The connection is requested; the caller goes on at step ret.
ConnectTo(k, host, ret) ==
  [k EXCEPT !.pc = IF cfg.auth # "none" THEN "auth" ELSE "dial", !.tgt = host, !.ret = ret,
            !.cand = None]

\* ConnectTo ends: the connection is returned, or an error.
Returns(k, res) == [k EXCEPT !.pc = k.ret, !.res = res]

\* The outcome has been dealt with, and the call goes on at pc.
Settled(k, pc) ==
  [k EXCEPT !.pc = pc, !.tgt = None, !.ret = "idle", !.res = "none", !.cand = None]

Done(k, outcome, conn) ==
  [Settled(k, "done") EXCEPT !.outcome = outcome, !.conn = conn, !.list = None, !.tries = 0]

-----------------------------------------------------------------------------
(* The authentication plugins.                                             *)

\* MUTANT of UseCached: a cached token is taken for a new one.
TrustCached(c) ==
  /\ IF cached # None
       THEN Update(c, [call[c] EXCEPT !.pc = "dial", !.cred = cached, !.fetched = TRUE])
       ELSE GoTo(c, "fetch")
  /\ UNCHANGED <<cluster, cached, faults>>

\* The cached token or secret is used if there is one.
UseCached(c) ==
  /\ IF cached # None
       THEN Update(c, [call[c] EXCEPT !.pc = "dial", !.cred = cached, !.fetched = FALSE])
       ELSE GoTo(c, "fetch")
  /\ UNCHANGED <<cluster, cached, faults>>

Fails(c) ==
  /\ Update(c, Returns(call[c], "error")) /\ Spend
  /\ UNCHANGED <<cluster, cached>>

\* connectInternal of each plugin, up to its cache: the region of the host may
\* be unknown (asked of RDS for a global endpoint, with credentials of the
\* identity provider), a parameter missing.  The Secrets Manager plugin has
\* checked its parameters when it was created.
ConnectIam(c) == cfg.auth = "iam" /\ (UseCached(c) \/ Fails(c))
ConnectFederated(c) == cfg.auth = "federated" /\ (UseCached(c) \/ Fails(c))
ConnectOkta(c) == cfg.auth = "okta" /\ (UseCached(c) \/ Fails(c))
ConnectSecretsManager(c) == cfg.auth = "secrets" /\ UseCached(c)

ConnectInternal(c) ==
  /\ At(c, "auth")
  /\ ConnectIam(c) \/ ConnectFederated(c) \/ ConnectOkta(c) \/ ConnectSecretsManager(c)

\* What the service asked for a token or a secret answers, if it does;
Fetched(c) ==
  /\ Update(c, [call[c] EXCEPT !.pc = "store", !.cred = secret, !.fetched = TRUE])
  /\ UNCHANGED <<cluster, cached, faults>>

\* a token for IAM is signed with the credentials of the provider at hand, one of
\* the identity providers needs a SAML assertion and a role first.
FetchIamToken(c) == cfg.auth = "iam" /\ (Fetched(c) \/ Fails(c))
FetchFederatedToken(c) == cfg.auth = "federated" /\ (Fetched(c) \/ Fails(c))
FetchOktaToken(c) == cfg.auth = "okta" /\ (Fetched(c) \/ Fails(c))
FetchSecret(c) == cfg.auth = "secrets" /\ (Fetched(c) \/ Fails(c))

Fetch(c) ==
  /\ At(c, "fetch")
  /\ FetchIamToken(c) \/ FetchFederatedToken(c) \/ FetchOktaToken(c) \/ FetchSecret(c)

\* it is cached, whatever another call has cached since.
Store(c) ==
  /\ At(c, "store")
  /\ cached' = call[c].cred
  /\ GoTo(c, "dial")
  /\ UNCHANGED <<cluster, faults>>

\* Hosts an endpoint may lead to; for a custom endpoint or a shard group it
\* does not matter which one.
Resolve(target) ==
  CASE target \in {"writer", "other"} -> {dns}
    [] target = "reader" -> IF Hosts = {writer} THEN Hosts ELSE Hosts \ {writer}
    [] OTHER             -> {target}

\* A handle for a new connection of the call to the host.
Handle(c, h) == IF <<h, 0>> \in call[c].open THEN <<h, 1>> ELSE <<h, 0>>

LoginFails(c) == cfg.auth # "none" /\ call[c].cred # secret

\* The connection is made; a login that fails with cached credentials is
\* tried again with new ones.
Dial(c) ==
  /\ At(c, "dial")
  /\ \E h \in Resolve(call[c].tgt) :
       \/ /\ Update(c, Returns(call[c], "error"))
          /\ IF h \in cfg.up THEN Spend ELSE UNCHANGED faults
       \/ /\ h \in cfg.up
          /\ UNCHANGED faults
          /\ IF LoginFails(c)
               THEN IF call[c].fetched THEN Update(c, Returns(call[c], "login"))
                                       ELSE GoTo(c, "fetch")
               ELSE Update(c, [Returns(call[c], "ok") EXCEPT !.cand = Handle(c, h),
                                                             !.open = @ \cup {Handle(c, h)}])
  /\ UNCHANGED <<cluster, cached>>

AuthStep(c) == ConnectInternal(c) \/ Fetch(c) \/ Store(c) \/ Dial(c)

-----------------------------------------------------------------------------
(* The database and its endpoints.                                         *)

\* The calls in progress, told of a change.
Told(r(_)) ==
  call' = [c \in Callers |-> IF call[c].pc \in {"idle", "done"} THEN call[c] ELSE r(c)]

Rotate ==
  /\ cfg.auth # "none" /\ secret < MaxRotations
  /\ secret' = secret + 1
  /\ Told(LAMBDA c : [call[c] EXCEPT !.rotated = TRUE])
  /\ UNCHANGED <<cfg, writer, dns, cached, faults>>

CredentialsExpire ==
  /\ cached # None
  /\ cached' = None
  /\ UNCHANGED <<cluster, call, faults>>

FailOver ==
  /\ cfg.plugin \in {"initial", "stale"} /\ Spend
  /\ \E h \in Hosts \ {writer} :
       /\ writer' = h
       /\ Told(LAMBDA c : [call[c] EXCEPT !.writers = @ \cup {h}])
  /\ UNCHANGED <<cfg, dns, secret, cached>>

DnsFollows ==
  /\ dns # writer /\ dns' = writer
  /\ UNCHANGED <<cfg, writer, secret, cached, call, faults>>

\* A time limit of the step the call is in passes.
TimeIsUp(c) ==
  /\ cfg.plugin \in {"initial", "custom"}
  /\ call[c].pc \notin {"idle", "done"} /\ ~ call[c].late
  /\ Update(c, [call[c] EXCEPT !.late = TRUE])
  /\ UNCHANGED <<cluster, cached, faults>>

EnvironmentStep == Rotate \/ CredentialsExpire \/ FailOver \/ DnsFollows

=============================================================================
