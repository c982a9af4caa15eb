-------------------------- MODULE MCConnectPlugins --------------------------
(***************************************************************************)
(* Instances of ConnectPlugins with two hosts.  A configuration has two    *)
(* callers where calls interact, and as many faults as its case needs.     *)
(***************************************************************************)
EXTENDS ConnectPlugins

CONSTANTS c1, c2, h1, h2

Config(plugin, wait, dialect, url, callers, max) ==
  [plugin |-> plugin, auth |-> "none", wait |-> wait, dialect |-> dialect,
   url |-> url, callers |-> callers, writer |-> h1, up |-> Hosts, routers |-> {{h1}, {h1, h2}},
   maxFaults |-> max]

\* Routers of which one cannot be reached.
HalfDown(callers, routers) ==
  [Config("limitless", TRUE, TRUE, "other", callers, 0) EXCEPT !.up = {h1}, !.routers = routers]

Auth(auth, callers) ==
  [Config("none", FALSE, FALSE, "other", callers, 1) EXCEPT !.auth = auth]

PluginConfigs ==
  {Auth("iam", Callers)} \cup {Auth(a, {c1}) : a \in {"federated", "okta", "secrets"}}
  \cup {Config("initial", FALSE, FALSE, u, {c1}, 2) : u \in {"writer", "reader"}}
  \cup {Config("stale", FALSE, FALSE, "writer", {c1}, 2)}
  \cup {Config("custom", w, FALSE, "other", {c1}, IF w THEN 2 ELSE 1) : w \in BOOLEAN}
  \cup {Config("limitless", w, d, u, {c1}, 2) : w, d \in BOOLEAN, u \in {"other", h1}}
  \cup {HalfDown(Callers, {{h1, h2}})}

\* The one router that the database lists cannot be reached.
RouterConfigs == {HalfDown({c1}, {{h2}})}

EndpointMembers == {{h1}, {h2}}
=============================================================================
