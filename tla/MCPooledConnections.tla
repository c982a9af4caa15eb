------------------------- MODULE MCPooledConnections -------------------------
(***************************************************************************)
(* Instances of PooledConnections.                                         *)
(***************************************************************************)
EXTENDS PooledConnections

CONSTANTS h1, h2, h3, c1, c2

MCHostOrder == <<h1, h2, h3>>
MCHosts == {h1, h2, h3}
MCClients == {c1, c2}
MCGoroutines == MCClients \cup {Cleaner, Releaser}

\* No weights, weights for some hosts, weights for others, and an invalid property.
MCWeightSets ==
  {[h \in MCHosts |-> 0], [h \in MCHosts |-> IF h = h1 THEN 2 ELSE 0],
   [h \in MCHosts |-> IF h = h1 THEN 1 ELSE 2], Invalid}

Base == [pooled |-> FALSE, strategy |-> "random", hosts |-> {h1}, track |-> FALSE,
         clients |-> MCClients, expiries |-> 0, failovers |-> 0, changes |-> 0, conns |-> Conns]

\* Pools of one host under expiry and release, and the selectors under changes of
\* the cluster.
Pooled == [Base EXCEPT !.pooled = TRUE, !.expiries = 1]
Selecting ==
  {[Base EXCEPT !.strategy = s, !.hosts = MCHosts, !.clients = {c1}, !.changes = 3, !.conns = {1}] :
     s \in {"highestWeight", "weightedRandom", "roundRobin"}}

\* The tracker over connections of the driver, and over pools.
Tracked == [Base EXCEPT !.track = TRUE, !.failovers = 1, !.conns = {1, 2}]
TrackedPools == [Tracked EXCEPT !.pooled = TRUE, !.hosts = {h1, h2}]

PoolConfigurations == {Pooled, Tracked} \cup Selecting
TrackerConfigurations == {TrackedPools}

=============================================================================
