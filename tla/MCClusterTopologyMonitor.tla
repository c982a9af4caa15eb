---------------------- MODULE MCClusterTopologyMonitor ----------------------
EXTENDS ClusterTopologyMonitor, TLC

CONSTANTS h1, h2

Scenario(ms, es) == [members |-> ms, events |-> es]
Failing(ms, es) == Scenario(ms, es \cup {"outage"})

\* Each disturbance meets the monitor on its own or with the ones it interferes
\* with; the cluster has two instances where the writer may change.
SafetyScenarios ==
  {Failing({h1}, {"verify"}), Failing({h1}, {"refresh", "expire"}),
   Failing({h1}, {"refresh", "stop", "deny"}), Failing({h1}, {"reset"}),
   Failing({h1}, {"reset", "stop"}),
   Failing({h1}, {"grow"}), Failing({h1, h2}, {"failover"})}

\* Nothing takes the monitoring connection away but the hosts themselves.
QuietScenarios == {Failing({h1}, {"stop", "expire"})}

\* A failover plugin asks for a verified writer, of hosts that answer.
VerifyScenarios == {Scenario({h1}, {"verify"})}
StopScenarios == {Failing({h1}, {"stop"})}
VerifyReaderScenarios == {Failing({h1, h2}, {"verify"})}

Symmetry == Permutations(Conns) \cup Permutations(Routines) \cup Permutations(Callers)
=============================================================================
