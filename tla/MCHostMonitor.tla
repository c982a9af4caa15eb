---------------------------- MODULE MCHostMonitor ----------------------------
(* Small instances of HostMonitor for TLC. *)
EXTENDS HostMonitor, TLC

CONSTANTS c1, s1, s2, m1

MCConns == {c1}
MCStates == {s1, s2}
MCMonitors == {m1}

MCFaults == {"slow", "reset", "evict", "instant"}

=============================================================================
