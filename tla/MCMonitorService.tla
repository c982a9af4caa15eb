-------------------------- MODULE MCMonitorService --------------------------
(* Small instances of MonitorService for TLC.                              *)
EXTENDS MonitorService, TLC

Symmetry == Permutations(Monitors) \cup Permutations(Callers) \cup Permutations(Keys)
=============================================================================
