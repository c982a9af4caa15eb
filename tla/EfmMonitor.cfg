\* Successive statements of a connection, whose states may be in the queues
\* together; the host comes and goes at any time, one other fault.
SPECIFICATION Spec
CONSTANTS
  c1 = c1  s1 = s1  s2 = s2  m1 = m1
  None = None
  Conns <- MCConns
  States <- MCStates
  Monitors <- MCMonitors
  Interval = 1
  Count = 3
  MaxProbe = 1
  FaultKinds <- MCFaults
  MaxFaults = 1
INVARIANTS TypeOK AbortsJustified ActiveDuringExecute
PROPERTIES MonitoredAborted StopCompletes
