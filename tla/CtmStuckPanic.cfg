SPECIFICATION ReachableSpec
CONSTANTS
  h1 = h1 h2 = h2
  Hosts = {h1, h2}
  Conns = {c1, c2, c3}
  Routines = {r1}
  Callers = {p1}
  NoConn = NoConn NoHost = NoHost NoTopology = NoTopology
  Scenarios <- VerifyScenarios
PROPERTY PanicModeEnds
