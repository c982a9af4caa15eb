SPECIFICATION Spec
CONSTANTS
  h1 = h1 h2 = h2
  Hosts = {h1, h2}
  Conns = {c1, c2, c3}
  Routines = {r1, r2}
  Callers = {p1}
  NoConn = NoConn NoHost = NoHost NoTopology = NoTopology
  Scenarios <- SafetyScenarios
SYMMETRY Symmetry
INVARIANTS TypeOK PrivateConns  AnnouncedWriterUsable QuietInRegularMode
