SPECIFICATION Spec
CONSTANTS
  Keys = {k1}
  Monitors = {m1, m2, m3}
  Callers = {p1, p2}
  NoMonitor = NoMonitor NoKey = NoKey
  Recreate = FALSE Produces = TRUE
  Ops = {"run", "register", "stopType", "release", "expire", "stall", "busy", "access"}
SYMMETRY Symmetry
INVARIANTS TypeOK StoppedOnce AcceptedNeverLost
