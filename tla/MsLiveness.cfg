SPECIFICATION ScheduledSpec
CONSTANTS
  Keys = {k1}
  Monitors = {m1, m2}
  Callers = {p1, p2}
  NoMonitor = NoMonitor NoKey = NoKey
  Recreate = FALSE Produces = TRUE
  Ops = {"run", "register", "stop", "release", "expire"}
PROPERTIES ExpiredIsStopped 
