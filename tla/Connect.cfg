SPECIFICATION Spec
CONSTANTS
  c1 = c1
  c2 = c2
  h1 = h1
  h2 = h2
  None = None
  Callers = {c1, c2}
  Hosts = {h1, h2}
  Configs <- PluginConfigs
  MaxRotations = 1
  EndpointMonitors = {m1, m2}
  MemberSets <- EndpointMembers
  MaxRouterRetries = 1
INVARIANTS TypeOK NoStaleLogin  
PROPERTIES RestrictionFollows ConnectReturns
CHECK_DEADLOCK FALSE
