CONSTANTS
  h1 = h1
  h2 = h2
  h3 = h3
  c1 = c1
  c2 = c2
  None = None
  Invalid = Invalid
  NoPool = NoPool
  NoItem = NoPool
  Cleaner = Cleaner
  Releaser = Releaser
  Hosts <- MCHosts
  Keys <- MCHosts
  HostOrder <- MCHostOrder
  Clients <- MCClients
  Goroutines <- MCGoroutines
  WeightSets <- MCWeightSets
  MaxWeight = 2
  Strategies = {"random", "highestWeight", "weightedRandom", "roundRobin"}
  Pools = {1, 2, 3, 4, 5, 6}
  Items = {1, 2, 3, 4, 5, 6}
  Conns = {1, 2, 3}
  MaxIdleConns = 1
  Configurations <- TrackerConfigurations
SPECIFICATION Spec
PROPERTY
  InvalidationCloses
