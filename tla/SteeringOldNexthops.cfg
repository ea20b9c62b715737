CONSTANTS
  MAX_NEXTHOPS = 2
  WEIGHT_DENOMINATOR = 4
  FloorInverse = 4
  RateInverse = 100
  Precision = 3
  Nlris = {"n1", "n2"}
  PathIds = {1, 2, 3}
  Nexthops = {1, 2}
  Updates <- RouteUpdates
  Snapshots <- NoRtt
  ChannelCapacity = 1
  FibCapacity = 1
SPECIFICATION Spec
INVARIANT OldNexthopsRemoved
