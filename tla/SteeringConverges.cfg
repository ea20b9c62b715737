CONSTANTS
  MAX_NEXTHOPS = 3
  WEIGHT_DENOMINATOR = 20
  FloorInverse = 10
  RateInverse = 20
  Precision = 4
  Nlris = {"n1", "n2"}
  PathIds = {1,2,3}
  Nexthops = {1,2,3}
  Updates <- ContendedUpdates
  Snapshots <- RankedRtt
  ChannelCapacity = 1
  FibCapacity = 1
SPECIFICATION FairSpec
PROPERTIES BestNexthopWins RouteEventuallyInstalled
