CONSTANTS
  MAX_NEXTHOPS = 2
  WEIGHT_DENOMINATOR = 12
  FloorInverse = 6
  RateInverse = 100
  Precision = 3
  Nlris = {"n1"}
  PathIds = {1, 2, 3}
  Nexthops = {1, 2}
  Updates <- LearningUpdates
  Snapshots <- AllRtt
  ChannelCapacity = 1
  FibCapacity = 1
SPECIFICATION Spec
INVARIANTS
  TypeOK
  RibWellFormed
  FibMatchesRib
  FibCoversRib
  WeightsOnSimplex
  FibEntriesUsable
PROPERTIES
  SteeringReachesFib
  CheaperStaysAhead
