SPECIFICATION Spec
CONSTANTS
  Nlris = {n1, bad}
  BadNlris = {bad}
  Nexthops = {h1, h2}
  Readers = {controller, metrics}
  Window = 1
  RingCapacity = 1
  Srtt <- SomeSrtt
  RttMin <- SomeRttMin
  MaxEvents = 3
  MaxClock = 3
INVARIANTS NoFreshSampleLost NoEmptyWindow
PROPERTY SnapshotCountsTheWindow
