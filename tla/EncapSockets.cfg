SPECIFICATION Spec
CONSTANTS
  AddrBits = 4
  V4Bits = 2
  MappedPrefix = 1
  FloorInverse = 4
  RateInverse = 100
  Precision = 10
  NoSocket = none
  MAX_NEXTHOPS = 3
  WEIGHT_DENOMINATOR = 4
  Cpus = {c1, c2}
  TcpSockets = {tcp}
  UdpSockets = {udp}
  Remote <- OneRemote
  Hosts <- OneHost
  Nets <- V4Nets
  Entries <- SplitEntry
  RingCapacity = 1
INVARIANTS
  TypeOK
  LookupStaysInFamily
  TicketsFollowWeights
  TcpStaysOnOneNexthop
  RttNamesItsPath
PROPERTY FirstNexthopStays
SYMMETRY CpuSymmetry
