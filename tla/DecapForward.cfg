SPECIFICATION Spec
CONSTANTS
  AddrBits = 4
  V4Bits = 2
  MappedPrefix = 1
  Interfaces = {"eth0", "eth1"}
  Ingress = "eth0"
  Routes <- TwoRoutes
  Nexthops <- ThreeNexthops
  Ttls <- SomeTtls
  OtherWords <- SomeWords
INVARIANTS ForwardedIntact
