SPECIFICATION FairSpec
CONSTANTS
  Peers = {"p1", "p2"}
  Routes = {"a", "b", "c", "x"}
  Messages <- Moves
  AnyMessage <- MCAnyMessage
  ChannelCapacity = 1
  MaxEvents = 1
INVARIANTS TypeOK UpdatesKeepTheirMeaning
PROPERTIES ImplementsFeed AnnouncedReachesRib
