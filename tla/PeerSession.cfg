SPECIFICATION FairSpec
CONSTANTS
  OpenDelay = TRUE
  AllowDynamicAs = TRUE
  WritesFail = FALSE
  PeerBgpIds = {1, 3}
  HoldTimes = {0, 180}
  MyBgpId = 2
  Passive = FALSE
  DetectEstablished = FALSE
  FirstEvents <- Started
  AdminEvents = {"TcpConnectionConfirmed"}
  WritesBlock = TRUE
  MaxWaiting = 1
INVARIANTS NoInvalidTransition FsmFollowsConnection TrackedStaysBehind
PROPERTY SetupIsDecided
