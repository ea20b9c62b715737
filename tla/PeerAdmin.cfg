SPECIFICATION Spec
CONSTANTS
  OpenDelay = TRUE
  AllowDynamicAs = TRUE
  WritesFail = TRUE
  PeerBgpIds = {1, 3}
  HoldTimes = {180}
  MyBgpId = 2
  Passive = FALSE
  DetectEstablished = FALSE
  FirstEvents <- NotStarted
  AdminEvents = {"ManualStart", "ManualStop", "TcpConnectionConfirmed"}
  WritesBlock = TRUE
  MaxWaiting = 2
INVARIANTS TypeOK DownMeansDown
