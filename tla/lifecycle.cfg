CONSTANTS
  Peers = {p1}
  Manual = {}
  Local = local
  Master = local
  NoValue = NoValue
  Down = Down
  MaxCSN = 1
  Daily = TRUE
  NoFile = NoFile
  MaxDay = 1
SPECIFICATION FairSpec
INVARIANTS
  ProcessInv
  LagMeasured
  NoUseAfterClose
  NothingLeftOpen
PROPERTIES
  KnownPeersSurvive
  ShutdownCompletes
CHECK_DEADLOCK FALSE
