CONSTANTS
  Streams = {"bind", "write", "lock"}
  Keys = {k1, k2}
  Writers = {w1, w2}
  NoKey = NoKey
  None = None
  MaxAccesslogSeriesPerVec = 1
  MaxOps = 2
SPECIFICATION FairSpec
INVARIANTS
  ScanInv
  EmittedOnce
  LossExplained
PROPERTIES
  EntriesReachConsumer
CHECK_DEADLOCK FALSE
