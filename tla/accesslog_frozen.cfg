\* One stream fails for good: the event collector never reads the others.
CONSTANTS
  Streams = {"bind", "write", "lock"}
  Keys = {k1}
  Writers = {w1}
  NoKey = NoKey
  None = None
  MaxAccesslogSeriesPerVec = 1
  MaxOps = 1
SPECIFICATION BindFailsSpec
PROPERTIES
  OtherStreamsNotFrozen
CHECK_DEADLOCK FALSE
