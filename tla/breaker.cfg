\* Late results while Reset and ForceOpen are used, and recovery afterwards.
SPECIFICATION PollingSpec
CONSTANTS
  c1 = c1  c2 = c2  c3 = c3  c4 = c4
  Callers <- FourCallers
  MaxFailures = 2
  SuccessThreshold = 3
  CountCap = 3
  CallbackCap = 1
  ManualControl = TRUE
INVARIANTS ClosedBelowLimit NoLeakedSlot
PROPERTIES HalfOpenStartsFromZero RecoversForGood
