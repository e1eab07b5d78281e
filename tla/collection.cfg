CONSTANTS
  GroupOrder <- TaskOrder
  Filters <- Configurations
  MaxTasks = 2
  Callers = {"now"}
  None = None
  Objects = {o1}
  MaxConcurrentCollectors = 1
  MaxCycles = 2
SPECIFICATION FairSpec
INVARIANTS
  CollectionInv
  UpAfterCloseIsLate
  SearchCarriesContext
  SeriesMatchAnswer
PROPERTIES
  CycleEnds
CHECK_DEADLOCK FALSE
