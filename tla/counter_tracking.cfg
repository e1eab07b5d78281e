CONSTANTS
  Keys = {"pdu_total", "operations_initiated_abandon"}
  Updaters = {u1, u2}
  None = None
  MaxCounterEntries = 1
  MaxReasonableCounterDelta = 2
  MaxServed <- ServedBound
  MaxRestarts = 1
SPECIFICATION FairSpec
INVARIANTS
  CounterInv
  OvercountExplained
  ExactWhenUndisturbed
PROPERTY
  SkippedUpdateCaughtUp
CHECK_DEADLOCK FALSE
