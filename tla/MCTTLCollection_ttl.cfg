SPECIFICATION Spec
CONSTANTS
  i1 = i1
  i2 = i2
  Items <- TwoItems
  Ttls <- ShortTtls
  None = None
  Infinity <- Forever
  Loads = {FALSE, TRUE}
  Slack = 1
  MaxDelay = 5
  LoadTime = 20
  MaxTime = 23
  MaxTimers = 2
SYMMETRY Symmetric
CHECK_DEADLOCK FALSE
INVARIANTS PurgeListExact SweepInTime FocusedEnough
PROPERTIES ForgetsInTime
