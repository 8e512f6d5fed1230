SPECIFICATION Spec
CONSTANTS
  d1 = d1
  d2 = d2
  Device <- TwoDevices
  Cas <- Neither
  MaxEdits = 2
  MaxFaults = 1
INVARIANT OwedStaysVisible
CHECK_DEADLOCK FALSE
