SPECIFICATION Spec
CONSTANTS
  d1 = d1
  d2 = d2
  Device <- TwoDevices
  Cas <- Both
  MaxEdits = 2
  MaxFaults = 0
INVARIANT MapFollowsApply
CHECK_DEADLOCK FALSE
