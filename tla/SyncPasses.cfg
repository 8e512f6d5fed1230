SPECIFICATION LiveSpec
CONSTANTS
  d1 = d1
  d2 = d2
  Device <- TwoDevices
  Cas <- Mixed
  MaxEdits = 2
  MaxFaults = 2
INVARIANTS TypeOK NoLandingSkipped OwedIsMarked NewestSurvives
PROPERTY Settles
CHECK_DEADLOCK FALSE
