SPECIFICATION RoundsSpec
CONSTANTS
  Device = {"d1", "d2"}
  Carry = {"d1"}
  Stamps <- OneStamp
  Names = {0, 1}
  Bodies = {0, 1, 2}
  MaxCorrections = 4
INVARIANT MergeIsSound
PROPERTY RoundsSettle
CHECK_DEADLOCK FALSE
