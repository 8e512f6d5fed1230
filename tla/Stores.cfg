SPECIFICATION Spec
CONSTANTS
  main = main
  settings = settings
  hosts = hosts
  groups = groups
  Key <- TwoKeys
  Profiles <- Situations
SYMMETRY Interchangeable
INVARIANTS AckedSurvive SessionSeesOwnEdits BlindNeverWritten CacheCoherent
PROPERTY SnapshotNeverShrinks
CHECK_DEADLOCK FALSE
