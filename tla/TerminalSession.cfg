SPECIFICATION FairSpec
CONSTANTS
  o1 = o1  o2 = o2
  Open <- TwoEpochs
  None = None
  MaxReconnects = 3
INVARIANTS TypeOK NoOrphanShell NoDeadEnd SilentIsWatched
PROPERTY OpenSettles
CHECK_DEADLOCK FALSE
