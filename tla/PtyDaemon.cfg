SPECIFICATION Spec
CONSTANTS
  MaxClients = 2
  MaxPanes = 2
  MaxOpens = 1
  MaxPolls = 1
  MaxChunks = 2
  SCROLLBACK_CAP = 1
  SCROLLBACK_SLACK = 0
  WRITER_QUEUE = 2
  MAX_PENDING = 1
  MAX_SESSIONS = 2
  MAX_DEAD = 1
  MAX_EARLY_SESSIONS = 2
  EARLY_CAP = 3
  None = None
INVARIANTS TypeOK StreamInOrder AllArrives NoOrphanShell
CHECK_DEADLOCK FALSE
