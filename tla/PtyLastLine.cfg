SPECIFICATION Spec
CONSTANTS
  MaxClients = 1
  MaxPanes = 1
  MaxOpens = 1
  MaxPolls = 0
  MaxChunks = 1
  SCROLLBACK_CAP = 1
  SCROLLBACK_SLACK = 0
  WRITER_QUEUE = 4
  MAX_PENDING = 1
  MAX_SESSIONS = 1
  MAX_DEAD = 1
  MAX_EARLY_SESSIONS = 1
  EARLY_CAP = 2
  None = None
INVARIANT LastLineBeforeExit
CHECK_DEADLOCK FALSE
