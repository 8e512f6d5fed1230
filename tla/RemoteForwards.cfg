SPECIFICATION RemoteSpec
CONSTANTS
  r1 = r1  r2 = r2  r3 = r3  r4 = r4  r5 = r5  p1 = p1  p2 = p2  p3 = p3  p4 = p4
  Opener = {r1, r2, r3, r4, r5}
  Port = {p1, p2, p3, p4}
  Ephemeral = {p3, p4}
  AskedPort <- Asked
  AnyPort = AnyPort
  Nobody = Nobody
INVARIANTS RunningIsRouted NoOrphanRemoteListener
CHECK_DEADLOCK FALSE
