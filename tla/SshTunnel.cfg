SPECIFICATION FairSpec
CONSTANTS
  n1 = n1
  y1 = y1
  e1 = e1  e2 = e2
  k1 = k1  k2 = k2
  c1 = c1  c2 = c2
  Connection = {n1}
  Caller = {c1, c2}
  Entry = {e1, e2}
  EntryConn <- OneBastion
  NoEntry = NoEntry
  NoClaim = NoClaim
  Key = {y1}
  KeyConn <- OneTarget
  Claim = {k1, k2}
  ClaimKey <- TwoClaims
INVARIANTS
  TypeOK CountsHolders NoTheft NoLeak ListenersMatchHolders ForwardsRideCurrentSession
PROPERTIES ImplementsSharing WaitersAnswered ReleasedSessionCloses
