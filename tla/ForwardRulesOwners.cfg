SPECIFICATION FairSpec
CONSTANTS
  a1 = a1  a2 = a2  k1 = k1  e1 = e1  e2 = e2  s1 = s1
  None = None
  Attempt = {a1, a2}
  Stopper = {k1}
  Epoch = {e1, e2}
  Session = {s1}
  SessionOf <- TwoEpochs
  MaxTabs = 2
  Rungs = 2
INVARIANTS TypeOK OneOwner ClaimsMatchListeners
PROPERTIES ReferenceKeepsName StartingSettles
