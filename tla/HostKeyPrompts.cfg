SPECIFICATION Spec
CONSTANTS
  tab = tab
  rule = rule
  pane = pane
  sshTest = sshTest
  rdpTest = rdpTest
  d1 = d1
  d2 = d2
  Caller <- Callers
  Casts <- Pairs
  Kind <- Kinds
  Tunnelled <- Through
  Dial <- Dials
  Hop <- Hops
  NoDial = NoDial
SYMMETRY Interchangeable
INVARIANTS QuestionsMatchHandshakes OneAnswer
PROPERTY LeaverTakesQuestions
