SPECIFICATION FairSpec
CONSTANTS
  c1 = c1  c2 = c2  c3 = c3
  NoConductor = NoConductor
  Conductor = {c1, c2, c3}
  Alphabet <- MCThree
  Preferred <- MCNoneFirst
  Timely = TRUE
  Prompt = FALSE
  MaxElections = 2  MaxTimers = 3
  MaxCrashes = 1  MaxDrops = 0  MaxLost = 0  MaxFaults = 1
INVARIANTS AtMostOneLeading
PROPERTIES ImplementsLeadership ElectionSettles
CHECK_DEADLOCK FALSE
