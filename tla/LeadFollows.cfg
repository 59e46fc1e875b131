SPECIFICATION FairSpec
CONSTANTS
  c1 = c1  c2 = c2  c3 = c3
  NoConductor = NoConductor
  Conductor = {c1, c2, c3}
  Alphabet <- MCThree
  Preferred <- MCLastFirst
  Timely = TRUE
  Prompt = TRUE
  MaxElections = 1  MaxTimers = 2
  MaxCrashes = 1  MaxDrops = 1  MaxLost = 1  MaxFaults = 1
INVARIANTS SomeoneElects
PROPERTIES EveryoneFollows PreferredLeads
CHECK_DEADLOCK FALSE
