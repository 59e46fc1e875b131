SPECIFICATION FairSpec
CONSTANTS
  c1 = c1  c2 = c2
  Conductors = {c1, c2}
  NoJob = NoJob
  Jobs = {1}
  MaxUser = 1
  MaxFaults = 3
  MaxInbox = 1
  MaxCalls = 1
PROPERTIES JobsEnd BackupsConverge
CHECK_DEADLOCK FALSE
