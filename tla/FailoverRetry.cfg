SPECIFICATION Spec
CONSTANTS
  c1 = c1  c2 = c2
  Conductors = {c1, c2}
  NoJob = NoJob
  Jobs = {1, 2, 3}
  MaxUser = 1
  MaxFaults = 1
  MaxInbox = 1
  MaxCalls = 1
SYMMETRY Peers
INVARIANTS RetriedOnce
CHECK_DEADLOCK FALSE
