SPECIFICATION Spec
CONSTANTS
  c1 = c1  c2 = c2
  Conductors = {c1, c2}
  NoJob = NoJob
  Jobs = {1, 2}
  MaxUser = 1
  MaxFaults = 2
  MaxInbox = 1
  MaxCalls = 1
SYMMETRY Peers
INVARIANTS BackupExact FileAlone LaunchedOnce
PROPERTIES ResultsStick
CHECK_DEADLOCK FALSE
