SPECIFICATION FairSpec
CONSTANTS
  i1 = i1  i2 = i2  i3 = i3
  None = None
  Invocations = {i1, i2}
  MaxSamples = 2
  MaxClears = 1
  MaxFaults = 1
INVARIANTS MemoryAndDatabase SamplesDecide
PROPERTIES CooledDown GoneCleared
CHECK_DEADLOCK FALSE
