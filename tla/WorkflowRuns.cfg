SPECIFICATION FairSpec
CONSTANTS
  na = na  nb = nb  nc = nc  nd = nd  ne = ne
  NoNode = NoNode
  Nodes = {na, nb, nc, nd, ne}
  Flows <- MCFlows
  MaxJobs = 6
  RoundsDown <- MCRoundsDown
  MaxItems = 2
  Slots = {1, 2, 3, 4, 5, 6}
  Flushable = TRUE
INVARIANTS TypeOK ControllerFed AbortReachesJobs
PROPERTIES ContinueAfterOwn ContinueEarned ImplementsForkJoin WorkflowEnds
