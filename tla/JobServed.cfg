SPECIFICATION FairSpec
CONSTANTS
  e1 = e1  e2 = e2  k1 = k1  k2 = k2  s1 = s1  s2 = s2
  NoServer = NoServer
  Events = {e1}
  Keys = {k1}
  Servers = {s1}
  MaxLaunches = 3
  nAmount = 1  nQueue = 2  nRate = 1  nServer = 1  nRetries = 0
  KeyOf <- MCOneKey
  Targets <- MCTargets
  Passing <- MCPassing
  Weight <- MCWeight
  Amount <- MCAmount
  QueueMax <- MCQueueMax
  Rate <- MCRate
  ServerMax <- MCServer
  Retries <- MCRetries
  ForceRetry = {}
  RetryDelay = {}
  SuspendStart = {}
  SuspendEnd = {}
  Limited = {}
  MinuteMax = 2
  Priorities = {TRUE, FALSE}
  FirstStates = {"ready"}
  ExitCodes = {"ok"}
  Unstable = {}
  Blockable = {}
  Switchable = {}
PROPERTIES RateBound QueueServed
CHECK_DEADLOCK FALSE
