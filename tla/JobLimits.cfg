SPECIFICATION Spec
CONSTANTS
  e1 = e1  e2 = e2  k1 = k1  k2 = k2  s1 = s1  s2 = s2
  NoServer = NoServer
  Events = {e1, e2}
  Keys = {k1}
  Servers = {s1}
  MaxLaunches = 3
  nAmount = 1  nQueue = 1  nRate = 0  nServer = 1  nRetries = 0
  KeyOf <- MCOneKey
  Targets <- MCTargets
  Passing <- MCPassing
  Weight <- MCWeight
  Amount <- MCAmount
  QueueMax <- MCQueueMax
  Rate <- MCRate
  ServerMax <- MCServer
  Retries <- MCRetries
  ForceRetry = {}
  RetryDelay = {}
  SuspendStart = {e1}
  SuspendEnd = {}
  Limited = {}
  MinuteMax = 0
  Priorities = {FALSE}
  FirstStates = {"ready"}
  ExitCodes = {"ok"}
  Unstable = {}
  Blockable = {s1}
  Switchable = {e1}
INVARIANTS ConcurrencyBound QueueBound ServerLoadBound
PROPERTIES ImplementsPool
CHECK_DEADLOCK FALSE
