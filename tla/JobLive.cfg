SPECIFICATION FairSpec
CONSTANTS
  e1 = e1  e2 = e2  k1 = k1  k2 = k2  s1 = s1  s2 = s2
  NoServer = NoServer
  Events = {e1}
  Keys = {k1}
  Servers = {s1}
  MaxLaunches = 2
  nAmount = 1  nQueue = 1  nRate = 0  nServer = 0  nRetries = 1
  KeyOf <- MCOneKey
  Targets <- MCTargets
  Passing <- MCPassing
  Weight <- MCWeight
  Amount <- MCAmount
  QueueMax <- MCQueueMax
  Rate <- MCRate
  ServerMax <- MCServer
  Retries <- MCRetries
  ForceRetry = {e1}
  RetryDelay = {e1}
  SuspendStart = {e1}
  SuspendEnd = {e1}
  Limited = {e1}
  MinuteMax = 0
  Priorities = {FALSE}
  FirstStates = {"ready"}
  ExitCodes = {"error"}
  Unstable = {s1}
  Blockable = {}
  Switchable = {}
INVARIANTS SatelliteAgrees OneLiveAttempt CallbackPending
PROPERTIES CompletionEnds DeadJobsEnd LateUpdateOnlyAfterAbort
CHECK_DEADLOCK FALSE
