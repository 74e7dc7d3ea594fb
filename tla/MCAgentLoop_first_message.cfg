CONSTANTS
  t1 = t1
  t2 = t2
  k1 = k1
  k2 = k2
  n1 = n1
  n2 = n2
  NoSession = NoSession
  NoKey = NoKey
  Threads = {t1}
  Keys = {k1, k2}
  Agents = {n1}
  Archives <- Stores
  Responses <- MCResponses
  MaxHistory = 4
  MaxIterations = 2
  MaxAgentTurns = 1
  MaxTurns = 1
  MaxCrashes = 0
SPECIFICATION Spec
CHECK_DEADLOCK FALSE
INVARIANT
  CurrentInputIsSent
