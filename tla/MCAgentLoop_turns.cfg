CONSTANTS
  t1 = t1
  t2 = t2
  k1 = k1
  k2 = k2
  n1 = n1
  n2 = n2
  NoSession = NoSession
  NoKey = NoKey
  Threads = {t1, t2}
  Keys = {k1, k2}
  Agents = {n1}
  Archives <- Stores
  Responses <- MCResponses
  MaxHistory = 4
  MaxIterations = 2
  MaxAgentTurns = 1
  MaxTurns = 2
  MaxCrashes = 1
SPECIFICATION FairSpec
CHECK_DEADLOCK FALSE
INVARIANT
  StoredTurnsAreWhole
  ModelSeesWholeExchanges
  TurnsKeepApart
PROPERTY
  HistoryOnlyGrows
  TurnEnds
