CONSTANTS
  a1 = a1
  a2 = a2
  t1 = t1
  t2 = t2
  c1 = c1
  c2 = c2
  None = None
  Unnamed = Unnamed
  Agents <- OneAgent
  Tasks <- TwoTasks
  Chats = {c1}
  AgentOf <- OwnTasks
  PoolSize = 2
  TimeoutOn = TRUE
  Lossy = TRUE
  MaxMsgs = 0
  MaxStarts = 1
SPECIFICATION HangingSpec
CHECK_DEADLOCK FALSE
INVARIANT
  NoStuckMark
PROPERTY
  ExecutedOnce
  AbandonedAgentIsFreed
