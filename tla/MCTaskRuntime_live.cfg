CONSTANTS
  a1 = a1
  a2 = a2
  t1 = t1
  t2 = t2
  c1 = c1
  c2 = c2
  None = None
  Unnamed = Unnamed
  Agents <- TwoAgents
  Tasks <- TwoTasks
  Chats = {c1}
  AgentOf <- SplitTasks
  PoolSize = 1
  TimeoutOn = FALSE
  Lossy = FALSE
  MaxMsgs = 1
  MaxStarts = 1
SPECIFICATION FairSpec
CHECK_DEADLOCK FALSE
PROPERTY
  QueuedIsExecuted
  StopTerminates
