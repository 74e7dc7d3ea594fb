CONSTANTS
  a1 = a1
  a2 = a2
  t1 = t1
  t2 = t2
  c1 = c1
  c2 = c2
  None = None
  Unnamed = Unnamed
  Agents <- OneAgent
  Tasks <- TwoTasks
  Chats = {c1, c2}
  AgentOf <- OwnTasks
  PoolSize = 2
  TimeoutOn = FALSE
  Lossy = FALSE
  MaxMsgs = 2
  MaxStarts = 2
SPECIFICATION Spec
CHECK_DEADLOCK FALSE
INVARIANT
  ActiveMarksExecution
  OneCustodian
PROPERTY
  OutcomeIsSettled
  ImplementsCustody
