CONSTANTS
  once = once
  daily = daily
  a1 = a1
  None = None
  Nameless = Nameless
  Unreadable = Unreadable
  Jobs = {once, daily}
  Kind <- MCKind
  AgentOf <- MCAgentOf
  Daily = daily
  ByHand = {daily}
  Agents = {a1}
  DefaultAgent = a1
  MaxTurns = 1
  MaxOps = 1
  MaxStarts = 2
SPECIFICATION FairSpec
CHECK_DEADLOCK FALSE
INVARIANT
  OnceIfUndisturbed
PROPERTY
  DueIsRun
