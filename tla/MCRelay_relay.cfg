CONSTANTS
  c1 = c1
  Commands = {c1}
  MaxReports = 2
  None = None
  NoText = NoText
  Replies <- MCReplies
  MaxTasksPerPlan = 3
SPECIFICATION MCSpec
INVARIANTS
  CommandsAreAnswered
  OnlyStopTerminates
  SubmittedInOrder
  SummaryIsTrue
PROPERTY ComesBack
CHECK_DEADLOCK FALSE
