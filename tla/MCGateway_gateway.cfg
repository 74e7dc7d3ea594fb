CONSTANTS
  p1 = p1
  p2 = p2
  p3 = p3
  Processes = {p1, p2, p3}
  NoProcess = NoProcess
  StartTimes = {0, 2}
  StopTimes = {0, 3, 30}
  MaxCommands = 5
  MaxKills = 1
  Patient = TRUE
  Sections <- MCSections
  Variables <- MCVariables
  ManagedLocalAgents <- MCManaged
  Days = 2
  Starts = 3
SPECIFICATION MCSpec
INVARIANTS
  EnabledIsServed
  SettingsInherited
  OneGateway
  UploadedOnce
  JobsAsConfigured
PROPERTY ReloadComesBack
CHECK_DEADLOCK FALSE
