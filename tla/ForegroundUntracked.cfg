SPECIFICATION FgSpec
CONSTANTS
  QueueCap = 2
  PidMax = 4
  Pid = {1,2,3,4}
  SysfsFails = FALSE
  App = {2}
  Untracked = {3}
  CheckActivityTime = 1
  TurnOnAging = TRUE
  Happens = {"appfork"}
INVARIANTS ImportanceKnown
