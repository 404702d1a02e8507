SPECIFICATION FgSpec
CONSTANTS
  QueueCap = 2
  PidMax = 2
  Pid = {1,2}
  SysfsFails = FALSE
  App = {2}
  Untracked = {}
  CheckActivityTime = 1
  TurnOnAging = TRUE
  Happens = {"touch","screen"}
INVARIANTS ScreenOffKeepsLow
