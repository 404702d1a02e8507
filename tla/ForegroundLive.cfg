SPECIFICATION FgFairSpec
CONSTANTS
  QueueCap = 2
  PidMax = 3
  Pid = {1, 2, 3}
  SysfsFails = FALSE
  App = {2}
  Untracked = {}
  CheckActivityTime = 1
  TurnOnAging = TRUE
  Happens = {"thread", "process", "screen", "touch"}
INVARIANTS NiceFollowsImportance ForegroundNotStarved
PROPERTIES HighEnds
