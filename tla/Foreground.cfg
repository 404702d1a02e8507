SPECIFICATION FgSpec
CONSTANTS
  QueueCap = 2
  PidMax = 3
  Pid = {1,2,3}
  SysfsFails = FALSE
  App = {2}
  Untracked = {3}
  CheckActivityTime = 1
  TurnOnAging = TRUE
  Happens = {"thread", "process", "exit", "early", "touch", "end"}
INVARIANTS FgTypeOK TrackedMatchesAlive HighIsTemporary ForegroundNotStarved ImportanceKnown
