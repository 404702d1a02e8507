SPECIFICATION FairSpec
CONSTANTS
  CPU_NUM = 3
  Worker = {0, 1}
  MaxWork = 1
  MaxKeys = 2
INVARIANTS WorkReported
PROPERTIES CpuOnCounts TerminalRestored PEndsSampling
