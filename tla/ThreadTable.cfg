SPECIFICATION Spec
CONSTANTS
  NumCore = 2
  Pid = {1, 2}
  Old = {1}
  MaxForks = 2
INVARIANTS NeverOvercounted 
