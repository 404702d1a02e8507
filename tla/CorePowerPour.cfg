SPECIFICATION Spec
CONSTANTS
  NumCore = 2
  Running = {2}
  MaxImp = 1
  MaxUtil = 0
  Thread = {t1}
INVARIANTS ThreadsLeaveOfflineCores
