SPECIFICATION FairSpec
CONSTANTS
  NumCore = 3
  Running = {4}
  MaxImp = 1
  MaxUtil = 0
  Thread = {t1}
INVARIANTS TypeOK CountMatches CoreZeroStays CachedCoresOnline NeverStuck HistorySum
PROPERTIES TickVictimIsLeast PlacedOnOnlineCore DPMTerminates
