SPECIFICATION Spec
CONSTANTS
  numOfFreq = 3
  freqTable <- MCfreqTable
  Least <- MCLeast
INVARIANTS TypeOK TouchMeansMax NaNStaysFast
PROPERTIES CoversDemand
