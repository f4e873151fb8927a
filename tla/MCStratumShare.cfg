SPECIFICATION Spec
CONSTANTS
  m1 = m1
  m2 = m2
  Miners <- OneMiner
  Stratum = stratum
  None = none
  Retries = 0
  Diffs = {1}
  MaxJobs = 2
  MaxResent = 0
  MaxExt = 1
  MaxDrops = 1
  MaxXn2 = 0
  MaxShares = 1
PROPERTIES WorkCatchesUp SharesLeave DropsOnlyStale
