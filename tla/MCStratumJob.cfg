SPECIFICATION Safety
CONSTANTS
  m1 = m1
  m2 = m2
  Miners <- MCMiners
  Stratum = stratum
  None = none
  Retries = 0
  Diffs = {1, 2}
  MaxJobs = 2
  MaxResent = 1
  MaxExt = 0
  MaxDrops = 0
  MaxXn2 = 0
  MaxShares = 0
INVARIANTS LabelMatchesHeader NextIsFresh WorkSettled RestartHeeded
SYMMETRY Symmetry
