SPECIFICATION Safety
CONSTANTS
  m1 = m1
  m2 = m2
  Miners <- MCMiners
  None = none
  Gbt = FALSE
  Retries = 1
  Submitold = FALSE
  InfoOutcomes = {"ok", "unsupported"}
  CallOutcomes = {"ok", "lostRequest", "lostReply", "badReply"}
  MaxHeight = 1
  MaxShares = 2
  MaxFaults = 2
INVARIANTS OneRequest SharesAccounted SettledBeforeScanning
PROPERTIES WorkMovesForward DiscardJustified
SYMMETRY Symmetry
