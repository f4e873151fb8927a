SPECIFICATION Safety
CONSTANTS
  m1 = m1
  m2 = m2
  Miners <- MCMiners
  None = none
  Gbt = TRUE
  Retries <- Unlimited
  Submitold = FALSE
  InfoOutcomes = {"ok", "fail"}
  CallOutcomes = {"ok"}
  MaxHeight = 1
  MaxShares = 2
  MaxFaults = 0
PROPERTIES SubmitOnce
