SPECIFICATION Safety
CONSTANTS
  m1 = m1
  m2 = m2
  Miners <- MCMiners
  None = none
  Gbt = TRUE
  Retries <- Unlimited
  Submitold = FALSE
  InfoOutcomes = {"ok"}
  CallOutcomes = {"ok", "lostRequest"}
  MaxHeight = 1
  MaxShares = 1
  MaxFaults = 1
PROPERTIES DiscardJustified
