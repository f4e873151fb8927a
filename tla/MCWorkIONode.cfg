SPECIFICATION Spec
CONSTANTS
  m1 = m1
  m2 = m2
  Miners <- MCMiners
  None = none
  Gbt = TRUE
  Retries = 1
  Submitold = FALSE
  InfoOutcomes = {"ok"}
  CallOutcomes = {"ok", "lostReply", "badReply"}
  MaxHeight = 1
  MaxShares = 2
  MaxFaults = 2
PROPERTIES SubmitOnce RequestAnswered ShareSettled
