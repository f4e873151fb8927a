SPECIFICATION Spec
CONSTANTS
  Urls = {"p", "q", "dead"}
  Home = "p"
  Dead = {"dead"}
  Extranonce = TRUE
  Redirect = TRUE
  Retries <- Unlimited
  None = none
  MaxLines = 1
  MaxDrops = 1
  MaxShares = 2
  MaxSetUrl = 2
  MaxEvents = 3
INVARIANTS AuthorizedByPool CountsRight LabelsRight CrashNeedsARace
PROPERTIES SetUrlFollowed SessionEstablished
