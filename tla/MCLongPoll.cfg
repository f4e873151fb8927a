SPECIFICATION Spec
CONSTANTS
  m1 = m1
  Miners <- MCMiners
  None = none
  Lp = lp
  Stratum = stratum
  AllowGetwork = TRUE
  Payout = FALSE
  Uris = {"rpc_url", "full"}
  Paths = {"path"}
  XStratum = TRUE
  MaxHeight = 1
  MaxFaults = 1
INVARIANTS PollerHasItsUrl LpIdKnown RpcUrlKept WholeWork CrashOnlyInSwitch
PROPERTIES BackOnlyByLatePoll NewBlockMined
