SPECIFICATION Spec
CONSTANTS
  None = None
  ByteRadix = 2
  Words = 3
  JobDiffs <- MCJobDiffs
  Compacts <- MCCompacts
  Settings <- MCSettings
INVARIANTS NoLowDifficulty OnlyTopWordMissed
PROPERTIES SolvedIsBlock BlockIsCounted
