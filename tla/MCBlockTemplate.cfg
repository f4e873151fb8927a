SPECIFICATION Spec
CONSTANTS
  IntMax = 2147483647
  None = None
  Templates <- MCTemplates
INVARIANTS HeightReadsBack CoinbaseFits TreesRight
