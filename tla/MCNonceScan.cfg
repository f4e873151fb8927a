SPECIFICATION Spec
CONSTANTS
  Top = 12
  Gap = 3
  N = 2
  MaxVersion = 2
  MaxRefetch = 1
  MaxScan = 3
INVARIANTS NoDuplicateHash SkipsAreSingle
CHECK_DEADLOCK FALSE
