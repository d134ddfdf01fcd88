SPECIFICATION Spec
CONSTANTS
  Columns <- MCColumns
  Mult <- MCMult
  LotSize <- MCLotSize
  WeightBase = 4
  WeightRows <- MCWeightRows
  MaxGross = 4
  MaxNet = 3
  MaxPosition = 2
  MinTrade = 7
  Prices = {4, 6}
  Cash = 60
  MaxDays = 2
  MaxCycles = 2
  MaxCrashes = 1
INVARIANT ExitsAreSold
\* It stops after the last day and cycle.
CHECK_DEADLOCK FALSE
