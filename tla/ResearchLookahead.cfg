SPECIFICATION Spec
CONSTANTS
  Names <- MCNames
  Listed <- MCListed
  Groups <- MCGroups
  Legs = {"a", "b", "c"}
  Lookback = 2
  Gap = 1
  Window = 2
  Horizon = 1
  Warmup = 1
  EstWindow = 3
  RebalanceDays = 2
  MonthDays = 3
  ReportLag = 2
  Programs <- Documented
  Bars = {8, 9}
  Configs <- MCConfigs
INVARIANT OutOfSampleIsClean
\* A study ends with its history.
CHECK_DEADLOCK FALSE
