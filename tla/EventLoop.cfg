SPECIFICATION Spec
CONSTANTS
  Columns <- MCColumns
  Terms <- MCTerms
  BpsBase = 10
  SlipBps = 1
  PerContract = 3
  PerShare = 2
  MinTicket = 5
  ShortBps = 2
  LeverageBps = 3
  CashBps = 1
  FinancingBase = 100
  WeightBase = 4
  BandNum = 1
  BandDen = 20
  NextOpen = TRUE
  SignalLag = 1
  InitialEquity = 400
  Bars <- MCBars
  WeightRows <- MCWeightRows
  Gaps = {1, 2}
  MaxBars = 3
INVARIANTS DrainedBeforeNextBar PnlExplained NoForbiddenShort
PROPERTY ImplementsEngine
\* A finite panel: the loop stops when its heap is empty.
CHECK_DEADLOCK FALSE
