SPECIFICATION PaperSpec
CONSTANTS
  Prices <- Ticks
  Books <- LiveBooks
  Trades <- SomeTrades
  QuoteSet <- SomeQuotes
  QuoteSize = 2
  QueueModel = TRUE
  FillModel = "cross"
  Margined = FALSE
  MakerBps = 1
  TakerBps = 2
  BpsBase = 10
  PointBase = 10
  InitialEquity = 200
  NoTs = NoTs
  QMax = 9
  MaxEvents = 4
  MaxInventory = 2
  KillNum = 3
  KillDen = 10
INVARIANTS PaperTypeOK InventoryCapped QueueIsDisplayed NoStaleCross
PROPERTY HaltIsFinal
\* The replayed stream is finite: the loop stops once it has been recorded.
CHECK_DEADLOCK FALSE
