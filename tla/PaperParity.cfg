SPECIFICATION PaperSpec
CONSTANTS
  Prices <- Ticks
  Books <- RecordedBooks
  Trades <- NoTrades
  QuoteSet <- SomeQuotes
  QuoteSize = 2
  QueueModel = FALSE
  FillModel = "intensity"
  Margined = TRUE
  MakerBps = 1
  TakerBps = 2
  BpsBase = 10
  PointBase = 10
  InitialEquity = 2000
  NoTs = NoTs
  QMax = 2
  MaxEvents = 3
  MaxInventory = 9
  KillNum = 10
  KillDen = 10
INVARIANTS InventoryWithinQMax RowsAreCausal
PROPERTY PaperImplementsBacktest
\* The replayed stream is finite: the loop stops once it has been recorded.
CHECK_DEADLOCK FALSE
