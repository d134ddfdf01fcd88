SPECIFICATION LotsSpec
CONSTANTS
  Instruments = {"a", "b"}
  Quantities = {1, 2}
  PriceMaps <- MCPriceMaps
  ShortRate = 4
  LongRate = 1
  LongTermDays = 1
  WindowDays = 1
  MinLoss = 2
  LastDate = 2
  MaxOrders = 3
INVARIANTS BooksBalance HarvestIsReal
PROPERTIES BestLots WashedLossesCount
\* It stops after the last day and the last order.
CHECK_DEADLOCK FALSE
