SPECIFICATION GraphSpec
CONSTANTS
  Managers = {1, 2, 3}
  Periods = {1, 2}
  Cusips = {"x", "y"}
  Books <- MCBooks
  Lakes <- MCLakes
  Rosters <- MCRosters
  MaxPulls = 1
  Band = 1
  Floor = 1
  TopK = 1
  Missing = Missing
INVARIANTS FilesAgree DeltasTellWhoFiled PageIsConnected
