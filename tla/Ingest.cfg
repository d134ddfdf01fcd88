SPECIFICATION FairSpec
CONSTANTS
  Jobs <- EveryJob
  Items = {"a", "b"}
  Rows = {1, 2, 3}
  MaxFaults = 2
  Absent = Absent
  Torn = Torn
INVARIANTS HistoryKept OneFaultOneItem
PROPERTIES  SkippersFetchMissing
