SPECIFICATION LedgerSpec
CONSTANTS
  SearchIds = {1, 2, 3}
  NoRow = NoRow
  RawDays = 1
  TripDays = 2
  SearchDays = 3
  ReplayCap = 2
  EveryDay = TRUE
INVARIANTS RawIsShed

CHECK_DEADLOCK FALSE
