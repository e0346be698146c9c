SPECIFICATION ChatSpec
CONSTANTS
  MaxHistory = 5
  Turns = {1, 2, 3}
  MaxGroups = 1
  MayFail = TRUE
  MayClear = TRUE
  MaxRestarts = 1
CHECK_DEADLOCK FALSE
INVARIANTS
  ChatTypeOK
  CacheMirrorsStore
  TurnsStandTogether
  RowsFollowThreads
