SPECIFICATION FairSpec
CONSTANTS
  Blk = {1, 2}
  NULL = NULL
  TimeMod = 1000
  Durations = {1, 2}
  QCap = 1
  MaxTime = 4
INVARIANTS ListsAgree OnceExpiresOnce
PROPERTIES NoEarlyExpiry PassLeavesNoneDue NoTimerForgotten
