SPECIFICATION FairSpec
CONSTANTS
  Clients = {c1, c2, c3, c4}
  Limit = 2
  MaxWord = 3
  Amounts <- EveryAmount
INVARIANTS PoolIsExact NoLostWakeup
PROPERTIES WaitersResume
