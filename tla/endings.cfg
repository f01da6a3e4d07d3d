SPECIFICATION AllSpec
CONSTANTS
  k1 = k1  c1 = c1  c2 = c2  s1 = s1  u1 = u1  w1 = w1  t1 = t1
  DueLimit = 1  MaxEntries = 2  MaxNow = 1  MaxSwitches = 1  MaxRestarts = 1
  Wishes <- MCWishes
  NoKey = NoKey
  NoJob = NoJob
  NoTask = NoTask
INVARIANTS TypeOK NoReplay NothingVanishes
PROPERTIES DueIsSettled EverySettles
CHECK_DEADLOCK FALSE
