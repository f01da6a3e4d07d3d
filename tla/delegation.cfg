SPECIFICATION SizedSpec
CONSTANTS
  k1 = k1  k2 = k2  t1 = t1  t2 = t2  c1 = c1  c2 = c2  w1 = w1  w2 = w2
  Inputs = {k1}
  Tasks = {t1, t2}
  NoTask = NoTask
  OriginOf <- MCSameOrigin
  NoJob = NoJob
  Lanes = {c1}
  Workers = {w1, w2}
  MaxLive = 4
  MaxAttempts = 2
  TopTier = 2
  CloudTier = 2
  MaxSameTierRetries = 1
  MaxTaskRestarts = 1
  MaxRestarts = 2
INVARIANTS TypeOK ActiveHasJob CancelStopsWork PresentedOnce
PROPERTIES TaskMovesOn KeepsPromise
CHECK_DEADLOCK FALSE
