SPECIFICATION Spec
CONSTANTS
  k1 = k1  k2 = k2  t1 = t1  t2 = t2  c1 = c1  c2 = c2  w1 = w1  w2 = w2
  Inputs = {k1}
  Tasks = {t1}
  NoTask = NoTask
  OriginOf <- MCOneOrigin
  NoJob = NoJob
  Lanes = {c1}
  Workers = {w1}
  MaxLive = 4
  MaxAttempts = 1
  TopTier = 0
  CloudTier = 1
  MaxSameTierRetries = 0
  MaxTaskRestarts = 1
  MaxRestarts = 1
PROPERTIES WithdrawnUnreported
CHECK_DEADLOCK FALSE
