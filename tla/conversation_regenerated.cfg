SPECIFICATION Spec
CONSTANTS
  k1 = k1  k2 = k2  c1 = c1  c2 = c2
  Keys = {k1}
  NoKey = NoKey
  NoJob = NoJob
  Texts = {"ask"}
  Lanes = {c1}
  Speaker = s1
  Streaming = TRUE
  Tools = TRUE
  MaxAttempts = 2
  MaxLive = 2
  MaxRestarts = 0
INVARIANTS NeverRegenerated
CHECK_DEADLOCK FALSE
