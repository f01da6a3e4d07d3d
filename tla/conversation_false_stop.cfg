SPECIFICATION Spec
CONSTANTS
  k1 = k1  k2 = k2  c1 = c1  c2 = c2
  Keys = {k1, k2}
  NoKey = NoKey
  NoJob = NoJob
  Texts = {"ask", "stop"}
  Lanes = {c1, c2}
  Speaker = s1
  Streaming = FALSE
  Tools = FALSE
  MaxAttempts = 1
  MaxLive = 2
  MaxRestarts = 0
INVARIANTS StopTellsTruth
CHECK_DEADLOCK FALSE
