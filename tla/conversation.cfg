SPECIFICATION SizedSpec
CONSTANTS
  k1 = k1  k2 = k2  c1 = c1  c2 = c2
  Keys = {k1, k2}
  NoKey = NoKey
  NoJob = NoJob
  Texts = {"ask", "stop", "replace"}
  Lanes = {c1, c2}
  Speaker = s1
  Streaming = TRUE
  Tools = TRUE
  MaxAttempts = 2
  MaxLive = 2
  MaxRestarts = 2
INVARIANTS TypeOK TablesAgree StopSticks SpokenOnce ProgressYields
PROPERTIES KeepsPromise CancelledStaysSilent
SYMMETRY Symmetry
CHECK_DEADLOCK FALSE
