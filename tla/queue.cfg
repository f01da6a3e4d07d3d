SPECIFICATION SizedSpec
CONSTANTS
  k1 = k1  k2 = k2  c1 = c1  c2 = c2  s1 = s1  u1 = u1  w1 = w1
  Keys = {k1, k2}
  Jobs <- MCJobs
  NoJob = NoJob
  Payloads = {"p"}
  Workers = {c1, c2, s1, u1, w1}
  LaneOfWorker <- MCLanes
  MaxAttempts = 2
  MaxPending <- MCPending
  StoreMayFail = TRUE
  MaxRestarts = 2
  MaxReplays = 1
INVARIANTS TypeOK OneWorker CommitOnce AttemptsBounded RunningIsHeld CancelReaches
PROPERTIES FinalIsFinal KeepsPromise
CHECK_DEADLOCK FALSE
