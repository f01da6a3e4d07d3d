SPECIFICATION DeskSpec
CONSTANTS
  Runs = {r1, r2}
  CodexJobs = {r2}
  NoRun = NoRun
  MaxRestarts = 1
  g1 = g1  NoTask = NoTask
  c1 = c1  c2 = c2  ticker = ticker  starter = starter
INVARIANTS TypeOK OneAgentAtWork DeliveryTold JobFollowsRun
PROPERTIES CancelHitsSeen KeepsPromise RunsEnd SessionKeepsPromise
CHECK_DEADLOCK FALSE
