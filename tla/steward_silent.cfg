SPECIFICATION FairSpec
CONSTANTS
  g1 = g1
  Screen = FALSE
  Own = FALSE
  NoTask = NoTask
  Goals <- OneGoal
  Confirm = {}
  Steps = 1
  Budget = 2
  MaxReplans = 1
  MaxTurns = 1
  MaxResolves = 0
  MaxRestarts = 0
PROPERTY EndIsTold
CHECK_DEADLOCK FALSE
