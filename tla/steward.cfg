SPECIFICATION GoalsSpec
CONSTANTS
  g1 = g1
  Screen = FALSE
  Own = FALSE
  NoTask = NoTask
  Goals <- OneGoal
  Confirm = {}
  Steps = 2
  Budget = 2
  MaxReplans = 1
  MaxTurns = 2
  MaxResolves = 0
  MaxRestarts = 1
INVARIANTS TypeOK OneAgent ProvenInOrder ReportedOnce
PROPERTIES KeepsPromise DecidedSound
CHECK_DEADLOCK FALSE
