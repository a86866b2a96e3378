CONSTANTS
  Runs = {r1, r2}
  NoRun = NoRun
  Starters = {s1, s2}
  Workers = {w1}
  GoalTool = TRUE
  Continuous = TRUE
  UserActs = {}
  MaxAttempts = 1
  MaxActs = 0
  MaxErrors = 0
  MaxCrashes = 1
SPECIFICATION FairSpec
CHECK_DEADLOCK FALSE
PROPERTIES WorksAgain
