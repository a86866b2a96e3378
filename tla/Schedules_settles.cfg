CONSTANTS
  Runs = {r1, r2}
  NoRun = NoRun
  Starters = {s1, s2}
  Workers = {w1}
  GoalTool = FALSE
  OneShots = {TRUE, FALSE}
  UserActs = {"paused", "run_now", "resume"}
  MaxActs = 1
  MaxErrors = 0
  MaxCrashes = 1
SPECIFICATION FairSpec
CHECK_DEADLOCK FALSE
PROPERTIES ResultIsDelivered RunsAgain
