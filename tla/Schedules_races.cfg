CONSTANTS
  Runs = {r1, r2, r3}
  NoRun = NoRun
  Starters = {s1, s2}
  Workers = {w1}
  GoalTool = FALSE
  OneShots = {FALSE}
  UserActs = {"paused", "archived", "completed", "resume", "run_now",
              "cancel_run", "finish_run", "reply"}
  MaxActs = 1
  MaxErrors = 1
  MaxCrashes = 0
SPECIFICATION Spec
CHECK_DEADLOCK FALSE
SYMMETRY Symmetry
INVARIANTS OneOpenRun
