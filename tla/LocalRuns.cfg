CONSTANTS
  MaxRuns = 2
  Drains = {g1}
  Main = main
  Requests = {u1}
  Cap = 1
  MaxTurns = 1
  MaxEvents = 2
SPECIFICATION FairSpec
CHECK_DEADLOCK FALSE
INVARIANTS RevokedGetsNoFurther
 
