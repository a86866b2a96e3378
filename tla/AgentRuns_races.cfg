CONSTANTS
  Workers = {w1}
  Requests = {u1, u2}
  Messages = {m1}
  NoMessage = NoMessage
  Owners = {donna_agent}
  NoOwner = NoOwner
  WorkerOwner = donna_agent
  MaxCalls = 1
  MaxRounds = 1
  ListLimit = 500
  MaxAttempts = 2
  MaxRequests = 2
  MaxErrors = 1
  MaxLapses = 1
  MaxDisconnects = 1
  MaxMixed = 0
SPECIFICATION Spec
CHECK_DEADLOCK FALSE
SYMMETRY Symmetry
INVARIANTS OpenRunIsCarried TimelineGapFree
PROPERTIES CloseBindsLaterReaders
