CONSTANTS
  Workers = {w1}
  Requests = {u1}
  Messages = {m1}
  NoMessage = NoMessage
  Owners = {donna_agent}
  NoOwner = NoOwner
  WorkerOwner = donna_agent
  MaxCalls = 1
  MaxRounds = 1
  ListLimit = 500
  MaxAttempts = 3
  MaxRequests = 1
  MaxErrors = 1
  MaxLapses = 1
  MaxDisconnects = 0
  MaxMixed = 0
SPECIFICATION FairSpec
CHECK_DEADLOCK FALSE
PROPERTIES ResumedReplyIsRead
