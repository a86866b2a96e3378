SPECIFICATION Spec
CONSTANTS
  Turns = {x1, x2, x3}
  NoTurn = NoTurn
  MaxIndex = 2
  MaxConvs = 2
  MaxActs = 2
  VoiceActs = 1
  MaxFaults = 1
  Fragments = {y1, y2}
  Sharers = {x1, x2, x3}
  Revokers = {r}
  Viewers = {v}
  MaxLosses = 1
  Prints = {y1, y2}
  QueueSize = 1
  IssuesPerHour = 2
  ListedIssues = 1
  MaxIssues = 3
  MaxErrors = 4
  MaxMishaps = 2
  Jobs = {x1, x2, x3}
  Keys = {y1, y2}
  NoJob = NoJob
  NoKey = NoKey
  Chunks = {y1, y2}
  Enders = {x1, x2, x3}
  None = None
  MaxRepairs = 1
  Attachments = {x1, x2, x3}
  MaxParallel = 2
  MaxRounds = 2
  MaxFetchCalls = 2
  MaxBrowseCalls = 1
  MaxCalls = 2
  MaxChunks = 2
SYMMETRY Symmetry
CHECK_DEADLOCK FALSE
INVARIANTS StoredIsShown SpokenIsKept 
INVARIANTS LinkWorks OneOpenIssue InOrder HeardOnce
INVARIANTS AnswerStands
PROPERTIES TitleNeverRegresses
