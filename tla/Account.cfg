SPECIFICATION AccountSpec
CONSTANTS
  Reminders = {m1, m2}
  Topics = {t1}
  NoTopic = NoTopic
  Callers = {c1}
  Servers = {s1}
  Batch = 1
  Intents = {i1}
  NoIntent = NoIntent
  Runs = {y1, y2}
  NoRun = NoRun
  Kinds = {"propose_reminder", "send_email", "research"}
  Extractors = {p1, p2}
  Requests = {u1, u2}
  Passes = 1
  MaxKinds = 1
  MaxActs = 2
  MaxFaults = 1
  TagNames = {y1, y2}
  Hints = {h1, h2}
  Taggers = {x1, x2, x3}
  NoTag = NoTag
  MaxTagJobs = 2
  MaxTagFaults = 1
  Deleters = {y1, y2}
  NumFiles = 3
  NumTables = 2
  PageSize = 2
  BatchSize = 1
  MaxFailures = 1
  MaxStray = 1
  ExportCalls = {c1}
  Things = {y1, y2}
  MaxExportFaults = 1
  MaxChanges = 2
  PrefServers = {s1, s2}
  Askers = {x1, x2, x3}
  Updates = {{"persona", "zone"}, {"model"}}
  Models = {y1, y2}
  NoModel = NoModel
  Placeholder = Placeholder
  TTL = 1
  MaxClock = 1
  MaxPrefFaults = 1
  Moments = {524760, 525150, 525690}
  Zones = {0, 330}
  Utc = Utc
  NoZone = NoZone
  YearDays = 365
  SaidSlots <- MCSlots
  MaxZoneSets = 1
SYMMETRY Symmetry
CHECK_DEADLOCK FALSE
INVARIANTS EffectOnce ChosenTagsStay    
PROPERTIES SettledBindsLaterReaders ReminderMovesForward
