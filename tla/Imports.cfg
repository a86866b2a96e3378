CONSTANTS
  Syncs = {s1, s2}
  Requests = {q1, q2}
  Texts = {t1, t2}
  NoSync = NoSync
  NoText = NoText
  MaxRows = 3
  MaxActs = 2
  MaxFaults = 1
  Importers = {s1, s2}
  Starters = {s1, s2}
  Total = 2
  CheckpointEvery = 2
  MaxTries = 2
  MaxUpsets = 2
SPECIFICATION ImportsSpec
CHECK_DEADLOCK FALSE
SYMMETRY Symmetry
INVARIANTS ImportsAreTracked SyncingIsAtWork DisconnectHolds
INVARIANTS ImportIsComplete 
