CONSTANTS
  Words = {w1}
  NoText = NoText
  Clients = {c1, c2}
  Servers = {s1}
  SmartTagging = TRUE
  Batch = 1
  MaxAttempts = 3
  MaxVersion = 5
  MaxActs = 2
  MaxFaults = 1
SPECIFICATION FairSpec
CHECK_DEADLOCK FALSE
INVARIANTS VersionNamesText
PROPERTIES LatestIsEnriched
