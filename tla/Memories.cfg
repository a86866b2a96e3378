CONSTANTS
  Values = {x, y}
  Wordings = {w1, w2}
  Requests = {r1, r2}
  Extractors = {e1}
  Compilers = {k1}
  Candidates = 1
  MaxFacts = 3
  MaxSuggestions = 2
  MaxActs = 2
  MaxFaults = 1
  NoText = NoText
SPECIFICATION Spec
CHECK_DEADLOCK FALSE
INVARIANTS DecisionsMatchFacts  
SYMMETRY Interchangeable
