CONSTANTS
  Answers = {a1, a2}
  Visitors = {v1, v2}
  MaxCrashes = 1
  Nothing = Nothing
SPECIFICATION FairSpec
INVARIANTS
  ReadsSeeCounts
  NoneAfterReset
PROPERTY SettlesEnd
CHECK_DEADLOCK FALSE
