CONSTANTS
  early = early
  late = late
  Runs <- MCRuns
  Lease = 2
  RenewAfter = 1
  WrapWindow = 1
  AbandonedAfter = 2
  Horizon = 2
  MaxWaiting = 2
  MaxStories = 2
  NoRun = NoRun
  NoAsk = NoAsk
SPECIFICATION Spec
SYMMETRY MCSymmetry
INVARIANTS
  NewerRunEndsWindow
PROPERTIES
  OnlyClaimsTake
  LastWord
  LeaseLostForCause
CHECK_DEADLOCK FALSE
