CONSTANTS
  t1 = t1
  t2 = t2
  t3 = t3
  h1 = h1
  h2 = h2
  h3 = h3
  h4 = h4
  Thing <- MCThing
  Handle <- MCHandle
  MaxWrites = 6
  MaxClaims = 2
SYMMETRY Symmetry
SPECIFICATION Spec
INVARIANTS
  WalksEnd
  OneClaimPerAddress
PROPERTIES
  ServedStays
  HandleAnswers
CHECK_DEADLOCK FALSE
