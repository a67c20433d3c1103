CONSTANTS
  first = first
  second = second
  third = third
  batch = batch
  single = single
  p = p
  q = q
  Calls <- MCCalls
  Digests <- MCDigests
  DigestOf <- OneStranger
  PartsOf <- MCPartsOf
  KeptFor = 1
  Horizon = 2
  MaxCrashes = 1
  Whole = Whole
  NoRow = NoRow
  NoCall = NoCall
  NoJob = NoJob
SPECIFICATION FairSpec
CHECK_DEADLOCK FALSE
INVARIANTS
  NeverTwice
  ToldIsWritten
  SettledIsReadable
PROPERTIES
  RowStands
  CallsEnd
