CONSTANTS
  m1 = m1
  NoPush = NoPush
  Messages <- OneMessage
  FirstDelay = 1
  LongestDelay = 2
  Window = 2
  Horizon = 4
  MaxSpoiled = 2
SPECIFICATION FairSpec
INVARIANTS
  SentMeansDelivered
  GivenUpForCause
  PendingIsWatched
PROPERTIES
  RowsEndOnce
  EveryPushEnds
