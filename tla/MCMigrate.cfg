CONSTANTS
  table = table
  column = column
  index = index
  key = key
  rows = rows
  Objects <- MCObjects
  Migrations <- MCMigrations
  OldStores <- MCOldStores
  Rows <- MCRows
  MaxFaults = 4
SPECIFICATION FairSpec
INVARIANTS
  RecordedStands
PROPERTY StartsComplete
CHECK_DEADLOCK FALSE
