CONSTANTS
  Source = {1}
  EventId = {1, 2}
  Importance = {5}
  MasterKey = {k1}
  Consumer = {daemon}
  Daemon = daemon
  NoCursor = NoCursor
  Capacity = 2
  Threshold = 1
  BatchSize = 1
  MaxAttempts = 2
  Retention = 0
  MaxBatch = 2
  MaxRowid = 2
  MaxClock = 0
  Eager = {}
  MaxProduced = 2
  MaxToggles = 1
SPECIFICATION FairPollSpec
INVARIANTS
  NothingSkipped
PROPERTY AllCollected
CHECK_DEADLOCK FALSE
