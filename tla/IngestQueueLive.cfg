CONSTANTS
  a = a
  b = b
  c = c
  x = x
  y = y
  Source = {1}
  EventId = {a, b, c}
  Importance = {5}
  MasterKey = {k1}
  Consumer = {daemon, tool}
  Daemon = daemon
  ContentOf <- WithTrifle
  Known = {y}
  LowValue = {c}
  PerSourceLimit = 1
  Capacity = 2
  BatchSize = 1
  MaxAttempts = 2
  Retention = 0
  MaxBatch = 1
  MaxRowid = 2
  MaxClock = 0
  MaxPosts = 0
  MaxLapses = 0
SPECIFICATION FairIngestSpec
PROPERTIES
  RowsLeaveQueue
  EventsAreDelivered
CHECK_DEADLOCK FALSE
