CONSTANTS
  a = a
  b = b
  c = c
  x = x
  y = y
  Source = {1}
  EventId = {a, b}
  Importance = {5}
  MasterKey = {k1}
  Consumer = {daemon, tool}
  Daemon = daemon
  ContentOf <- TwoContents
  Known = {}
  LowValue = {}
  PerSourceLimit = 1
  Capacity = 2
  BatchSize = 2
  MaxAttempts = 2
  Retention = 0
  MaxBatch = 1
  MaxRowid = 2
  MaxClock = 0
  MaxPosts = 1
  MaxLapses = 1
SPECIFICATION IngestSpec
INVARIANTS
  NoSilentLoss
  WrittenOnce
PROPERTY RememberedNotRewritten
CHECK_DEADLOCK FALSE
