CONSTANTS
  Source = {1, 2}
  EventId = {a, b, c}
  Importance = {5}
  MasterKey = {k1}
  Consumer = {daemon}
  Capacity = 4
  BatchSize = 3
  MaxAttempts = 1
  Retention = 0
  MaxBatch = 1
  MaxRowid = 4
  MaxClock = 0
SPECIFICATION BufferSpec
SYMMETRY KeySymmetry
INVARIANT FairShare
CHECK_DEADLOCK FALSE
