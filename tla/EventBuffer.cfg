CONSTANTS
  Source = {1}
  EventId = {a, b, c}
  Importance = {3, 7}
  MasterKey = {k1, k2}
  Consumer = {daemon}
  Capacity = 2
  BatchSize = 1
  MaxAttempts = 1
  Retention = 0
  MaxBatch = 2
  MaxRowid = 3
  MaxClock = 1
SPECIFICATION BufferSpec
SYMMETRY KeySymmetry
INVARIANTS
  BufferTypeOK
PROPERTIES
  RowidsNeverReused
  EvictionsCounted
  SafeRowsGoFirst
  SyncedIsFinal
  HeldRowsOfOneKeyComeBack
CHECK_DEADLOCK FALSE
