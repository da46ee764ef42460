CONSTANTS
  Source = {mail, feed}
  Custom = {feed}
  NeedsDeps = {mail}
  Def = {d1, d2}
  Setting = {v}
  Key = {k1, k2}
  Default = Default
  BuiltIn = BuiltIn
  None = None
  Keep = Keep
  Listed = Listed
  MaxCalls = 3
  MaxAdds = 1
  MaxStarts = 2
  MaxQueue = 2
  MaxBackupFailures = 1
SPECIFICATION FairRegistrySpec
INVARIANTS
  OnlyConsentedRuns
  OffStaysOff
  RunningIsSaved
  SettingsKeptAlone
PROPERTIES
  EnabledComesBack
CHECK_DEADLOCK FALSE
