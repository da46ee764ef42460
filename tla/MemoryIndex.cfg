CONSTANTS
  s = s
  t = t
  ada = ada
  hashing = hashing
  File = {f1}
  Text = {t1, t2}
  Server = {s, t}
  Provider = {ada, hashing}
  Settings <- OneSetting
  MaxEdits = 1
  MaxStarts = 2
  MaxKills = 1
  MaxForces = 1
  Blank = Blank
  Gone = Gone
  Link = Link
  NoHash = NoHash
  NoRow = NoRow
  NoChunks = NoChunks
  NoProvider = NoProvider
  Ready = Ready
SPECIFICATION FairSpec

  
PROPERTY IndexConverges
CHECK_DEADLOCK FALSE
