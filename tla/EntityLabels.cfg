CONSTANTS
  Writer = {s, t}
  Entry = {1, 2, 3}
  FromCollector = {1, 2, 3}
  ImportanceOf <- ThreeNotable
  BaseImportance = 5
  MaxFiles = 4
  MaxDeaths = 0
  Call = {1, 2, 3}
  ServerOf <- TwoServers
  DirOf <- OneDirectory
  TriesOf <- SharedNames
  Nobody = Nobody
  Torn = Torn
  Theirs = Theirs
  MaxServerDeaths = 0
  Builder = {1, 2}
  Primary = 1
  Name = {"Calendar", "agent"}
  Collected = {"Calendar", "agent"}
  QueuedAs <- Labelled
  BaseOf <- OneName
  NoSource = NoSource
  MinEvents = 1
  MaxEvents = 2
  MaxByHand = 0
  MaxAsked = 0
  MaxFailures = 0
  FEvent = {1, 2, 3, 4}
  TimeOf <- Minutes
  SourceOf <- Sources
  AgentOf <- Agents
  NoAgent = NoAgent
  LocalOnly = {}
  Window = {2, 6}
  DaemonWindow = 2
  MaxTrouble = 0
  Process = {1, 2}
  Version = {1, 2}
  DateOf <- Dates
  OwnOf <- Ratings
  FirstDay = 3
  LastDay = 4
  DecayAfter = 1
  BoostAt = 1
  NoHash = NoHash
  NoIndexRow = NoIndexRow
  MaxHappenings = 0
  ScanCap = {1, 2, 3, 4}
  MaxChunks = 8
  NotCounted = NotCounted
SPECIFICATION FilesSpec
PROPERTIES
  TouchedAreRefreshed
CHECK_DEADLOCK FALSE
