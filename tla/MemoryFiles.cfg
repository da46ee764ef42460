CONSTANTS
  Writer = {s, t}
  Entry = {1, 2, 3}
  FromCollector = {1, 2, 3}
  ImportanceOf <- ThreeNotable
  BaseImportance = 5
  MaxFiles = 4
  MaxDeaths = 1
  Call = {1, 2, 3}
  ServerOf <- TwoServers
  DirOf <- OneDirectory
  TriesOf <- SharedNames
  Nobody = Nobody
  Torn = Torn
  Theirs = Theirs
  MaxServerDeaths = 1
  Builder = {1, 2}
  Primary = 1
  Name = {"Calendar", "agent"}
  Collected = {"Calendar", "agent"}
  QueuedAs <- Labelled
  BaseOf <- OneName
  NoSource = NoSource
  MinEvents = 1
  MaxEvents = 2
  MaxByHand = 1
  MaxAsked = 1
  MaxFailures = 1
  FEvent = {1, 2, 3, 4}
  TimeOf <- Minutes
  SourceOf <- Sources
  AgentOf <- Agents
  NoAgent = NoAgent
  LocalOnly = {}
  Window = {2, 6}
  DaemonWindow = 2
  MaxTrouble = 1
  Process = {1, 2}
  Version = {1, 2}
  DateOf <- Dates
  OwnOf <- Ratings
  FirstDay = 3
  LastDay = 4
  DecayAfter = 1
  BoostAt = 1
  NoHash = NoHash
  NoIndexRow = NoIndexRow
  MaxHappenings = 2
  ScanCap = {1, 2, 3, 4}
  MaxChunks = 8
  NotCounted = NotCounted
SPECIFICATION FilesSpec
INVARIANTS
  EntriesKept
  DatesAreTrue
  OncePerDay
  SampleIsEven
  NotesKept
  FusedOnce
  ClustersAreRuns
PROPERTIES
  CompilesAnswered
  HumanPagesStay
  PagesConverge
CHECK_DEADLOCK FALSE
