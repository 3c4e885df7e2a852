SPECIFICATION MCSpec
CONSTANTS
  Parts = {"pipeline"}
  HostCount = 2
  ChunkSizes = {0, 2}
  Scopes = {s1, s2}
  MaxEntries = 1
  MaxPasses = 3
  NoFile = NoFile
  Torn = Torn
  NoOptions = NoOptions
  NoResult = NoResult
  NoId = NoId
  TargetLists <- MCTargetLists
  Findings <- MCFindings
  Oast <- MCOast
  Callbacks <- MCCallbacks
  NoResponse = NoResponse
  NoOther = NoOther
  NoValue = NoValue
  BaseUrl <- Home
  AssetLists <- MCAssetLists
  Answers <- MCAnswers
  Origins = {"here", "there"}
  UrlPaths = {"home", "item", "admin", "folder"}
  SensitivePaths = {"admin"}
  Limits = {1, 3, 6}
  RoleCounts = {0, 2}
  MaxRequests = 3
  MaxReplay = 1
  MaxSignals = 1
  MaxCompared = 2
  MaxNumber = 2
  Transient = Transient
  NoEntry = NoEntry
  NoCpe = NoCpe
  Nvd <- MCNvd
  Rating <- MCRating
  Catalogue = {"cve2", "cve3"}
  Techs <- MCTechs
  MaxUpdates = 2
  PageAttempts = 3
  Paths <- MCPaths
  Manifests <- MCManifests
  InvalidPaths <- MCInvalidPaths
  Profiles <- MCProfiles
  Threshold = 1
  MaxRuns = 2
  NoRules = NoRules
  NoSetting = NoSetting
  NoReply = NoReply
  Schema = 1
  KnownCapabilities = {"cap"}
  SecurityHeaders = {"csp", "hsts"}
  MaxSends = 2
  RegexBudget = 2
  TimeBudget = 10
  RuleJobs <- MCRuleJobs
  Worlds <- MCWorlds
  FindingLists <- MCFindingLists
  RuleSets <- MCRuleSets
  Responses <- MCResponses
  Durations = {1, 12}
  Timeout = 10
  Rounds = 2
  Commands <- MCCommands
  Defaults <- MCDefaults
  Tokens = {"t6"}
  Unreadable = Unreadable
  NoThreshold = NoThreshold
  NoText = NoText
  Forever = Forever
  NoPort = NoPort
  Unwritten = Unwritten
  Lower <- MCLower
  ScanLists <- MCScanLists
  Reviews <- MCReviews
  PublicHosts = {"shop"}
  SensitiveMarks = {"email"}
  MaxPoints = 2
  MaxActions = 2
INVARIANT OwnCallbacksOnly
CHECK_DEADLOCK FALSE
