SPECIFICATION MCSpec
CONSTANTS
  Parts = {"names"}
  web = web
  ftp = ftp
  other = other
  Ports = {web, other}
  TlsPorts = {web}
  ServiceOf <- MCServiceOf
  Concurrency = 2
  Budget = 8
  GenericProbes = 2
  AllowRisky = TRUE
  Words = {"w1", "w2", "w3"}
  Baseline = "baseline"
  FuzzConcurrency = 2
  ConfiguredRps = 2
  Second = 2
  MaxRetries = 1
  PauseTicks = 3
  RetryDelays = {1}
  Segments = {"admin"}
  StartUrl <- MCStartUrl
  Wordlist <- MCWordlist
  Parameters = {"id"}
  Rounds <- MCRounds
  ParamRounds <- MCParamRounds
  FuzzDepths = {0, 1, 2}
  NoAnswer = NoAnswer
  NoSpec = NoSpec
  ApiSites <- MCApiSites
  NoUrl = NoUrl
  Base <- MCBase
  Origins = {"here", "elsewhere"}
  PathKind <- MCPathKind
  Destructive = {"logout"}
  Documents <- MCDocuments
  Scripts <- MCScripts
  CrawlConfigs <- MCCrawlConfigs
  WordLabels = {"www"}
  HeuristicLabels = {"dev"}
  CertLists <- MCCertLists
  ZoneRecords <- MCZoneRecords
  Addresses <- MCAddresses
  WildcardAddresses = {"9.9.9.9"}
  ProbeAnswers <- MCProbeAnswers
  NoLocation = NoLocation
  CacheHours = 24
  CertAttempts = 3
  MaxScans = 2
  NoVersion = NoVersion
  NoProtocol = NoProtocol
  NotKnown = NotKnown
  NoName = NoName
  NoTls = NoTls
  Listeners <- MCListeners
  Greetings <- MCGreetings
  Certificates <- MCCertificates
  Replies <- MCReplies
  ServiceOfPort <- MCServiceOfPort
  Rulesets <- MCRulesets
  Responses <- MCResponses
  LikelyTlsPorts = {443}
  NoCertificate = NoCertificate
INVARIANT CollectedIsLookedUp
CHECK_DEADLOCK FALSE
