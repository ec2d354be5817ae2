\* Two waves over three feeds; three disks; two servers, one unknown to the API;
\* one licence; one server to exclude and two writes; two queries; one application
\* with one group and one nominee.
CONSTANTS
  Feeds = {"auditing", "exclusions", "licences"}
  BUs = {"__all", "b1"}
  AllBUs = "__all"
  Failures = {"network"}
  MaxWaves = 2
  MaxAsks = 1
  ApiDisks <- MCApiDisks
  DemoDisks <- MCDemoDisks
  DefaultEnvs = {"prod"}
  AllOf = "__all"
  MaxFetches = 4
  ServerIds = {"s42", "s7"}
  Known = {"s42"}
  NoId = "none"
  Addresses = {"42", "042", "7", "x"}
  ParsedId <- MCParsedId
  MaxLoads = 3
  MaxRetries = 1
  MaxDate = 1
  MaxCalls = 3
  Hosts = {"s1"}
  ReasonTexts = {"a"}
  MaxExCalls = 2
  Queries = {"adm", "admin"}
  ShortTexts = {"", "a"}
  Names = {"n1", "n2"}
  Bundled = {"n1"}
  MaxSearches = 3
  Groups = {"g1"}
  Nominees = {"n1"}
  Configs = {"v1", "v2"}
  ByNominees = {"v2"}
  MaxAudCalls = 3
SPECIFICATION MCSpec
INVARIANTS
  TypeOK
  SeedIsFlagged
  OnlineMeansLive
  TableAgrees
  LoadingIsAwaited
  QuietRowIsStored
  LatestAnswerKept
  QuietAppIsCurrent
PROPERTIES
  SentAsShown
  CreatedWithItsGroups
CHECK_DEADLOCK FALSE
