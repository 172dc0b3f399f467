SPECIFICATION Spec
CONSTANTS
  p1 = p1
  p2 = p2
  Syncs = {p1, p2}
  Trades = {1, 2}
  Trade <- MCTrade
  RuleSets <- MCRuleSets
  Limits = {0, 1}
  MaxExports = 2
  MaxBatches = 2
  MaxEdits = 1
  Procs = {p1, p2}
  MaxVersion = 2
  Expected <- MCExpected
  Dirs <- MCDirs
  ImageFiles <- MCImages
  DataFiles = {"f1", "f2"}
  Items <- MCItems
  Domain = "books"
  MaxItems = 2
  Bodies = {"none", "issue", "other"}
  LinearTexts = {0, 2}
  PerPage = 1
  MaxComments = 3
  WikiFiles = {"f1", "f2"}
  Summaries = {"f1", "f2"}
  Failures = {}
  Odd = {}
  Ignored = {"f2"}
  WikiTexts <- MCTexts
  Sites = {"bilibili", "youtube", "weixin", "zhihu", "invalid", "repo", "audio", "podcast", "tco", "page"}
  Drivers = {"opencli", "http-readability"}
  MediaEnabled = {FALSE, TRUE}
  Feeds <- MCFeeds
  AskAttempts = 3
  VerifyAttempts = 2
SYMMETRY Sym
INVARIANTS
  ImportsHold
  ValidCacheServes
  FixesAreSafe
  NothingOverlooked
  WholeDiscussion
  OkMeansClean
  OwnEpisodeFirst
  
CHECK_DEADLOCK FALSE
