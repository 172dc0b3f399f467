SPECIFICATION Spec
CONSTANTS
  p1 = p1
  p2 = p2
  Faults = {"kill", "read", "save", "mail", "html", "upload", "answer", "token", "text", "meta"}
  Urls <- MCUrls
  UrlOrder <- MCUrlOrder
  HostOf <- MCHostOf
  EscalateAfter = 2
  Suppress = TRUE
  ExampleLimit = 1
  Errors <- MCErrors
  Facts <- MCFacts
  Stale = {"u1"}
  FeedCategories <- MCCategories
  FetchLimit = 10
  SendRuns = 3
  Sources <- MCSources
  DomainOf <- MCDomainOf
  Traits <- MCTraits
  Blocked = {"badDom"}
  Chosen = {}
  Except = {}
  Seedless = {}
  Providers <- MCProviders
  Keyless = {}
  Weight <- MCWeight
  RawScore <- MCRawScore
  PerCat = 1
  ProviderMax = 2
  Max = 1
  NewOnly = TRUE
  DryRuns = {FALSE, TRUE}
  Mutes = {"s1", "dom"}
  HuntCategories <- MCHuntCategories
  HuntRuns = 2
  Procs = {p1, p2}
  Commands = {"send", "trns"}
  Episodes <- MCEpisodes
  Refresh = TRUE
  Versions = {1, 2}
  EpisodeLimit = 0
  TrnsRuns = 2
SYMMETRY Sym
INVARIANTS
  CountsNeverInvented
  NewsletterTells
  NewOnlyOnce
  ReportsHold
  TokenLive
  CacheCoherent
  TallyAddsUp
CHECK_DEADLOCK FALSE
