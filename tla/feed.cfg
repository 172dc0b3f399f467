SPECIFICATION FairSpec
CONSTANTS
  c1 = c1
  worker = worker
  blog = blog
  Categories = {c1}
  Hosts = {worker, blog}
  Nil = Nil
  HostOf <- OneCategory
  Concurrency = 3
  HostConcurrency <- SerialWorker
  MinInterval <- SpacedWorker
  CircuitOn5xx = {worker}
  MaxTries = 2
INVARIANTS
  PermitsAccounted
  FewLateRequests
PROPERTIES
  RestBetweenFeeds
  EveryFeedEnds
