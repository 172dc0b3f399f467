SPECIFICATION FairSpec
CONSTANTS
  u1 = u1
  u2 = u2
  u3 = u3
  d1 = d1
  d2 = d2
  Urls = {u1, u2, u3}
  Note = Note
  p1 = p1
  Pages = {p1}
  NoPage = NoPage
  a1 = a1
  Adds = {}
  Digests = {d1, d2}
  Inbox0 <- ThreeUrls
  Concurrency = 2
  DryRun = {d2}
  Failures = {"write", "report", "misread", "read", "replace"}
  MaxRuns = 2
PROPERTIES
  DigestsEnd
