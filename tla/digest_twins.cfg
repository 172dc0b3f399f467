SPECIFICATION Spec
CONSTANTS
  u1 = u1
  u2 = u2
  u3 = u3
  d1 = d1
  d2 = d2
  Urls = {u1, u2}
  Note = Note
  p1 = p1
  Pages = {p1}
  NoPage = NoPage
  a1 = a1
  Adds = {}
  Digests = {d1}
  Inbox0 <- TwinLines
  Concurrency = 2
  DryRun = {}
  Failures = {}
  MaxRuns = 1
PROPERTIES
  HandledUrlsLeave
