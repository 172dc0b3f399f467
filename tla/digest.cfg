SPECIFICATION Spec
CONSTANTS
  u1 = u1
  u2 = u2
  u3 = u3
  Urls = {u1, u2, u3}
  Note = Note
  p1 = p1
  Pages = {p1}
  NoPage = NoPage
  a1 = a1
  Adds = {a1}
  d1 = d1
  d2 = d2
  Digests = {d1, d2}
  Inbox0 <- SharedLine
  Concurrency = 1
  DryRun = {}
  Failures = {"write", "misread", "read", "replace", "crash"}
  MaxRuns = 2
INVARIANTS
  TypeOK
  NoUrlLost
  OnceUnlessDisturbed
PROPERTIES
  DeliversAtLeastOnce
SYMMETRY Alike
