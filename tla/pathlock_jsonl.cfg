SPECIFICATION Spec
CONSTANTS
  c1 = c1
  c2 = c2
  c3 = c3
  summary = summary
  okLog = okLog
  Calls = {c1, c2, c3}
  Paths = {summary, okLog}
  Nil = Nil
  Outer <- LogOnly
  LogFile <- OneLog
  MaxActive = 3
  IOFails = {}
INVARIANT LogLinesIntact
