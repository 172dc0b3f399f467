SPECIFICATION FairSpec
CONSTANTS
  wine = wine
  tea = tea
  Topics = {wine, tea}
  Sizes = {0, 60}
  Day = 2
  Schedule = 2
  Bulk = 2
  MinDelta = 40
  TopHot = 2
  TopNotice = 1
  Attempts = 2
  Env = {"resend", "linear", "ai"}
  Flags <- Both
  Faults = {"git", "render", "mail", "issue", "ai"}
  Instants <- Biweekly
  MaxCommits = 2
  MaxRuns = 2
INVARIANTS
  NothingTwice
  NoticesAreTheBest
  ChannelsIndependent
PROPERTIES
  RunsEnd
CHECK_DEADLOCK FALSE
