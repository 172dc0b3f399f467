SPECIFICATION FairSpec
CONSTANTS
  a = a
  c = c
  Issues <- Backlog
  Sub = {c}
  Page = 2
  History = 2
  Shown = 1
  Offset = 8
  HasAI = TRUE
  Faults = {"query", "ai", "mail"}
  Hours = {26, 49}
  MaxMoves = 2
  MaxRuns = 1
INVARIANTS
  NoCompletionMissed
  TwiceMeansMoved
  TokenSent
PROPERTIES
  EveryRunEnds
CHECK_DEADLOCK FALSE
