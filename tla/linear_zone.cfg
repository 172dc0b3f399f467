SPECIFICATION Spec
CONSTANTS
  a = a
  c = c
  Issues <- Backlog
  Sub = {c}
  Page = 2
  History = 2
  Shown = 1
  Offset = 8
  HasAI = TRUE
  Faults = {}
  Hours = {26, 43, 49}
  MaxMoves = 2
  MaxRuns = 1
INVARIANTS
  TransitionsSince
CHECK_DEADLOCK FALSE
