CONSTANTS
  Nil = Nil
  Topics <- MCTopics
  Title <- MCTitle
  Alike <- MCAlike
  Catalogs <- MCCatalogs
  AiPaths <- MCAiPaths
  Driver = "opencli"
  MediaEnabled = TRUE
SPECIFICATION Spec
INVARIANTS
  GoodContentKept
  SummariesUnderTopics
  HandledMeansRecorded
  ReviewHolds
