SPECIFICATION Spec
CONSTANTS
  Decks <- AllDecks
  Period = 2
  MaxJobs = 3
  MaxTime = 4
  None = None
INVARIANTS TypeOK WaveReady CriterionHasParams ErrorsFileKept
