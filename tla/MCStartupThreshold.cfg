SPECIFICATION Spec
CONSTANTS
  Decks <- AllDecks
  Period = 2
  MaxJobs = 2
  MaxTime = 4
  None = None
INVARIANT DocumentedThresholdAccepted
