SPECIFICATION Spec
CONSTANTS
  Decks <- Shipped
  Period = 2
  MaxJobs = 2
  MaxTime = 4
  None = None
INVARIANT TlimInPeriods
