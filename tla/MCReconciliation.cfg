SPECIFICATION FairSpec
CONSTANTS
  SlotsPerDay = 2
  Rollovers = {0, 1}
  LastInstant = 4
  Attempts = {a1}
  Never = Never
  Windowed = {}
  UtcMidnight = 1
  LookBack = 2
  MaxAborts = 1
INVARIANT ReconciledMoneyWasCompared
PROPERTY DiscrepanciesAreReal
PROPERTY UnrecordedMoneyIsFiled
CHECK_DEADLOCK FALSE
