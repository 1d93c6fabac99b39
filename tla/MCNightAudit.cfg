SPECIFICATION FairSpec
CONSTANTS
  s1 = s1  s2 = s2
  SlotsPerDay = 2
  Rollovers = {0, 1}
  LastInstant = 5
  Stays = {s1}
  Arrival <- Arrivals
  Departure <- Departures
  Sales = {"SERVICE_ITEM"}
  Named = {1}
  LookBack = 2
  Grace = 1
  MaxActs = 1
  MaxEdits = 1
  LastDeparture = 2
INVARIANT FrozenFiguresStand
INVARIANT FrozenNightsAreCharged
INVARIANT OpenDaysArePagedAbout
PROPERTY DaysAreClosed
CHECK_DEADLOCK FALSE
