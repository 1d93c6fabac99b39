SPECIFICATION Spec
CONSTANTS
  Scheduled = Scheduled
  Manual = Manual
  Row1 = Row1
  Row2 = Row2
  Row3 = Row3
  Runs <- BothDoors
  Rows <- ThreeRows
  MaxAborts = 2
INVARIANT AskedOnce
INVARIANT MessagesFollowTheMark
PROPERTY EveryDueRowIsSwept
