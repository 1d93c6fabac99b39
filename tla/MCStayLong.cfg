CONSTANTS
  b1 = b1  b2 = b2
  r1 = r1  r2 = r2  r3 = r3
  single = single  double = double
  Bookings = {b1}
  Types = {single, double}
  Rooms = {r1, r2, r3}
  TypeOf <- Mixed
  LastNight = 4
  Closure = Closure
  NoRoom = NoRoom
  EarlyCheckIn = FALSE
  DirtyCheckIn = FALSE
  MaxWithdrawn = 0
SPECIFICATION Spec
INVARIANT CountsTheOwners
INVARIANT ReleasesAccepted
INVARIANT OwnsByState
INVARIANT HeldNightsAreBought
INVARIANT GuestCanLeave
PROPERTY SleptNightsStayCharged
CONSTRAINT Bounds
SYMMETRY Symmetry
CHECK_DEADLOCK FALSE
