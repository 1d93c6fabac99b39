CONSTANTS
  b1 = b1  b2 = b2
  r1 = r1  r2 = r2  r3 = r3
  single = single  double = double
  Bookings = {b1, b2}
  Types = {single}
  Rooms = {r1}
  TypeOf <- OneRoom
  LastNight = 2
  Closure = Closure
  NoRoom = NoRoom
  EarlyCheckIn = FALSE
  DirtyCheckIn = FALSE
  MaxWithdrawn = 0
SPECIFICATION Spec
INVARIANT NeverOverbookedAsDocumented
CONSTRAINT Bounds
SYMMETRY Symmetry
CHECK_DEADLOCK FALSE
