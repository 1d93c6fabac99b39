CONSTANTS
  b1 = b1  b2 = b2
  r1 = r1  r2 = r2  r3 = r3
  single = single  double = double
  Bookings = {b1, b2}
  Types = {single}
  Rooms = {r1, r2}
  TypeOf <- OneType
  LastNight = 2
  Closure = Closure
  NoRoom = NoRoom
  EarlyCheckIn = TRUE
  DirtyCheckIn = TRUE
  MaxWithdrawn = 1
SPECIFICATION Spec
INVARIANT RoomsByState
INVARIANT SellsOpenRooms
INVARIANT NeverOverbooked
INVARIANT InHouseHoldsTonight
INVARIANT NoTwoGuestsInOneRoom
PROPERTY DepartedRoomAwaitsCleaning
CONSTRAINT Bounds
SYMMETRY Symmetry
CHECK_DEADLOCK FALSE
