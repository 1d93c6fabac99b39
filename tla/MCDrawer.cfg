SPECIFICATION Spec
CONSTANTS
  Desk1 = Desk1
  Desk2 = Desk2
  Alice = Alice
  Day = Day
  Night = Night
  Cash1 = Cash1
  Cash2 = Cash2
  Book1 = Book1
  Book2 = Book2
  Book3 = Book3
  Item1 = Item1
  None = None
  Desks <- TwoDesks
  Operators <- OneOperator
  Shifts <- TwoShifts
  Payments <- OnePayment
  Entries <- ThreeEntries
  Items <- OneItem
  LastInstant = 3
SYMMETRY Interchangeable
CHECK_DEADLOCK FALSE
INVARIANT SignedCountsStand
INVARIANT MistakesAreUndoneOnce
PROPERTY ClearedItemsKeepTheirCredit
