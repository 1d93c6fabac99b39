SPECIFICATION LocksSpec
CONSTANTS
  x1 = x1
  x2 = x2
  x3 = x3
  single = single
  double = double
  Nobody = Nobody
  Idle = Idle
  Txns = {x1, x2, x3}
  Types = {single, double}
  LastNight = 3
  StayOf <- Overlapping
  Kinds <- AllKinds
SYMMETRY ConnectionSymmetry
INVARIANT CyclesNeedTwoMovements
