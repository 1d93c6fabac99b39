SPECIFICATION Spec
CONSTANTS
  Stays = {s1}
  Addresses = {a1, a2}
  Links = {l1, l2}
  Calls = {c1, c2}
  Connections = 2
  Nobody = Nobody
SYMMETRY GuestSymmetry
INVARIANT AnswersAreAttaches
INVARIANT PoolNeverStarves
CHECK_DEADLOCK FALSE
