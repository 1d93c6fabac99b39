SPECIFICATION Spec
CONSTANTS
  Stays <- OneStay
  Arrival <- FirstDay
  Departure <- AfterOneNight
  NonRefundable = {}
  LastDay = 3
  Calendar <- Weekend
  Plan <- Family
  Candidates <- Silver
  Rules <- FiveAndEight
  BasisPoints = 100
  Figures = {116}
  MaxLines = 5
INVARIANT ClosedAccountsAgree
INVARIANT NightChargedOnce
INVARIANT NoTaxOnAnUndoneSale
INVARIANT DrawerFollowsItsLine
INVARIANT OnePolicyChargeStands
PROPERTY EveryNightIsCharged
CHECK_DEADLOCK FALSE
