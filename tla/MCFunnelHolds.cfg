SPECIFICATION Spec
CONSTANTS
  Bookings = {b1, b2, b3}
  Attempts = {a1}
  Callers = {c1}
  Methods = {vnpay, paypal}
  GatewayTxns = {t1}
  TTL = 1
  Window = 2
  Grace = 1
  Reprieve = 1
  HoldCap = 1
  MaxRequests = 2
  NoBooking = NoBooking
  NoCaller = NoCaller
  NoMethod = NoMethod
  NoTxn = NoTxn
SYMMETRY HoldSymmetry
INVARIANT HoldsWithinCap
INVARIANT CancelledMoneyIsPaged
PROPERTY PayingGuestKeepsTheRoom
