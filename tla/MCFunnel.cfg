SPECIFICATION Spec
CONSTANTS
  Bookings = {b1}
  Attempts = {a1, a2}
  Callers = {c1}
  Methods = {vnpay, paypal}
  GatewayTxns = {t1, t2}
  TTL = 1
  Window = 2
  Grace = 1
  Reprieve = 1
  HoldCap = 1
  MaxRequests = 1
  NoBooking = NoBooking
  NoCaller = NoCaller
  NoMethod = NoMethod
  NoTxn = NoTxn
INVARIANT PaidIsPostedOnce
PROPERTY MoneyAndRoomTogether
PROPERTY EveryHoldEnds
