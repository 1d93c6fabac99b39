------------------------------- MODULE Funnel -------------------------------
(* Holds, payment attempts and the gateways' callbacks.

   Every operation on a booking is one transaction that locks its row first, so
   it is one action; the two that read before they lock, the cap on a caller's
   holds and a guest's own cancellation, are two. A callback is one transaction:
   it claims its attempt by a conditional UPDATE, then locks the booking.

   Clocks are kept as what is left of them: `ttl` to hold_expires_at, `grace` to
   last_seen_at + BOOKING_HOLD_GRACE_SECONDS. The process's clock, which writes a
   hold's first expiry, is taken to agree with PostgreSQL's, which reads it.
   The nights behind a hold are in Stay.                                      *)
EXTENDS Naturals, FiniteSets

CONSTANTS
  Bookings, Attempts, Callers,
  Methods,         \* the gateways: VNPAY, PAYPAL
  GatewayTxns,     \* gateway transaction ids
  TTL,             \* BOOKING_HOLD_TTL_MINUTES
  Window,          \* BOOKING_PAYMENT_WINDOW_MINUTES
  Grace,           \* BOOKING_HOLD_GRACE_SECONDS
  Reprieve,        \* DEPARTED_HOLD_REPRIEVE_SECONDS
  HoldCap,         \* CONCURRENT_HOLDS_PER_CALLER
  MaxRequests,     \* requests for a hold one caller has in progress
  NoBooking, NoCaller, NoMethod, NoTxn

ASSUME NamesAssumption ==
  /\ IsFiniteSet(Bookings)
  /\ NoBooking \notin Bookings /\ NoCaller \notin Callers
  /\ NoMethod \notin Methods /\ NoTxn \notin GatewayTxns
ASSUME ClocksAssumption ==
  /\ TTL \in Nat \ {0} /\ Window \in Nat \ {0}
  /\ Grace \in Nat \ {0} /\ Reprieve \in Nat \ {0}
ASSUME CapsAssumption == HoldCap \in Nat \ {0} /\ MaxRequests \in Nat \ {0}

VARIABLES
  hold,        \* booking row of each id, as far as the funnel reads it
  attempt,     \* payment row of each attempt
  lines,       \* PAYMENT lines on the folio for each attempt
  admitted,    \* requests of each caller past the cap and not yet committed
  cancelling,  \* stays a guest's own cancellation has read and not yet locked
  afterCommit, \* attempts whose page waits in TransactionRunner's queue
  paged,       \* attempts ops-alert was asked to page about
  (* History, read by no guard: *)
  window,      \* what is left of the window each attempt was opened with
  landed,      \* the state the money of each attempt landed on
  dropped,     \* attempts whose page a crash took with the process
  revived      \* holds that an attempt gave time again after their TTL had passed

vars == <<hold, attempt, lines, admitted, cancelling, afterCommit, paged,
          window, landed, dropped, revived>>

Unborn == "UNBORN"
HoldState == {Unborn, "HELD", "CONFIRMED", "CANCELLED"}
PaymentStatus == {"UNOPENED", "PENDING", "SUCCESS", "FAILED"}

Longer(x, y) == IF x > y THEN x ELSE y
Shorter(x, y) == IF x < y THEN x ELSE y

TypeOK ==
  /\ hold \in [Bookings -> [state : HoldState, ttl : 0 .. (IF TTL > Window THEN TTL ELSE Window),
                            grace : 0 .. Grace, caller : Callers \cup {NoCaller},
                            revoked : BOOLEAN]]
  /\ attempt \in [Attempts -> [status : PaymentStatus, booking : Bookings \cup {NoBooking},
                               method : Methods \cup {NoMethod},
                               txn : GatewayTxns \cup {NoTxn}]]
  /\ lines \in [Attempts -> Nat]
  /\ admitted \in [Callers -> 0 .. MaxRequests]
  /\ cancelling \subseteq Bookings
  /\ afterCommit \subseteq Attempts /\ paged \subseteq Attempts /\ dropped \subseteq Attempts
  /\ window \in [Attempts -> 0 .. Window]
  /\ landed \in [Attempts -> HoldState]
  /\ revived \subseteq Bookings

Init ==
  /\ hold = [b \in Bookings |-> [state |-> Unborn, ttl |-> 0, grace |-> 0,
                                  caller |-> NoCaller, revoked |-> FALSE]]
  /\ attempt = [a \in Attempts |-> [status |-> "UNOPENED", booking |-> NoBooking,
                                     method |-> NoMethod, txn |-> NoTxn]]
  /\ lines = [a \in Attempts |-> 0]
  /\ admitted = [c \in Callers |-> 0]
  /\ cancelling = {}
  /\ afterCommit = {} /\ paged = {} /\ dropped = {}
  /\ window = [a \in Attempts |-> 0]
  /\ landed = [a \in Attempts |-> Unborn]
  /\ revived = {}

payments == <<attempt, lines, afterCommit, paged, window, landed, dropped>>

-----------------------------------------------------------------------------
(* Holds. *)

Held(b) == hold[b].state = "HELD"

(* Mutant of InFlight: the payments are not asked. *)
NeverInFlight(b) == FALSE

(* BookingService.hasPaymentInFlight. *)
InFlight(b) == \E a \in Attempts : attempt[a].booking = b /\ attempt[a].status = "PENDING"

(* A transition out of HELD clears both clocks and held_by. *)
Left(b, state) == [hold[b] EXCEPT !.state = state, !.ttl = 0, !.grace = 0, !.caller = NoCaller]

(* The holds that count against a caller: not the ones whose TTL has passed. *)
Live(c) == {b \in Bookings : Held(b) /\ hold[b].caller = c /\ hold[b].ttl > 0}

(* Mutant of FewEnough: the cap itself is let through. *)
FewEnoughOrEqual(c) == Cardinality(Live(c)) <= HoldCap

FewEnough(c) == Cardinality(Live(c)) < HoldCap

(* BookingService.assertCallerHoldsFewEnough: a read that locks nothing. *)
AskForHold(c) ==
  /\ FewEnough(c)
  /\ admitted[c] < MaxRequests
  /\ admitted' = [admitted EXCEPT ![c] = @ + 1]
  /\ UNCHANGED <<hold, cancelling, revived, payments>>

(* The request is refused further on: no room, no price, a rule of the funnel. *)
RefuseHold(c) ==
  /\ admitted[c] > 0
  /\ admitted' = [admitted EXCEPT ![c] = @ - 1]
  /\ UNCHANGED <<hold, cancelling, revived, payments>>

(* The row releaseReplacedHold finds and may let go. *)
Replaceable(c, b) ==
  /\ b \in Bookings
  /\ Held(b) /\ hold[b].caller = c /\ ~hold[b].revoked
  /\ ~InFlight(b)

(* BookingService.createHold: the new room first, then the one moved off. *)
OpenHold(c, b, replaces) ==
  /\ admitted[c] > 0
  /\ hold[b].state = Unborn
  /\ hold' = [x \in Bookings |->
                IF x = b THEN [state |-> "HELD", ttl |-> TTL, grace |-> Grace,
                               caller |-> c, revoked |-> FALSE]
                ELSE IF x = replaces /\ Replaceable(c, x) THEN Left(x, "CANCELLED")
                ELSE hold[x]]
  /\ admitted' = [admitted EXCEPT ![c] = @ - 1]
  /\ UNCHANGED <<cancelling, revived, payments>>

(* BookingService.markPresence: still here, or leaving. Nothing reads the column
   once the stay is not HELD.                                                 *)
MarkPresence(b, leaving) ==
  /\ Held(b)
  /\ hold' = [hold EXCEPT ![b].grace = IF leaving THEN Shorter(Grace, Reprieve) ELSE Grace]
  /\ UNCHANGED <<admitted, cancelling, revived, payments>>

Due(b) == Held(b) /\ (hold[b].ttl = 0 \/ hold[b].grace = 0)

(* Mutant of Expired: an open attempt protects the hold from both clocks. *)
ExpiredUnlessPaying == {b \in Bookings : Due(b) /\ ~InFlight(b)}

(* HoldExpirySweep.run: what it cancels of what is due. *)
Expired == {b \in Bookings : Due(b) /\ (hold[b].ttl = 0 \/ ~InFlight(b))}

Sweep ==
  /\ Expired # {}
  /\ hold' = [b \in Bookings |-> IF b \in Expired THEN Left(b, "CANCELLED") ELSE hold[b]]
  /\ UNCHANGED <<admitted, cancelling, revived, payments>>

(* BookingService.confirm, by the desk. *)
Confirm(b) ==
  /\ Held(b)
  /\ hold' = [hold EXCEPT ![b] = Left(b, "CONFIRMED")]
  /\ UNCHANGED <<admitted, cancelling, revived, payments>>

Cancellable(b) == hold[b].state \in {"HELD", "CONFIRMED"}

(* BookingService.cancel, by the desk or by the account that owns the stay. *)
Cancel(b) ==
  /\ Cancellable(b)
  /\ hold' = [hold EXCEPT ![b] = Left(b, "CANCELLED")]
  /\ UNCHANGED <<admitted, cancelling, revived, payments>>

(* BookingService.cancelOwn on the anonymous credential: findOwn checks it ... *)
BeginCancelOwn(b) ==
  /\ hold[b].state # Unborn /\ ~hold[b].revoked
  /\ b \notin cancelling
  /\ cancelling' = cancelling \cup {b}
  /\ UNCHANGED <<hold, admitted, revived, payments>>

(* ... and cancel locks the row and reads its state, and not the credential. *)
FinishCancelOwn(b) ==
  /\ b \in cancelling
  /\ cancelling' = cancelling \ {b}
  /\ hold' = IF Cancellable(b) THEN [hold EXCEPT ![b] = Left(b, "CANCELLED")] ELSE hold
  /\ UNCHANGED <<admitted, revived, payments>>

(* BookingService.attachToAccount: the owner, and the credential given up. *)
AttachToAccount(b) ==
  /\ hold[b].state # Unborn
  /\ hold' = [hold EXCEPT ![b].revoked = TRUE]
  /\ UNCHANGED <<admitted, cancelling, revived, payments>>

-----------------------------------------------------------------------------
(* Payments. *)

(* Mutant of ExtendHold: the attempt is opened and the hold is not extended. *)
ExtendHoldNever(b) == hold

(* BookingService.extendHoldForPayment: greatest(hold_expires_at, now() + window),
   and nothing for a stay that is not held.                                   *)
ExtendHold(b) ==
  IF Held(b) THEN [hold EXCEPT ![b].ttl = Longer(@, Window)] ELSE hold

(* PaymentService.createPaymentRequest. The state of the stay is not asked: a
   balance is collected from a guest in the building by the same door.        *)
OpenAttempt(a, b, m) ==
  /\ attempt[a].status = "UNOPENED"
  /\ hold[b].state # Unborn
  /\ hold' = ExtendHold(b)
  /\ attempt' = [attempt EXCEPT ![a] = [status |-> "PENDING", booking |-> b,
                                        method |-> m, txn |-> NoTxn]]
  /\ window' = [window EXCEPT ![a] = IF Held(b) THEN Window ELSE 0]
  /\ revived' = IF Held(b) /\ hold[b].ttl = 0 THEN revived \cup {b} ELSE revived
  /\ UNCHANGED <<lines, admitted, cancelling, afterCommit, paged, landed, dropped>>

(* Mutant of Claims: the UPDATE without status = 'PENDING'. *)
ClaimsWhatever(a, m) == attempt[a].status # "UNOPENED" /\ attempt[a].method = m

(* The predicate of the conditional UPDATE in take and recordRefusal. *)
Claims(a, m) == attempt[a].status = "PENDING" /\ attempt[a].method = m

(* Mutant of Unrecorded: no unique key on the gateway's transaction id. *)
UnrecordedAnyway(a, txn) == TRUE

(* payment_gateway_transaction_unique_key lets the UPDATE through. *)
Unrecorded(a, txn) == \A x \in Attempts \ {a} : attempt[x].txn # txn

(* Mutant of FoundBy: a hold the sweep would take is reported as taken. *)
ConfirmedFirst(b) == IF Held(b) THEN "CANCELLED" ELSE hold[b].state

(* BookingService.confirmPaidHold reports the state it found. *)
FoundBy(b) == hold[b].state

(* Mutant of PaidHold: the stay is left for the desk to confirm. *)
PaidHoldLeft(b) == hold

(* BookingService.confirmPaidHold: only a hold moves. *)
PaidHold(b) == IF Held(b) THEN [hold EXCEPT ![b] = Left(b, "CONFIRMED")] ELSE hold

(* PaymentService.record on a report of success: the claim, the stay and the line
   on the account commit together, and then the page is sent. A report of
   another amount than the row's is refused and the claim rolled back: such a
   delivery changes nothing, and neither does one that claims nothing.        *)
RecordSuccess(a, m, txn) ==
  LET b == attempt[a].booking IN
  /\ Claims(a, m) /\ Unrecorded(a, txn)
  /\ attempt' = [attempt EXCEPT ![a].status = "SUCCESS", ![a].txn = txn]
  /\ hold' = PaidHold(b)
  /\ lines' = [lines EXCEPT ![a] = @ + 1]
  /\ afterCommit' = IF FoundBy(b) = "CANCELLED" THEN afterCommit \cup {a} ELSE afterCommit
  /\ landed' = [landed EXCEPT ![a] = hold[b].state]
  /\ UNCHANGED <<admitted, cancelling, paged, window, dropped, revived>>

(* PaymentService.recordRefusal. *)
RecordRefusal(a, m) ==
  /\ Claims(a, m)
  /\ attempt' = [attempt EXCEPT ![a].status = "FAILED"]
  /\ UNCHANGED <<hold, lines, admitted, cancelling, afterCommit, paged, window, landed,
                 dropped, revived>>

(* The post-commit queue is drained, or goes with the process. *)
SendPage(a) ==
  /\ a \in afterCommit
  /\ afterCommit' = afterCommit \ {a}
  /\ paged' = paged \cup {a}
  /\ UNCHANGED <<hold, attempt, lines, admitted, cancelling, window, landed, dropped, revived>>

Crash ==
  /\ afterCommit # {} \/ cancelling # {} \/ \E c \in Callers : admitted[c] > 0
  /\ dropped' = dropped \cup afterCommit
  /\ afterCommit' = {}
  /\ admitted' = [c \in Callers |-> 0]
  /\ cancelling' = {}
  /\ UNCHANGED <<hold, attempt, lines, paged, window, landed, revived>>

-----------------------------------------------------------------------------
Less(n) == IF n = 0 THEN 0 ELSE n - 1

Tick ==
  /\ hold' = [b \in Bookings |-> [hold[b] EXCEPT !.ttl = Less(@), !.grace = Less(@)]]
  /\ window' = [a \in Attempts |-> Less(window[a])]
  /\ UNCHANGED <<attempt, lines, admitted, cancelling, afterCommit, paged, landed, dropped, revived>>

Next ==
  \/ \E c \in Callers : AskForHold(c) \/ RefuseHold(c)
  \/ \E c \in Callers, b \in Bookings, r \in Bookings \cup {NoBooking} : OpenHold(c, b, r)
  \/ \E b \in Bookings, leaving \in BOOLEAN : MarkPresence(b, leaving)
  \/ Sweep
  \/ \E b \in Bookings : \/ Confirm(b) \/ Cancel(b) \/ AttachToAccount(b)
                         \/ BeginCancelOwn(b) \/ FinishCancelOwn(b)
  \/ \E a \in Attempts, b \in Bookings, m \in Methods : OpenAttempt(a, b, m)
  \/ \E a \in Attempts, m \in Methods : \/ RecordRefusal(a, m)
                                        \/ \E txn \in GatewayTxns : RecordSuccess(a, m, txn)
  \/ \E a \in Attempts : SendPage(a)
  \/ Crash
  \/ Tick

(* Time passes, the scheduler runs the sweep every minute, and a process that
   stays up drains its post-commit queue.                                     *)
Fairness == WF_vars(Tick) /\ WF_vars(Sweep) /\ \A a \in Attempts : WF_vars(SendPage(a))

Spec == Init /\ [][Next]_vars /\ Fairness

-----------------------------------------------------------------------------
(* Properties. *)

Paid(a) == attempt[a].status = "SUCCESS"

(* FR-PAY-03: an attempt filed as paid has exactly one line on the account, and
   no other attempt has any, however often and in whatever order the gateways
   report; and one transaction of a gateway pays for one attempt.             *)
PaidIsPostedOnce ==
  \A a \in Attempts :
    /\ lines[a] = IF Paid(a) THEN 1 ELSE 0
    /\ \A x \in Attempts : attempt[a].txn # NoTxn /\ attempt[x].txn = attempt[a].txn => x = a

(* booking-state-machine.md 3, "deposit taken": a stay that has been paid for is
   never left counting down to the sweep.                                     *)
PaidStayIsNotHeld == \A a \in Attempts : Paid(a) => ~Held(attempt[a].booking)

(* Money for a stay that was already cancelled, and only that, is something
   ops-alert is paged about once it is on the account; a crash between the commit
   and the page is the one way it is missed (reconciliation is the backstop).  *)
CancelledMoneyIsPaged ==
  \A a \in Attempts :
    landed[a] = "CANCELLED" <=> a \in afterCommit \cup paged \cup dropped

(* extendHoldForPayment: the hold a guest pays for lasts as long as the window
   they were sent to the gateway with, whatever else moves either clock.      *)
WindowIsCovered ==
  \A a \in Attempts :
    LET b == attempt[a].booking
    IN attempt[a].status = "PENDING" /\ b # NoBooking /\ Held(b) => hold[b].ttl >= window[a]

(* Within that window neither the sweep nor another pick of a room takes it from
   a guest whose attempt is open: only somebody asking for it does.            *)
PayingGuestKeepsTheRoom ==
  [][ (Sweep \/ \E c \in Callers, b \in Bookings, r \in Bookings \cup {NoBooking} : OpenHold(c, b, r))
      => \A a \in Attempts :
           attempt[a].status = "PENDING" /\ window[a] > 0 /\ Held(attempt[a].booking)
             => hold'[attempt[a].booking].state = "HELD" ]_vars

(* No hold lasts for ever: not by a tab that keeps saying it is there, not by an
   attempt nobody finishes.                                                    *)
EveryHoldEnds == \A b \in Bookings : Held(b) ~> ~Held(b)

(* booking-state-machine.md 3, "live holds per caller", as far as the code keeps
   it: requests of one caller that read the cap together may pass it together,
   and an attempt may give time to a hold the cap no longer counts; nothing else
   takes a caller past it.                                                     *)
HoldsWithinCap ==
  \A c \in Callers : Cardinality(Live(c) \ revived) < HoldCap + MaxRequests

(* FR-PAY-03 and 3: the whole behaviour, seen as stays and money. *)
StayOf(b) ==
  CASE hold[b].state = Unborn -> "none"
    [] hold[b].state = "HELD" -> "held"
    [] hold[b].state = "CONFIRMED" -> "sold"
    [] hold[b].state = "CANCELLED" -> "gone"
MoneyOf(a) ==
  CASE attempt[a].status = "UNOPENED" -> "none"
    [] attempt[a].status = "PENDING" -> "asked"
    [] attempt[a].status = "FAILED" -> "declined"
    [] attempt[a].status = "SUCCESS" -> "paid"

Promised == INSTANCE PaidStay WITH
  stay <- [b \in Bookings |-> StayOf(b)],
  money <- [a \in Attempts |-> MoneyOf(a)],
  for <- [a \in Attempts |-> attempt[a].booking],
  lines <- lines

(* Holds, attempts, callbacks and sweeps implement PaidStay: money and room move
   together or not at all, and an outcome once filed is never filed again.     *)
MoneyAndRoomTogether == Promised!Spec

=============================================================================
