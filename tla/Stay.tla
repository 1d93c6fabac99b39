-------------------------------- MODULE Stay --------------------------------
(* The life of a booking against the two inventory layers: the per-type,
   per-night counter (type_inventory) and the physical rooms (room_assignment),
   with room closures and housekeeping conditions.

   Every operation is one database transaction that locks its booking row
   first, so each is one action. A refusal (a thrown error) rolls the whole
   transaction back: a refused call is a disabled action. The database's own
   constraints are guards here, because a statement that breaks one aborts its
   transaction:
     type_inventory_sold_at_most_total, type_inventory_sold_not_negative,
     room_assignment_no_double_booking, room_assignment_covers_at_least_one_night.

   Dates are 1 .. LastNight + 1; night n is slept from date n to date n + 1.  *)
EXTENDS Integers, FiniteSets, BookingStates

CONSTANTS
  Bookings,          \* booking ids
  Types,             \* room types
  Rooms,             \* physical rooms
  TypeOf,            \* the type each room is of
  LastNight,         \* the last night open for sale
  Closure,           \* holder of a row that closes a room instead of booking it
  NoRoom,
  EarlyCheckIn,      \* env BOOKING_EARLY_CHECK_IN_ENABLED
  DirtyCheckIn       \* env BOOKING_DIRTY_ROOM_CHECK_IN_ENABLED

ASSUME BookingsAssumption == IsFiniteSet(Bookings) /\ Closure \notin Bookings
ASSUME RoomsAssumption ==
  IsFiniteSet(Rooms) /\ TypeOf \in [Rooms -> Types] /\ NoRoom \notin Rooms
ASSUME CalendarAssumption == LastNight \in Nat \ {0} /\ Types # {}
ASSUME FlagsAssumption == EarlyCheckIn \in BOOLEAN /\ DirtyCheckIn \in BOOLEAN

VARIABLES
  today,       \* the business date
  booking,     \* booking row of each id
  sold,        \* type_inventory.sold_rooms of each type and night
  total,       \* type_inventory.total_rooms of each type and night
  assignment,  \* the rows of room_assignment
  condition,   \* room_condition.status of each room
  (* History, read by no guard: *)
  owns,        \* the nights the counter was charged for each booking
  guestRoom,   \* the room each guest was last sent to
  strays       \* which of the irregular paths each booking has taken

vars == <<today, booking, sold, total, assignment, condition,
          owns, guestRoom, strays>>

Nights == 1 .. LastNight
Dates  == 1 .. LastNight + 1
Cells  == Types \X Nights

(* The nights of [from, to). *)
Span(from, to) == from .. (to - 1)

(* CLEAN and INSPECTED are one value: no code tells them apart but the board. *)
Conditions == {"READY", "DIRTY", "OUT_OF_ORDER"}

(* Paths on which the code lets the counter, the room rows and the guest drift
   apart; the properties say that nothing else does.
     unbought   a no-show checked in at the desk without buying its nights back
     unheld     a no-show reinstated into a room no row holds for it tonight
     dropped    an early departure deleted the row of the room being slept in
     drifted    nights were released that the counter was not charged for      *)
Strays == {"unbought", "unheld", "dropped", "drifted"}

BookingRow == [state : BookingState \cup {Unborn}, type : Types, ci : Dates, co : Dates]
AssignmentRow ==
  [room : Rooms, holder : Bookings \cup {Closure}, ci : Dates, co : Dates]

TypeOK ==
  /\ today \in Dates
  /\ booking \in [Bookings -> BookingRow]
  /\ sold \in [Cells -> Nat]
  /\ total \in [Cells -> Nat]
  /\ assignment \subseteq AssignmentRow
  /\ condition \in [Rooms -> Conditions]
  /\ owns \in [Bookings -> SUBSET Nights]
  /\ guestRoom \in [Bookings -> Rooms \cup {NoRoom}]
  /\ strays \in [Bookings -> SUBSET Strays]

RoomsOf(t) == {r \in Rooms : TypeOf[r] = t}

Init ==
  /\ today = 1
  /\ booking = [b \in Bookings |-> [state |-> Unborn, type |-> CHOOSE t \in Types : TRUE,
                                     ci |-> 1, co |-> 2]]
  /\ sold = [x \in Cells |-> 0]
  /\ total = [x \in Cells |-> Cardinality(RoomsOf(x[1]))]
  /\ assignment = {}
  /\ condition = [r \in Rooms |-> "READY"]
  /\ owns = [b \in Bookings |-> {}]
  /\ guestRoom = [b \in Bookings |-> NoRoom]
  /\ strays = [b \in Bookings |-> {}]

-----------------------------------------------------------------------------
(* The counter: InventoryService.move. *)

CellsOf(t, nights) == {t} \X nights

(* `nights` are all open for sale and there is at least one. *)
OpenNights(nights) == nights # {} /\ nights \subseteq Nights

(* Mutant of Sellable: the constraint a room too late. *)
SellableOneOver(t, nights) ==
  OpenNights(nights) /\ \A n \in nights : sold[<<t, n>>] <= total[<<t, n>>]

(* A reservation the counter accepts. *)
Sellable(t, nights) ==
  OpenNights(nights) /\ \A n \in nights : sold[<<t, n>>] < total[<<t, n>>]

(* A release the counter accepts, and one for nothing, which no caller makes. *)
Releasable(t, nights) ==
  nights \subseteq Nights /\ \A n \in nights : sold[<<t, n>>] > 0

(* sold_rooms after one more on the cells `up` and one fewer on `down`. *)
Moved(up, down) ==
  [x \in Cells |-> sold[x] + (IF x \in up THEN 1 ELSE 0)
                           - (IF x \in down THEN 1 ELSE 0)]

(* History of a release of `nights` by b: what b was not charged for drifts. *)
StraysReleasing(b, nights) ==
  IF nights \subseteq owns[b] THEN strays[b] ELSE strays[b] \cup {"drifted"}

-----------------------------------------------------------------------------
(* The rooms: AssignmentService, over rows that never overlap in a room. *)

Nightly(a) == Span(a.ci, a.co)

RowsOf(rows, b) == {a \in rows : a.holder = b}

(* Mutant of Latest: the rows sorted the other way. *)
Earliest(rows, b) ==
  {a \in RowsOf(rows, b) : \A c \in RowsOf(rows, b) : a.ci <= c.ci}

(* AssignmentService.current: the row with the latest check_in_date, if any. *)
Latest(rows, b) ==
  {a \in RowsOf(rows, b) : \A c \in RowsOf(rows, b) : c.ci <= a.ci}

(* Mutant of Fits: rooms without room_assignment_no_double_booking. *)
FitsAnywhere(rows, row) == row.ci < row.co

(* The row fits beside `rows`: room_assignment_no_double_booking (closures hold
   rooms too) and room_assignment_covers_at_least_one_night.                  *)
Fits(rows, row) ==
  /\ row.ci < row.co
  /\ \A a \in rows : a.room = row.room => Nightly(a) \cap Nightly(row) = {}

Row(room, holder, ci, co) == [room |-> room, holder |-> holder, ci |-> ci, co |-> co]

(* Mutant of Closed: the old row is left as it was. *)
NeverClosed(rows, held, from) == rows

(* The held row is given up from date `from`: a row that starts there is
   deleted, any other closed there.                                           *)
Closed(rows, held, from) ==
  IF from = held.ci THEN rows \ {held}
  ELSE (rows \ {held}) \cup {[held EXCEPT !.co = from]}

(* ... which the database refuses when it would leave the row without a night, or
   stretch a row that had ended before `from` over somebody else's.           *)
Closable(held, from) ==
  from = held.ci \/ Fits(assignment \ {held}, [held EXCEPT !.co = from])

(* A room left is DIRTY unless it is OUT_OF_ORDER or the guest came back to it. *)
Vacated(left, entered) ==
  IF left = entered \/ condition[left] = "OUT_OF_ORDER" THEN condition
  ELSE [condition EXCEPT ![left] = "DIRTY"]

(* Mutant of LaterOf: the arrival, whatever the date. *)
AlwaysSecond(d, e) == e

LaterOf(d, e) == IF d > e THEN d ELSE e

-----------------------------------------------------------------------------
(* BookingService: making and losing a booking. *)

Stayed(b) == Span(booking[b].ci, booking[b].co)

Rewrite(b, state) == booking' = [booking EXCEPT ![b].state = state]

(* create: the arrival not before the business date, and every night reserved.
   HELD for the guest funnel, CONFIRMED for a desk booking.                   *)
Create(b, state, t, ci, co) ==
  /\ booking[b].state = Unborn /\ Legal(Unborn, state)
  /\ ci < co /\ today <= ci
  /\ Sellable(t, Span(ci, co))
  /\ booking' = [booking EXCEPT ![b] = [state |-> state, type |-> t, ci |-> ci, co |-> co]]
  /\ sold' = Moved(CellsOf(t, Span(ci, co)), {})
  /\ owns' = [owns EXCEPT ![b] = Span(ci, co)]
  /\ UNCHANGED <<today, total, assignment, condition, guestRoom, strays>>

(* createHold naming the guest's previous hold: the new one is taken first and
   the old one cancelled after it, in one transaction, so a guest replacing the
   last room of a night is refused. Whether the old hold may go (the same
   caller's, no payment in flight) is a choice here.                          *)
ReplaceHold(b, old, t, ci, co) ==
  LET back == CellsOf(booking[old].type, Stayed(old))
  IN  /\ booking[b].state = Unborn /\ booking[old].state = "HELD"
      /\ ci < co /\ today <= ci
      /\ Sellable(t, Span(ci, co))
      /\ \A x \in back : Moved(CellsOf(t, Span(ci, co)), {})[x] > 0
      /\ booking' = [booking EXCEPT
                       ![b] = [state |-> "HELD", type |-> t, ci |-> ci, co |-> co],
                       ![old].state = "CANCELLED"]
      /\ sold' = Moved(CellsOf(t, Span(ci, co)), back)
      /\ assignment' = assignment \ RowsOf(assignment, old)
      /\ owns' = [owns EXCEPT ![b] = Span(ci, co), ![old] = @ \ Stayed(old)]
      /\ strays' = [strays EXCEPT ![old] = StraysReleasing(old, Stayed(old))]
      /\ UNCHANGED <<today, total, condition, guestRoom>>

Confirm(b) ==
  /\ booking[b].state # Unborn /\ Legal(booking[b].state, "CONFIRMED")
  /\ Rewrite(b, "CONFIRMED")
  /\ UNCHANGED <<today, sold, total, assignment, condition, owns, guestRoom, strays>>

(* cancel, by the desk, by the guest, or by the hold-expiry sweep: every night
   goes back and every room row is deleted.                                   *)
Cancel(b) ==
  /\ booking[b].state # Unborn /\ Legal(booking[b].state, "CANCELLED")
  /\ Releasable(booking[b].type, Stayed(b))
  /\ sold' = Moved({}, CellsOf(booking[b].type, Stayed(b)))
  /\ assignment' = assignment \ RowsOf(assignment, b)
  /\ Rewrite(b, "CANCELLED")
  /\ owns' = [owns EXCEPT ![b] = @ \ Stayed(b)]
  /\ strays' = [strays EXCEPT ![b] = StraysReleasing(b, Stayed(b))]
  /\ UNCHANGED <<today, total, condition, guestRoom>>

-----------------------------------------------------------------------------
(* AssignmentService: operations that keep the state. *)

Assignable(b) == booking[b].state \in {"CONFIRMED", "CHECKED_IN"}

OfType(r, t) == TypeOf[r] = t

(* Where a row written for a checked-in guest puts that guest. *)
Sent(b, r) ==
  guestRoom' = IF booking[b].state = "CHECKED_IN" THEN [guestRoom EXCEPT ![b] = r]
               ELSE guestRoom

(* assign: the room of the type sold, for the whole stay; a guest in a room is
   moved instead.                                                             *)
Assign(b, r) ==
  LET held == Latest(assignment, b)
      row  == Row(r, b, booking[b].ci, booking[b].co)
  IN  /\ Assignable(b)
      /\ ~ (held # {} /\ booking[b].state = "CHECKED_IN")
      /\ OfType(r, booking[b].type)
      /\ Fits(assignment \ held, row)
      /\ assignment' = (assignment \ held) \cup {row}
      /\ Sent(b, r)
      /\ UNCHANGED <<today, booking, sold, total, condition, owns, strays>>

(* Mutant of MoveDate: the move takes effect a night late. *)
NextMoveDate(b) == LaterOf(today, booking[b].ci) + 1

(* moveDate: the first night a move may take, or none is left. *)
MoveDate(b) == LaterOf(today, booking[b].ci)
MoveDateLeft(b) == MoveDate(b) < booking[b].co

(* move: the slept nights stay in the old room, the rest go to the new one. *)
Move(b, r) ==
  LET from == MoveDate(b)
      row  == Row(r, b, from, booking[b].co)
  IN  \E held \in Latest(assignment, b) :
        /\ booking[b].state = "CHECKED_IN"
        /\ OfType(r, booking[b].type)
        /\ MoveDateLeft(b)
        /\ Closable(held, from)
        /\ Fits(Closed(assignment, held, from), row)
        /\ assignment' = Closed(assignment, held, from) \cup {row}
        /\ condition' = Vacated(held.room, r)
        /\ Sent(b, r)
        /\ UNCHANGED <<today, booking, sold, total, owns, strays>>

(* Mutants of Exchanged: one of the two types is forgotten. *)
ExchangedKeepingOld(b, t) == Moved(CellsOf(t, Stayed(b)), {})
ExchangedNotTakingNew(b, t) == Moved({}, CellsOf(booking[b].type, Stayed(b)))

Exchanged(b, t) == Moved(CellsOf(t, Stayed(b)), CellsOf(booking[b].type, Stayed(b)))

(* changeRoomType, the counter's half: the whole stay moves from one type to the
   other, the nights already slept included.                                  *)
Retype(b, t) ==
  /\ Assignable(b) /\ t # booking[b].type
  /\ Sellable(t, Stayed(b))
  /\ Releasable(booking[b].type, Stayed(b))
  /\ sold' = Exchanged(b, t)
  /\ booking' = [booking EXCEPT ![b].type = t]
  /\ owns' = [owns EXCEPT ![b] = Stayed(b)]
  /\ strays' = [strays EXCEPT ![b] = StraysReleasing(b, Stayed(b))]

(* changeRoomType of a booking that holds no room ... *)
ChangeType(b, t) ==
  /\ Latest(assignment, b) = {}
  /\ Retype(b, t)
  /\ UNCHANGED <<today, total, assignment, condition, guestRoom>>

(* ... and of one that holds a room, into a named room of the new type. *)
ChangeTypeInto(b, t, r) ==
  LET from == IF booking[b].state = "CHECKED_IN" THEN MoveDate(b) ELSE booking[b].ci
      row  == Row(r, b, from, booking[b].co)
  IN  \E held \in Latest(assignment, b) :
        /\ Retype(b, t)
        /\ OfType(r, t)
        /\ booking[b].state = "CHECKED_IN" => MoveDateLeft(b)
        /\ Closable(held, from)
        /\ Fits(Closed(assignment, held, from), row)
        /\ assignment' = Closed(assignment, held, from) \cup {row}
        /\ condition' = IF booking[b].state = "CHECKED_IN" THEN Vacated(held.room, r)
                        ELSE condition
        /\ Sent(b, r)
        /\ UNCHANGED <<today, total>>

(* extendStay: the added nights are reserved and the held row stretched to the
   new departure, whichever row that is.                                      *)
Extend(b, co) ==
  LET added == Span(booking[b].co, co)
      held  == Latest(assignment, b)
      row(a) == [a EXCEPT !.co = co]
  IN  /\ Assignable(b) /\ co > booking[b].co
      /\ Sellable(booking[b].type, added)
      /\ \A a \in held : Fits(assignment \ {a}, row(a))
      /\ sold' = Moved(CellsOf(booking[b].type, added), {})
      /\ booking' = [booking EXCEPT ![b].co = co]
      /\ assignment' = (assignment \ held) \cup {row(a) : a \in held}
      /\ owns' = [owns EXCEPT ![b] = @ \cup added]
      /\ UNCHANGED <<today, total, condition, guestRoom, strays>>

(* shortenStay: the nights from the new departure go back; a held row that
   would keep no night is deleted.                                            *)
Shorten(b, co) ==
  LET given == Span(co, booking[b].co)
      held  == Latest(assignment, b)
      row(a) == [a EXCEPT !.co = co]
      kept  == {row(a) : a \in {h \in held : h.ci < co}}
      rows  == (assignment \ held) \cup kept
      lost  == \E a \in held : a.room = guestRoom[b] /\ \A c \in Latest(rows, b) : c.room # a.room
  IN  /\ booking[b].state = "CHECKED_IN"
      /\ booking[b].ci < co /\ today <= co /\ co < booking[b].co
      /\ Releasable(booking[b].type, given)
      /\ \A a \in held : a.ci < co => Fits(assignment \ {a}, row(a))
      /\ sold' = Moved({}, CellsOf(booking[b].type, given))
      /\ booking' = [booking EXCEPT ![b].co = co]
      /\ assignment' = rows
      /\ owns' = [owns EXCEPT ![b] = @ \ given]
      /\ strays' = [strays EXCEPT ![b] = StraysReleasing(b, given)
                                         \cup (IF lost THEN {"dropped"} ELSE {})]
      /\ UNCHANGED <<today, total, condition, guestRoom>>

-----------------------------------------------------------------------------
(* BookingService: arrival, non-arrival and departure. *)

(* validateArrivalWindow *)
InArrivalWindow(b) ==
  /\ today < booking[b].ci => EarlyCheckIn
  /\ today <= booking[b].co

(* validateRoomReady *)
ReadyFor(r) ==
  condition[r] = "READY" \/ (condition[r] = "DIRTY" /\ DirtyCheckIn)

Arrives(b) == booking[b].state # Unborn /\ Legal(booking[b].state, "CHECKED_IN")

(* checkIn: from whatever state may reach CHECKED_IN, into the room held. *)
CheckIn(b) ==
  \E held \in Latest(assignment, b) :
    /\ Arrives(b) /\ InArrivalWindow(b)
    /\ ReadyFor(held.room)
    /\ Rewrite(b, "CHECKED_IN")
    /\ guestRoom' = [guestRoom EXCEPT ![b] = held.room]
    /\ strays' = [strays EXCEPT ![b] =
                    IF booking[b].state = "NO_SHOW" /\ booking[b].ci + 1 < booking[b].co
                    THEN @ \cup {"unbought"} ELSE @]
    /\ UNCHANGED <<today, sold, total, assignment, condition, owns>>

(* Mutant of AfterArrival: the arrival night goes back with the others. *)
FromArrival(b) == Stayed(b)

(* The nights a no-show gives back: all but the arrival night. *)
AfterArrival(b) == Span(booking[b].ci + 1, booking[b].co)

(* Mutant of CutBack: the room stays held for the whole stay. *)
NeverCutBack(rows, b) == rows

(* markNoShow's room half: the hold is cut back to the arrival night. *)
CutBack(rows, b) ==
  IF AfterArrival(b) = {} THEN rows
  ELSE {IF a.holder = b THEN [a EXCEPT !.co = booking[b].ci + 1] ELSE a : a \in rows}

(* markNoShow by the desk: the arrival date must have been reached. *)
MarkNoShow(b) ==
  /\ booking[b].state # Unborn /\ Legal(booking[b].state, "NO_SHOW")
  /\ booking[b].ci <= today
  /\ Releasable(booking[b].type, AfterArrival(b))
  /\ sold' = Moved({}, CellsOf(booking[b].type, AfterArrival(b)))
  /\ assignment' = CutBack(assignment, b)
  /\ Rewrite(b, "NO_SHOW")
  /\ owns' = [owns EXCEPT ![b] = @ \ AfterArrival(b)]
  /\ strays' = [strays EXCEPT ![b] = StraysReleasing(b, AfterArrival(b))]
  /\ UNCHANGED <<today, total, condition, guestRoom>>

(* The no-show sweep's select: confirmed, and arriving before the business date. *)
Missed(b) == booking[b].state = "CONFIRMED" /\ booking[b].ci < today

SweptBack(x) ==
  {b \in Bookings : Missed(b) /\ x \in CellsOf(booking[b].type, AfterArrival(b))}

SweepReleasable == \A x \in Cells : Cardinality(SweptBack(x)) <= sold[x]

(* The no-show sweep: markNoShow for every missed booking, in one transaction,
   so one refused release rolls the others back.                              *)
NoShowSweep ==
  LET missed == {b \in Bookings : Missed(b)}
  IN  /\ missed # {}
      /\ SweepReleasable
      /\ sold' = [x \in Cells |-> sold[x] - Cardinality(SweptBack(x))]
      /\ assignment' =
           {IF a.holder \in missed /\ AfterArrival(a.holder) # {}
            THEN [a EXCEPT !.co = booking[a.holder].ci + 1] ELSE a : a \in assignment}
      /\ booking' = [b \in Bookings |-> IF b \in missed
                                        THEN [booking[b] EXCEPT !.state = "NO_SHOW"]
                                        ELSE booking[b]]
      /\ owns' = [b \in Bookings |-> IF b \in missed THEN owns[b] \ AfterArrival(b)
                                     ELSE owns[b]]
      /\ strays' = [b \in Bookings |-> IF b \in missed THEN StraysReleasing(b, AfterArrival(b))
                                       ELSE strays[b]]
      /\ UNCHANGED <<today, total, condition, guestRoom>>

Late(b) == today > booking[b].ci

(* Mutants of BuyBack and HoldFrom: tonight is forgotten. *)
BuyBackFromTomorrow(b) == Span(LaterOf(today, booking[b].ci) + 1, booking[b].co)
HoldFromTomorrow(b) == LaterOf(today, booking[b].ci) + 1

(* The nights a reinstatement buys back: from today, and on the arrival date all
   but the arrival night, which was never released.                           *)
BuyBack(b) == Span(IF Late(b) THEN today ELSE booking[b].ci + 1, booking[b].co)

(* The date its new room row starts: on the arrival date the old row, if there
   is one, still holds the arrival night.                                     *)
HoldFrom(b) ==
  IF Late(b) THEN today
  ELSE IF Latest(assignment, b) # {} THEN booking[b].ci + 1 ELSE booking[b].ci

(* reinstate: a no-show turns up, into the room named or the room it kept. *)
Reinstate(b, r) ==
  LET type    == booking[b].type
      co      == booking[b].co
      row     == Row(r, b, HoldFrom(b), co)
      rows    == IF HoldFrom(b) < co THEN assignment \cup {row} ELSE assignment
      tonight == \E a \in RowsOf(rows, b) : a.room = r /\ (today >= co \/ today \in Nightly(a))
  IN  /\ booking[b].state = "NO_SHOW"
      /\ InArrivalWindow(b)
      /\ (\E a \in Latest(assignment, b) : a.room = r) \/ OfType(r, type)
      /\ ReadyFor(r)
      /\ BuyBack(b) # {} => Sellable(type, BuyBack(b))
      /\ HoldFrom(b) < co => Fits(assignment, row)
      /\ sold' = Moved(CellsOf(type, BuyBack(b)), {})
      /\ assignment' = rows
      /\ Rewrite(b, "CHECKED_IN")
      /\ guestRoom' = [guestRoom EXCEPT ![b] = r]
      /\ owns' = [owns EXCEPT ![b] = @ \cup BuyBack(b)]
      /\ strays' = [strays EXCEPT ![b] = @ \cup (IF tonight THEN {} ELSE {"unheld"})]
      /\ UNCHANGED <<today, total, condition>>

(* checkOut: unspent nights go back, the held row is closed or deleted and its
   room is left to be cleaned. The folio balance that gates it is not modelled
   here: any check-out may be refused for it.                                 *)
CheckOut(b) ==
  LET from  == LaterOf(today, booking[b].ci)
      given == Span(from, booking[b].co)
      held  == Latest(assignment, b)
      cut(a) == from = a.ci \/ from < booking[b].co
  IN  /\ booking[b].state # Unborn /\ Legal(booking[b].state, "CHECKED_OUT")
      /\ Releasable(booking[b].type, given)
      /\ \A a \in held : cut(a) => Closable(a, from)
      /\ sold' = Moved({}, CellsOf(booking[b].type, given))
      /\ assignment' = IF \E a \in held : cut(a)
                       THEN UNION {Closed(assignment, a, from) : a \in held}
                       ELSE assignment
      /\ condition' = [r \in Rooms |-> IF (\E a \in held : a.room = r)
                                          /\ condition[r] # "OUT_OF_ORDER"
                                       THEN "DIRTY" ELSE condition[r]]
      /\ Rewrite(b, "CHECKED_OUT")
      /\ owns' = [owns EXCEPT ![b] = @ \ given]
      /\ strays' = [strays EXCEPT ![b] = StraysReleasing(b, given)]
      /\ UNCHANGED <<today, total, guestRoom>>

-----------------------------------------------------------------------------
(* ClosureService and HousekeepingService. *)

(* close: the room is held for the closure and its type sells one room fewer. *)
Close(r, from, to) ==
  LET cells == CellsOf(TypeOf[r], Span(from, to))
  IN  /\ from < to
      /\ Fits(assignment, Row(r, Closure, from, to))
      /\ \A x \in cells : sold[x] < total[x]
      /\ assignment' = assignment \cup {Row(r, Closure, from, to)}
      /\ total' = [x \in Cells |-> IF x \in cells THEN total[x] - 1 ELSE total[x]]
      /\ UNCHANGED <<today, booking, sold, condition, owns, guestRoom, strays>>

(* Mutant of Reopen: a booking's row may be reopened too. *)
ReopenAny(a) ==
  /\ assignment' = assignment \ {a}
  /\ total' = [x \in Cells |-> IF x \in CellsOf(TypeOf[a.room], Nightly(a))
                               THEN total[x] + 1 ELSE total[x]]
  /\ UNCHANGED <<today, booking, sold, condition, owns, guestRoom, strays>>

(* reopen: only a closure, never a booking's row. *)
Reopen(a) ==
  /\ a.holder = Closure
  /\ assignment' = assignment \ {a}
  /\ total' = [x \in Cells |-> IF x \in CellsOf(TypeOf[a.room], Nightly(a))
                               THEN total[x] + 1 ELSE total[x]]
  /\ UNCHANGED <<today, booking, sold, condition, owns, guestRoom, strays>>

(* setCondition and setOutOfOrder: the board may write any condition over any. *)
SetCondition(r, c) ==
  /\ condition[r] # c
  /\ condition' = [condition EXCEPT ![r] = c]
  /\ UNCHANGED <<today, booking, sold, total, assignment, owns, guestRoom, strays>>

(* The business date rolls over. *)
Rollover ==
  /\ today <= LastNight
  /\ today' = today + 1
  /\ UNCHANGED <<booking, sold, total, assignment, condition, owns, guestRoom, strays>>

-----------------------------------------------------------------------------
MakesOrLoses(b) ==
  \/ \E s \in Creatable, t \in Types, ci, co \in Dates : Create(b, s, t, ci, co)
  \/ \E old \in Bookings, t \in Types, ci, co \in Dates : ReplaceHold(b, old, t, ci, co)
  \/ Confirm(b)
  \/ Cancel(b)

ChangesStay(b) ==
  \/ \E r \in Rooms : Assign(b, r) \/ Move(b, r)
  \/ \E t \in Types : ChangeType(b, t) \/ \E r \in Rooms : ChangeTypeInto(b, t, r)
  \/ \E co \in Dates : Extend(b, co) \/ Shorten(b, co)

ComesOrGoes(b) ==
  \/ CheckIn(b)
  \/ MarkNoShow(b)
  \/ \E r \in Rooms : Reinstate(b, r)
  \/ CheckOut(b)

Keeps ==
  \/ \E r \in Rooms, from, to \in Dates : Close(r, from, to)
  \/ \E a \in assignment : Reopen(a)
  \/ \E r \in Rooms, c \in Conditions : SetCondition(r, c)
  \/ Rollover

Next ==
  \/ \E b \in Bookings : MakesOrLoses(b) \/ ChangesStay(b) \/ ComesOrGoes(b)
  \/ NoShowSweep
  \/ Keeps

Spec == Init /\ [][Next]_vars

-----------------------------------------------------------------------------
(* Properties. A booking that has taken an irregular path is excepted by name;
   the one marked "as documented" excepts nobody, and the code does not keep it. *)

Took(b, path) == path \in strays[b]
Undrifted == \A b \in Bookings : ~ Took(b, "drifted")

ChargedFor(x) ==
  {b \in Bookings : booking[b].type = x[1] /\ x[2] \in owns[b]}

CounterIsExact == \A x \in Cells : sold[x] = Cardinality(ChargedFor(x))

(* The counter of every type and night is the number of bookings charged for
   it: no operation, sweep, type change or reinstatement loses or duplicates a
   night (InventoryService.move is called with exactly what was taken).       *)
CountsTheOwners == Undrifted => CounterIsExact

OwnsAsState(b) ==
  LET s == booking[b].state IN
  /\ s \in {Unborn, "CANCELLED"} => owns[b] = {}
  /\ s \in {"HELD", "CONFIRMED"} => owns[b] = Stayed(b)
  /\ s = "NO_SHOW" => owns[b] = {booking[b].ci}
  /\ s = "CHECKED_IN" =>
       /\ owns[b] \subseteq Stayed(b)
       /\ ~ Took(b, "unbought") =>
            Span(LaterOf(today, booking[b].ci), booking[b].co) \subseteq owns[b]
  /\ s = "CHECKED_OUT" => \A n \in owns[b] : n < today

(* What each booking is charged for, by its state: the inventory column of
   booking-state-machine.md section 1.                                        *)
OwnsByState == \A b \in Bookings : OwnsAsState(b)

(* The room column of the same table: a hold has no room, a confirmed booking's
   room is its own for exactly its stay, a no-show's for the arrival night.   *)
RoomsByState ==
  \A b \in Bookings : \A a \in RowsOf(assignment, b) :
    LET s == booking[b].state IN
    /\ s \in {"CONFIRMED", "CHECKED_IN", "CHECKED_OUT", "NO_SHOW"}
    /\ s = "CONFIRMED" => Nightly(a) = Stayed(b)
    /\ s = "NO_SHOW" => Nightly(a) = {booking[b].ci}
    /\ s \in {"CONFIRMED", "NO_SHOW"} => Latest(assignment, b) = {a}

ClosedRooms(x) ==
  {a \in RowsOf(assignment, Closure) : TypeOf[a.room] = x[1] /\ x[2] \in Nightly(a)}

(* Every closure withdrew its room from the counter and no room was withdrawn
   without one: what is for sale is the rooms that are open.                  *)
SellsOpenRooms ==
  \A x \in Cells : total[x] + Cardinality(ClosedRooms(x)) = Cardinality(RoomsOf(x[1]))

(* The two layers agree: whoever holds a room for a night to come has been
   charged for a room of that type for that night.                            *)
HeldNightsAreBought ==
  \A b \in Bookings : \A a \in RowsOf(assignment, b) : \A n \in Nightly(a) :
    (n >= today /\ strays[b] \cap {"unbought", "dropped"} = {}) =>
      TypeOf[a.room] = booking[b].type /\ n \in owns[b]

(* The guests who may turn up for a room of the type on that night. *)
Claims(x) ==
  {b \in Bookings : /\ booking[b].state \in {"HELD", "CONFIRMED", "CHECKED_IN"}
                    /\ booking[b].type = x[1] /\ x[2] \in Stayed(b)}

RoomForEveryClaim ==
  \A x \in Cells : x[2] >= today =>
    Cardinality(Claims(x)) + Cardinality(ClosedRooms(x)) <= Cardinality(RoomsOf(x[1]))

(* Never more claims on a night to come than rooms open for it. *)
NeverOverbooked ==
  (Undrifted /\ \A b \in Bookings : ~ Took(b, "unbought")) => RoomForEveryClaim

(* As documented: a guest in house consumes the remaining nights, and a no-show
   is reinstated only by buying them back.                                    *)
NeverOverbookedAsDocumented == Undrifted => RoomForEveryClaim

(* A night a guest has slept stays charged, whatever the desk does next. *)
SleptNightsStayCharged ==
  [][\A b \in Bookings : booking[b].state = "CHECKED_IN" =>
       {n \in owns[b] : n < today} \subseteq owns'[b]]_vars

InHouse(b) == booking[b].state = "CHECKED_IN" /\ today \in Stayed(b)

(* A guest in house tonight is held the room they are in. *)
InHouseHoldsTonight ==
  \A b \in Bookings : InHouse(b) /\ strays[b] \cap {"unbought", "unheld", "dropped"} = {} =>
    \E a \in RowsOf(assignment, b) : a.room = guestRoom[b] /\ today \in Nightly(a)

(* No two guests with nights left sleep in one room. *)
NoTwoGuestsInOneRoom ==
  \A b, c \in Bookings :
    /\ b # c /\ InHouse(b) /\ InHouse(c)
    /\ (strays[b] \cup strays[c]) \cap {"unbought", "unheld", "dropped"} = {}
    => guestRoom[b] # guestRoom[c]

(* A hold that runs out, a cancellation and the no-show sweep are never refused
   by the counter: one refusal would roll the whole sweep back, every run.    *)
ReleasesAccepted ==
  Undrifted =>
    /\ \A b \in Bookings : booking[b].state \in {"HELD", "CONFIRMED"} =>
         Releasable(booking[b].type, Stayed(b))
    /\ SweepReleasable

(* The database refuses what a check-out would make of the held row, which
   aborts it.                                                                 *)
DepartureAborts(b) ==
  LET from == LaterOf(today, booking[b].ci)
  IN  \E a \in Latest(assignment, b) : from < booking[b].co /\ ~ Closable(a, from)

(* A guest in house can check out on any day but the arrival date. *)
GuestCanLeave ==
  \A b \in Bookings :
    booking[b].state = "CHECKED_IN" /\ today # booking[b].ci /\ ~ Took(b, "unbought") =>
      ~ DepartureAborts(b)

LeftUncleaned(b) ==
  /\ booking[b].state = "CHECKED_IN" /\ booking'[b].state = "CHECKED_OUT"
  /\ condition'[guestRoom[b]] = "READY"

(* A room a guest checks out of is never offered as ready in the same step. *)
DepartedRoomAwaitsCleaning ==
  [][\A b \in Bookings : strays[b] \cap {"unheld", "dropped"} = {} => ~ LeftUncleaned(b)]_vars

=============================================================================
