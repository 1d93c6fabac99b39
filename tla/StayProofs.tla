----------------------------- MODULE StayProofs -----------------------------
(* What holds of Stay for every number of bookings, rooms, types and nights.  *)
EXTENDS Stay, FiniteSetTheorems, WellFoundedInduction, TLAPS

-----------------------------------------------------------------------------
(* The helpers keep to their types. *)

LEMMA DatesAreIntegers ==
  /\ Dates \subseteq Int /\ Nights \subseteq Int /\ Nights \subseteq Dates
  /\ \A n \in Nights : n + 1 \in Dates
BY CalendarAssumption DEF Dates, Nights

(* A movement of the counter stays in the naturals when every released cell has
   something to release.                                                      *)
LEMMA MovedType ==
  ASSUME TypeOK, NEW up, NEW down,
         \A x \in Cells : x \in down => Moved(up, {})[x] > 0
  PROVE  Moved(up, down) \in [Cells -> Nat]
BY DEF TypeOK, Moved

LEMMA ReleasedType ==
  ASSUME TypeOK, NEW t \in Types, NEW nights, Releasable(t, nights)
  PROVE  Moved({}, CellsOf(t, nights)) \in [Cells -> Nat]
<1>1. \A x \in Cells : x \in CellsOf(t, nights) => sold[x] > 0
  BY DEF Cells, CellsOf, Releasable
<1> QED BY <1>1 DEF TypeOK, Moved

LEMMA ReservedType ==
  ASSUME TypeOK, NEW up
  PROVE  Moved(up, {}) \in [Cells -> Nat]
BY DEF TypeOK, Moved

LEMMA StraysType ==
  ASSUME TypeOK, NEW b \in Bookings, NEW nights
  PROVE  StraysReleasing(b, nights) \in SUBSET Strays
BY DEF TypeOK, StraysReleasing, Strays

LEMMA RowType ==
  ASSUME NEW r \in Rooms, NEW b \in Bookings \cup {Closure}, NEW ci \in Dates, NEW co \in Dates
  PROVE  Row(r, b, ci, co) \in AssignmentRow
BY DEF Row, AssignmentRow

LEMMA LatestType ==
  ASSUME NEW rows, NEW b
  PROVE  Latest(rows, b) \subseteq rows
BY DEF Latest, RowsOf

LEMMA ClosedType ==
  ASSUME NEW rows \in SUBSET AssignmentRow, NEW held \in rows, NEW from \in Dates
  PROVE  Closed(rows, held, from) \subseteq AssignmentRow
BY DEF Closed, AssignmentRow

LEMMA VacatedType ==
  ASSUME TypeOK, NEW left \in Rooms, NEW entered
  PROVE  Vacated(left, entered) \in [Rooms -> Conditions]
BY DEF TypeOK, Vacated, Conditions

LEMMA SpanType ==
  ASSUME NEW d \in Dates, NEW e \in Dates
  PROVE  Span(d, e) \subseteq Nights
BY CalendarAssumption DEF Span, Dates, Nights

-----------------------------------------------------------------------------
(* Type correctness, one lemma per operation. *)

LEMMA RewriteType ==
  ASSUME TypeOK, NEW b \in Bookings, NEW s \in BookingState, Rewrite(b, s)
  PROVE  booking' \in [Bookings -> BookingRow]
BY DEF TypeOK, Rewrite, BookingRow

LEMMA StayedType ==
  ASSUME TypeOK, NEW b \in Bookings
  PROVE  /\ Stayed(b) \subseteq Nights
         /\ booking[b].type \in Types
         /\ booking[b].ci \in Dates /\ booking[b].co \in Dates
<1>1. booking[b].type \in Types /\ booking[b].ci \in Dates /\ booking[b].co \in Dates
  BY DEF TypeOK, BookingRow
<1> QED BY <1>1, SpanType DEF Stayed

LEMMA CreateType ==
  ASSUME TypeOK, NEW b \in Bookings, NEW s \in Creatable, NEW t \in Types,
         NEW ci \in Dates, NEW co \in Dates, Create(b, s, t, ci, co)
  PROVE  TypeOK'
<1>1. booking' \in [Bookings -> BookingRow]
  <2>1. [state |-> s, type |-> t, ci |-> ci, co |-> co] \in BookingRow
    BY DEF BookingRow, Creatable, BookingState
  <2>2. booking \in [Bookings -> BookingRow]
    BY DEF TypeOK
  <2> QED BY <2>1, <2>2 DEF Create
<1>2. sold' \in [Cells -> Nat]
  BY ReservedType DEF Create
<1>3. owns' \in [Bookings -> SUBSET Nights]
  BY SpanType DEF Create, TypeOK
<1> QED BY <1>1, <1>2, <1>3 DEF Create, TypeOK

LEMMA ReplaceHoldType ==
  ASSUME TypeOK, NEW b \in Bookings, NEW old \in Bookings, NEW t \in Types,
         NEW ci \in Dates, NEW co \in Dates, ReplaceHold(b, old, t, ci, co)
  PROVE  TypeOK'
<1>1. booking' \in [Bookings -> BookingRow]
  <2> DEFINE taken == [booking EXCEPT ![b] = [state |-> "HELD", type |-> t, ci |-> ci, co |-> co]]
  <2>1. [state |-> "HELD", type |-> t, ci |-> ci, co |-> co] \in BookingRow
    BY DEF BookingRow, BookingState
  <2>2. taken \in [Bookings -> BookingRow]
    BY <2>1 DEF TypeOK
  <2>3. booking' = [taken EXCEPT ![old].state = "CANCELLED"]
    BY DEF ReplaceHold
  <2> HIDE DEF taken
  <2>4. [taken[old] EXCEPT !.state = "CANCELLED"] \in BookingRow
    BY <2>2 DEF BookingRow, BookingState
  <2> QED BY <2>2, <2>3, <2>4
<1>2. sold' \in [Cells -> Nat]
  BY MovedType DEF ReplaceHold
<1>3. owns' \in [Bookings -> SUBSET Nights]
  BY SpanType DEF ReplaceHold, TypeOK
<1>4. strays' \in [Bookings -> SUBSET Strays]
  BY StraysType DEF ReplaceHold, TypeOK
<1>5. assignment' \subseteq AssignmentRow
  BY DEF ReplaceHold, TypeOK
<1> QED BY <1>1, <1>2, <1>3, <1>4, <1>5 DEF ReplaceHold, TypeOK

LEMMA ConfirmType ==
  ASSUME TypeOK, NEW b \in Bookings, Confirm(b)
  PROVE  TypeOK'
BY RewriteType DEF Confirm, TypeOK, BookingState

LEMMA CancelType ==
  ASSUME TypeOK, NEW b \in Bookings, Cancel(b)
  PROVE  TypeOK'
<1>1. booking' \in [Bookings -> BookingRow]
  BY RewriteType DEF Cancel, BookingState
<1>2. sold' \in [Cells -> Nat]
  BY ReleasedType, StayedType DEF Cancel
<1>3. assignment' \subseteq AssignmentRow
  BY DEF Cancel, TypeOK
<1>4. strays' \in [Bookings -> SUBSET Strays]
  BY StraysType DEF Cancel, TypeOK
<1> QED BY <1>1, <1>2, <1>3, <1>4 DEF Cancel, TypeOK

LEMMA AssignType ==
  ASSUME TypeOK, NEW b \in Bookings, NEW r \in Rooms, Assign(b, r)
  PROVE  TypeOK'
<1>1. assignment' \subseteq AssignmentRow
  BY RowType, StayedType DEF Assign, TypeOK
<1> QED BY <1>1 DEF Assign, Sent, TypeOK

LEMMA MoveDateType ==
  ASSUME TypeOK, NEW b \in Bookings
  PROVE  MoveDate(b) \in Dates
BY StayedType DEF MoveDate, LaterOf, TypeOK

LEMMA MoveType ==
  ASSUME TypeOK, NEW b \in Bookings, NEW r \in Rooms, Move(b, r)
  PROVE  TypeOK'
<1> DEFINE from == MoveDate(b)
           row  == Row(r, b, from, booking[b].co)
<1>1. PICK held \in Latest(assignment, b) :
         /\ assignment' = Closed(assignment, held, from) \cup {row}
         /\ condition' = Vacated(held.room, r)
         /\ Sent(b, r)
         /\ UNCHANGED <<today, booking, sold, total, owns, strays>>
  BY DEF Move
<1>2. held \in assignment /\ held.room \in Rooms
  BY LatestType DEF TypeOK, AssignmentRow
<1>3. assignment' \subseteq AssignmentRow
  BY <1>1, <1>2, MoveDateType, RowType, StayedType, ClosedType DEF TypeOK
<1>4. condition' \in [Rooms -> Conditions]
  BY <1>1, <1>2, VacatedType
<1> QED BY <1>1, <1>3, <1>4 DEF Sent, TypeOK

LEMMA RetypeType ==
  ASSUME TypeOK, NEW b \in Bookings, NEW t \in Types, Retype(b, t)
  PROVE  /\ booking' \in [Bookings -> BookingRow]
         /\ sold' \in [Cells -> Nat]
         /\ owns' \in [Bookings -> SUBSET Nights]
         /\ strays' \in [Bookings -> SUBSET Strays]
<1>1. booking' \in [Bookings -> BookingRow]
  BY DEF Retype, TypeOK, BookingRow
<1>2. \A x \in Cells : x \in CellsOf(booking[b].type, Stayed(b)) =>
                         Moved(CellsOf(t, Stayed(b)), {})[x] > 0
  BY DEF Retype, Releasable, CellsOf, Cells, Moved, TypeOK
<1>3. sold' \in [Cells -> Nat]
  BY <1>2, MovedType DEF Retype, Exchanged
<1>4. owns' \in [Bookings -> SUBSET Nights]
  BY StayedType DEF Retype, TypeOK
<1>5. strays' \in [Bookings -> SUBSET Strays]
  BY StraysType DEF Retype, TypeOK
<1> QED BY <1>1, <1>3, <1>4, <1>5

LEMMA ChangeTypeType ==
  ASSUME TypeOK, NEW b \in Bookings, NEW t \in Types, ChangeType(b, t)
  PROVE  TypeOK'
BY RetypeType DEF ChangeType, TypeOK

LEMMA ChangeTypeIntoType ==
  ASSUME TypeOK, NEW b \in Bookings, NEW t \in Types, NEW r \in Rooms,
         ChangeTypeInto(b, t, r)
  PROVE  TypeOK'
<1> DEFINE from == IF booking[b].state = "CHECKED_IN" THEN MoveDate(b) ELSE booking[b].ci
           row  == Row(r, b, from, booking[b].co)
<1>1. PICK held \in Latest(assignment, b) :
         /\ Retype(b, t)
         /\ assignment' = Closed(assignment, held, from) \cup {row}
         /\ condition' = IF booking[b].state = "CHECKED_IN" THEN Vacated(held.room, r)
                         ELSE condition
         /\ Sent(b, r)
         /\ UNCHANGED <<today, total>>
  BY DEF ChangeTypeInto
<1>2. held \in assignment /\ held.room \in Rooms
  BY LatestType DEF TypeOK, AssignmentRow
<1>3. from \in Dates
  BY MoveDateType, StayedType
<1>4. assignment' \subseteq AssignmentRow
  BY <1>1, <1>2, <1>3, RowType, StayedType, ClosedType DEF TypeOK
<1>5. condition' \in [Rooms -> Conditions]
  BY <1>1, <1>2, VacatedType DEF TypeOK
<1> QED BY <1>1, <1>4, <1>5, RetypeType DEF Sent, TypeOK

LEMMA ExtendType ==
  ASSUME TypeOK, NEW b \in Bookings, NEW co \in Dates, Extend(b, co)
  PROVE  TypeOK'
<1>1. booking' \in [Bookings -> BookingRow]
  BY DEF Extend, TypeOK, BookingRow
<1>2. sold' \in [Cells -> Nat]
  BY ReservedType DEF Extend
<1>3. owns' \in [Bookings -> SUBSET Nights]
  BY StayedType, SpanType DEF Extend, TypeOK
<1>4. \A a \in Latest(assignment, b) : [a EXCEPT !.co = co] \in AssignmentRow
  BY LatestType DEF TypeOK, AssignmentRow
<1>5. assignment' \subseteq AssignmentRow
  BY <1>4, LatestType DEF Extend, TypeOK
<1> QED BY <1>1, <1>2, <1>3, <1>5 DEF Extend, TypeOK

LEMMA ShortenType ==
  ASSUME TypeOK, NEW b \in Bookings, NEW co \in Dates, Shorten(b, co)
  PROVE  TypeOK'
<1>1. booking' \in [Bookings -> BookingRow]
  BY DEF Shorten, TypeOK, BookingRow
<1>2. sold' \in [Cells -> Nat]
  BY ReleasedType, StayedType DEF Shorten
<1>3. owns' \in [Bookings -> SUBSET Nights]
  BY DEF Shorten, TypeOK
<1>4. strays' \in [Bookings -> SUBSET Strays]
  BY StraysType DEF Shorten, TypeOK, Strays
<1>5. \A a \in Latest(assignment, b) : [a EXCEPT !.co = co] \in AssignmentRow
  BY LatestType DEF TypeOK, AssignmentRow
<1>6. assignment' \subseteq AssignmentRow
  BY <1>5, LatestType DEF Shorten, TypeOK
<1> QED BY <1>1, <1>2, <1>3, <1>4, <1>6 DEF Shorten, TypeOK

LEMMA CheckInType ==
  ASSUME TypeOK, NEW b \in Bookings, CheckIn(b)
  PROVE  TypeOK'
<1>1. PICK held \in Latest(assignment, b) : guestRoom' = [guestRoom EXCEPT ![b] = held.room]
  BY DEF CheckIn
<1>2. held.room \in Rooms
  BY LatestType DEF TypeOK, AssignmentRow
<1>3. booking' \in [Bookings -> BookingRow]
  BY RewriteType DEF CheckIn, BookingState
<1>4. strays' \in [Bookings -> SUBSET Strays]
  BY DEF CheckIn, TypeOK, Strays
<1> QED BY <1>1, <1>2, <1>3, <1>4 DEF CheckIn, TypeOK

LEMMA AfterArrivalType ==
  ASSUME TypeOK, NEW b \in Bookings
  PROVE  AfterArrival(b) \subseteq Stayed(b)
BY StayedType DEF AfterArrival, Stayed, Span, Dates

(* A row of `b` cut back to the arrival night ends on a date of the calendar. *)
LEMMA ArrivalNightEnds ==
  ASSUME TypeOK, NEW b \in Bookings, AfterArrival(b) # {}
  PROVE  booking[b].ci + 1 \in Dates
BY StayedType, CalendarAssumption DEF AfterArrival, Span, Dates

LEMMA MarkNoShowType ==
  ASSUME TypeOK, NEW b \in Bookings, MarkNoShow(b)
  PROVE  TypeOK'
<1>1. booking' \in [Bookings -> BookingRow]
  BY RewriteType DEF MarkNoShow, BookingState
<1>2. sold' \in [Cells -> Nat]
  BY ReleasedType, StayedType DEF MarkNoShow
<1>3. strays' \in [Bookings -> SUBSET Strays]
  BY StraysType DEF MarkNoShow, TypeOK
<1>4. CutBack(assignment, b) \subseteq AssignmentRow
  BY ArrivalNightEnds DEF CutBack, TypeOK, AssignmentRow
<1> QED BY <1>1, <1>2, <1>3, <1>4 DEF MarkNoShow, TypeOK

LEMMA SweptBackFinite ==
  ASSUME NEW x
  PROVE  IsFiniteSet(SweptBack(x)) /\ Cardinality(SweptBack(x)) \in Nat
<1>1. SweptBack(x) \subseteq Bookings
  BY DEF SweptBack
<1> QED BY <1>1, BookingsAssumption, FS_Subset, FS_CardinalityType

LEMMA NoShowSweepType ==
  ASSUME TypeOK, NoShowSweep
  PROVE  TypeOK'
<1> DEFINE missed == {b \in Bookings : Missed(b)}
<1>1. booking' \in [Bookings -> BookingRow]
  BY DEF NoShowSweep, TypeOK, BookingRow, BookingState
<1>2. sold' \in [Cells -> Nat]
  <2>1. \A x \in Cells : Cardinality(SweptBack(x)) \in Nat
    BY SweptBackFinite
  <2> QED BY <2>1 DEF NoShowSweep, SweepReleasable, TypeOK
<1>3. \A b \in Bookings : StraysReleasing(b, AfterArrival(b)) \in SUBSET Strays
  BY StraysType
<1>4. strays' \in [Bookings -> SUBSET Strays]
  BY <1>3 DEF NoShowSweep, TypeOK
<1>5. owns' \in [Bookings -> SUBSET Nights]
  BY DEF NoShowSweep, TypeOK
<1>6. \A a \in assignment : a.holder \in missed /\ AfterArrival(a.holder) # {} =>
         [a EXCEPT !.co = booking[a.holder].ci + 1] \in AssignmentRow
  BY ArrivalNightEnds DEF TypeOK, AssignmentRow
<1>7. assignment' \subseteq AssignmentRow
  BY <1>6 DEF NoShowSweep, TypeOK
<1> QED BY <1>1, <1>2, <1>4, <1>5, <1>7 DEF NoShowSweep, TypeOK

LEMMA ReinstateType ==
  ASSUME TypeOK, NEW b \in Bookings, NEW r \in Rooms, Reinstate(b, r)
  PROVE  TypeOK'
<1>1. booking' \in [Bookings -> BookingRow]
  BY RewriteType DEF Reinstate, BookingState
<1>2. sold' \in [Cells -> Nat]
  BY ReservedType DEF Reinstate
<1>3. BuyBack(b) \subseteq Nights
  BY StayedType, CalendarAssumption DEF BuyBack, Late, Span, Dates, Nights, TypeOK
<1>4. strays' \in [Bookings -> SUBSET Strays]
  BY DEF Reinstate, TypeOK, Strays
<1>5. HoldFrom(b) < booking[b].co => HoldFrom(b) \in Dates
  BY StayedType, CalendarAssumption DEF HoldFrom, Late, Dates, TypeOK
<1>6. assignment' \subseteq AssignmentRow
  BY <1>5, RowType, StayedType DEF Reinstate, TypeOK
<1> QED BY <1>1, <1>2, <1>3, <1>4, <1>6 DEF Reinstate, TypeOK

LEMMA CheckOutType ==
  ASSUME TypeOK, NEW b \in Bookings, CheckOut(b)
  PROVE  TypeOK'
<1> DEFINE from == LaterOf(today, booking[b].ci)
<1>1. booking' \in [Bookings -> BookingRow]
  BY RewriteType DEF CheckOut, BookingState
<1>2. sold' \in [Cells -> Nat]
  BY ReleasedType, StayedType DEF CheckOut
<1>3. strays' \in [Bookings -> SUBSET Strays]
  BY StraysType DEF CheckOut, TypeOK
<1>4. from \in Dates
  BY StayedType DEF LaterOf, TypeOK
<1>5. \A a \in Latest(assignment, b) : Closed(assignment, a, from) \subseteq AssignmentRow
  BY <1>4, LatestType, ClosedType DEF TypeOK
<1>6. assignment' \subseteq AssignmentRow
  BY <1>5 DEF CheckOut, TypeOK
<1>7. condition' \in [Rooms -> Conditions]
  BY DEF CheckOut, TypeOK, Conditions
<1> QED BY <1>1, <1>2, <1>3, <1>6, <1>7 DEF CheckOut, TypeOK

LEMMA KeepsType ==
  ASSUME TypeOK, Keeps
  PROVE  TypeOK'
<1>1. ASSUME NEW r \in Rooms, NEW from \in Dates, NEW to \in Dates, Close(r, from, to)
      PROVE  TypeOK'
  <2>1. total' \in [Cells -> Nat]
    BY <1>1 DEF Close, TypeOK
  <2>2. Row(r, Closure, from, to) \in AssignmentRow
    BY RowType
  <2> QED BY <1>1, <2>1, <2>2 DEF Close, TypeOK
<1>2. ASSUME NEW a \in assignment, Reopen(a)
      PROVE  TypeOK'
  BY <1>2 DEF Reopen, TypeOK
<1>3. ASSUME NEW r \in Rooms, NEW c \in Conditions, SetCondition(r, c)
      PROVE  TypeOK'
  BY <1>3 DEF SetCondition, TypeOK
<1>4. CASE Rollover
  BY <1>4, CalendarAssumption DEF Rollover, TypeOK, Dates
<1> QED BY <1>1, <1>2, <1>3, <1>4 DEF Keeps

LEMMA InitType == Init => TypeOK
<1> SUFFICES ASSUME Init PROVE TypeOK
  OBVIOUS
<1>1. \A x \in Cells : Cardinality(RoomsOf(x[1])) \in Nat
  <2>1. \A t : RoomsOf(t) \subseteq Rooms
    BY DEF RoomsOf
  <2> QED BY <2>1, RoomsAssumption, FS_Subset, FS_CardinalityType
<1>2. (CHOOSE t \in Types : TRUE) \in Types
  BY CalendarAssumption
<1>3. 1 \in Dates /\ 2 \in Dates
  BY CalendarAssumption DEF Dates
<1>4. booking \in [Bookings -> BookingRow]
  BY <1>2, <1>3 DEF Init, BookingRow
<1> QED BY <1>1, <1>3, <1>4 DEF Init, TypeOK, Conditions

LEMMA NextType == TypeOK /\ [Next]_vars => TypeOK'
<1> SUFFICES ASSUME TypeOK, [Next]_vars PROVE TypeOK'
  OBVIOUS
<1>1. ASSUME NEW b \in Bookings, MakesOrLoses(b) PROVE TypeOK'
  BY <1>1, CreateType, ReplaceHoldType, ConfirmType, CancelType DEF MakesOrLoses
<1>2. ASSUME NEW b \in Bookings, ChangesStay(b) PROVE TypeOK'
  BY <1>2, AssignType, MoveType, ChangeTypeType, ChangeTypeIntoType, ExtendType, ShortenType
     DEF ChangesStay
<1>3. ASSUME NEW b \in Bookings, ComesOrGoes(b) PROVE TypeOK'
  BY <1>3, CheckInType, MarkNoShowType, ReinstateType, CheckOutType DEF ComesOrGoes
<1>4. CASE UNCHANGED vars
  BY <1>4 DEF vars, TypeOK
<1> QED BY <1>1, <1>2, <1>3, <1>4, NoShowSweepType, KeepsType DEF Next

(* Every value the operations write is one the tables can hold; in particular no
   counter the database refuses to make negative ever is.                     *)
THEOREM TypeCorrect == Spec => []TypeOK
BY InitType, NextType, PTL DEF Spec

-----------------------------------------------------------------------------
(* What a booking is charged for. The induction needs one more fact: a stay that
   exists has at least one night.                                             *)

ANight(b) == booking[b].state # Unborn => booking[b].ci < booking[b].co

Charged == TypeOK /\ \A b \in Bookings : ANight(b) /\ OwnsAsState(b)

(* A step of booking b is checked at b alone. *)
LEMMA OwnsFrame ==
  ASSUME Charged, TypeOK', NEW b \in Bookings, ANight(b)', OwnsAsState(b)', today' = today,
         \A c \in Bookings \ {b} : /\ booking'[c] = booking[c]
                                   /\ owns'[c] = owns[c]
                                   /\ strays'[c] = strays[c]
  PROVE  Charged'
<1>1. \A c \in Bookings \ {b} : ANight(c)' /\ OwnsAsState(c)'
  BY DEF Charged, ANight, OwnsAsState, Stayed, Took
<1> QED BY <1>1 DEF Charged

(* Neither the states nor the nights of any booking change. *)
LEMMA OwnsUnchanged ==
  ASSUME Charged, TypeOK', UNCHANGED <<today, booking, owns, strays>>
  PROVE  Charged'
BY DEF Charged, ANight, OwnsAsState, Stayed, Took

(* The paths a booking has taken are never forgotten. *)
LEMMA StraysGrow ==
  ASSUME NEW b, NEW nights
  PROVE  strays[b] \subseteq StraysReleasing(b, nights)
BY DEF StraysReleasing

LEMMA CreateOwns ==
  ASSUME Charged, NEW b \in Bookings, NEW s \in Creatable, NEW t \in Types,
         NEW ci \in Dates, NEW co \in Dates, Create(b, s, t, ci, co)
  PROVE  Charged'
<1>1. TypeOK /\ TypeOK'
  BY CreateType DEF Charged
<1>2. booking'[b] = [state |-> s, type |-> t, ci |-> ci, co |-> co] /\ owns'[b] = Span(ci, co)
  BY <1>1 DEF Create, TypeOK
<1>3. ANight(b)' /\ OwnsAsState(b)'
  BY <1>2 DEF Create, ANight, OwnsAsState, Stayed, Creatable, Unborn
<1> QED BY <1>1, <1>3, OwnsFrame DEF Create, TypeOK

LEMMA ReplaceHoldOwns ==
  ASSUME Charged, NEW b \in Bookings, NEW old \in Bookings, NEW t \in Types,
         NEW ci \in Dates, NEW co \in Dates, ReplaceHold(b, old, t, ci, co)
  PROVE  Charged'
<1>1. TypeOK /\ TypeOK' /\ b # old
  BY ReplaceHoldType DEF Charged, ReplaceHold, Unborn
<1>2. booking'[b] = [state |-> "HELD", type |-> t, ci |-> ci, co |-> co] /\ owns'[b] = Span(ci, co)
  BY <1>1 DEF ReplaceHold, TypeOK
<1>3. ANight(b)' /\ OwnsAsState(b)'
  BY <1>2 DEF ReplaceHold, ANight, OwnsAsState, Stayed, Unborn
<1>4. /\ booking'[old] = [booking[old] EXCEPT !.state = "CANCELLED"]
      /\ owns'[old] = owns[old] \ Stayed(old)
  BY <1>1 DEF ReplaceHold, TypeOK
<1>5. owns[old] = Stayed(old) /\ booking[old].ci < booking[old].co
  BY DEF Charged, ReplaceHold, OwnsAsState, ANight, Unborn
<1>6. ANight(old)' /\ OwnsAsState(old)'
  BY <1>1, <1>4, <1>5 DEF ANight, OwnsAsState, Unborn, TypeOK, BookingRow
<1>7. \A c \in Bookings \ {b, old} : ANight(c)' /\ OwnsAsState(c)'
  BY <1>1 DEF ReplaceHold, Charged, ANight, OwnsAsState, Stayed, Took, TypeOK
<1> QED BY <1>1, <1>3, <1>6, <1>7 DEF Charged

LEMMA ConfirmOwns ==
  ASSUME Charged, NEW b \in Bookings, Confirm(b)
  PROVE  Charged'
<1>1. TypeOK /\ TypeOK'
  BY ConfirmType DEF Charged
<1>2. booking[b].state = "HELD"
  BY <1>1 DEF Confirm, Legal, LegalTransitions, TypeOK, BookingRow, BookingState, Unborn
<1>3. booking'[b] = [booking[b] EXCEPT !.state = "CONFIRMED"] /\ owns'[b] = owns[b]
  BY <1>1 DEF Confirm, Rewrite, TypeOK
<1>4. booking'[b].ci = booking[b].ci /\ booking'[b].co = booking[b].co
      /\ booking'[b].state = "CONFIRMED"
  BY <1>1, <1>3 DEF TypeOK, BookingRow
<1>5. ANight(b)' /\ OwnsAsState(b)'
  BY <1>2, <1>3, <1>4 DEF Charged, ANight, OwnsAsState, Stayed, Unborn
<1> QED BY <1>1, <1>5, OwnsFrame DEF Confirm, Rewrite, TypeOK

LEMMA CancelOwns ==
  ASSUME Charged, NEW b \in Bookings, Cancel(b)
  PROVE  Charged'
<1>1. TypeOK /\ TypeOK'
  BY CancelType DEF Charged
<1>2. booking[b].state \in {"HELD", "CONFIRMED"}
  BY <1>1 DEF Cancel, Legal, LegalTransitions, TypeOK, BookingRow, BookingState, Unborn
<1>3. booking'[b] = [booking[b] EXCEPT !.state = "CANCELLED"] /\ owns'[b] = {}
  BY <1>1, <1>2 DEF Cancel, Rewrite, TypeOK, Charged, OwnsAsState
<1>4. booking'[b].ci = booking[b].ci /\ booking'[b].co = booking[b].co
      /\ booking'[b].state = "CANCELLED"
  BY <1>1, <1>3 DEF TypeOK, BookingRow
<1>5. ANight(b)' /\ OwnsAsState(b)'
  BY <1>2, <1>3, <1>4 DEF Charged, ANight, OwnsAsState, Unborn
<1> QED BY <1>1, <1>5, OwnsFrame DEF Cancel, Rewrite, TypeOK

LEMMA RetypeOwns ==
  ASSUME Charged, TypeOK', NEW b \in Bookings, NEW t \in Types, Retype(b, t), today' = today
  PROVE  Charged'
<1>1. TypeOK /\ booking[b].state \in {"CONFIRMED", "CHECKED_IN"}
  BY DEF Charged, Retype, Assignable
<1>2. booking'[b] = [booking[b] EXCEPT !.type = t] /\ owns'[b] = Stayed(b)
  BY <1>1 DEF Retype, TypeOK
<1>3. /\ booking'[b].ci = booking[b].ci /\ booking'[b].co = booking[b].co
      /\ booking'[b].state = booking[b].state
  BY <1>1, <1>2 DEF TypeOK, BookingRow
<1>4. Span(LaterOf(today, booking[b].ci), booking[b].co) \subseteq Stayed(b)
  BY <1>1, StayedType DEF Span, LaterOf, Stayed, Dates, TypeOK
<1>5. ANight(b)' /\ OwnsAsState(b)'
  BY <1>1, <1>2, <1>3, <1>4 DEF Charged, ANight, OwnsAsState, Stayed, Unborn
<1> QED BY <1>1, <1>5, OwnsFrame DEF Retype, TypeOK

LEMMA SpanSplit ==
  ASSUME NEW c \in Int, NEW d \in Int, NEW e \in Int, c <= d, d <= e
  PROVE  Span(c, d) \cup Span(d, e) = Span(c, e)
BY DEF Span

LEMMA ExtendOwns ==
  ASSUME Charged, NEW b \in Bookings, NEW co \in Dates, Extend(b, co)
  PROVE  Charged'
<1>1. TypeOK /\ TypeOK' /\ booking[b].state \in {"CONFIRMED", "CHECKED_IN"}
  BY ExtendType DEF Charged, Extend, Assignable
<1>2. booking'[b] = [booking[b] EXCEPT !.co = co]
      /\ owns'[b] = owns[b] \cup Span(booking[b].co, co)
      /\ strays'[b] = strays[b] /\ today' = today
  BY <1>1 DEF Extend, TypeOK
<1>3. /\ booking'[b].ci = booking[b].ci /\ booking'[b].co = co
      /\ booking'[b].state = booking[b].state
  BY <1>1, <1>2 DEF TypeOK, BookingRow
<1>4. booking[b].ci < booking[b].co /\ booking[b].co < co /\ OwnsAsState(b)
  BY <1>1 DEF Charged, ANight, Extend, Unborn
<1>5. /\ booking[b].ci \in Int /\ booking[b].co \in Int /\ co \in Int /\ today \in Int
  BY <1>1, StayedType DEF Dates, TypeOK
<1>6. Stayed(b)' = Stayed(b) \cup Span(booking[b].co, co)
  BY <1>3, <1>4, <1>5, SpanSplit DEF Stayed
<1>7. ASSUME booking[b].state = "CONFIRMED" PROVE ANight(b)' /\ OwnsAsState(b)'
  <2>1. owns'[b] = Stayed(b)'
    BY <1>2, <1>4, <1>6, <1>7 DEF OwnsAsState
  <2> QED BY <1>3, <1>4, <1>5, <1>7, <2>1 DEF ANight, OwnsAsState, Unborn
<1>8. ASSUME booking[b].state = "CHECKED_IN" PROVE ANight(b)' /\ OwnsAsState(b)'
  <2>1. owns'[b] \subseteq Stayed(b)'
    BY <1>2, <1>4, <1>6, <1>8 DEF OwnsAsState
  <2>2. Span(LaterOf(today, booking[b].ci), co)
          \subseteq Span(LaterOf(today, booking[b].ci), booking[b].co) \cup Span(booking[b].co, co)
    BY <1>4, <1>5 DEF Span, LaterOf
  <2>3. ~ Took(b, "unbought") =>
          Span(LaterOf(today, booking[b].ci), co) \subseteq owns'[b]
    BY <1>2, <1>4, <1>8, <2>2 DEF OwnsAsState
  <2>4. ANight(b)'
    BY <1>3, <1>4, <1>5 DEF ANight
  <2> QED BY <1>2, <1>3, <1>8, <2>1, <2>3, <2>4 DEF OwnsAsState, Took, Unborn
<1>9. ANight(b)' /\ OwnsAsState(b)'
  BY <1>1, <1>7, <1>8
<1> QED BY <1>1, <1>9, OwnsFrame DEF Extend, TypeOK

LEMMA ShortenOwns ==
  ASSUME Charged, NEW b \in Bookings, NEW co \in Dates, Shorten(b, co)
  PROVE  Charged'
<1>1. TypeOK /\ TypeOK' /\ booking[b].state = "CHECKED_IN"
  BY ShortenType DEF Charged, Shorten
<1>2. booking'[b] = [booking[b] EXCEPT !.co = co]
      /\ owns'[b] = owns[b] \ Span(co, booking[b].co)
      /\ today' = today
  BY <1>1 DEF Shorten, TypeOK
<1>3. /\ booking'[b].ci = booking[b].ci /\ booking'[b].co = co
      /\ booking'[b].state = "CHECKED_IN"
  BY <1>1, <1>2 DEF TypeOK, BookingRow
<1>4. booking[b].ci < co /\ co < booking[b].co /\ OwnsAsState(b)
  BY <1>1 DEF Charged, Shorten
<1>5. /\ booking[b].ci \in Int /\ booking[b].co \in Int /\ co \in Int /\ today \in Int
  BY <1>1, StayedType DEF Dates, TypeOK
<1>6. strays[b] \subseteq strays'[b]
  BY <1>1 DEF Shorten, StraysReleasing, TypeOK
<1>7. owns'[b] \subseteq Stayed(b)'
  BY <1>1, <1>2, <1>3, <1>4, <1>5 DEF OwnsAsState, Stayed, Span
<1>8. ~ Took(b, "unbought") => Span(LaterOf(today, booking[b].ci), co) \subseteq owns'[b]
  BY <1>1, <1>2, <1>4, <1>5 DEF OwnsAsState, Span, LaterOf
<1>9. ANight(b)' /\ OwnsAsState(b)'
  BY <1>2, <1>3, <1>4, <1>6, <1>7, <1>8 DEF ANight, OwnsAsState, Took, Unborn
<1> QED BY <1>1, <1>9, OwnsFrame DEF Shorten, TypeOK

LEMMA CheckInOwns ==
  ASSUME Charged, NEW b \in Bookings, CheckIn(b)
  PROVE  Charged'
<1>1. TypeOK /\ TypeOK'
  BY CheckInType DEF Charged
<1>2. booking[b].state \in {"CONFIRMED", "NO_SHOW"}
  BY <1>1 DEF CheckIn, Arrives, Legal, LegalTransitions, TypeOK, BookingRow, BookingState, Unborn
<1>3. /\ booking'[b] = [booking[b] EXCEPT !.state = "CHECKED_IN"]
      /\ owns'[b] = owns[b] /\ today' = today
      /\ strays'[b] = IF booking[b].state = "NO_SHOW" /\ booking[b].ci + 1 < booking[b].co
                      THEN strays[b] \cup {"unbought"} ELSE strays[b]
  BY <1>1 DEF CheckIn, Rewrite, TypeOK
<1>4. /\ booking'[b].ci = booking[b].ci /\ booking'[b].co = booking[b].co
      /\ booking'[b].state = "CHECKED_IN"
  BY <1>1, <1>3 DEF TypeOK, BookingRow
<1>5. booking[b].ci < booking[b].co /\ OwnsAsState(b)
  BY <1>2 DEF Charged, ANight, Unborn
<1>6. booking[b].ci \in Int /\ booking[b].co \in Int /\ today \in Int
  BY <1>1, StayedType DEF Dates, TypeOK
<1>7. owns[b] \subseteq Stayed(b)
  BY <1>2, <1>5, <1>6 DEF OwnsAsState, Stayed, Span
<1>8. "unbought" \notin strays'[b] =>
        Span(LaterOf(today, booking[b].ci), booking[b].co) \subseteq owns[b]
  BY <1>2, <1>3, <1>5, <1>6 DEF OwnsAsState, Stayed, Span, LaterOf
<1>9. ANight(b)' /\ OwnsAsState(b)'
  BY <1>3, <1>4, <1>5, <1>7, <1>8 DEF ANight, OwnsAsState, Stayed, Took, Unborn
<1> QED BY <1>1, <1>9, OwnsFrame DEF CheckIn, Rewrite, TypeOK

(* A confirmed booking written off keeps its arrival night alone. *)
LEMMA ArrivalNightKept ==
  ASSUME Charged, NEW b \in Bookings, booking[b].state = "CONFIRMED"
  PROVE  owns[b] \ AfterArrival(b) = {booking[b].ci}
<1>1. booking[b].ci < booking[b].co /\ owns[b] = Stayed(b)
  BY DEF Charged, ANight, OwnsAsState, Unborn
<1>2. booking[b].ci \in Int /\ booking[b].co \in Int
  BY StayedType DEF Charged, Dates
<1> QED BY <1>1, <1>2 DEF AfterArrival, Stayed, Span

LEMMA MarkNoShowOwns ==
  ASSUME Charged, NEW b \in Bookings, MarkNoShow(b)
  PROVE  Charged'
<1>1. TypeOK /\ TypeOK'
  BY MarkNoShowType DEF Charged
<1>2. booking[b].state = "CONFIRMED"
  BY <1>1 DEF MarkNoShow, Legal, LegalTransitions, TypeOK, BookingRow, BookingState, Unborn
<1>3. booking'[b] = [booking[b] EXCEPT !.state = "NO_SHOW"] /\ owns'[b] = {booking[b].ci}
  BY <1>1, <1>2, ArrivalNightKept DEF MarkNoShow, Rewrite, TypeOK
<1>4. /\ booking'[b].ci = booking[b].ci /\ booking'[b].co = booking[b].co
      /\ booking'[b].state = "NO_SHOW"
  BY <1>1, <1>3 DEF TypeOK, BookingRow
<1>5. ANight(b)' /\ OwnsAsState(b)'
  BY <1>2, <1>3, <1>4 DEF Charged, ANight, OwnsAsState, Unborn
<1> QED BY <1>1, <1>5, OwnsFrame DEF MarkNoShow, Rewrite, TypeOK

LEMMA NoShowSweepOwns ==
  ASSUME Charged, NoShowSweep
  PROVE  Charged'
<1>1. TypeOK /\ TypeOK'
  BY NoShowSweepType DEF Charged
<1>2. ASSUME NEW b \in Bookings, Missed(b) PROVE ANight(b)' /\ OwnsAsState(b)'
  <2>1. booking'[b] = [booking[b] EXCEPT !.state = "NO_SHOW"] /\ owns'[b] = {booking[b].ci}
    BY <1>2, ArrivalNightKept DEF NoShowSweep, Missed
  <2>2. /\ booking'[b].ci = booking[b].ci /\ booking'[b].co = booking[b].co
        /\ booking'[b].state = "NO_SHOW"
    BY <1>1, <2>1 DEF TypeOK, BookingRow
  <2> QED BY <1>2, <2>1, <2>2 DEF Charged, ANight, OwnsAsState, Missed, Unborn
<1>3. ASSUME NEW b \in Bookings, ~ Missed(b) PROVE ANight(b)' /\ OwnsAsState(b)'
  BY <1>3 DEF NoShowSweep, Charged, ANight, OwnsAsState, Stayed, Took
<1> QED BY <1>1, <1>2, <1>3 DEF Charged

LEMMA ReinstateOwns ==
  ASSUME Charged, NEW b \in Bookings, NEW r \in Rooms, Reinstate(b, r)
  PROVE  Charged'
<1>1. TypeOK /\ TypeOK' /\ booking[b].state = "NO_SHOW"
  BY ReinstateType DEF Charged, Reinstate
<1>2. /\ booking'[b] = [booking[b] EXCEPT !.state = "CHECKED_IN"]
      /\ owns'[b] = {booking[b].ci} \cup BuyBack(b) /\ today' = today
  BY <1>1 DEF Reinstate, Rewrite, TypeOK, Charged, OwnsAsState
<1>3. /\ booking'[b].ci = booking[b].ci /\ booking'[b].co = booking[b].co
      /\ booking'[b].state = "CHECKED_IN"
  BY <1>1, <1>2 DEF TypeOK, BookingRow
<1>4. booking[b].ci < booking[b].co
  BY <1>1 DEF Charged, ANight, Unborn
<1>5. booking[b].ci \in Int /\ booking[b].co \in Int /\ today \in Int
  BY <1>1, StayedType DEF Dates, TypeOK
<1>6. owns'[b] \subseteq Stayed(b)
  BY <1>2, <1>4, <1>5 DEF BuyBack, Late, Stayed, Span
<1>7. Span(LaterOf(today, booking[b].ci), booking[b].co) \subseteq owns'[b]
  BY <1>2, <1>4, <1>5 DEF BuyBack, Late, Span, LaterOf
<1>8. ANight(b)' /\ OwnsAsState(b)'
  BY <1>2, <1>3, <1>4, <1>6, <1>7 DEF ANight, OwnsAsState, Stayed, Unborn
<1> QED BY <1>1, <1>8, OwnsFrame DEF Reinstate, Rewrite, TypeOK

LEMMA OnlyGuestsLeave ==
  ASSUME NEW s \in BookingState, Legal(s, "CHECKED_OUT")
  PROVE  s = "CHECKED_IN"
<1>1. s # Unborn
  BY DEF BookingState, Unborn
<1> QED BY <1>1 DEF Legal, LegalTransitions, BookingState

LEMMA CheckOutOwns ==
  ASSUME Charged, NEW b \in Bookings, CheckOut(b)
  PROVE  Charged'
<1>1. TypeOK /\ TypeOK'
  BY CheckOutType DEF Charged
<1>2. booking[b].state = "CHECKED_IN"
  <2>1. booking[b].state # Unborn /\ Legal(booking[b].state, "CHECKED_OUT")
    BY DEF CheckOut
  <2>2. booking[b].state \in BookingState
    BY <1>1, <2>1 DEF TypeOK, BookingRow
  <2> QED BY <2>1, <2>2, OnlyGuestsLeave
<1>3. /\ booking'[b] = [booking[b] EXCEPT !.state = "CHECKED_OUT"]
      /\ owns'[b] = owns[b] \ Span(LaterOf(today, booking[b].ci), booking[b].co)
      /\ today' = today
  BY <1>1 DEF CheckOut, Rewrite, TypeOK
<1>4. /\ booking'[b].ci = booking[b].ci /\ booking'[b].co = booking[b].co
      /\ booking'[b].state = "CHECKED_OUT"
  BY <1>1, <1>3 DEF TypeOK, BookingRow
<1>5. booking[b].ci < booking[b].co /\ owns[b] \subseteq Stayed(b)
  BY <1>2 DEF Charged, ANight, OwnsAsState, Unborn
<1>6. booking[b].ci \in Int /\ booking[b].co \in Int /\ today \in Int
  BY <1>1, StayedType DEF Dates, TypeOK
<1>7. \A n \in owns'[b] : n < today
  BY <1>3, <1>5, <1>6 DEF Stayed, Span, LaterOf
<1>8. ANight(b)' /\ OwnsAsState(b)'
  BY <1>3, <1>4, <1>5, <1>7 DEF ANight, OwnsAsState, Unborn
<1> QED BY <1>1, <1>8, OwnsFrame DEF CheckOut, Rewrite, TypeOK

LEMMA RolloverOwns ==
  ASSUME Charged, Rollover
  PROVE  Charged'
<1>1. TypeOK /\ TypeOK'
  BY KeepsType DEF Charged, Keeps
<1>2. ASSUME NEW b \in Bookings PROVE ANight(b)' /\ OwnsAsState(b)'
  <2>1. booking[b].ci \in Int /\ booking[b].co \in Int /\ today \in Int /\ today' = today + 1
    BY <1>1, <1>2, StayedType DEF Dates, TypeOK, Rollover
  <2>2. Span(LaterOf(today', booking[b].ci), booking[b].co)
          \subseteq Span(LaterOf(today, booking[b].ci), booking[b].co)
    BY <2>1 DEF Span, LaterOf
  <2>3. \A n \in owns[b] : n \in Int
    BY <1>1 DEF TypeOK, Nights
  <2>4. ANight(b) /\ OwnsAsState(b) /\ booking' = booking /\ owns' = owns /\ strays' = strays
    BY DEF Charged, Rollover
  <2>5. booking[b].state = "CHECKED_OUT" => \A n \in owns[b] : n < today'
    BY <2>1, <2>3, <2>4 DEF OwnsAsState
  <2> QED BY <2>2, <2>4, <2>5 DEF ANight, OwnsAsState, Stayed, Took
<1> QED BY <1>1, <1>2 DEF Charged

LEMMA ChargedInit == Init => Charged
<1> SUFFICES ASSUME Init PROVE Charged
  OBVIOUS
<1>1. TypeOK
  BY InitType
<1>2. \A b \in Bookings : booking[b].state = Unborn /\ owns[b] = {}
  BY DEF Init
<1>3. \A b \in Bookings : ANight(b) /\ OwnsAsState(b)
  BY <1>2 DEF ANight, OwnsAsState, Unborn
<1> QED BY <1>1, <1>3 DEF Charged

LEMMA ChargedNext == Charged /\ [Next]_vars => Charged'
<1> SUFFICES ASSUME Charged, [Next]_vars PROVE Charged'
  OBVIOUS
<1>1. TypeOK /\ TypeOK'
  BY NextType DEF Charged
<1>2. ASSUME NEW b \in Bookings, MakesOrLoses(b) PROVE Charged'
  BY <1>2, CreateOwns, ReplaceHoldOwns, ConfirmOwns, CancelOwns DEF MakesOrLoses
<1>3. ASSUME NEW b \in Bookings, ChangesStay(b) PROVE Charged'
  <2>1. ASSUME NEW r \in Rooms, Assign(b, r) \/ Move(b, r) PROVE Charged'
    BY <1>1, <2>1, OwnsUnchanged DEF Assign, Move
  <2>2. ASSUME NEW t \in Types, ChangeType(b, t) PROVE Charged'
    BY <1>1, <2>2, RetypeOwns DEF ChangeType
  <2>3. ASSUME NEW t \in Types, NEW r \in Rooms, ChangeTypeInto(b, t, r) PROVE Charged'
    BY <1>1, <2>3, RetypeOwns DEF ChangeTypeInto
  <2> QED BY <1>3, <2>1, <2>2, <2>3, ExtendOwns, ShortenOwns DEF ChangesStay
<1>4. ASSUME NEW b \in Bookings, ComesOrGoes(b) PROVE Charged'
  BY <1>4, CheckInOwns, MarkNoShowOwns, ReinstateOwns, CheckOutOwns DEF ComesOrGoes
<1>5. CASE Keeps
  <2>1. CASE Rollover
    BY <2>1, RolloverOwns
  <2>2. CASE ~ Rollover
    BY <1>1, <1>5, <2>2, OwnsUnchanged DEF Keeps, Close, Reopen, SetCondition
  <2> QED BY <2>1, <2>2
<1>6. CASE UNCHANGED vars
  BY <1>1, <1>6, OwnsUnchanged DEF vars
<1> QED BY <1>2, <1>3, <1>4, <1>5, <1>6, NoShowSweepOwns DEF Next

(* The inventory column of the state machine: what the counter is charged for a
   booking follows from its state, whatever sequence of operations led there. *)
THEOREM StatesOwnTheirNights == Spec => []OwnsByState
<1>1. Charged => OwnsByState
  BY DEF Charged, OwnsByState
<1> QED BY <1>1, ChargedInit, ChargedNext, PTL DEF Spec

-----------------------------------------------------------------------------
(* The counter. Each operation changes the set of bookings charged for a cell by
   at most one arrival and one departure, and the counter with it.            *)

LEMMA ChargedForFinite ==
  ASSUME NEW x
  PROVE  IsFiniteSet(ChargedFor(x)) /\ Cardinality(ChargedFor(x)) \in Nat
<1>1. ChargedFor(x) \subseteq Bookings
  BY DEF ChargedFor
<1> QED BY <1>1, BookingsAssumption, FS_Subset, FS_CardinalityType

LEMMA OneIn ==
  ASSUME NEW S, IsFiniteSet(S), NEW b, b \notin S
  PROVE  IsFiniteSet(S \cup {b}) /\ Cardinality(S \cup {b}) = Cardinality(S) + 1
BY FS_AddElement

LEMMA OneOut ==
  ASSUME NEW S, IsFiniteSet(S), NEW c, c \in S
  PROVE  Cardinality(S \ {c}) = Cardinality(S) - 1
BY FS_RemoveElement

(* sold and the set charged for a cell, after b arrives when `in` and c leaves
   when `out`.                                                                *)
LEMMA Recount ==
  ASSUME NEW S, IsFiniteSet(S), NEW b, NEW c, NEW in \in BOOLEAN, NEW out \in BOOLEAN,
         in => b \notin S, out => c \in S, in /\ out => b # c,
         NEW T, \A d : d \in T <=> (d \in S \/ (in /\ d = b)) /\ ~ (out /\ d = c)
  PROVE  Cardinality(T) = Cardinality(S) + (IF in THEN 1 ELSE 0) - (IF out THEN 1 ELSE 0)
<1>0. Cardinality(S) \in Nat
  BY FS_CardinalityType
<1>1. CASE in /\ out
  <2>1. T = (S \cup {b}) \ {c}
    BY <1>1
  <2>2. Cardinality(S \cup {b}) = Cardinality(S) + 1 /\ IsFiniteSet(S \cup {b})
    BY <1>1, OneIn
  <2>3. c \in S \cup {b}
    BY <1>1
  <2>4. Cardinality((S \cup {b}) \ {c}) = Cardinality(S \cup {b}) - 1
    BY <2>2, <2>3, OneOut
  <2> QED BY <1>0, <1>1, <2>1, <2>2, <2>4
<1>2. CASE in /\ ~ out
  <2>1. T = S \cup {b}
    BY <1>2
  <2> QED BY <1>0, <1>2, <2>1, OneIn
<1>3. CASE ~ in /\ out
  <2>1. T = S \ {c}
    BY <1>3
  <2> QED BY <1>0, <1>3, <2>1, OneOut
<1>4. CASE ~ in /\ ~ out
  <2>1. T = S
    BY <1>4
  <2> QED BY <1>0, <1>4, <2>1
<1> QED BY <1>1, <1>2, <1>3, <1>4

Counted == Charged /\ (Undrifted => CounterIsExact)

LEMMA CellNights ==
  ASSUME NEW x \in Cells
  PROVE  \A t, nights : x \in CellsOf(t, nights) <=> (x[1] = t /\ x[2] \in nights)
BY DEF Cells, CellsOf

OthersKeep(b) ==
  \A c \in Bookings \ {b} : booking'[c].type = booking[c].type /\ owns'[c] = owns[c]

(* A step of one booking that takes the nights `gain` of the type it ends with
   and gives back the nights `loss` of the type it had.                       *)
LEMMA CountedStep ==
  ASSUME Counted, Charged', NEW b \in Bookings, NEW gain, NEW loss, OthersKeep(b),
         sold' = Moved(CellsOf(booking'[b].type, gain), CellsOf(booking[b].type, loss)),
         Undrifted' =>
           /\ Undrifted /\ loss \subseteq owns[b]
           /\ booking'[b].type # booking[b].type => loss = owns[b] /\ owns'[b] = gain
           /\ booking'[b].type = booking[b].type =>
                gain \cap owns[b] = {} /\ owns'[b] = (owns[b] \cup gain) \ loss
  PROVE  Counted'
<1> SUFFICES ASSUME Undrifted', NEW x \in Cells
             PROVE  sold'[x] = Cardinality(ChargedFor(x)')
  BY DEF Counted, CounterIsExact
<1> DEFINE up   == CellsOf(booking'[b].type, gain)
           down == CellsOf(booking[b].type, loss)
           in   == (x \in up)
           out  == (x \in down)
<1>1. TypeOK /\ Undrifted /\ loss \subseteq owns[b] /\ sold[x] = Cardinality(ChargedFor(x))
  BY DEF Counted, Charged, CounterIsExact
<1>2. /\ in <=> x[1] = booking'[b].type /\ x[2] \in gain
      /\ out <=> x[1] = booking[b].type /\ x[2] \in loss
  BY CellNights
<1>3. in => b \notin ChargedFor(x) \/ booking'[b].type # booking[b].type
  BY <1>2 DEF ChargedFor
<1>4. in => b \notin ChargedFor(x)
  BY <1>2, <1>3 DEF ChargedFor
<1>5. out => b \in ChargedFor(x)
  BY <1>1, <1>2 DEF ChargedFor
<1>6. b \in ChargedFor(x)' <=> (b \in ChargedFor(x) \/ in) /\ ~ out
  BY <1>1, <1>2 DEF ChargedFor
<1>7. \A c \in Bookings \ {b} : c \in ChargedFor(x)' <=> c \in ChargedFor(x)
  BY DEF ChargedFor, OthersKeep
<1>8. ~ (in /\ out)
  BY <1>1, <1>2
<1>9. \A d : d \in ChargedFor(x)' <=>
               (d \in ChargedFor(x) \/ (in /\ d = b)) /\ ~ (out /\ d = b)
  <2>1. \A d : d \in ChargedFor(x)' \/ d \in ChargedFor(x) => d \in Bookings
    BY DEF ChargedFor
  <2> HIDE DEF in, out
  <2> QED BY <1>6, <1>7, <2>1
<1>10. sold'[x] = sold[x] + (IF in THEN 1 ELSE 0) - (IF out THEN 1 ELSE 0)
  BY DEF Moved
<1>11. in \in BOOLEAN /\ out \in BOOLEAN
  OBVIOUS
<1>12. IsFiniteSet(ChargedFor(x))
  BY ChargedForFinite
<1> HIDE DEF in, out
<1>13. Cardinality(ChargedFor(x)')
         = Cardinality(ChargedFor(x)) + (IF in THEN 1 ELSE 0) - (IF out THEN 1 ELSE 0)
  BY <1>4, <1>5, <1>8, <1>9, <1>11, <1>12, Recount
<1> QED BY <1>1, <1>10, <1>13

LEMMA NoCells == \A t : CellsOf(t, {}) = {}
BY DEF CellsOf

LEMMA CountedGain ==
  ASSUME Counted, Charged', NEW b \in Bookings, NEW gain, OthersKeep(b),
         sold' = Moved(CellsOf(booking'[b].type, gain), {}),
         gain \cap owns[b] = {}, owns'[b] = owns[b] \cup gain,
         booking'[b].type = booking[b].type \/ owns[b] = {},
         Undrifted' => Undrifted
  PROVE  Counted'
<1>1. sold' = Moved(CellsOf(booking'[b].type, gain), CellsOf(booking[b].type, {}))
  BY NoCells
<1> QED BY <1>1, CountedStep

LEMMA CountedLoss ==
  ASSUME Counted, Charged', NEW b \in Bookings, NEW loss, OthersKeep(b),
         sold' = Moved({}, CellsOf(booking[b].type, loss)),
         owns'[b] = owns[b] \ loss, booking'[b].type = booking[b].type,
         Undrifted' => Undrifted /\ loss \subseteq owns[b]
  PROVE  Counted'
<1>1. sold' = Moved(CellsOf(booking'[b].type, {}), CellsOf(booking[b].type, loss))
  BY NoCells
<1> QED BY <1>1, CountedStep

LEMMA CountedSame ==
  ASSUME Counted, Charged', sold' = sold, owns' = owns, Undrifted' => Undrifted,
         \A c \in Bookings : booking'[c].type = booking[c].type
  PROVE  Counted'
<1>1. \A x : ChargedFor(x)' = ChargedFor(x)
  BY DEF ChargedFor
<1> QED BY <1>1 DEF Counted, CounterIsExact

(* A release that leaves no booking drifted gave back only what was charged. *)
LEMMA ReleasedOwned ==
  ASSUME TypeOK, NEW b \in Bookings, NEW nights, NEW more,
         strays' = [strays EXCEPT ![b] = StraysReleasing(b, nights) \cup more]
  PROVE  Undrifted' => Undrifted /\ nights \subseteq owns[b]
<1>1. \A c \in Bookings : strays[c] \subseteq strays'[c]
  BY DEF TypeOK, StraysReleasing
<1>2. strays'[b] = StraysReleasing(b, nights) \cup more
  BY DEF TypeOK
<1>3. ~ (nights \subseteq owns[b]) => "drifted" \in strays'[b]
  BY <1>2 DEF StraysReleasing
<1> QED BY <1>1, <1>3 DEF Undrifted, Took

LEMMA CreateCounted ==
  ASSUME Counted, Charged', NEW b \in Bookings, NEW s, NEW t \in Types,
         NEW ci \in Dates, NEW co \in Dates, Create(b, s, t, ci, co)
  PROVE  Counted'
<1>1. TypeOK /\ owns[b] = {}
  BY DEF Counted, Charged, OwnsAsState, Create
<1>2. booking'[b].type = t /\ owns'[b] = Span(ci, co) /\ strays' = strays
      /\ sold' = Moved(CellsOf(t, Span(ci, co)), {})
  BY <1>1 DEF Create, TypeOK
<1>3. OthersKeep(b)
  BY <1>1 DEF Create, TypeOK, OthersKeep
<1> QED BY <1>1, <1>2, <1>3, CountedGain DEF Undrifted, Took

LEMMA CancelCounted ==
  ASSUME Counted, Charged', NEW b \in Bookings, Cancel(b)
  PROVE  Counted'
<1>1. TypeOK
  BY DEF Counted, Charged
<1>2. /\ booking'[b].type = booking[b].type /\ owns'[b] = owns[b] \ Stayed(b)
      /\ sold' = Moved({}, CellsOf(booking[b].type, Stayed(b)))
  BY <1>1 DEF Cancel, Rewrite, TypeOK, BookingRow
<1>3. OthersKeep(b)
  BY <1>1 DEF Cancel, Rewrite, TypeOK, OthersKeep
<1>4. Undrifted' => Undrifted /\ Stayed(b) \subseteq owns[b]
  <2>1. strays' = [strays EXCEPT ![b] = StraysReleasing(b, Stayed(b)) \cup {}]
    BY DEF Cancel
  <2> QED BY <1>1, <2>1, ReleasedOwned
<1> QED BY <1>2, <1>3, <1>4, CountedLoss

LEMMA RetypeCounted ==
  ASSUME Counted, Charged', NEW b \in Bookings, NEW t \in Types, Retype(b, t)
  PROVE  Counted'
<1>1. TypeOK /\ booking[b].state \in {"CONFIRMED", "CHECKED_IN"} /\ t # booking[b].type
  BY DEF Counted, Charged, Retype, Assignable
<1>2. /\ booking'[b].type = t /\ owns'[b] = Stayed(b)
      /\ sold' = Moved(CellsOf(t, Stayed(b)), CellsOf(booking[b].type, Stayed(b)))
  BY <1>1 DEF Retype, Exchanged, TypeOK, BookingRow
<1>3. OthersKeep(b)
  BY <1>1 DEF Retype, TypeOK, OthersKeep
<1>4. Undrifted' => Undrifted /\ Stayed(b) \subseteq owns[b]
  <2>1. strays' = [strays EXCEPT ![b] = StraysReleasing(b, Stayed(b)) \cup {}]
    BY DEF Retype
  <2> QED BY <1>1, <2>1, ReleasedOwned
<1>5. owns[b] \subseteq Stayed(b)
  BY <1>1 DEF Counted, Charged, OwnsAsState, Unborn
<1>6. sold' = Moved(CellsOf(booking'[b].type, Stayed(b)), CellsOf(booking[b].type, Stayed(b)))
  BY <1>2
<1>7. booking'[b].type # booking[b].type
  BY <1>1, <1>2
<1>8. Undrifted' => /\ Undrifted /\ Stayed(b) \subseteq owns[b]
                    /\ Stayed(b) = owns[b] /\ owns'[b] = Stayed(b)
  BY <1>2, <1>4, <1>5
<1> QED BY <1>3, <1>6, <1>7, <1>8, CountedStep

LEMMA ExtendCounted ==
  ASSUME Counted, Charged', NEW b \in Bookings, NEW co \in Dates, Extend(b, co)
  PROVE  Counted'
<1>1. TypeOK /\ booking[b].state \in {"CONFIRMED", "CHECKED_IN"}
  BY DEF Counted, Charged, Extend, Assignable
<1> DEFINE added == Span(booking[b].co, co)
<1>2. /\ booking'[b].type = booking[b].type /\ owns'[b] = owns[b] \cup added
      /\ sold' = Moved(CellsOf(booking[b].type, added), {}) /\ strays' = strays
  BY <1>1 DEF Extend, TypeOK, BookingRow
<1>3. OthersKeep(b)
  BY <1>1 DEF Extend, TypeOK, OthersKeep
<1>4. added \cap owns[b] = {}
  <2>1. owns[b] \subseteq Stayed(b)
    BY <1>1 DEF Counted, Charged, OwnsAsState, Unborn
  <2>2. booking[b].ci \in Int /\ booking[b].co \in Int /\ co \in Int
    BY <1>1, StayedType DEF Dates
  <2> QED BY <2>1, <2>2 DEF Stayed, Span
<1> QED BY <1>2, <1>3, <1>4, CountedGain DEF Undrifted, Took

LEMMA ShortenCounted ==
  ASSUME Counted, Charged', NEW b \in Bookings, NEW co \in Dates, Shorten(b, co)
  PROVE  Counted'
<1>1. TypeOK
  BY DEF Counted, Charged
<1> DEFINE given == Span(co, booking[b].co)
<1>2. /\ booking'[b].type = booking[b].type /\ owns'[b] = owns[b] \ given
      /\ sold' = Moved({}, CellsOf(booking[b].type, given))
  BY <1>1 DEF Shorten, TypeOK, BookingRow
<1>3. OthersKeep(b)
  BY <1>1 DEF Shorten, TypeOK, OthersKeep
<1>4. Undrifted' => Undrifted /\ given \subseteq owns[b]
  <2>1. PICK more : strays' = [strays EXCEPT ![b] = StraysReleasing(b, given) \cup more]
    BY DEF Shorten
  <2> HIDE DEF given
  <2> QED BY <1>1, <2>1, ReleasedOwned
<1> QED BY <1>2, <1>3, <1>4, CountedLoss

LEMMA MarkNoShowCounted ==
  ASSUME Counted, Charged', NEW b \in Bookings, MarkNoShow(b)
  PROVE  Counted'
<1>1. TypeOK
  BY DEF Counted, Charged
<1>2. /\ booking'[b].type = booking[b].type /\ owns'[b] = owns[b] \ AfterArrival(b)
      /\ sold' = Moved({}, CellsOf(booking[b].type, AfterArrival(b)))
  BY <1>1 DEF MarkNoShow, Rewrite, TypeOK, BookingRow
<1>3. OthersKeep(b)
  BY <1>1 DEF MarkNoShow, Rewrite, TypeOK, OthersKeep
<1>4. Undrifted' => Undrifted /\ AfterArrival(b) \subseteq owns[b]
  <2>1. strays' = [strays EXCEPT ![b] = StraysReleasing(b, AfterArrival(b)) \cup {}]
    BY DEF MarkNoShow
  <2> QED BY <1>1, <2>1, ReleasedOwned
<1> QED BY <1>2, <1>3, <1>4, CountedLoss

LEMMA ReinstateCounted ==
  ASSUME Counted, Charged', NEW b \in Bookings, NEW r \in Rooms, Reinstate(b, r)
  PROVE  Counted'
<1>1. TypeOK /\ owns[b] = {booking[b].ci}
  BY DEF Counted, Charged, OwnsAsState, Reinstate
<1>2. /\ booking'[b].type = booking[b].type /\ owns'[b] = owns[b] \cup BuyBack(b)
      /\ sold' = Moved(CellsOf(booking[b].type, BuyBack(b)), {})
  BY <1>1 DEF Reinstate, Rewrite, TypeOK, BookingRow
<1>3. OthersKeep(b)
  BY <1>1 DEF Reinstate, Rewrite, TypeOK, OthersKeep
<1>4. BuyBack(b) \cap owns[b] = {}
  <2>1. booking[b].ci \in Int /\ booking[b].co \in Int /\ today \in Int
    BY <1>1, StayedType DEF Dates, TypeOK
  <2> QED BY <1>1, <2>1 DEF BuyBack, Late, Span
<1>5. Undrifted' => Undrifted
  <2>1. \A c \in Bookings : strays[c] \subseteq strays'[c]
    BY <1>1 DEF Reinstate, TypeOK
  <2> QED BY <2>1 DEF Undrifted, Took
<1> QED BY <1>2, <1>3, <1>4, <1>5, CountedGain

LEMMA CheckOutCounted ==
  ASSUME Counted, Charged', NEW b \in Bookings, CheckOut(b)
  PROVE  Counted'
<1>1. TypeOK
  BY DEF Counted, Charged
<1> DEFINE given == Span(LaterOf(today, booking[b].ci), booking[b].co)
<1>2. /\ booking'[b].type = booking[b].type /\ owns'[b] = owns[b] \ given
      /\ sold' = Moved({}, CellsOf(booking[b].type, given))
  BY <1>1 DEF CheckOut, Rewrite, TypeOK, BookingRow
<1>3. OthersKeep(b)
  BY <1>1 DEF CheckOut, Rewrite, TypeOK, OthersKeep
<1>4. Undrifted' => Undrifted /\ given \subseteq owns[b]
  <2>1. strays' = [strays EXCEPT ![b] = StraysReleasing(b, given) \cup {}]
    BY DEF CheckOut
  <2> HIDE DEF given
  <2> QED BY <1>1, <2>1, ReleasedOwned
<1> QED BY <1>2, <1>3, <1>4, CountedLoss

(* The replacing hold takes its nights and the replaced one gives its own back. *)
LEMMA ReplaceHoldCounted ==
  ASSUME Counted, Charged', NEW b \in Bookings, NEW old \in Bookings, NEW t \in Types,
         NEW ci \in Dates, NEW co \in Dates, ReplaceHold(b, old, t, ci, co)
  PROVE  Counted'
<1> SUFFICES ASSUME Undrifted', NEW x \in Cells
             PROVE  sold'[x] = Cardinality(ChargedFor(x)')
  BY DEF Counted, CounterIsExact
<1>1. TypeOK /\ b # old /\ owns[b] = {} /\ owns[old] = Stayed(old)
  BY DEF Counted, Charged, OwnsAsState, ReplaceHold, Unborn
<1>2. Undrifted
  <2>1. \A c \in Bookings : strays[c] \subseteq strays'[c]
    BY <1>1 DEF ReplaceHold, StraysReleasing, TypeOK
  <2> QED BY <2>1 DEF Undrifted, Took
<1> DEFINE up   == CellsOf(t, Span(ci, co))
           back == CellsOf(booking[old].type, Stayed(old))
           in   == (x \in up)
           out  == (x \in back)
<1>3. /\ in <=> x[1] = t /\ x[2] \in Span(ci, co)
      /\ out <=> x[1] = booking[old].type /\ x[2] \in Stayed(old)
  BY CellNights
<1>4. /\ booking'[b].type = t /\ owns'[b] = Span(ci, co)
      /\ booking'[old].type = booking[old].type /\ owns'[old] = {}
  BY <1>1 DEF ReplaceHold, TypeOK, BookingRow
<1>5. \A c \in Bookings \ {b, old} : booking'[c] = booking[c] /\ owns'[c] = owns[c]
  BY <1>1 DEF ReplaceHold, TypeOK
<1>6. (in => b \notin ChargedFor(x)) /\ (out => old \in ChargedFor(x))
  BY <1>1, <1>3 DEF ChargedFor
<1>7. /\ b \in ChargedFor(x)' <=> in
      /\ old \notin ChargedFor(x)' /\ (old \in ChargedFor(x) <=> out)
      /\ b \notin ChargedFor(x)
  BY <1>1, <1>3, <1>4 DEF ChargedFor
<1>8. \A c \in Bookings \ {b, old} : c \in ChargedFor(x)' <=> c \in ChargedFor(x)
  BY <1>5 DEF ChargedFor
<1>9. \A d : d \in ChargedFor(x)' <=>
               (d \in ChargedFor(x) \/ (in /\ d = b)) /\ ~ (out /\ d = old)
  <2>1. \A d : d \in ChargedFor(x)' \/ d \in ChargedFor(x) => d \in Bookings
    BY DEF ChargedFor
  <2> HIDE DEF in, out
  <2> QED BY <1>1, <1>7, <1>8, <2>1
<1>10. sold'[x] = sold[x] + (IF in THEN 1 ELSE 0) - (IF out THEN 1 ELSE 0)
  BY DEF ReplaceHold, Moved
<1>11. in \in BOOLEAN /\ out \in BOOLEAN
  OBVIOUS
<1>12. IsFiniteSet(ChargedFor(x)) /\ sold[x] = Cardinality(ChargedFor(x))
  BY <1>2, ChargedForFinite DEF Counted, CounterIsExact
<1> HIDE DEF in, out
<1>13. Cardinality(ChargedFor(x)')
         = Cardinality(ChargedFor(x)) + (IF in THEN 1 ELSE 0) - (IF out THEN 1 ELSE 0)
  BY <1>1, <1>6, <1>9, <1>11, <1>12, Recount
<1> QED BY <1>10, <1>12, <1>13

(* The sweep gives back the nights after arrival of every booking it writes off. *)
LEMMA NoShowSweepCounted ==
  ASSUME Counted, Charged', NoShowSweep
  PROVE  Counted'
<1> SUFFICES ASSUME Undrifted', NEW x \in Cells
             PROVE  sold'[x] = Cardinality(ChargedFor(x)')
  BY DEF Counted, CounterIsExact
<1>1. TypeOK
  BY DEF Counted, Charged
<1>2. Undrifted
  <2>1. \A c \in Bookings : strays[c] \subseteq strays'[c]
    BY <1>1 DEF NoShowSweep, StraysReleasing, TypeOK
  <2> QED BY <2>1 DEF Undrifted, Took
<1>3. ASSUME NEW b \in Bookings, Missed(b) PROVE AfterArrival(b) \subseteq owns[b]
  <2>1. owns[b] = Stayed(b)
    BY <1>3 DEF Counted, Charged, OwnsAsState, Missed, Unborn
  <2>2. booking[b].ci \in Int /\ booking[b].co \in Int
    BY <1>1, StayedType DEF Dates
  <2> QED BY <2>1, <2>2 DEF AfterArrival, Stayed, Span
<1>4. \A b \in Bookings :
        b \in SweptBack(x) <=> Missed(b) /\ x[1] = booking[b].type /\ x[2] \in AfterArrival(b)
  BY CellNights DEF SweptBack
<1>5. SweptBack(x) \subseteq ChargedFor(x)
  BY <1>3, <1>4 DEF ChargedFor, SweptBack
<1>6. \A b \in Bookings :
        /\ booking'[b].type = booking[b].type
        /\ owns'[b] = IF Missed(b) THEN owns[b] \ AfterArrival(b) ELSE owns[b]
  <2>1. \A b \in Bookings :
          /\ booking'[b] = IF Missed(b) THEN [booking[b] EXCEPT !.state = "NO_SHOW"] ELSE booking[b]
          /\ owns'[b] = IF Missed(b) THEN owns[b] \ AfterArrival(b) ELSE owns[b]
    BY DEF NoShowSweep
  <2>2. \A b \in Bookings : booking[b] \in BookingRow
    BY <1>1 DEF TypeOK
  <2> QED BY <2>1, <2>2 DEF BookingRow
<1>7. ChargedFor(x)' = ChargedFor(x) \ SweptBack(x)
  <2>1. \A b \in Bookings : booking[b].type = x[1] /\ b \in SweptBack(x)
                           <=> booking[b].type = x[1] /\ Missed(b) /\ x[2] \in AfterArrival(b)
    BY <1>4
  <2>2. ASSUME NEW b \in Bookings
        PROVE  booking'[b].type = x[1] /\ x[2] \in owns'[b]
                 <=> booking[b].type = x[1] /\ x[2] \in owns[b] /\ b \notin SweptBack(x)
    <3>1. CASE Missed(b)
      BY <1>6, <2>1, <3>1
    <3>2. CASE ~Missed(b)
      BY <1>6, <2>1, <3>2
    <3> QED BY <3>1, <3>2
  <2> HIDE DEF SweptBack
  <2> QED BY <2>2 DEF ChargedFor
<1>8. ChargedFor(x) \cap SweptBack(x) = SweptBack(x)
  BY <1>5
<1>9. Cardinality(ChargedFor(x)') = Cardinality(ChargedFor(x)) - Cardinality(SweptBack(x))
  BY <1>7, <1>8, ChargedForFinite, FS_Difference
<1>10. sold'[x] = sold[x] - Cardinality(SweptBack(x))
  BY DEF NoShowSweep
<1>11. sold[x] = Cardinality(ChargedFor(x))
  BY <1>2 DEF Counted, CounterIsExact
<1> QED BY <1>9, <1>10, <1>11

LEMMA CountedInit == Init => Counted
<1> SUFFICES ASSUME Init PROVE Counted
  OBVIOUS
<1>1. \A x \in Cells : ChargedFor(x) = {} /\ sold[x] = 0
  BY DEF Init, ChargedFor
<1> QED BY <1>1, ChargedInit, FS_EmptySet DEF Counted, CounterIsExact

LEMMA CountedNext == Counted /\ [Next]_vars => Counted'
<1> SUFFICES ASSUME Counted, [Next]_vars PROVE Counted'
  OBVIOUS
<1>1. TypeOK /\ Charged'
  BY ChargedNext DEF Counted, Charged
<1>2. ASSUME NEW b \in Bookings, MakesOrLoses(b) PROVE Counted'
  <2>1. CASE Confirm(b)
    <3>1. \A c \in Bookings : booking'[c].type = booking[c].type
      BY <1>1, <2>1 DEF Confirm, Rewrite, TypeOK, BookingRow
    <3>2. sold' = sold /\ owns' = owns /\ strays' = strays
      BY <2>1 DEF Confirm
    <3> QED BY <1>1, <3>1, <3>2, CountedSame DEF Undrifted, Took
  <2> QED BY <1>1, <1>2, <2>1, CreateCounted, ReplaceHoldCounted, CancelCounted
          DEF MakesOrLoses, Creatable
<1>3. ASSUME NEW b \in Bookings, ChangesStay(b) PROVE Counted'
  <2>1. ASSUME NEW r \in Rooms, Assign(b, r) \/ Move(b, r) PROVE Counted'
    BY <1>1, <2>1, CountedSame DEF Assign, Move, Undrifted, Took
  <2>2. ASSUME NEW t \in Types, ChangeType(b, t) PROVE Counted'
    BY <1>1, <2>2, RetypeCounted DEF ChangeType
  <2>3. ASSUME NEW t \in Types, NEW r \in Rooms, ChangeTypeInto(b, t, r) PROVE Counted'
    BY <1>1, <2>3, RetypeCounted DEF ChangeTypeInto
  <2> QED BY <1>1, <1>3, <2>1, <2>2, <2>3, ExtendCounted, ShortenCounted DEF ChangesStay
<1>4. ASSUME NEW b \in Bookings, ComesOrGoes(b) PROVE Counted'
  <2>1. CASE CheckIn(b)
    <3>1. \A c \in Bookings : booking'[c].type = booking[c].type
      BY <1>1, <2>1 DEF CheckIn, Rewrite, TypeOK, BookingRow
    <3>2. sold' = sold /\ owns' = owns /\ \A c \in Bookings : strays[c] \subseteq strays'[c]
      BY <1>1, <2>1 DEF CheckIn, TypeOK
    <3> QED BY <1>1, <3>1, <3>2, CountedSame DEF Undrifted, Took
  <2> QED BY <1>1, <1>4, <2>1, MarkNoShowCounted, ReinstateCounted, CheckOutCounted
          DEF ComesOrGoes
<1>5. CASE Keeps
  BY <1>1, <1>5, CountedSame DEF Keeps, Close, Reopen, SetCondition, Rollover, Undrifted, Took
<1>6. CASE UNCHANGED vars
  BY <1>1, <1>6, CountedSame DEF vars, Undrifted, Took
<1> QED BY <1>1, <1>2, <1>3, <1>4, <1>5, <1>6, NoShowSweepCounted DEF Next

(* The shared counter never loses or duplicates a night: on every cell it is the
   number of bookings charged for it, over every order of bookings, sweeps, type
   changes and reinstatements that releases only what was charged.            *)
THEOREM CounterCountsItsOwners == Spec => []CountsTheOwners
<1>1. Counted => CountsTheOwners
  BY DEF Counted, CountsTheOwners
<1> QED BY <1>1, CountedInit, CountedNext, PTL DEF Spec

-----------------------------------------------------------------------------
(* What is for sale: only Close and Reopen touch the closure rows and the totals. *)

Closures == RowsOf(assignment, Closure)

Withdrawn == IsFiniteSet(Closures) /\ SellsOpenRooms

LEMMA ClosedKeepsClosures ==
  ASSUME NEW rows, NEW held \in rows, held.holder # Closure, NEW from,
         held \in AssignmentRow
  PROVE  RowsOf(Closed(rows, held, from), Closure) = RowsOf(rows, Closure)
<1>1. [held EXCEPT !.co = from].holder # Closure
  BY DEF AssignmentRow
<1> QED BY <1>1 DEF RowsOf, Closed

LEMMA BookedRows ==
  ASSUME TypeOK, NEW b \in Bookings
  PROVE  /\ b # Closure
         /\ \A a \in Latest(assignment, b) :
              a \in assignment /\ a \in AssignmentRow /\ a.holder # Closure
BY BookingsAssumption DEF TypeOK, Latest, RowsOf

LEMMA RowHolder == \A r, b, ci, co : Row(r, b, ci, co).holder = b
BY DEF Row

LEMMA RebookingKeepsClosures ==
  ASSUME TypeOK, NEW b \in Bookings, MakesOrLoses(b) \/ ChangesStay(b) \/ ComesOrGoes(b)
  PROVE  Closures' = Closures /\ total' = total
<1>1. CASE MakesOrLoses(b)
  <2>1. /\ total' = total
        /\ \/ assignment' = assignment
           \/ \E c \in Bookings : assignment' = assignment \ RowsOf(assignment, c)
    <3>1. CASE \E s \in Creatable, t \in Types, ci, co \in Dates : Create(b, s, t, ci, co)
      BY <3>1 DEF Create
    <3>2. CASE \E old \in Bookings, t \in Types, ci, co \in Dates : ReplaceHold(b, old, t, ci, co)
      BY <3>2 DEF ReplaceHold
    <3>3. CASE Confirm(b)
      BY <3>3 DEF Confirm
    <3>4. CASE Cancel(b)
      BY <3>4 DEF Cancel
    <3> QED BY <1>1, <3>1, <3>2, <3>3, <3>4 DEF MakesOrLoses
  <2> QED BY <2>1, BookingsAssumption DEF RowsOf, Closures
<1>2. ASSUME NEW r \in Rooms, Assign(b, r) PROVE Closures' = Closures /\ total' = total
  BY <1>2, BookedRows, RowHolder DEF Assign, Closures, RowsOf
<1>3. ASSUME NEW r \in Rooms, Move(b, r) PROVE Closures' = Closures /\ total' = total
  <2>1. PICK held \in Latest(assignment, b) :
          assignment' = Closed(assignment, held, MoveDate(b)) \cup {Row(r, b, MoveDate(b), booking[b].co)}
    BY <1>3 DEF Move
  <2>2. RowsOf(Closed(assignment, held, MoveDate(b)), Closure) = Closures
    BY BookedRows, ClosedKeepsClosures DEF Closures
  <2>3. Closures' = Closures
    BY <2>1, <2>2, BookedRows, RowHolder DEF Closures, RowsOf
  <2> QED BY <1>3, <2>3 DEF Move
<1>4. ASSUME NEW t \in Types, ChangeType(b, t) PROVE Closures' = Closures /\ total' = total
  BY <1>4 DEF ChangeType, Closures
<1>5. ASSUME NEW t \in Types, NEW r \in Rooms, ChangeTypeInto(b, t, r)
      PROVE  Closures' = Closures /\ total' = total
  <2> DEFINE from == IF booking[b].state = "CHECKED_IN" THEN MoveDate(b) ELSE booking[b].ci
  <2>1. PICK held \in Latest(assignment, b) :
          assignment' = Closed(assignment, held, from) \cup {Row(r, b, from, booking[b].co)}
    BY <1>5 DEF ChangeTypeInto
  <2>2. RowsOf(Closed(assignment, held, from), Closure) = Closures
    BY BookedRows, ClosedKeepsClosures DEF Closures
  <2>3. Closures' = Closures
    BY <2>1, <2>2, BookedRows, RowHolder DEF Closures, RowsOf
  <2> QED BY <1>5, <2>3 DEF ChangeTypeInto
<1>6. \A co : \A a \in Latest(assignment, b) : [a EXCEPT !.co = co].holder # Closure
  BY BookedRows DEF AssignmentRow
<1>7. ASSUME NEW co \in Dates, Extend(b, co) PROVE Closures' = Closures /\ total' = total
  BY <1>6, <1>7, BookedRows DEF Extend, Closures, RowsOf
<1>8. ASSUME NEW co \in Dates, Shorten(b, co) PROVE Closures' = Closures /\ total' = total
  BY <1>6, <1>8, BookedRows DEF Shorten, Closures, RowsOf
<1>9. CASE ChangesStay(b)
  BY <1>2, <1>3, <1>4, <1>5, <1>7, <1>8, <1>9 DEF ChangesStay
<1>10. ASSUME CheckIn(b) PROVE Closures' = Closures /\ total' = total
  BY <1>10 DEF CheckIn, Closures
<1>11. ASSUME MarkNoShow(b) PROVE Closures' = Closures /\ total' = total
  <2>1. \A a \in assignment : a.holder = b => [a EXCEPT !.co = booking[b].ci + 1].holder = b
    BY DEF TypeOK, AssignmentRow
  <2>2. RowsOf(CutBack(assignment, b), Closure) = Closures
    BY <2>1, BookedRows DEF CutBack, RowsOf, Closures
  <2> QED BY <1>11, <2>2 DEF MarkNoShow, Closures
<1>12. ASSUME NEW r \in Rooms, Reinstate(b, r) PROVE Closures' = Closures /\ total' = total
  BY <1>12, BookedRows, RowHolder DEF Reinstate, Closures, RowsOf
<1>13. ASSUME CheckOut(b) PROVE Closures' = Closures /\ total' = total
  <2> DEFINE from == LaterOf(today, booking[b].ci)
             held == Latest(assignment, b)
  <2>1. assignment' = assignment
          \/ (held # {} /\ assignment' = UNION {Closed(assignment, a, from) : a \in held})
    BY <1>13 DEF CheckOut
  <2>2. \A a \in held : RowsOf(Closed(assignment, a, from), Closure) = Closures
    BY BookedRows, ClosedKeepsClosures DEF Closures
  <2>3. Closures' = Closures
    <3> HIDE DEF from, held
    <3>1. ASSUME held # {}, assignment' = UNION {Closed(assignment, a, from) : a \in held}
          PROVE  Closures' = Closures
      BY <2>2, <3>1 DEF Closures, RowsOf
    <3> QED BY <2>1, <3>1 DEF Closures
  <2> QED BY <1>13, <2>3 DEF CheckOut
<1>14. CASE ComesOrGoes(b)
  BY <1>10, <1>11, <1>12, <1>13, <1>14 DEF ComesOrGoes
<1> QED BY <1>1, <1>9, <1>14

LEMMA SweepKeepsClosures ==
  ASSUME TypeOK, NoShowSweep
  PROVE  Closures' = Closures /\ total' = total
<1> DEFINE cut(a) == IF a.holder \in {b \in Bookings : Missed(b)} /\ AfterArrival(a.holder) # {}
                     THEN [a EXCEPT !.co = booking[a.holder].ci + 1] ELSE a
<1>1. \A a \in assignment : cut(a).holder = a.holder /\ (a.holder = Closure => cut(a) = a)
  BY BookingsAssumption DEF TypeOK, AssignmentRow
<1>2. assignment' = {cut(a) : a \in assignment} /\ total' = total
  BY DEF NoShowSweep
<1> HIDE DEF cut
<1> QED BY <1>1, <1>2 DEF Closures, RowsOf

ClosuresAt(x) == {a \in Closures : TypeOf[a.room] = x[1] /\ x[2] \in Nightly(a)}

LEMMA ClosureRowCells ==
  ASSUME NEW r \in Rooms, NEW from \in Dates, NEW to \in Dates, NEW x \in Cells
  PROVE  x \in CellsOf(TypeOf[r], Span(from, to))
           <=> TypeOf[r] = x[1] /\ x[2] \in Nightly(Row(r, Closure, from, to))
BY CellNights DEF Nightly, Row

LEMMA CloseWithdraws ==
  ASSUME TypeOK, Withdrawn, NEW r \in Rooms, NEW from \in Dates, NEW to \in Dates,
         Close(r, from, to)
  PROVE  Withdrawn'
<1> DEFINE row == Row(r, Closure, from, to)
           cells == CellsOf(TypeOf[r], Span(from, to))
<1>1. row \notin assignment
  <2>1. from \in Nightly(row)
    BY DEF Close, Nightly, Row, Span, Dates
  <2>2. row \in assignment => Nightly(row) \cap Nightly(row) = {}
    BY DEF Close, Fits
  <2> HIDE DEF row
  <2> QED BY <2>1, <2>2
<1>2. Closures' = Closures \cup {row} /\ row \notin Closures
  BY <1>1, RowHolder DEF Close, Closures, RowsOf
<1>3. IsFiniteSet(Closures')
  BY <1>2, FS_AddElement DEF Withdrawn
<1>4. ASSUME NEW x \in Cells
      PROVE  total'[x] + Cardinality(ClosedRooms(x)') = Cardinality(RoomsOf(x[1]))
  <2>1. IsFiniteSet(ClosedRooms(x)) /\ Cardinality(ClosedRooms(x)) \in Nat
    <3>1. ClosedRooms(x) \subseteq Closures
      BY DEF ClosedRooms, Closures
    <3> QED BY <3>1, FS_Subset, FS_CardinalityType DEF Withdrawn
  <2>2. total[x] + Cardinality(ClosedRooms(x)) = Cardinality(RoomsOf(x[1])) /\ total[x] \in Nat
    BY DEF Withdrawn, SellsOpenRooms, TypeOK
  <2>3. total'[x] = IF x \in cells THEN total[x] - 1 ELSE total[x]
    BY DEF Close
  <2>4. CASE x \in cells
    <3>1. TypeOf[row.room] = x[1] /\ x[2] \in Nightly(row)
      BY <2>4, ClosureRowCells DEF Row
    <3>2. ClosedRooms(x)' = ClosedRooms(x) \cup {row} /\ row \notin ClosedRooms(x)
      <4> HIDE DEF row
      <4> QED BY <1>2, <3>1 DEF ClosedRooms, Closures, Nightly
    <3>3. Cardinality(ClosedRooms(x)') = Cardinality(ClosedRooms(x)) + 1
      BY <2>1, <3>2, FS_AddElement
    <3> QED BY <2>1, <2>2, <2>3, <2>4, <3>3
  <2>5. CASE x \notin cells
    <3>1. ~ (TypeOf[row.room] = x[1] /\ x[2] \in Nightly(row))
      BY <2>5, ClosureRowCells DEF Row
    <3>2. ClosedRooms(x)' = ClosedRooms(x)
      <4> HIDE DEF row
      <4> QED BY <1>2, <3>1 DEF ClosedRooms, Closures, Nightly
    <3> QED BY <2>2, <2>3, <2>5, <3>2
  <2> QED BY <2>4, <2>5
<1> QED BY <1>3, <1>4 DEF Withdrawn, SellsOpenRooms

LEMMA ReopenWithdraws ==
  ASSUME TypeOK, Withdrawn, NEW row \in assignment, Reopen(row)
  PROVE  Withdrawn'
<1>1. Closures' = Closures \ {row} /\ row \in Closures
  BY DEF Reopen, Closures, RowsOf
<1>2. IsFiniteSet(Closures')
  BY <1>1, FS_RemoveElement DEF Withdrawn
<1>3. ASSUME NEW x \in Cells
      PROVE  total'[x] + Cardinality(ClosedRooms(x)') = Cardinality(RoomsOf(x[1]))
  <2>1. IsFiniteSet(ClosedRooms(x)) /\ Cardinality(ClosedRooms(x)) \in Nat
    <3>1. ClosedRooms(x) \subseteq Closures
      BY DEF ClosedRooms, Closures
    <3> QED BY <3>1, FS_Subset, FS_CardinalityType DEF Withdrawn
  <2>2. total[x] + Cardinality(ClosedRooms(x)) = Cardinality(RoomsOf(x[1])) /\ total[x] \in Nat
    BY DEF Withdrawn, SellsOpenRooms, TypeOK
  <2> DEFINE covers == TypeOf[row.room] = x[1] /\ x[2] \in Nightly(row)
  <2>3. total'[x] = IF covers THEN total[x] + 1 ELSE total[x]
    BY CellNights DEF Reopen
  <2>4. CASE covers
    <3>1. ClosedRooms(x)' = ClosedRooms(x) \ {row} /\ row \in ClosedRooms(x)
      BY <1>1, <2>4 DEF ClosedRooms, Closures, Nightly
    <3>2. Cardinality(ClosedRooms(x)') = Cardinality(ClosedRooms(x)) - 1
      BY <2>1, <3>1, FS_RemoveElement
    <3> QED BY <2>1, <2>2, <2>3, <2>4, <3>2
  <2>5. CASE ~ covers
    <3>1. ClosedRooms(x)' = ClosedRooms(x)
      BY <1>1, <2>5 DEF ClosedRooms, Closures, Nightly
    <3> QED BY <2>2, <2>3, <2>5, <3>1
  <2> QED BY <2>4, <2>5
<1> QED BY <1>2, <1>3 DEF Withdrawn, SellsOpenRooms

LEMMA WithdrawnKept ==
  ASSUME Withdrawn, Closures' = Closures, total' = total
  PROVE  Withdrawn'
<1>1. \A x : ClosedRooms(x)' = ClosedRooms(x)
  BY DEF ClosedRooms, Closures, Nightly
<1> QED BY <1>1 DEF Withdrawn, SellsOpenRooms

LEMMA WithdrawnInit == Init => Withdrawn
<1> SUFFICES ASSUME Init PROVE Withdrawn
  OBVIOUS
<1>1. Closures = {} /\ \A x : ClosedRooms(x) = {}
  BY DEF Init, Closures, ClosedRooms, RowsOf
<1>2. \A x \in Cells : total[x] = Cardinality(RoomsOf(x[1])) /\ Cardinality(RoomsOf(x[1])) \in Nat
  <2>1. \A t : RoomsOf(t) \subseteq Rooms
    BY DEF RoomsOf
  <2>2. \A t : Cardinality(RoomsOf(t)) \in Nat
    BY <2>1, RoomsAssumption, FS_Subset, FS_CardinalityType
  <2> QED BY <2>2 DEF Init
<1>3. \A x : Cardinality(ClosedRooms(x)) = 0
  BY <1>1, FS_EmptySet
<1>4. IsFiniteSet(Closures)
  BY <1>1, FS_EmptySet
<1> QED BY <1>2, <1>3, <1>4 DEF Withdrawn, SellsOpenRooms

LEMMA WithdrawnNext == TypeOK /\ Withdrawn /\ [Next]_vars => Withdrawn'
<1> SUFFICES ASSUME TypeOK, Withdrawn, [Next]_vars PROVE Withdrawn'
  OBVIOUS
<1>1. ASSUME NEW b \in Bookings, MakesOrLoses(b) \/ ChangesStay(b) \/ ComesOrGoes(b)
      PROVE  Withdrawn'
  BY <1>1, RebookingKeepsClosures, WithdrawnKept
<1>2. CASE NoShowSweep
  BY <1>2, SweepKeepsClosures, WithdrawnKept
<1>3. CASE Keeps
  <2>1. ASSUME UNCHANGED <<assignment, total>> PROVE Withdrawn'
    BY <2>1, WithdrawnKept DEF Closures
  <2> QED BY <1>3, <2>1, CloseWithdraws, ReopenWithdraws DEF Keeps, SetCondition, Rollover
<1>4. CASE UNCHANGED vars
  BY <1>4, WithdrawnKept DEF vars, Closures
<1> QED BY <1>1, <1>2, <1>3, <1>4 DEF Next

(* Closing a room withdraws it from sale on exactly the nights it is closed, and
   reopening gives exactly those back.                                        *)
THEOREM OpenRoomsAreSold == Spec => []SellsOpenRooms
<1>1. Init => TypeOK /\ Withdrawn
  BY InitType, WithdrawnInit
<1>2. TypeOK /\ Withdrawn /\ [Next]_vars => (TypeOK /\ Withdrawn)'
  BY NextType, WithdrawnNext
<1>3. Withdrawn => SellsOpenRooms
  BY DEF Withdrawn
<1> QED BY <1>1, <1>2, <1>3, PTL DEF Spec

-----------------------------------------------------------------------------
(* Never more sold than open: every operation that takes a night passes Sellable
   and every one that withdraws a room passes the same comparison.            *)

WithinTotal == \A x \in Cells : sold[x] <= total[x]

LEMMA SellableWithin ==
  ASSUME TypeOK, WithinTotal, NEW t \in Types, NEW nights, NEW down,
         nights # {} => Sellable(t, nights), total' = total,
         sold' = Moved(CellsOf(t, nights), down)
  PROVE  WithinTotal'
<1> SUFFICES ASSUME NEW x \in Cells PROVE sold'[x] <= total[x]
  BY DEF WithinTotal
<1>1. sold[x] \in Nat /\ total[x] \in Nat /\ sold[x] <= total[x]
  BY DEF TypeOK, WithinTotal
<1>2. x \in CellsOf(t, nights) => sold[x] < total[x]
  BY DEF CellsOf, Sellable
<1>3. sold'[x] = sold[x] + (IF x \in CellsOf(t, nights) THEN 1 ELSE 0)
                         - (IF x \in down THEN 1 ELSE 0)
  BY DEF Moved
<1> QED BY <1>1, <1>2, <1>3

LEMMA ReleaseWithin ==
  ASSUME TypeOK, WithinTotal, NEW down, total' = total, sold' = Moved({}, down)
  PROVE  WithinTotal'
<1> SUFFICES ASSUME NEW x \in Cells PROVE sold'[x] <= total[x]
  BY DEF WithinTotal
<1>1. sold[x] \in Nat /\ total[x] \in Nat /\ sold[x] <= total[x]
  BY DEF TypeOK, WithinTotal
<1>2. sold'[x] = sold[x] - (IF x \in down THEN 1 ELSE 0)
  BY <1>1 DEF Moved
<1> QED BY <1>1, <1>2

LEMMA WithinTotalNext == TypeOK /\ WithinTotal /\ [Next]_vars => WithinTotal'
<1> SUFFICES ASSUME TypeOK, WithinTotal, [Next]_vars PROVE WithinTotal'
  OBVIOUS
<1>0. ASSUME UNCHANGED <<sold, total>> PROVE WithinTotal'
  BY <1>0 DEF WithinTotal
<1>1. ASSUME NEW b \in Bookings, MakesOrLoses(b) PROVE WithinTotal'
  <2>1. ASSUME NEW s, NEW t \in Types, NEW ci, NEW co, Create(b, s, t, ci, co)
        PROVE  WithinTotal'
    BY <2>1, SellableWithin DEF Create
  <2>2. ASSUME NEW old \in Bookings, NEW t \in Types, NEW ci, NEW co,
               ReplaceHold(b, old, t, ci, co)
        PROVE  WithinTotal'
    BY <2>2, SellableWithin DEF ReplaceHold
  <2>3. ASSUME Cancel(b) PROVE WithinTotal'
    BY <2>3, ReleaseWithin DEF Cancel
  <2> QED BY <1>0, <1>1, <2>1, <2>2, <2>3 DEF MakesOrLoses, Confirm
<1>2. ASSUME NEW b \in Bookings, ChangesStay(b) PROVE WithinTotal'
  <2>0. booking[b].type \in Types
    BY DEF TypeOK, BookingRow
  <2>1. ASSUME NEW r \in Rooms, Assign(b, r) \/ Move(b, r) PROVE WithinTotal'
    BY <1>0, <2>1 DEF Assign, Move
  <2>2. ASSUME NEW t \in Types, Retype(b, t), total' = total PROVE WithinTotal'
    BY <2>2, SellableWithin DEF Retype, Exchanged
  <2>3. ASSUME NEW co \in Dates, Extend(b, co) PROVE WithinTotal'
    BY <2>0, <2>3, SellableWithin DEF Extend
  <2>4. ASSUME NEW co \in Dates, Shorten(b, co) PROVE WithinTotal'
    BY <2>4, ReleaseWithin DEF Shorten
  <2> QED BY <1>2, <2>1, <2>2, <2>3, <2>4 DEF ChangesStay, ChangeType, ChangeTypeInto
<1>3. ASSUME NEW b \in Bookings, ComesOrGoes(b) PROVE WithinTotal'
  <2>0. booking[b].type \in Types
    BY DEF TypeOK, BookingRow
  <2>1. ASSUME NEW r \in Rooms, Reinstate(b, r) PROVE WithinTotal'
    BY <2>0, <2>1, SellableWithin DEF Reinstate
  <2>2. ASSUME MarkNoShow(b) PROVE WithinTotal'
    BY <2>2, ReleaseWithin DEF MarkNoShow
  <2>3. ASSUME CheckOut(b) PROVE WithinTotal'
    BY <2>3, ReleaseWithin DEF CheckOut
  <2> QED BY <1>0, <1>3, <2>1, <2>2, <2>3 DEF ComesOrGoes, CheckIn
<1>4. CASE NoShowSweep
  <2> SUFFICES ASSUME NEW x \in Cells PROVE sold'[x] <= total'[x]
    BY DEF WithinTotal
  <2>1. sold[x] \in Nat /\ total[x] \in Nat /\ sold[x] <= total[x]
    BY DEF TypeOK, WithinTotal
  <2>2. Cardinality(SweptBack(x)) \in Nat
    BY SweptBackFinite
  <2> QED BY <1>4, <2>1, <2>2 DEF NoShowSweep
<1>5. CASE Keeps
  <2>1. ASSUME NEW r \in Rooms, NEW from \in Dates, NEW to \in Dates, Close(r, from, to)
        PROVE  WithinTotal'
    BY <2>1 DEF Close, WithinTotal, TypeOK
  <2>2. ASSUME NEW a \in assignment, Reopen(a) PROVE WithinTotal'
    BY <2>2 DEF Reopen, WithinTotal, TypeOK
  <2> QED BY <1>0, <1>5, <2>1, <2>2 DEF Keeps, SetCondition, Rollover
<1>6. CASE UNCHANGED vars
  BY <1>0, <1>6 DEF vars
<1> QED BY <1>1, <1>2, <1>3, <1>4, <1>5, <1>6 DEF Next

(* On a night to come, whoever may turn up has been charged for it. *)
LEMMA ClaimsAreCharged ==
  ASSUME Charged, \A b \in Bookings : ~ Took(b, "unbought"), NEW x \in Cells, x[2] >= today
  PROVE  Claims(x) \subseteq ChargedFor(x)
<1> SUFFICES ASSUME NEW b \in Claims(x) PROVE b \in ChargedFor(x)
  OBVIOUS
<1>1. /\ TypeOK /\ b \in Bookings /\ booking[b].type = x[1] /\ x[2] \in Stayed(b)
      /\ booking[b].state \in {"HELD", "CONFIRMED", "CHECKED_IN"} /\ OwnsAsState(b)
  BY DEF Claims, Charged
<1>2. CASE booking[b].state # "CHECKED_IN"
  BY <1>1, <1>2 DEF OwnsAsState, ChargedFor
<1>3. CASE booking[b].state = "CHECKED_IN"
  <2>1. Span(LaterOf(today, booking[b].ci), booking[b].co) \subseteq owns[b]
    BY <1>1, <1>3 DEF OwnsAsState
  <2>2. booking[b].ci \in Int /\ booking[b].co \in Int /\ today \in Int /\ x[2] \in Int
    BY <1>1, StayedType DEF Dates, TypeOK, Stayed, Span
  <2>3. x[2] \in Span(LaterOf(today, booking[b].ci), booking[b].co)
    BY <1>1, <2>2 DEF Stayed, Span, LaterOf
  <2> QED BY <1>1, <2>1, <2>3 DEF ChargedFor
<1> QED BY <1>2, <1>3

LEMMA NotOverbooked == Counted /\ Withdrawn /\ WithinTotal => NeverOverbooked
<1> SUFFICES ASSUME Counted, Withdrawn, WithinTotal, Undrifted,
                    \A b \in Bookings : ~ Took(b, "unbought"),
                    NEW x \in Cells, x[2] >= today
             PROVE  Cardinality(Claims(x)) + Cardinality(ClosedRooms(x))
                      <= Cardinality(RoomsOf(x[1]))
  BY DEF NeverOverbooked, RoomForEveryClaim
<1>1. Claims(x) \subseteq ChargedFor(x)
  BY ClaimsAreCharged DEF Counted
<1>2. Cardinality(Claims(x)) <= Cardinality(ChargedFor(x)) /\ Cardinality(Claims(x)) \in Nat
  BY <1>1, ChargedForFinite, FS_Subset, FS_CardinalityType
<1>3. sold[x] = Cardinality(ChargedFor(x)) /\ sold[x] <= total[x]
  BY DEF Counted, CounterIsExact, WithinTotal
<1>4. total[x] + Cardinality(ClosedRooms(x)) = Cardinality(RoomsOf(x[1]))
  BY DEF Withdrawn, SellsOpenRooms
<1>5. sold[x] \in Nat /\ total[x] \in Nat /\ Cardinality(ClosedRooms(x)) \in Nat
  <2>1. ClosedRooms(x) \subseteq Closures
    BY DEF ClosedRooms, Closures
  <2> QED BY <2>1, FS_Subset, FS_CardinalityType DEF Counted, Charged, TypeOK, Withdrawn
<1> QED BY <1>2, <1>3, <1>4, <1>5

(* The hotel is never overbooked: on any night to come, the bookings that may
   turn up for a type and its closed rooms fit in the rooms there are.        *)
THEOREM NeverSoldTwice == Spec => []NeverOverbooked
<1>1. Init => Counted /\ Withdrawn /\ WithinTotal
  <2>1. ASSUME Init PROVE WithinTotal
    <3>1. TypeOK /\ \A x \in Cells : sold[x] = 0
      BY <2>1, InitType DEF Init
    <3> QED BY <3>1 DEF WithinTotal, TypeOK
  <2> QED BY <2>1, CountedInit, WithdrawnInit
<1>2. Counted /\ Withdrawn /\ WithinTotal /\ [Next]_vars => (Counted /\ Withdrawn /\ WithinTotal)'
  BY CountedNext, WithdrawnNext, WithinTotalNext DEF Counted, Charged
<1> QED BY <1>1, <1>2, NotOverbooked, PTL DEF Spec

-----------------------------------------------------------------------------
(* What is given back. The counter is never below what a booking is charged for,
   so neither a lost booking nor the whole no-show sweep is refused.          *)

(* A booking charged for a night is one of those the counter counts. *)
LEMMA ChargedIsSold ==
  ASSUME Counted, Undrifted, NEW b \in Bookings, NEW n \in owns[b]
  PROVE  n \in Nights /\ sold[<<booking[b].type, n>>] > 0
<1>1. n \in Nights /\ <<booking[b].type, n>> \in Cells
  BY StayedType DEF Counted, Charged, TypeOK, Cells
<1> DEFINE x == <<booking[b].type, n>>
<1>2. b \in ChargedFor(x) /\ sold[x] = Cardinality(ChargedFor(x))
  BY <1>1 DEF ChargedFor, Counted, CounterIsExact
<1>3. Cardinality(ChargedFor(x)) # 0 /\ Cardinality(ChargedFor(x)) \in Nat
  BY <1>2, ChargedForFinite, FS_EmptySet
<1> QED BY <1>1, <1>2, <1>3

(* All the sweep gives back of a cell is charged for it. *)
LEMMA SweptAreCharged ==
  ASSUME Counted, Undrifted, NEW x \in Cells
  PROVE  Cardinality(SweptBack(x)) <= sold[x]
<1>1. \A b \in Bookings : Missed(b) => AfterArrival(b) \subseteq owns[b]
  BY StayedType DEF Counted, Charged, Missed, OwnsAsState, Stayed, AfterArrival, Span, Dates
<1>2. SweptBack(x) \subseteq ChargedFor(x)
  BY <1>1, CellNights DEF SweptBack, ChargedFor
<1>3. Cardinality(SweptBack(x)) <= Cardinality(ChargedFor(x))
  BY <1>2, ChargedForFinite, FS_Subset
<1> QED BY <1>3 DEF Counted, CounterIsExact

LEMMA ReleasesFollow == Counted => ReleasesAccepted
<1> SUFFICES ASSUME Counted, Undrifted
             PROVE  /\ \A b \in Bookings : booking[b].state \in {"HELD", "CONFIRMED"} =>
                         Releasable(booking[b].type, Stayed(b))
                    /\ SweepReleasable
  BY DEF ReleasesAccepted
<1>1. ASSUME NEW b \in Bookings, booking[b].state \in {"HELD", "CONFIRMED"}
      PROVE  Releasable(booking[b].type, Stayed(b))
  <2>1. owns[b] = Stayed(b)
    BY <1>1 DEF Counted, Charged, OwnsAsState
  <2> QED BY <2>1, ChargedIsSold DEF Releasable
<1>2. SweepReleasable
  BY SweptAreCharged DEF SweepReleasable
<1> QED BY <1>1, <1>2

(* A hold that runs out, a cancellation and the no-show sweep are never refused
   by the counter.                                                            *)
THEOREM ReleasesGoThrough == Spec => []ReleasesAccepted
<1> QED BY CountedInit, CountedNext, ReleasesFollow, PTL DEF Spec

-----------------------------------------------------------------------------
(* The nights slept. Only a change of the stay or the departure of the guest
   touches what a guest in house is charged for.                              *)

GuestNightsKept ==
  \A b \in Bookings : booking[b].state = "CHECKED_IN" =>
    {n \in owns[b] : n < today} \subseteq owns'[b]

(* A step that gives no night of b back before today, and none of another's. *)
LEMMA NightsKept ==
  ASSUME TypeOK, NEW b \in Bookings, NEW nights,
         owns' = [owns EXCEPT ![b] = nights],
         booking[b].state = "CHECKED_IN" => {n \in owns[b] : n < today} \subseteq nights
  PROVE  GuestNightsKept
<1>1. owns'[b] = nights /\ \A c \in Bookings \ {b} : owns'[c] = owns[c]
  BY DEF TypeOK
<1> QED BY <1>1 DEF GuestNightsKept

LEMMA RetypeKeepsNights ==
  ASSUME Charged, NEW b \in Bookings, NEW t \in Types, Retype(b, t)
  PROVE  GuestNightsKept
<1>1. owns[b] \subseteq Stayed(b)
  BY DEF Charged, Retype, Assignable, OwnsAsState
<1> QED BY <1>1, NightsKept DEF Retype, Charged

LEMMA ShortenKeepsNights ==
  ASSUME Charged, NEW b \in Bookings, NEW co \in Dates, Shorten(b, co)
  PROVE  GuestNightsKept
<1>1. \A n \in Span(co, booking[b].co) : ~ (n < today)
  BY StayedType DEF Shorten, Span, Charged, TypeOK, Dates
<1> QED BY <1>1, NightsKept DEF Shorten, Charged

LEMMA CheckOutKeepsNights ==
  ASSUME Charged, NEW b \in Bookings, CheckOut(b)
  PROVE  GuestNightsKept
<1> DEFINE from == LaterOf(today, booking[b].ci)
<1>0. TypeOK
  BY DEF Charged
<1>1. today \in Int /\ booking[b].ci \in Int /\ booking[b].co \in Int
  BY <1>0, StayedType DEF TypeOK, Dates
<1>2. \A n \in Span(from, booking[b].co) : ~ (n < today)
  BY <1>1 DEF Span, LaterOf
<1>3. owns' = [owns EXCEPT ![b] = owns[b] \ Span(from, booking[b].co)]
  BY DEF CheckOut
<1> QED BY <1>0, <1>2, <1>3, NightsKept

LEMMA SweepKeepsNights == Charged /\ NoShowSweep => GuestNightsKept
<1> SUFFICES ASSUME Charged, NoShowSweep, NEW b \in Bookings, booking[b].state = "CHECKED_IN"
             PROVE  owns'[b] = owns[b]
  BY DEF GuestNightsKept
<1>1. ~ Missed(b)
  BY DEF Missed
<1> QED BY <1>1 DEF NoShowSweep

LEMMA MakesOrLosesKeepsNights ==
  ASSUME Charged, NEW b \in Bookings, MakesOrLoses(b)
  PROVE  GuestNightsKept
<1>0. TypeOK
  BY DEF Charged
<1>1. ASSUME NEW s \in Creatable, NEW t \in Types, NEW ci \in Dates, NEW co \in Dates,
             Create(b, s, t, ci, co)
      PROVE  GuestNightsKept
  BY <1>0, <1>1, NightsKept DEF Create, Unborn
<1>2. ASSUME NEW old \in Bookings, NEW t \in Types, NEW ci \in Dates, NEW co \in Dates,
             ReplaceHold(b, old, t, ci, co)
      PROVE  GuestNightsKept
  BY <1>0, <1>2 DEF ReplaceHold, GuestNightsKept, TypeOK, Unborn
<1>3. CASE Confirm(b)
  BY <1>3 DEF Confirm, GuestNightsKept
<1>4. CASE Cancel(b)
  <2>1. booking[b].state # "CHECKED_IN"
    BY <1>4 DEF Cancel, Legal, LegalTransitions
  <2> QED BY <1>0, <1>4, <2>1, NightsKept DEF Cancel
<1> QED BY <1>1, <1>2, <1>3, <1>4 DEF MakesOrLoses

LEMMA ChangesStayKeepsNights ==
  ASSUME Charged, NEW b \in Bookings, ChangesStay(b)
  PROVE  GuestNightsKept
<1>0. TypeOK
  BY DEF Charged
<1>1. ASSUME NEW r \in Rooms, Assign(b, r) \/ Move(b, r)
      PROVE  GuestNightsKept
  BY <1>1 DEF Assign, Move, GuestNightsKept
<1>2. ASSUME NEW t \in Types, ChangeType(b, t) \/ \E r \in Rooms : ChangeTypeInto(b, t, r)
      PROVE  GuestNightsKept
  BY <1>2, RetypeKeepsNights DEF ChangeType, ChangeTypeInto
<1>3. ASSUME NEW co \in Dates, Extend(b, co)
      PROVE  GuestNightsKept
  BY <1>0, <1>3, NightsKept DEF Extend
<1> QED BY <1>1, <1>2, <1>3, ShortenKeepsNights DEF ChangesStay

LEMMA ComesOrGoesKeepsNights ==
  ASSUME Charged, NEW b \in Bookings, ComesOrGoes(b)
  PROVE  GuestNightsKept
<1>0. TypeOK
  BY DEF Charged
<1>1. CASE CheckIn(b)
  BY <1>1 DEF CheckIn, GuestNightsKept
<1>2. CASE MarkNoShow(b)
  <2>1. booking[b].state # "CHECKED_IN"
    BY <1>2 DEF MarkNoShow, Legal, LegalTransitions
  <2> QED BY <1>0, <1>2, <2>1, NightsKept DEF MarkNoShow
<1>3. ASSUME NEW r \in Rooms, Reinstate(b, r)
      PROVE  GuestNightsKept
  BY <1>0, <1>3, NightsKept DEF Reinstate
<1> QED BY <1>1, <1>2, <1>3, CheckOutKeepsNights DEF ComesOrGoes

LEMMA NextKeepsNights == Charged /\ Next => GuestNightsKept
<1>1. Keeps => GuestNightsKept
  BY DEF Keeps, Close, Reopen, SetCondition, Rollover, GuestNightsKept
<1> QED BY <1>1, MakesOrLosesKeepsNights, ChangesStayKeepsNights, ComesOrGoesKeepsNights,
          SweepKeepsNights DEF Next

(* A night a guest has slept stays charged, whatever the desk does next. *)
THEOREM SleptNightsAreKept == Spec => SleptNightsStayCharged
<1>1. Charged /\ [Next]_vars =>
        [\A b \in Bookings : booking[b].state = "CHECKED_IN" =>
           {n \in owns[b] : n < today} \subseteq owns'[b]]_vars
  BY NextKeepsNights DEF GuestNightsKept
<1> QED BY <1>1, ChargedInit, ChargedNext, PTL DEF Spec, SleptNightsStayCharged

-----------------------------------------------------------------------------
(* The rooms. The induction needs to know which rows each booking holds and, for
   a guest in house, where the latest of them stands.                         *)

Held(b) == RowsOf(assignment, b)

(* Rows that a room, or a booking, holds one after the other. *)
InTurn(a, c) == a.co <= c.ci \/ c.co <= a.ci

Covering(rows) == \A a \in rows : a.ci < a.co
Apart(rows) == \A a, c \in rows : a # c /\ a.room = c.room => InTurn(a, c)

ConfirmedRooms(b) ==
  \A a \in Held(b) : /\ a.ci = booking[b].ci /\ a.co = booking[b].co
                     /\ OfType(a.room, booking[b].type)

MissedRooms(b) ==
  /\ booking[b].ci <= today
  /\ \A a \in Held(b) : /\ a.ci = booking[b].ci /\ a.co = booking[b].ci + 1
                        /\ OfType(a.room, booking[b].type)

(* A row starts no later than today, or than an arrival still to come; a
   reinstatement on the arrival date may hold its room from tomorrow.         *)
Reached(b, a) ==
  \/ a.ci <= LaterOf(today, booking[b].ci)
  \/ today = booking[b].ci /\ a.ci = today + 1

(* Rows of a guest in house lie within the stay, and the one that matters is of
   the type sold.                                                             *)
GuestRows(b) ==
  \A a \in Held(b) :
    /\ booking[b].ci <= a.ci /\ a.co <= booking[b].co
    /\ Reached(b, a)
    /\ ~ Took(b, "dropped") /\ (a \in Latest(assignment, b) \/ a.co > today) =>
         OfType(a.room, booking[b].type)

(* The guest is in the room of the latest row, which runs to the departure. *)
GuestLatest(b) ==
  /\ ~ Took(b, "dropped") =>
       \A a \in Latest(assignment, b) : a.room = guestRoom[b] \/ a.ci = booking[b].ci
  /\ strays[b] \cap {"unheld", "dropped"} = {} =>
       \E a \in Latest(assignment, b) : a.room = guestRoom[b]
  /\ ~ Took(b, "unbought") /\ today < booking[b].co =>
       \A a \in Latest(assignment, b) : a.co = booking[b].co
  /\ strays[b] \cap {"unbought", "unheld", "dropped"} = {} /\ today = booking[b].ci =>
       \E a \in Held(b) : a.room = guestRoom[b] /\ a.ci = today

RoomedAs(b) ==
  LET s == booking[b].state IN
  /\ \A a, c \in Held(b) : a # c => InTurn(a, c)
  /\ s \in {Unborn, "HELD", "CANCELLED"} => Held(b) = {}
  /\ s = "CONFIRMED" => ConfirmedRooms(b)
  /\ s = "NO_SHOW" => MissedRooms(b)
  /\ s = "CHECKED_IN" => GuestRows(b) /\ GuestLatest(b)
  /\ s = "CHECKED_OUT" => \A a \in Held(b) : a.co <= today

Roomed ==
  /\ Charged
  /\ Covering(assignment) /\ Apart(assignment)
  /\ \A b \in Bookings : RoomedAs(b)

LEMMA RowFields ==
  ASSUME NEW a \in AssignmentRow
  PROVE  /\ a.room \in Rooms /\ a.holder \in Bookings \cup {Closure}
         /\ a.ci \in Dates /\ a.co \in Dates /\ a.ci \in Int /\ a.co \in Int
BY DatesAreIntegers DEF AssignmentRow

(* Rows taken away leave the rest apart. *)
LEMMA FewerRows ==
  ASSUME NEW rows, NEW fewer \in SUBSET rows, Covering(rows), Apart(rows)
  PROVE  Covering(fewer) /\ Apart(fewer)
BY DEF Covering, Apart

(* The exclusion constraint, as an order of dates. *)
LEMMA OneMoreRow ==
  ASSUME NEW rows \in SUBSET AssignmentRow, Covering(rows), Apart(rows),
         NEW row \in AssignmentRow, Fits(rows, row)
  PROVE  Covering(rows \cup {row}) /\ Apart(rows \cup {row})
<1>1. row.ci < row.co
  BY DEF Fits
<1>2. ASSUME NEW a \in rows, a.room = row.room PROVE InTurn(a, row)
  <2>1. Span(a.ci, a.co) \cap Span(row.ci, row.co) = {}
    BY <1>2 DEF Fits, Nightly
  <2>2. a.ci \in Int /\ a.co \in Int /\ row.ci \in Int /\ row.co \in Int /\ a.ci < a.co
    BY RowFields DEF Covering
  <2>3. LaterOf(a.ci, row.ci) \notin Span(a.ci, a.co) \cap Span(row.ci, row.co)
    BY <2>1
  <2> QED BY <1>1, <2>2, <2>3 DEF InTurn, LaterOf, Span
<1> QED BY <1>1, <1>2 DEF Covering, Apart, InTurn

LEMMA ClosedApart ==
  ASSUME TypeOK, Covering(assignment), Apart(assignment),
         NEW held \in assignment, NEW from \in Dates, Closable(held, from)
  PROVE  Covering(Closed(assignment, held, from)) /\ Apart(Closed(assignment, held, from))
<1>1. Covering(assignment \ {held}) /\ Apart(assignment \ {held})
  BY FewerRows
<1>2. CASE from = held.ci
  BY <1>1, <1>2 DEF Closed
<1>3. CASE from # held.ci
  <2>1. Fits(assignment \ {held}, [held EXCEPT !.co = from])
    BY <1>3 DEF Closable
  <2>2. [held EXCEPT !.co = from] \in AssignmentRow
    BY DEF TypeOK, AssignmentRow
  <2>3. assignment \ {held} \in SUBSET AssignmentRow
    BY DEF TypeOK
  <2> QED BY <1>1, <1>3, <2>1, <2>2, <2>3, OneMoreRow DEF Closed
<1> QED BY <1>2, <1>3

(* Rows cut back, each where it is, stay apart. *)
LEMMA CutApart ==
  ASSUME NEW rows \in SUBSET AssignmentRow, Covering(rows), Apart(rows),
         NEW cut \in [rows -> AssignmentRow],
         \A a \in rows : /\ cut[a].room = a.room /\ cut[a].ci = a.ci
                         /\ cut[a].ci < cut[a].co /\ cut[a].co <= a.co
  PROVE  Covering({cut[a] : a \in rows}) /\ Apart({cut[a] : a \in rows})
<1>1. ASSUME NEW a \in rows, NEW c \in rows, cut[a] # cut[c], cut[a].room = cut[c].room
      PROVE  InTurn(cut[a], cut[c])
  <2>1. InTurn(a, c)
    BY <1>1 DEF Apart
  <2>2. /\ a.ci \in Int /\ a.co \in Int /\ c.ci \in Int /\ c.co \in Int
        /\ cut[a].co \in Int /\ cut[c].co \in Int
    BY RowFields
  <2> QED BY <2>1, <2>2 DEF InTurn
<1> QED BY <1>1 DEF Covering, Apart

(* The latest row of a booking comes after its others, and there is only one. *)
LEMMA LatestLast ==
  ASSUME Roomed, NEW b \in Bookings, NEW held \in Latest(assignment, b)
  PROVE  /\ held \in assignment /\ held \in Held(b) /\ held \in AssignmentRow /\ held.holder = b
         /\ held.ci < held.co /\ held.ci \in Int /\ held.co \in Int
         /\ Latest(assignment, b) = {held}
         /\ \A c \in Held(b) : /\ c \in AssignmentRow /\ c.ci \in Int /\ c.co \in Int
                               /\ c.ci < c.co /\ (c # held => c.co <= held.ci)
<1>1. held \in Held(b) /\ held \in assignment /\ held.holder = b
  BY DEF Latest, Held, RowsOf
<1>2. \A c \in Held(b) : c \in AssignmentRow /\ c.ci \in Int /\ c.co \in Int /\ c.ci < c.co
  BY RowFields DEF Roomed, Charged, TypeOK, Held, RowsOf, Covering
<1>3. \A c \in Held(b) : c.ci <= held.ci
  BY DEF Latest, Held
<1>4. ASSUME NEW c \in Held(b), c # held PROVE c.co <= held.ci
  <2>1. InTurn(c, held)
    BY <1>1, <1>4 DEF Roomed, RoomedAs
  <2> QED BY <1>1, <1>2, <1>3, <2>1 DEF InTurn
<1>5. Latest(assignment, b) = {held}
  <2>1. ASSUME NEW c \in Latest(assignment, b), c # held PROVE FALSE
    <3>1. c \in Held(b) /\ held.ci <= c.ci
      BY <1>1, <2>1 DEF Latest, Held
    <3> QED BY <1>1, <1>2, <1>4, <2>1, <3>1
  <2> QED BY <2>1
<1> QED BY <1>1, <1>2, <1>4, <1>5

(* Dates end, so a booking that holds a row has a latest one. *)
LEMMA SomeLatest ==
  ASSUME TypeOK, NEW b, Held(b) # {}
  PROVE  Latest(assignment, b) # {}
<1> DEFINE End == LastNight + 1
           T == {End - a.ci : a \in Held(b)}
           Below == OpToRel(<, Nat)
<1>0. End \in Int /\ \A a \in Held(b) : a.ci \in Int /\ a.ci <= End
  BY CalendarAssumption DEF TypeOK, Held, RowsOf, AssignmentRow, Dates
<1>1. IsWellFoundedOn(Below, Nat)
  BY NatLessThanWellFounded
<1>2. \A x, y \in Nat : x < y => <<x, y>> \in Below
  BY DEF OpToRel
<1>3. T \in SUBSET Nat /\ T # {}
  BY <1>0
<1>4. \E m \in T : \A k \in T : ~(<<k, m>> \in Below)
  <2> HIDE DEF Below, T
  <2> QED BY <1>1, <1>3, WFMin
<1> HIDE DEF Below
<1>5. PICK m \in Held(b) : \A a \in Held(b) : ~(<<End - a.ci, End - m.ci>> \in Below)
  BY <1>4
<1>6. ASSUME NEW a \in Held(b), ~(a.ci <= m.ci) PROVE FALSE
  <2>1. End - a.ci \in Nat /\ End - m.ci \in Nat /\ End - a.ci < End - m.ci
    BY <1>0, <1>6
  <2> QED BY <1>2, <1>5, <2>1
<1> QED BY <1>6 DEF Latest, Held

-----------------------------------------------------------------------------
(* What an operation leaves alone. *)

LEMMA RoomFrame ==
  ASSUME NEW b \in Bookings, RoomedAs(b), Held(b)' = Held(b), booking'[b] = booking[b],
         strays'[b] = strays[b], guestRoom'[b] = guestRoom[b], today' = today
  PROVE  RoomedAs(b)'
<1>1. Latest(assignment, b)' = Latest(assignment, b)
  BY DEF Latest, Held
<1>2. /\ ConfirmedRooms(b)' <=> ConfirmedRooms(b)
      /\ MissedRooms(b)' <=> MissedRooms(b)
      /\ GuestRows(b)' <=> GuestRows(b)
      /\ GuestLatest(b)' <=> GuestLatest(b)
  BY <1>1 DEF ConfirmedRooms, MissedRooms, GuestRows, GuestLatest, Reached, Took
<1> QED BY <1>2 DEF RoomedAs

(* An operation on one booking leaves the rows of the others, and the closures,
   where they are.                                                            *)
LEMMA OneRoomed ==
  ASSUME Roomed, Charged', NEW b \in Bookings,
         Covering(assignment)', Apart(assignment)',
         \A c \in Bookings : c # b => Held(c)' = Held(c),
         \A c \in Bookings : c # b => booking'[c] = booking[c],
         \A c \in Bookings : c # b => strays'[c] = strays[c],
         \A c \in Bookings : c # b => guestRoom'[c] = guestRoom[c],
         today' = today, RoomedAs(b)'
  PROVE  Roomed'
<1>1. ASSUME NEW c \in Bookings, c # b PROVE RoomedAs(c)'
  BY <1>1, RoomFrame DEF Roomed
<1> QED BY <1>1 DEF Roomed

(* Nothing moves but what no room depends on. *)
LEMMA RoomsUnchanged ==
  ASSUME Roomed, Charged', UNCHANGED <<today, booking, assignment, guestRoom, strays>>
  PROVE  Roomed'
<1>1. \A b \in Bookings : Held(b)' = Held(b)
  BY DEF Held
<1>2. \A b \in Bookings : RoomedAs(b)'
  BY <1>1, RoomFrame DEF Roomed
<1> QED BY <1>2 DEF Roomed, Covering, Apart

LEMMA CreateRooms ==
  ASSUME Roomed, NEW b \in Bookings, NEW s \in Creatable, NEW t \in Types,
         NEW ci \in Dates, NEW co \in Dates, Create(b, s, t, ci, co)
  PROVE  Roomed'
<1>1. Charged' /\ TypeOK
  BY CreateOwns DEF Roomed, Charged
<1>2. Held(b) = {} /\ assignment' = assignment
  BY DEF Create, Roomed, RoomedAs
<1>3. booking'[b].state \in {"HELD", "CONFIRMED"}
  BY <1>1 DEF Create, TypeOK, Creatable
<1>4. RoomedAs(b)'
  BY <1>2, <1>3 DEF RoomedAs, ConfirmedRooms, Held
<1> QED BY <1>1, <1>2, <1>4, OneRoomed DEF Create, Held, TypeOK, Roomed, Covering, Apart

LEMMA ReplaceHoldRooms ==
  ASSUME Roomed, NEW b \in Bookings, NEW old \in Bookings, NEW t \in Types,
         NEW ci \in Dates, NEW co \in Dates, ReplaceHold(b, old, t, ci, co)
  PROVE  Roomed'
<1>1. Charged' /\ TypeOK
  BY ReplaceHoldOwns DEF Roomed, Charged
<1>2. Held(b) = {} /\ Held(old) = {} /\ b # old
  BY DEF ReplaceHold, Roomed, RoomedAs, Unborn
<1>3. assignment' = assignment
  BY <1>2 DEF ReplaceHold, Held
<1>4. booking'[b].state = "HELD" /\ booking'[old].state = "CANCELLED"
  <2>1. b # old /\ booking \in [Bookings -> BookingRow]
    BY <1>1, <1>2 DEF TypeOK
  <2> QED BY <2>1 DEF ReplaceHold, BookingRow
<1>5. ASSUME NEW c \in {b, old} PROVE RoomedAs(c)'
  BY <1>2, <1>3, <1>4, <1>5 DEF RoomedAs, Held
<1>6. ASSUME NEW c \in Bookings, c \notin {b, old} PROVE RoomedAs(c)'
  BY <1>1, <1>3, <1>6, RoomFrame DEF ReplaceHold, Held, TypeOK, Roomed
<1> QED BY <1>1, <1>3, <1>5, <1>6 DEF Roomed, Covering, Apart

LEMMA ConfirmRooms ==
  ASSUME Roomed, NEW b \in Bookings, Confirm(b)
  PROVE  Roomed'
<1>1. Charged' /\ TypeOK
  BY ConfirmOwns DEF Roomed, Charged
<1>2. booking[b].state = "HELD"
  BY <1>1 DEF Confirm, Legal, LegalTransitions, TypeOK, BookingRow, BookingState, Unborn
<1>3. Held(b) = {} /\ assignment' = assignment /\ booking'[b].state = "CONFIRMED"
  BY <1>1, <1>2 DEF Confirm, Rewrite, Roomed, RoomedAs, TypeOK, BookingRow
<1>4. RoomedAs(b)'
  BY <1>3 DEF RoomedAs, ConfirmedRooms, Held, Unborn
<1> QED BY <1>1, <1>3, <1>4, OneRoomed DEF Confirm, Rewrite, Held, TypeOK, Roomed, Covering, Apart

LEMMA CancelRooms ==
  ASSUME Roomed, NEW b \in Bookings, Cancel(b)
  PROVE  Roomed'
<1>1. Charged' /\ TypeOK
  BY CancelOwns DEF Roomed, Charged
<1>2. assignment' = assignment \ Held(b) /\ Held(b)' = {}
  BY DEF Cancel, Held, RowsOf
<1>3. booking'[b].state = "CANCELLED"
  BY <1>1 DEF Cancel, Rewrite, TypeOK, BookingRow
<1>4. RoomedAs(b)'
  BY <1>2, <1>3 DEF RoomedAs, Unborn
<1>5. Covering(assignment)' /\ Apart(assignment)'
  BY <1>2 DEF Roomed, Covering, Apart
<1>6. \A c \in Bookings : c # b => Held(c)' = Held(c)
  BY <1>2 DEF Held, RowsOf
<1> QED BY <1>1, <1>4, <1>5, <1>6, OneRoomed DEF Cancel, Rewrite, TypeOK

-----------------------------------------------------------------------------
(* Operations that change the room. *)

LEMMA LastIsLatest ==
  ASSUME NEW rows, NEW b, NEW row \in RowsOf(rows, b), row.ci \in Int,
         \A a \in RowsOf(rows, b) : a # row => a.ci \in Int /\ a.ci < row.ci
  PROVE  Latest(rows, b) = {row}
<1>1. \A a \in RowsOf(rows, b) : a.ci <= row.ci
  OBVIOUS
<1>2. ASSUME NEW a \in Latest(rows, b), a # row PROVE FALSE
  <2>1. a \in RowsOf(rows, b) /\ row.ci <= a.ci
    BY DEF Latest
  <2> QED BY <1>2, <2>1
<1> QED BY <1>1, <1>2 DEF Latest

(* What is known of a booking's dates. *)
LEMMA StayDates ==
  ASSUME Roomed, NEW b \in Bookings
  PROVE  /\ TypeOK /\ RoomedAs(b) /\ assignment \in SUBSET AssignmentRow
         /\ booking[b].ci \in Dates /\ booking[b].co \in Dates /\ today \in Dates
         /\ booking[b].ci \in Int /\ booking[b].co \in Int /\ today \in Int
         /\ booking[b].type \in Types
         /\ booking[b].state # Unborn => booking[b].ci < booking[b].co
<1>1. TypeOK /\ RoomedAs(b) /\ assignment \in SUBSET AssignmentRow
  BY DEF Roomed, Charged, TypeOK
<1> QED BY <1>1, StayedType, DatesAreIntegers DEF Roomed, Charged, ANight, TypeOK

(* A confirmed booking holds one room, if any. *)
LEMMA ConfirmedOnce ==
  ASSUME Roomed, NEW b \in Bookings, booking[b].state \in {"CONFIRMED", "NO_SHOW"}
  PROVE  Held(b) = Latest(assignment, b)
<1>1. \A a \in Held(b) : a.ci = booking[b].ci /\ booking[b].ci \in Int
  BY StayDates DEF RoomedAs, ConfirmedRooms, MissedRooms
<1> QED BY <1>1 DEF Latest, Held

LEMMA AssignRooms ==
  ASSUME Roomed, NEW b \in Bookings, NEW r \in Rooms, Assign(b, r)
  PROVE  Roomed'
<1>0. PICK row : row = Row(r, b, booking[b].ci, booking[b].co)
  OBVIOUS
<1>1. Charged'
  BY AssignType, OwnsUnchanged DEF Roomed, Charged, Assign
<1>2. Held(b) = Latest(assignment, b)
  <2>1. CASE booking[b].state = "CONFIRMED"
    BY <2>1, ConfirmedOnce
  <2>2. CASE booking[b].state = "CHECKED_IN"
    BY <2>2, SomeLatest, StayDates DEF Assign
  <2> QED BY <2>1, <2>2 DEF Assign, Assignable
<1>3. assignment' = (assignment \ Held(b)) \cup {row}
  BY <1>0, <1>2 DEF Assign
<1>4. /\ row \in AssignmentRow /\ row.room = r /\ row.holder = b
      /\ row.ci = booking[b].ci /\ row.co = booking[b].co
  BY <1>0, StayDates, RowType DEF Row
<1>5. /\ Fits(assignment \ Held(b), row) /\ booking' = booking /\ strays' = strays /\ today' = today
      /\ OfType(r, booking[b].type) /\ booking[b].state \in {"CONFIRMED", "CHECKED_IN"}
      /\ guestRoom' = IF booking[b].state = "CHECKED_IN" THEN [guestRoom EXCEPT ![b] = r]
                      ELSE guestRoom
  BY <1>0, <1>2 DEF Assign, Assignable, Sent
<1>6. Held(b)' = {row} /\ \A c \in Bookings : c # b => Held(c)' = Held(c)
  BY <1>3, <1>4 DEF Held, RowsOf
<1>7. Latest(assignment, b)' = {row}
  BY <1>4, <1>6, StayDates, LastIsLatest DEF Held
<1>8. Covering(assignment)' /\ Apart(assignment)'
  <2>1. Covering(assignment \ Held(b)) /\ Apart(assignment \ Held(b))
    BY FewerRows DEF Roomed
  <2> QED BY <1>3, <1>4, <1>5, <2>1, StayDates, OneMoreRow
<1>9. RoomedAs(b)'
  <2>1. CASE booking[b].state = "CONFIRMED"
    BY <1>4, <1>5, <1>6, <2>1 DEF RoomedAs, ConfirmedRooms, Unborn
  <2>2. CASE booking[b].state = "CHECKED_IN"
    <3>1. guestRoom'[b] = r
      BY <1>5, <2>2, StayDates DEF TypeOK
    <3>2. Reached(b, row)'
      BY <1>4, <1>5, StayDates DEF Reached, LaterOf
    <3>3. GuestRows(b)'
      BY <1>4, <1>5, <1>6, <3>2, StayDates DEF GuestRows
    <3>4. GuestLatest(b)'
      BY <1>4, <1>5, <1>6, <1>7, <3>1 DEF GuestLatest
    <3> QED BY <1>5, <1>6, <2>2, <3>3, <3>4 DEF RoomedAs, Unborn
  <2> QED BY <1>5, <2>1, <2>2
<1>10. guestRoom \in [Bookings -> Rooms \cup {NoRoom}]
  BY StayDates DEF TypeOK
<1> QED BY <1>1, <1>5, <1>6, <1>8, <1>9, <1>10, OneRoomed

(* The move of a guest in house, by move or by a type change: the old row is given
   up from the move's date, a new one runs from there to the departure.       *)
LEMMA GuestMoved ==
  ASSUME Roomed, NEW b \in Bookings, NEW r \in Rooms, NEW held \in Latest(assignment, b),
         booking[b].state = "CHECKED_IN", MoveDateLeft(b), Closable(held, MoveDate(b)),
         Fits(Closed(assignment, held, MoveDate(b)), Row(r, b, MoveDate(b), booking[b].co)),
         assignment' = Closed(assignment, held, MoveDate(b))
                         \cup {Row(r, b, MoveDate(b), booking[b].co)},
         booking'[b].state = "CHECKED_IN", OfType(r, booking'[b].type),
         booking'[b].ci = booking[b].ci, booking'[b].co = booking[b].co,
         guestRoom'[b] = r, today' = today
  PROVE  /\ RoomedAs(b)' /\ Covering(assignment)' /\ Apart(assignment)'
         /\ \A c \in Bookings : c # b => Held(c)' = Held(c)
<1> DEFINE from == MoveDate(b)
           row  == Row(r, b, from, booking[b].co)
           cut  == [held EXCEPT !.co = from]
           kept == IF from = held.ci THEN {} ELSE {cut}
<1>1. /\ from \in Dates /\ from \in Int /\ from < booking[b].co
      /\ from = LaterOf(today, booking[b].ci) /\ today <= from /\ booking[b].ci <= from
      /\ from = today \/ from = booking[b].ci
  BY StayDates, MoveDateType DEF MoveDateLeft, MoveDate, LaterOf
<1>2. /\ row \in AssignmentRow /\ row.room = r /\ row.holder = b
      /\ row.ci = from /\ row.co = booking[b].co
  BY <1>1, StayDates, RowType DEF Row
<1>3. /\ held \in assignment /\ held \in Held(b) /\ held \in AssignmentRow /\ held.holder = b
      /\ held.ci < held.co /\ held.ci \in Int /\ held.co \in Int
      /\ \A c \in Held(b) : /\ c \in AssignmentRow /\ c.ci \in Int /\ c.co \in Int
                            /\ c.ci < c.co /\ (c # held => c.co <= held.ci)
  BY LatestLast
<1>4. cut.holder = b /\ cut.ci = held.ci /\ cut.co = from
  BY <1>3 DEF AssignmentRow
<1>5. held.ci <= from
  BY <1>1, <1>3, <1>4 DEF Closable, Fits
<1>6. assignment' = (assignment \ {held}) \cup (kept \cup {row})
  BY DEF Closed
<1>7. Covering(assignment)' /\ Apart(assignment)'
  <2>1. Covering(Closed(assignment, held, from)) /\ Apart(Closed(assignment, held, from))
    BY <1>1, <1>3, StayDates, ClosedApart DEF Roomed
  <2>2. Closed(assignment, held, from) \in SUBSET AssignmentRow
    BY <1>1, <1>3, StayDates, ClosedType
  <2> QED BY <1>2, <2>1, <2>2, OneMoreRow
<1>8. booking[b].ci <= held.ci /\ \A a \in Held(b) : booking[b].ci <= a.ci /\ a.co <= booking[b].co
  BY <1>3, StayDates DEF RoomedAs, GuestRows
<1> HIDE DEF from, row, cut, kept
<1>9. /\ Held(b)' = (Held(b) \ {held}) \cup (kept \cup {row})
      /\ \A c \in Bookings : c # b => Held(c)' = Held(c)
  <2>1. \A a \in kept \cup {row} : a.holder = b
    BY <1>2, <1>4 DEF kept
  <2> QED BY <1>3, <1>6, <2>1 DEF Held, RowsOf
<1>10. \A a \in kept : a.ci = held.ci /\ a.co = from /\ held.ci < from
  BY <1>1, <1>3, <1>4, <1>5 DEF kept
<1>11. \A a \in Held(b)' : a # row =>
         /\ a.ci \in Int /\ a.co \in Int /\ a.ci < a.co /\ a.co <= from /\ booking[b].ci <= a.ci
  BY <1>1, <1>3, <1>5, <1>8, <1>9, <1>10
<1>12. Latest(assignment, b)' = {row}
  <2>1. row \in Held(b)' /\ row.ci = from /\ from \in Int
    BY <1>1, <1>2, <1>9
  <2>2. \A a \in Held(b)' : a # row => a.ci \in Int /\ a.ci < row.ci
    BY <1>11, <2>1
  <2> QED BY <2>1, <2>2, LastIsLatest DEF Held
<1>13. ASSUME NEW a \in Held(b)', NEW c \in Held(b)', a # c PROVE InTurn(a, c)
  <2>1. CASE a = row \/ c = row
    BY <1>2, <1>11, <1>13, <2>1 DEF InTurn
  <2>2. CASE a \in kept \/ c \in kept
    <3>1. a \in kept => c \notin kept
      BY <1>13 DEF kept
    <3> QED BY <1>3, <1>9, <1>10, <1>13, <2>1, <2>2, <3>1 DEF InTurn
  <2>3. CASE a \in Held(b) /\ c \in Held(b)
    BY <1>13, <2>3, StayDates DEF RoomedAs
  <2> QED BY <1>9, <1>13, <2>1, <2>2, <2>3
<1>14. ASSUME NEW a \in Held(b)'
       PROVE  /\ booking[b].ci <= a.ci /\ a.co <= booking[b].co
              /\ a.ci <= from /\ (a # row => a.co <= today)
  <2>1. CASE a = row
    BY <1>1, <1>2, <2>1, StayDates
  <2>2. CASE a # row
    BY <1>1, <1>11, <1>14, <2>2, StayDates
  <2> QED BY <2>1, <2>2
<1>15. GuestRows(b)'
  <2> SUFFICES ASSUME NEW a \in Held(b)'
               PROVE  /\ booking'[b].ci <= a.ci /\ a.co <= booking'[b].co /\ Reached(b, a)'
                      /\ (a \in {row} \/ a.co > today) => OfType(a.room, booking'[b].type)
    BY <1>12 DEF GuestRows
  <2>1. Reached(b, a)'
    BY <1>1, <1>14 DEF Reached
  <2>2. a.co \in Int /\ today \in Int
    BY <1>2, <1>11, StayDates, RowFields
  <2> QED BY <1>2, <1>14, <2>1, <2>2
<1>16. GuestLatest(b)'
  <2>1. row \in Held(b)'
    BY <1>9
  <2> QED BY <1>1, <1>2, <1>12, <2>1 DEF GuestLatest
<1> QED BY <1>7, <1>9, <1>13, <1>15, <1>16 DEF RoomedAs, Unborn

LEMMA MoveRooms ==
  ASSUME Roomed, NEW b \in Bookings, NEW r \in Rooms, Move(b, r)
  PROVE  Roomed'
<1>1. Charged'
  BY MoveType, OwnsUnchanged DEF Roomed, Charged, Move
<1>2. PICK held \in Latest(assignment, b) :
        /\ booking[b].state = "CHECKED_IN" /\ OfType(r, booking[b].type)
        /\ MoveDateLeft(b) /\ Closable(held, MoveDate(b))
        /\ Fits(Closed(assignment, held, MoveDate(b)), Row(r, b, MoveDate(b), booking[b].co))
        /\ assignment' = Closed(assignment, held, MoveDate(b))
                           \cup {Row(r, b, MoveDate(b), booking[b].co)}
        /\ Sent(b, r) /\ UNCHANGED <<today, booking, strays>>
  BY DEF Move
<1>3. guestRoom' = [guestRoom EXCEPT ![b] = r] /\ guestRoom \in [Bookings -> Rooms \cup {NoRoom}]
  BY <1>2, StayDates DEF Sent, TypeOK
<1>4. /\ RoomedAs(b)' /\ Covering(assignment)' /\ Apart(assignment)'
      /\ \A c \in Bookings : c # b => Held(c)' = Held(c)
  BY <1>2, <1>3, GuestMoved
<1> QED BY <1>1, <1>2, <1>3, <1>4, OneRoomed

LEMMA RetypedBooking ==
  ASSUME Roomed, NEW b \in Bookings, NEW t \in Types, Retype(b, t)
  PROVE  /\ booking'[b].state = booking[b].state /\ booking'[b].type = t
         /\ booking'[b].ci = booking[b].ci /\ booking'[b].co = booking[b].co
         /\ booking[b].state \in {"CONFIRMED", "CHECKED_IN"}
         /\ strays[b] \subseteq strays'[b]
         /\ \A c \in Bookings : c # b => booking'[c] = booking[c] /\ strays'[c] = strays[c]
<1>1. TypeOK
  BY StayDates
<1>2. booking'[b] = [booking[b] EXCEPT !.type = t] /\ booking[b] \in BookingRow
  BY <1>1 DEF Retype, TypeOK
<1>3. strays'[b] = StraysReleasing(b, Stayed(b))
  BY <1>1 DEF Retype, TypeOK
<1> QED BY <1>1, <1>2, <1>3, StraysGrow DEF Retype, Assignable, BookingRow, TypeOK

LEMMA ChangeTypeRooms ==
  ASSUME Roomed, NEW b \in Bookings, NEW t \in Types, ChangeType(b, t)
  PROVE  Roomed'
<1>1. Charged'
  BY ChangeTypeType, RetypeOwns DEF Roomed, Charged, ChangeType
<1>2. Held(b) = {} /\ Latest(assignment, b) = {}
  BY SomeLatest, StayDates DEF ChangeType
<1>3. assignment' = assignment /\ guestRoom' = guestRoom /\ today' = today /\ Retype(b, t)
  BY DEF ChangeType
<1>4. Held(b)' = {} /\ \A c \in Bookings : Held(c)' = Held(c)
  BY <1>2, <1>3 DEF Held
<1>5. RoomedAs(b)'
  <2>1. CASE booking[b].state = "CONFIRMED"
    BY <1>3, <1>4, <2>1, RetypedBooking DEF RoomedAs, ConfirmedRooms, Unborn
  <2>2. CASE booking[b].state = "CHECKED_IN"
    <3>1. GuestRows(b)'
      BY <1>4 DEF GuestRows
    <3>2. GuestLatest(b)
      BY <2>2, StayDates DEF RoomedAs
    <3>3. GuestLatest(b)'
      <4>1. Latest(assignment, b)' = {}
        BY <1>4 DEF Latest, Held
      <4> QED BY <1>2, <1>3, <3>2, <4>1, RetypedBooking DEF GuestLatest
    <3> QED BY <1>3, <1>4, <2>2, <3>1, <3>3, RetypedBooking DEF RoomedAs, Unborn
  <2> QED BY <1>3, <2>1, <2>2, RetypedBooking
<1> QED BY <1>1, <1>3, <1>4, <1>5, RetypedBooking, OneRoomed DEF Roomed, Covering, Apart

LEMMA ChangeTypeIntoRooms ==
  ASSUME Roomed, NEW b \in Bookings, NEW t \in Types, NEW r \in Rooms, ChangeTypeInto(b, t, r)
  PROVE  Roomed'
<1>1. Charged'
  BY ChangeTypeIntoType, RetypeOwns DEF Roomed, Charged, ChangeTypeInto
<1>2. PICK from, row :
        /\ from = IF booking[b].state = "CHECKED_IN" THEN MoveDate(b) ELSE booking[b].ci
        /\ row = Row(r, b, from, booking[b].co)
  OBVIOUS
<1>3. PICK held \in Latest(assignment, b) :
        /\ Retype(b, t) /\ OfType(r, t)
        /\ booking[b].state = "CHECKED_IN" => MoveDateLeft(b)
        /\ Closable(held, from)
        /\ Fits(Closed(assignment, held, from), row)
        /\ assignment' = Closed(assignment, held, from) \cup {row}
        /\ Sent(b, r) /\ today' = today
  BY <1>2 DEF ChangeTypeInto
<1>4. \A c \in Bookings : c # b => guestRoom'[c] = guestRoom[c]
  BY <1>3, StayDates DEF Sent, TypeOK
<1>5. /\ RoomedAs(b)' /\ Covering(assignment)' /\ Apart(assignment)'
      /\ \A c \in Bookings : c # b => Held(c)' = Held(c)
  <2>1. CASE booking[b].state = "CHECKED_IN"
    <3>1. guestRoom'[b] = r
      BY <1>3, <2>1, StayDates DEF Sent, TypeOK
    <3> QED BY <1>2, <1>3, <2>1, <3>1, RetypedBooking, GuestMoved
  <2>2. CASE booking[b].state = "CONFIRMED"
    <3>1. held \in assignment /\ held.ci = booking[b].ci /\ Held(b) = {held}
      BY <2>2, ConfirmedOnce, LatestLast, StayDates DEF RoomedAs, ConfirmedRooms
    <3>2. assignment' = (assignment \ {held}) \cup {row} /\ Fits(assignment \ {held}, row)
      BY <1>2, <1>3, <2>2, <3>1 DEF Closed
    <3>3. /\ row \in AssignmentRow /\ row.room = r /\ row.holder = b
          /\ row.ci = booking[b].ci /\ row.co = booking[b].co
      BY <1>2, <2>2, StayDates, RowType DEF Row
    <3>4. Held(b)' = {row} /\ \A c \in Bookings : c # b => Held(c)' = Held(c)
      BY <3>1, <3>2, <3>3 DEF Held, RowsOf
    <3>5. Covering(assignment)' /\ Apart(assignment)'
      <4>1. Covering(assignment \ {held}) /\ Apart(assignment \ {held})
        BY FewerRows DEF Roomed
      <4> QED BY <3>2, <3>3, <4>1, StayDates, OneMoreRow
    <3>6. RoomedAs(b)'
      BY <1>3, <2>2, <3>3, <3>4, RetypedBooking DEF RoomedAs, ConfirmedRooms, Unborn
    <3> QED BY <3>4, <3>5, <3>6
  <2> QED BY <1>3, <2>1, <2>2, RetypedBooking
<1> QED BY <1>1, <1>3, <1>4, <1>5, RetypedBooking, OneRoomed

(* The latest row ends on another date, and the stay with it. *)
LEMMA LatestStretched ==
  ASSUME Roomed, NEW b \in Bookings, NEW held \in Latest(assignment, b), NEW co \in Dates,
         booking[b].state \in {"CONFIRMED", "CHECKED_IN"}, held.ci < co,
         Fits(assignment \ {held}, [held EXCEPT !.co = co]),
         assignment' = (assignment \ {held}) \cup {[held EXCEPT !.co = co]},
         booking'[b] = [booking[b] EXCEPT !.co = co],
         strays[b] \subseteq strays'[b], guestRoom'[b] = guestRoom[b], today' = today
  PROVE  /\ RoomedAs(b)' /\ Covering(assignment)' /\ Apart(assignment)'
         /\ \A c \in Bookings : c # b => Held(c)' = Held(c)
<1>1. PICK row : row = [held EXCEPT !.co = co]
  OBVIOUS
<1>2. /\ held \in assignment /\ held \in Held(b) /\ held \in AssignmentRow /\ held.holder = b
      /\ held.ci < held.co /\ held.ci \in Int /\ held.co \in Int
      /\ Latest(assignment, b) = {held}
      /\ \A c \in Held(b) : /\ c \in AssignmentRow /\ c.ci \in Int /\ c.co \in Int
                            /\ c.ci < c.co /\ (c # held => c.co <= held.ci)
  BY LatestLast
<1>3. /\ row \in AssignmentRow /\ row.room = held.room /\ row.holder = b
      /\ row.ci = held.ci /\ row.co = co /\ co \in Int
  BY <1>1, <1>2, DatesAreIntegers DEF AssignmentRow
<1>4. /\ booking'[b].state = booking[b].state /\ booking'[b].type = booking[b].type
      /\ booking'[b].ci = booking[b].ci /\ booking'[b].co = co
  BY StayDates DEF TypeOK, BookingRow
<1>5. Covering(assignment)' /\ Apart(assignment)'
  <2>1. Covering(assignment \ {held}) /\ Apart(assignment \ {held})
    BY FewerRows DEF Roomed
  <2>2. assignment \ {held} \in SUBSET AssignmentRow
    BY StayDates
  <2> QED BY <1>1, <1>3, <2>1, <2>2, OneMoreRow
<1>6. /\ Held(b)' = (Held(b) \ {held}) \cup {row}
      /\ \A c \in Bookings : c # b => Held(c)' = Held(c)
  BY <1>1, <1>2, <1>3 DEF Held, RowsOf
<1>7. Latest(assignment, b)' = {row}
  <2>1. row \in Held(b)' /\ row.ci \in Int
    BY <1>2, <1>3, <1>6
  <2>2. \A a \in Held(b)' : a # row => a.ci \in Int /\ a.ci < row.ci
    BY <1>2, <1>3, <1>6
  <2> QED BY <2>1, <2>2, LastIsLatest DEF Held
<1>8. \A a, c \in Held(b)' : a # c => InTurn(a, c)
  <2>1. \A a, c \in Held(b) : a # c => InTurn(a, c)
    BY StayDates DEF RoomedAs
  <2> QED BY <1>2, <1>3, <1>6, <2>1 DEF InTurn
<1>9. CASE booking[b].state = "CONFIRMED"
  <2>1. Held(b) = {held} /\ ConfirmedRooms(b)
    BY <1>2, <1>9, ConfirmedOnce, StayDates DEF RoomedAs
  <2>2. ConfirmedRooms(b)'
    BY <1>3, <1>4, <1>6, <2>1 DEF ConfirmedRooms
  <2> QED BY <1>4, <1>5, <1>6, <1>8, <1>9, <2>2 DEF RoomedAs, Unborn
<1>10. CASE booking[b].state = "CHECKED_IN"
  <2>1. GuestRows(b) /\ GuestLatest(b)
    BY <1>10, StayDates DEF RoomedAs
  <2>2. GuestRows(b)'
    <3> SUFFICES ASSUME NEW a \in Held(b)'
                 PROVE  /\ booking[b].ci <= a.ci /\ a.co <= co /\ Reached(b, a)
                        /\ ~ Took(b, "dropped")' /\ (a \in {row} \/ a.co > today) =>
                             OfType(a.room, booking[b].type)
      BY <1>4, <1>7 DEF GuestRows, Reached
    <3>1. "dropped" \notin strays'[b] => ~ Took(b, "dropped")
      BY DEF Took
    <3>2. CASE a = row
      BY <1>2, <1>3, <2>1, <3>1, <3>2 DEF GuestRows, Reached, Took
    <3>3. CASE a # row
      <4>1. a \in Held(b) /\ a.co <= held.ci /\ a.co \in Int
        BY <1>2, <1>6, <3>3
      <4> QED BY <1>2, <1>3, <2>1, <3>1, <3>3, <4>1 DEF GuestRows, Took
    <3> QED BY <3>2, <3>3
  <2>3. GuestLatest(b)'
    <3>1. "dropped" \notin strays'[b] => row.room = guestRoom[b] \/ row.ci = booking[b].ci
      BY <1>2, <1>3, <2>1 DEF GuestLatest, Took
    <3>2. strays'[b] \cap {"unheld", "dropped"} = {} => row.room = guestRoom[b]
      BY <1>2, <1>3, <2>1 DEF GuestLatest
    <3>3. strays'[b] \cap {"unbought", "unheld", "dropped"} = {} /\ today = booking[b].ci =>
            \E a \in Held(b) : a.room = guestRoom[b] /\ a.ci = today
      BY <2>1 DEF GuestLatest
    <3>4. strays'[b] \cap {"unbought", "unheld", "dropped"} = {} /\ today = booking[b].ci =>
            \E a \in Held(b)' : a.room = guestRoom[b] /\ a.ci = today
      BY <1>3, <1>6, <3>3
    <3> QED BY <1>3, <1>4, <1>7, <3>1, <3>2, <3>4 DEF GuestLatest, Took
  <2> QED BY <1>4, <1>5, <1>6, <1>8, <1>10, <2>2, <2>3 DEF RoomedAs, Unborn
<1> QED BY <1>9, <1>10

(* A booking without a row is untouched by a change of its departure. *)
LEMMA RoomlessStretched ==
  ASSUME Roomed, NEW b \in Bookings, NEW co \in Dates, Held(b) = {}, Held(b)' = {},
         booking[b].state \in {"CONFIRMED", "CHECKED_IN"},
         booking'[b] = [booking[b] EXCEPT !.co = co],
         strays[b] \subseteq strays'[b], guestRoom'[b] = guestRoom[b], today' = today
  PROVE  RoomedAs(b)'
<1>1. /\ booking'[b].state = booking[b].state /\ booking'[b].ci = booking[b].ci
  BY StayDates DEF TypeOK, BookingRow
<1>2. Latest(assignment, b) = {} /\ Latest(assignment, b)' = {}
  BY DEF Latest, Held
<1>3. CASE booking[b].state = "CONFIRMED"
  BY <1>1, <1>3 DEF RoomedAs, ConfirmedRooms, Unborn
<1>4. CASE booking[b].state = "CHECKED_IN"
  <2>1. GuestLatest(b)
    BY <1>4, StayDates DEF RoomedAs
  <2>2. GuestLatest(b)'
    BY <1>1, <1>2, <2>1 DEF GuestLatest
  <2> QED BY <1>1, <1>4, <2>2 DEF RoomedAs, GuestRows, Unborn
<1> QED BY <1>3, <1>4

LEMMA ExtendRooms ==
  ASSUME Roomed, NEW b \in Bookings, NEW co \in Dates, Extend(b, co)
  PROVE  Roomed'
<1>1. Charged'
  BY ExtendOwns DEF Roomed
<1>2. /\ booking[b].state \in {"CONFIRMED", "CHECKED_IN"} /\ booking[b].co < co
      /\ booking' = [booking EXCEPT ![b].co = co]
      /\ guestRoom' = guestRoom /\ strays' = strays /\ today' = today
  BY StayDates, DatesAreIntegers DEF Extend, Assignable
<1>3. booking'[b] = [booking[b] EXCEPT !.co = co] /\ \A c \in Bookings : c # b => booking'[c] = booking[c]
  BY <1>2, StayDates DEF TypeOK
<1>4. CASE Latest(assignment, b) = {}
  <2>1. Held(b) = {} /\ assignment' = assignment
    BY <1>4, SomeLatest, StayDates DEF Extend
  <2>2. \A c \in Bookings : Held(c)' = Held(c)
    BY <2>1 DEF Held
  <2>3. RoomedAs(b)'
    BY <1>2, <1>3, <2>1, <2>2, RoomlessStretched
  <2> QED BY <1>1, <1>2, <1>3, <2>1, <2>2, <2>3, OneRoomed DEF Roomed, Covering, Apart
<1>5. ASSUME NEW held \in Latest(assignment, b) PROVE Roomed'
  <2>1. Latest(assignment, b) = {held} /\ held.ci < held.co /\ held.co \in Int /\ held.ci \in Int
    BY LatestLast
  <2>2. /\ Fits(assignment \ {held}, [held EXCEPT !.co = co])
        /\ assignment' = (assignment \ {held}) \cup {[held EXCEPT !.co = co]}
    BY <2>1 DEF Extend
  <2>3. held.ci < co
    BY <2>1, <2>2, LatestLast DEF Fits, AssignmentRow
  <2>4. /\ RoomedAs(b)' /\ Covering(assignment)' /\ Apart(assignment)'
        /\ \A c \in Bookings : c # b => Held(c)' = Held(c)
    BY <1>2, <1>3, <2>2, <2>3, LatestStretched
  <2> QED BY <1>1, <1>2, <1>3, <2>4, OneRoomed
<1> QED BY <1>4, <1>5

(* The latest row is deleted by an early departure: the one before it, if there is
   one, must be in the same room or the path is recorded.                     *)
LEMMA LatestDropped ==
  ASSUME Roomed, NEW b \in Bookings, NEW held \in Latest(assignment, b), NEW co \in Dates,
         booking[b].state = "CHECKED_IN", booking[b].ci < co, today <= co, co <= held.ci,
         co < booking[b].co,
         assignment' = assignment \ {held},
         booking'[b] = [booking[b] EXCEPT !.co = co],
         strays[b] \subseteq strays'[b], guestRoom'[b] = guestRoom[b], today' = today,
         \/ "dropped" \in strays'[b]
         \/ held.room # guestRoom[b]
         \/ \E c \in Latest(assignment', b) : c.room = held.room
  PROVE  /\ RoomedAs(b)' /\ Covering(assignment)' /\ Apart(assignment)'
         /\ \A c \in Bookings : c # b => Held(c)' = Held(c)
<1>1. /\ held \in assignment /\ held \in Held(b) /\ held \in AssignmentRow /\ held.holder = b
      /\ held.ci < held.co /\ held.ci \in Int /\ held.co \in Int
      /\ Latest(assignment, b) = {held}
      /\ \A c \in Held(b) : /\ c \in AssignmentRow /\ c.ci \in Int /\ c.co \in Int
                            /\ c.ci < c.co /\ (c # held => c.co <= held.ci)
  BY LatestLast
<1>2. /\ booking'[b].state = "CHECKED_IN" /\ booking'[b].type = booking[b].type
      /\ booking'[b].ci = booking[b].ci /\ booking'[b].co = co
      /\ co \in Int /\ booking[b].ci \in Int /\ today \in Int
  BY StayDates, DatesAreIntegers DEF TypeOK, BookingRow
<1>3. Covering(assignment)' /\ Apart(assignment)'
  BY FewerRows DEF Roomed
<1>4. /\ Held(b)' = Held(b) \ {held}
      /\ \A c \in Bookings : c # b => Held(c)' = Held(c)
  BY <1>1 DEF Held, RowsOf
<1>5. GuestRows(b) /\ GuestLatest(b) /\ \A a, c \in Held(b) : a # c => InTurn(a, c)
  BY StayDates DEF RoomedAs
<1>6. held.ci = co /\ (today = co \/ (today = booking[b].ci /\ co = today + 1))
  <2>1. Reached(b, held)
    BY <1>1, <1>5 DEF GuestRows
  <2> QED BY <1>1, <1>2, <2>1 DEF Reached, LaterOf
<1>7. "dropped" \notin strays'[b] => /\ "dropped" \notin strays[b] /\ held.room = guestRoom[b]
                                     /\ OfType(held.room, booking[b].type)
  BY <1>1, <1>2, <1>5 DEF GuestRows, GuestLatest, Took
<1>8. \A a, c \in Latest(assignment, b)' : a = c
  <2>1. ASSUME NEW a \in Latest(assignment, b)', NEW c \in Latest(assignment, b)' PROVE a = c
    <3>1. a \in Held(b) /\ c \in Held(b) /\ a.ci <= c.ci /\ c.ci <= a.ci
      BY <1>4 DEF Latest, Held
    <3> QED BY <1>1, <1>5, <3>1 DEF InTurn
  <2> QED BY <2>1
<1>9. ASSUME NEW a \in Latest(assignment, b)', "dropped" \notin strays'[b]
      PROVE  a.room = held.room
  BY <1>7, <1>8, <1>9
<1>10. GuestRows(b)'
  <2> SUFFICES ASSUME NEW a \in Held(b)'
               PROVE  /\ booking[b].ci <= a.ci /\ a.co <= co /\ Reached(b, a)
                      /\ "dropped" \notin strays'[b] /\ (a \in Latest(assignment, b)' \/ a.co > today) =>
                           OfType(a.room, booking[b].type)
    BY <1>2 DEF GuestRows, Reached, Took
  <2>1. /\ a \in Held(b) /\ a.co <= held.ci /\ booking[b].ci <= a.ci /\ Reached(b, a)
        /\ "dropped" \notin strays[b] /\ a.co > today => OfType(a.room, booking[b].type)
    BY <1>1, <1>4, <1>5 DEF GuestRows, Took
  <2> QED BY <1>6, <1>7, <1>9, <2>1
<1>11. GuestLatest(b)'
  <2>1. \A a \in Latest(assignment, b)' : "dropped" \notin strays'[b] => a.room = guestRoom[b]
    BY <1>7, <1>9
  <2>2. "dropped" \notin strays'[b] => \E a \in Latest(assignment, b)' : a.room = guestRoom[b]
    BY <1>7
  <2>3. ASSUME today < co, NEW a \in Latest(assignment, b)' PROVE a.co = co
    <3>1. a \in Held(b) /\ a # held
      BY <1>4, <2>3 DEF Latest, Held
    <3>2. booking[b].ci <= a.ci /\ a.ci < a.co /\ a.co <= held.ci /\ a.ci \in Int /\ a.co \in Int
      BY <1>1, <1>5, <3>1 DEF GuestRows
    <3> QED BY <1>2, <1>6, <2>3, <3>2
  <2>4. strays'[b] \cap {"unbought", "unheld", "dropped"} = {} /\ today = booking[b].ci =>
          \E a \in Held(b)' : a.room = guestRoom[b] /\ a.ci = today
    <3>1. strays'[b] \cap {"unbought", "unheld", "dropped"} = {} /\ today = booking[b].ci =>
            \E a \in Held(b) : a.room = guestRoom[b] /\ a.ci = today
      BY <1>5 DEF GuestLatest
    <3> QED BY <1>2, <1>4, <1>6, <3>1
  <2> QED BY <1>2, <2>1, <2>2, <2>3, <2>4 DEF GuestLatest, Took
<1> QED BY <1>2, <1>3, <1>4, <1>5, <1>10, <1>11 DEF RoomedAs, Unborn

LEMMA ShortenRooms ==
  ASSUME Roomed, NEW b \in Bookings, NEW co \in Dates, Shorten(b, co)
  PROVE  Roomed'
<1> DEFINE row(a) == [a EXCEPT !.co = co]
           held   == Latest(assignment, b)
           rows   == (assignment \ held) \cup {row(a) : a \in {h \in held : h.ci < co}}
           lost   == \E a \in held : /\ a.room = guestRoom[b]
                                     /\ \A c \in Latest(rows, b) : c.room # a.room
<1>1. Charged'
  BY ShortenOwns DEF Roomed
<1>2. /\ booking[b].state = "CHECKED_IN" /\ booking[b].ci < co /\ today <= co /\ co < booking[b].co
      /\ \A a \in held : a.ci < co => Fits(assignment \ {a}, row(a))
      /\ booking' = [booking EXCEPT ![b].co = co]
      /\ assignment' = rows /\ guestRoom' = guestRoom /\ today' = today
  BY DEF Shorten
<1>3. strays' = [strays EXCEPT ![b] = StraysReleasing(b, Span(co, booking[b].co))
                                        \cup (IF lost THEN {"dropped"} ELSE {})]
  BY DEF Shorten
<1>4. /\ booking'[b] = [booking[b] EXCEPT !.co = co]
      /\ strays[b] \subseteq strays'[b] /\ (lost => "dropped" \in strays'[b])
      /\ \A c \in Bookings : c # b => booking'[c] = booking[c] /\ strays'[c] = strays[c]
  BY <1>2, <1>3, StayDates, StraysGrow DEF TypeOK
<1>5. CASE Latest(assignment, b) = {}
  <2>1. Held(b) = {} /\ assignment' = assignment
    BY <1>2, <1>5, SomeLatest, StayDates
  <2>2. \A c \in Bookings : Held(c)' = Held(c)
    BY <2>1 DEF Held
  <2>3. RoomedAs(b)'
    BY <1>2, <1>4, <2>1, <2>2, RoomlessStretched
  <2> QED BY <1>1, <1>2, <1>4, <2>1, <2>2, <2>3, OneRoomed DEF Roomed, Covering, Apart
<1>6. ASSUME NEW a \in Latest(assignment, b) PROVE Roomed'
  <2>1. held = {a} /\ a.ci \in Int /\ co \in Int
    BY <1>6, LatestLast, DatesAreIntegers
  <2>2. CASE a.ci < co
    <3>1. /\ Fits(assignment \ {a}, [a EXCEPT !.co = co])
          /\ assignment' = (assignment \ {a}) \cup {[a EXCEPT !.co = co]}
      BY <1>2, <2>1, <2>2
    <3>2. /\ RoomedAs(b)' /\ Covering(assignment)' /\ Apart(assignment)'
          /\ \A c \in Bookings : c # b => Held(c)' = Held(c)
      BY <1>2, <1>4, <2>2, <3>1, LatestStretched
    <3> QED BY <1>1, <1>2, <1>4, <3>2, OneRoomed
  <2>3. CASE co <= a.ci
    <3>1. assignment' = assignment \ {a}
      BY <1>2, <2>1, <2>3
    <3>2. \/ "dropped" \in strays'[b] \/ a.room # guestRoom[b]
          \/ \E c \in Latest(assignment', b) : c.room = a.room
      BY <1>2, <1>4, <2>1
    <3>3. /\ RoomedAs(b)' /\ Covering(assignment)' /\ Apart(assignment)'
          /\ \A c \in Bookings : c # b => Held(c)' = Held(c)
      BY <1>2, <1>4, <2>3, <3>1, <3>2, LatestDropped
    <3> QED BY <1>1, <1>2, <1>4, <3>3, OneRoomed
  <2> QED BY <2>1, <2>2, <2>3
<1> QED BY <1>5, <1>6

-----------------------------------------------------------------------------
(* Arrival, non-arrival and departure. *)

LEMMA OnlyExpectedArrive ==
  ASSUME NEW s \in BookingState, Legal(s, "CHECKED_IN")
  PROVE  s \in {"CONFIRMED", "NO_SHOW"}
<1>1. s # Unborn
  BY DEF BookingState, Unborn
<1> QED BY <1>1 DEF Legal, LegalTransitions, BookingState

LEMMA CheckInRooms ==
  ASSUME Roomed, NEW b \in Bookings, CheckIn(b)
  PROVE  Roomed'
<1>1. Charged'
  BY CheckInOwns DEF Roomed
<1>2. booking[b].state \in {"CONFIRMED", "NO_SHOW"}
  <2>1. booking[b].state # Unborn /\ Legal(booking[b].state, "CHECKED_IN")
    BY DEF CheckIn, Arrives
  <2>2. booking[b].state \in BookingState
    BY <2>1, StayDates DEF TypeOK, BookingRow
  <2> QED BY <2>1, <2>2, OnlyExpectedArrive
<1>3. PICK held \in Latest(assignment, b) :
        /\ guestRoom' = [guestRoom EXCEPT ![b] = held.room]
        /\ Rewrite(b, "CHECKED_IN")
        /\ strays' = [strays EXCEPT ![b] =
                        IF booking[b].state = "NO_SHOW" /\ booking[b].ci + 1 < booking[b].co
                        THEN @ \cup {"unbought"} ELSE @]
        /\ UNCHANGED <<today, assignment>>
  BY DEF CheckIn
<1>4. Held(b) = {held} /\ Latest(assignment, b) = {held}
  BY <1>2, ConfirmedOnce, LatestLast
<1>5. \A c \in Bookings : Held(c)' = Held(c) /\ Latest(assignment, c)' = Latest(assignment, c)
  BY <1>3 DEF Held, Latest
<1>6. /\ booking'[b].state = "CHECKED_IN" /\ booking'[b].type = booking[b].type
      /\ booking'[b].ci = booking[b].ci /\ booking'[b].co = booking[b].co
      /\ guestRoom'[b] = held.room
      /\ booking[b].state = "NO_SHOW" /\ booking[b].ci + 1 < booking[b].co =>
           "unbought" \in strays'[b]
  BY <1>3, StayDates DEF Rewrite, TypeOK, BookingRow
<1>7. /\ held.ci = booking[b].ci /\ OfType(held.room, booking[b].type)
      /\ held.co = booking[b].co \/ (booking[b].state = "NO_SHOW" /\ held.co = booking[b].ci + 1)
  BY <1>2, <1>4, StayDates DEF RoomedAs, ConfirmedRooms, MissedRooms
<1>8. GuestRows(b)'
  <2>1. Reached(b, held)'
    BY <1>3, <1>6, <1>7, StayDates DEF Reached, LaterOf
  <2> QED BY <1>2, <1>4, <1>5, <1>6, <1>7, <2>1, StayDates DEF GuestRows, Unborn
<1>9. GuestLatest(b)'
  <2>1. "unbought" \notin strays'[b] => held.co = booking[b].co
    BY <1>2, <1>6, <1>7, StayDates DEF Unborn
  <2> QED BY <1>3, <1>4, <1>5, <1>6, <1>7, <2>1 DEF GuestLatest, Took
<1>10. RoomedAs(b)'
  BY <1>4, <1>5, <1>6, <1>8, <1>9 DEF RoomedAs, Unborn
<1>11. \A c \in Bookings : c # b => /\ booking'[c] = booking[c] /\ strays'[c] = strays[c]
                                    /\ guestRoom'[c] = guestRoom[c]
  BY <1>3, StayDates DEF Rewrite, TypeOK
<1> QED BY <1>1, <1>3, <1>5, <1>10, <1>11, OneRoomed DEF Roomed, Covering, Apart

(* markNoShow and its sweep: the room of each missed booking is cut back to the
   arrival night.                                                             *)
LEMMA CutBackRooms ==
  ASSUME Roomed, Charged', NEW missed \in SUBSET Bookings,
         \A b \in missed : booking[b].state = "CONFIRMED" /\ booking[b].ci <= today,
         assignment' =
           {IF a.holder \in missed /\ AfterArrival(a.holder) # {}
            THEN [a EXCEPT !.co = booking[a.holder].ci + 1] ELSE a : a \in assignment},
         \A b \in missed : booking'[b] = [booking[b] EXCEPT !.state = "NO_SHOW"],
         \A b \in Bookings \ missed : booking'[b] = booking[b] /\ strays'[b] = strays[b],
         UNCHANGED <<today, guestRoom>>
  PROVE  Roomed'
<1> DEFINE cut[a \in assignment] ==
             IF a.holder \in missed /\ AfterArrival(a.holder) # {}
             THEN [a EXCEPT !.co = booking[a.holder].ci + 1] ELSE a
<1>1. \A a \in assignment : a \in AssignmentRow
  BY StayDates DEF Roomed, Charged, TypeOK
<1>2. ASSUME NEW a \in assignment, a.holder \in missed
      PROVE  /\ a.ci = booking[a.holder].ci /\ a.co = booking[a.holder].co
             /\ OfType(a.room, booking[a.holder].type)
             /\ booking[a.holder].ci \in Int /\ booking[a.holder].co \in Int
             /\ booking[a.holder].ci < booking[a.holder].co
  <2>1. a \in Held(a.holder) /\ a.holder \in Bookings
    BY <1>2 DEF Held, RowsOf
  <2> QED BY <1>2, <2>1, StayDates DEF RoomedAs, ConfirmedRooms, Unborn
<1>3. ASSUME NEW a \in assignment
      PROVE  /\ cut[a] \in AssignmentRow /\ cut[a].room = a.room /\ cut[a].ci = a.ci
             /\ cut[a].holder = a.holder /\ cut[a].ci < cut[a].co /\ cut[a].co <= a.co
             /\ a.holder \in missed => cut[a].co = a.ci + 1
             /\ a.holder \notin missed => cut[a] = a
  <2>1. a \in AssignmentRow /\ a.ci < a.co /\ a.ci \in Int /\ a.co \in Int
    BY <1>1, RowFields DEF Roomed, Covering
  <2>2. CASE a.holder \in missed /\ AfterArrival(a.holder) # {}
    <3>1. booking[a.holder].ci + 1 \in Dates /\ booking[a.holder].ci + 1 < booking[a.holder].co
      BY <1>2, <2>2, ArrivalNightEnds, StayDates DEF AfterArrival, Span
    <3>2. cut[a] = [a EXCEPT !.co = booking[a.holder].ci + 1]
      BY <2>2
    <3> HIDE DEF cut
    <3> QED BY <1>2, <2>1, <2>2, <3>1, <3>2 DEF AssignmentRow
  <2>3. CASE a.holder \in missed /\ AfterArrival(a.holder) = {}
    <3>1. cut[a] = a
      BY <2>3
    <3>2. booking[a.holder].co <= booking[a.holder].ci + 1
      <4>1. booking[a.holder].ci + 1 \notin Span(booking[a.holder].ci + 1, booking[a.holder].co)
        BY <2>3 DEF AfterArrival
      <4> QED BY <1>2, <2>3, <4>1 DEF Span
    <3> HIDE DEF cut
    <3> QED BY <1>2, <2>1, <2>3, <3>1, <3>2
  <2>4. CASE a.holder \notin missed
    <3>1. cut[a] = a
      BY <2>4
    <3> HIDE DEF cut
    <3> QED BY <2>1, <2>4, <3>1
  <2> QED BY <2>2, <2>3, <2>4
<1>4. assignment' = {cut[a] : a \in assignment} /\ cut \in [assignment -> AssignmentRow]
  <2>1. \A a \in assignment : cut[a] \in AssignmentRow
    BY <1>3
  <2> QED BY <2>1
<1> HIDE DEF cut
<1>5. Covering(assignment)' /\ Apart(assignment)'
  <2>1. Covering({cut[a] : a \in assignment}) /\ Apart({cut[a] : a \in assignment})
    <3>1. assignment \in SUBSET AssignmentRow /\ cut \in [assignment -> AssignmentRow]
      BY <1>4, StayDates DEF Roomed, Charged, TypeOK
    <3>2. \A a \in assignment : /\ cut[a].room = a.room /\ cut[a].ci = a.ci
                                 /\ cut[a].ci < cut[a].co /\ cut[a].co <= a.co
      BY <1>3
    <3>3. Covering(assignment) /\ Apart(assignment)
      BY DEF Roomed
    <3> QED BY <3>1, <3>2, <3>3, CutApart
  <2> QED BY <1>4, <2>1 DEF Covering, Apart
<1>6. ASSUME NEW b \in Bookings PROVE Held(b)' = {cut[a] : a \in Held(b)}
  <2>1. Held(b)' = {c \in {cut[a] : a \in assignment} : c.holder = b}
    BY <1>4 DEF Held, RowsOf
  <2>2. \A a \in assignment : cut[a].holder = b <=> a \in Held(b)
    BY <1>3 DEF Held, RowsOf
  <2>3. Held(b) \subseteq assignment
    BY DEF Held, RowsOf
  <2> QED BY <2>1, <2>2, <2>3
<1>7. ASSUME NEW b \in Bookings, b \notin missed PROVE RoomedAs(b)'
  <2>1. Held(b)' = Held(b)
    <3>1. \A a \in Held(b) : cut[a] = a
      BY <1>3, <1>7 DEF Held, RowsOf
    <3> QED BY <1>6, <3>1
  <2> QED BY <1>7, <2>1, RoomFrame DEF Roomed
<1>8. ASSUME NEW b \in missed PROVE RoomedAs(b)'
  <2>1. /\ booking'[b].state = "NO_SHOW" /\ booking'[b].ci = booking[b].ci
        /\ booking'[b].type = booking[b].type /\ booking[b].ci <= today /\ b \in Bookings
    <3>1. b \in Bookings /\ booking[b] \in BookingRow
      BY <1>8 DEF Roomed, Charged, TypeOK
    <3> QED BY <1>8, <3>1 DEF BookingRow
  <2>2. \A a \in Held(b) : /\ cut[a].ci = booking[b].ci /\ cut[a].co = booking[b].ci + 1
                           /\ cut[a].room = a.room /\ OfType(a.room, booking[b].type)
    BY <1>2, <1>3 DEF Held, RowsOf
  <2>3. MissedRooms(b)'
    BY <1>6, <2>1, <2>2 DEF MissedRooms
  <2>4. ASSUME NEW a \in Held(b), NEW c \in Held(b), cut[a] # cut[c] PROVE InTurn(cut[a], cut[c])
    <3>1. a # c /\ booking[b].state = "CONFIRMED" /\ b \in Bookings
      BY <2>4
    <3>2. a \in Latest(assignment, b) /\ c \in Latest(assignment, b)
      BY <3>1, ConfirmedOnce
    <3> QED BY <3>1, <3>2, LatestLast
  <2> QED BY <1>6, <2>1, <2>3, <2>4 DEF RoomedAs, Unborn
<1> QED BY <1>5, <1>7, <1>8 DEF Roomed

LEMMA MarkNoShowRooms ==
  ASSUME Roomed, NEW b \in Bookings, MarkNoShow(b)
  PROVE  Roomed'
<1>1. Charged'
  BY MarkNoShowOwns DEF Roomed
<1>2. booking[b].state = "CONFIRMED" /\ booking[b].ci <= today
  BY StayDates DEF MarkNoShow, Legal, LegalTransitions, TypeOK, BookingRow, BookingState, Unborn
<1>3. assignment' =
        {IF a.holder \in {b} /\ AfterArrival(a.holder) # {}
         THEN [a EXCEPT !.co = booking[a.holder].ci + 1] ELSE a : a \in assignment}
  <2>1. CASE AfterArrival(b) = {}
    <3>1. \A a \in assignment : ~ (a.holder \in {b} /\ AfterArrival(a.holder) # {})
      BY <2>1
    <3> QED BY <2>1, <3>1 DEF MarkNoShow, CutBack
  <2>2. CASE AfterArrival(b) # {}
    <3>1. \A a \in assignment :
            (IF a.holder \in {b} /\ AfterArrival(a.holder) # {}
             THEN [a EXCEPT !.co = booking[a.holder].ci + 1] ELSE a)
              = (IF a.holder = b THEN [a EXCEPT !.co = booking[b].ci + 1] ELSE a)
      BY <2>2
    <3> QED BY <2>2, <3>1 DEF MarkNoShow, CutBack
  <2> QED BY <2>1, <2>2
<1>4. /\ booking'[b] = [booking[b] EXCEPT !.state = "NO_SHOW"]
      /\ \A c \in Bookings \ {b} : booking'[c] = booking[c] /\ strays'[c] = strays[c]
      /\ UNCHANGED <<today, guestRoom>>
  BY StayDates DEF MarkNoShow, Rewrite, TypeOK
<1>5. PICK missed \in SUBSET Bookings : missed = {b}
  OBVIOUS
<1> QED BY <1>1, <1>2, <1>3, <1>4, <1>5, CutBackRooms

LEMMA NoShowSweepRooms ==
  ASSUME Roomed, NoShowSweep
  PROVE  Roomed'
<1> DEFINE missed == {b \in Bookings : Missed(b)}
<1>1. Charged'
  BY NoShowSweepOwns DEF Roomed
<1>2. \A b \in missed : booking[b].state = "CONFIRMED" /\ booking[b].ci <= today
  BY StayDates DEF Missed
<1>3. /\ assignment' =
           {IF a.holder \in missed /\ AfterArrival(a.holder) # {}
            THEN [a EXCEPT !.co = booking[a.holder].ci + 1] ELSE a : a \in assignment}
      /\ \A b \in missed : booking'[b] = [booking[b] EXCEPT !.state = "NO_SHOW"]
      /\ \A b \in Bookings \ missed : booking'[b] = booking[b] /\ strays'[b] = strays[b]
      /\ UNCHANGED <<today, guestRoom>>
  BY DEF NoShowSweep
<1>4. missed \in SUBSET Bookings
  OBVIOUS
<1> HIDE DEF missed
<1> QED BY <1>1, <1>2, <1>3, <1>4, CutBackRooms

LEMMA ReinstateRooms ==
  ASSUME Roomed, NEW b \in Bookings, NEW r \in Rooms, Reinstate(b, r)
  PROVE  Roomed'
<1>1. Charged'
  BY ReinstateOwns DEF Roomed
<1>2. PICK from, row : from = HoldFrom(b) /\ row = Row(r, b, from, booking[b].co)
  OBVIOUS
<1>3. /\ booking[b].state = "NO_SHOW" /\ today <= booking[b].co
      /\ (\E a \in Latest(assignment, b) : a.room = r) \/ OfType(r, booking[b].type)
      /\ from < booking[b].co => Fits(assignment, row)
      /\ assignment' = IF from < booking[b].co THEN assignment \cup {row} ELSE assignment
      /\ Rewrite(b, "CHECKED_IN")
      /\ guestRoom' = [guestRoom EXCEPT ![b] = r] /\ today' = today
  BY <1>2 DEF Reinstate, InArrivalWindow
<1>4. "unheld" \notin strays'[b] =>
        \E a \in RowsOf(assignment', b) :
          a.room = r /\ (today >= booking[b].co \/ today \in Nightly(a))
  <2>1. strays' = [strays EXCEPT ![b] = @ \cup
                     (IF \E a \in RowsOf(assignment', b) :
                           a.room = r /\ (today >= booking[b].co \/ today \in Nightly(a))
                      THEN {} ELSE {"unheld"})]
    BY <1>2, <1>3 DEF Reinstate
  <2> QED BY <2>1, StayDates DEF TypeOK
<1>5. /\ booking'[b].state = "CHECKED_IN" /\ booking'[b].type = booking[b].type
      /\ booking'[b].ci = booking[b].ci /\ booking'[b].co = booking[b].co
      /\ guestRoom'[b] = r
      /\ \A c \in Bookings : c # b => /\ booking'[c] = booking[c] /\ strays'[c] = strays[c]
                                      /\ guestRoom'[c] = guestRoom[c]
  BY <1>3, StayDates DEF Rewrite, TypeOK, BookingRow, Reinstate
<1>6. /\ booking[b].ci <= today /\ Held(b) = Latest(assignment, b)
      /\ \A a \in Held(b) : /\ a.ci = booking[b].ci /\ a.co = booking[b].ci + 1
                            /\ OfType(a.room, booking[b].type)
  BY <1>3, ConfirmedOnce, StayDates DEF RoomedAs, MissedRooms
<1>7. /\ booking[b].ci \in Int /\ booking[b].co \in Int /\ today \in Int
      /\ booking[b].ci < booking[b].co
  BY <1>3, StayDates DEF Unborn
<1>8. /\ from \in Int /\ OfType(r, booking[b].type)
      /\ from = today \/ (today = booking[b].ci /\ from = today + 1 /\ Held(b) # {})
      /\ Held(b) # {} => booking[b].ci + 1 <= from
      /\ from < booking[b].co => from \in Dates
  <2>1. \/ booking[b].ci < today /\ from = today
        \/ today = booking[b].ci /\ Held(b) # {} /\ from = today + 1
        \/ today = booking[b].ci /\ Held(b) = {} /\ from = today
    BY <1>2, <1>6, <1>7 DEF HoldFrom, Late
  <2>2. OfType(r, booking[b].type)
    BY <1>3, <1>6
  <2>3. from < booking[b].co => from \in Dates
    BY <1>7, <2>1, StayDates, CalendarAssumption DEF Dates
  <2> QED BY <1>7, <2>1, <2>2, <2>3
<1>9. CASE from < booking[b].co
  <2>1. /\ row \in AssignmentRow /\ row.room = r /\ row.holder = b
        /\ row.ci = from /\ row.co = booking[b].co
    BY <1>2, <1>8, <1>9, StayDates, RowType DEF Row
  <2>2. Covering(assignment)' /\ Apart(assignment)'
    <3>1. Covering(assignment \cup {row}) /\ Apart(assignment \cup {row})
      BY <1>3, <1>9, <2>1, StayDates, OneMoreRow DEF Roomed
    <3> QED BY <1>3, <1>9, <3>1 DEF Covering, Apart
  <2>3. Held(b)' = Held(b) \cup {row} /\ \A c \in Bookings : c # b => Held(c)' = Held(c)
    BY <1>3, <1>9, <2>1 DEF Held, RowsOf
  <2>4. Latest(assignment, b)' = {row}
    <3>1. row \in Held(b)' /\ row.ci \in Int
      BY <1>8, <2>1, <2>3
    <3>2. \A a \in Held(b)' : a # row => a.ci \in Int /\ a.ci < row.ci
      BY <1>6, <1>7, <1>8, <2>1, <2>3
    <3> QED BY <3>1, <3>2, LastIsLatest DEF Held
  <2>5. \A a, c \in Held(b)' : a # c => InTurn(a, c)
    <3>1. \A a, c \in Held(b) : a # c => InTurn(a, c)
      BY StayDates DEF RoomedAs
    <3> QED BY <1>6, <1>8, <2>1, <2>3, <3>1 DEF InTurn
  <2>6. GuestRows(b)'
    <3>1. Reached(b, row)'
      BY <1>3, <1>5, <1>6, <1>7, <1>8, <2>1 DEF Reached, LaterOf
    <3>2. \A a \in Held(b) : Reached(b, a)'
      BY <1>3, <1>5, <1>6, <1>7 DEF Reached, LaterOf
    <3>3. booking[b].ci <= row.ci /\ row.co <= booking[b].co
      BY <1>6, <1>7, <1>8, <2>1
    <3> QED BY <1>5, <1>6, <1>7, <1>8, <2>1, <2>3, <3>1, <3>2, <3>3 DEF GuestRows
  <2>7. GuestLatest(b)'
    <3>1. strays'[b] \cap {"unbought", "unheld", "dropped"} = {} /\ today = booking[b].ci =>
            \E a \in Held(b)' : a.room = r /\ a.ci = today
      <4> SUFFICES ASSUME "unheld" \notin strays'[b], today = booking[b].ci
                   PROVE  \E a \in Held(b)' : a.room = r /\ a.ci = today
        OBVIOUS
      <4>1. PICK a \in Held(b)' : a.room = r /\ today \in Nightly(a)
        BY <1>4, <1>7 DEF Held
      <4>2. a.ci <= today
        BY <4>1 DEF Nightly, Span
      <4>3. a.ci \in Int /\ booking[b].ci <= a.ci
        BY <1>6, <1>7, <1>8, <2>1, <2>3
      <4> QED BY <1>7, <4>1, <4>2, <4>3
    <3> QED BY <1>3, <1>5, <2>1, <2>4, <3>1 DEF GuestLatest
  <2>8. RoomedAs(b)'
    BY <1>5, <2>5, <2>6, <2>7 DEF RoomedAs, Unborn
  <2> QED BY <1>1, <1>3, <1>5, <2>2, <2>3, <2>8, OneRoomed
<1>10. CASE ~ (from < booking[b].co)
  <2>1. assignment' = assignment
    BY <1>3, <1>10
  <2>2. \A c \in Bookings : Held(c)' = Held(c) /\ Latest(assignment, c)' = Latest(assignment, c)
    BY <2>1 DEF Held, Latest
  <2>3. GuestRows(b)'
    <3>1. \A a \in Held(b) : Reached(b, a)'
      BY <1>3, <1>5, <1>6, <1>7 DEF Reached, LaterOf
    <3> QED BY <1>5, <1>6, <1>7, <2>2, <3>1 DEF GuestRows
  <2>4. GuestLatest(b)'
    <3>1. "unheld" \notin strays'[b] =>
            \E a \in Held(b) : a.room = r /\ (today >= booking[b].co \/ today \in Nightly(a))
      BY <1>4, <2>1 DEF Held
    <3>2. today < booking[b].co => \A a \in Held(b) : a.co = booking[b].co
      BY <1>6, <1>7, <1>8, <1>10
    <3>3. "unheld" \notin strays'[b] /\ today = booking[b].ci => \E a \in Held(b) : a.room = r /\ a.ci = today
      BY <1>6, <3>1
    <3> QED BY <1>3, <1>5, <1>6, <2>2, <3>1, <3>2, <3>3 DEF GuestLatest
  <2>5. RoomedAs(b)'
    <3>1. \A a, c \in Held(b) : a # c => InTurn(a, c)
      BY StayDates DEF RoomedAs
    <3> QED BY <1>5, <2>2, <2>3, <2>4, <3>1 DEF RoomedAs, Unborn
  <2> QED BY <1>1, <1>3, <1>5, <2>1, <2>2, <2>5, OneRoomed DEF Roomed, Covering, Apart
<1> QED BY <1>9, <1>10

LEMMA CheckOutRooms ==
  ASSUME Roomed, NEW b \in Bookings, CheckOut(b)
  PROVE  Roomed'
<1>1. Charged'
  BY CheckOutOwns DEF Roomed
<1>2. PICK from : from = LaterOf(today, booking[b].ci)
  OBVIOUS
<1>3. booking[b].state = "CHECKED_IN"
  <2>1. booking[b].state # Unborn /\ Legal(booking[b].state, "CHECKED_OUT")
    BY DEF CheckOut
  <2>2. booking[b].state \in BookingState
    BY <2>1, StayDates DEF TypeOK, BookingRow
  <2> QED BY <2>1, <2>2, OnlyGuestsLeave
<1>4. /\ booking' = [booking EXCEPT ![b].state = "CHECKED_OUT"]
      /\ guestRoom' = guestRoom /\ today' = today
  BY DEF CheckOut, Rewrite
<1>5. /\ booking'[b].state = "CHECKED_OUT"
      /\ \A c \in Bookings : c # b => booking'[c] = booking[c] /\ strays'[c] = strays[c]
  BY <1>4, StayDates DEF TypeOK, BookingRow, CheckOut
<1>6. /\ GuestRows(b) /\ \A a, c \in Held(b) : a # c => InTurn(a, c)
      /\ from \in Dates /\ from \in Int
      /\ (from = today \/ (today < booking[b].ci /\ from = booking[b].ci))
      /\ booking[b].ci < booking[b].co /\ booking[b].ci \in Int /\ booking[b].co \in Int /\ today \in Int
  BY <1>2, <1>3, StayDates DEF RoomedAs, LaterOf, Unborn
<1>7. CASE Latest(assignment, b) = {}
  <2>1. Held(b) = {} /\ assignment' = assignment
    BY <1>7, SomeLatest, StayDates DEF CheckOut
  <2>2. \A c \in Bookings : Held(c)' = Held(c)
    BY <2>1 DEF Held
  <2>3. RoomedAs(b)'
    BY <1>5, <2>1, <2>2 DEF RoomedAs, Unborn
  <2> QED BY <1>1, <1>4, <1>5, <2>1, <2>2, <2>3, OneRoomed DEF Roomed, Covering, Apart
<1>8. ASSUME NEW held \in Latest(assignment, b) PROVE Roomed'
  <2>1. /\ held \in assignment /\ held \in Held(b) /\ held \in AssignmentRow /\ held.holder = b
        /\ held.ci < held.co /\ held.ci \in Int /\ held.co \in Int
        /\ Latest(assignment, b) = {held}
        /\ \A c \in Held(b) : /\ c \in AssignmentRow /\ c.ci \in Int /\ c.co \in Int
                              /\ c.ci < c.co /\ (c # held => c.co <= held.ci)
    BY <1>8, LatestLast
  <2>2. \A a \in Held(b) : booking[b].ci <= a.ci /\ a.co <= booking[b].co
    BY <1>6 DEF GuestRows
  <2>3. CASE from = held.ci \/ from < booking[b].co
    <3>1. Closable(held, from) /\ assignment' = Closed(assignment, held, from)
      <4>1. UNION {Closed(assignment, a, from) : a \in {held}} = Closed(assignment, held, from)
        OBVIOUS
      <4> QED BY <1>2, <2>1, <2>3, <4>1 DEF CheckOut
    <3>2. PICK kept : kept = IF from = held.ci THEN {} ELSE {[held EXCEPT !.co = from]}
      OBVIOUS
    <3>3. \A a \in kept : /\ a.holder = b /\ a.ci = held.ci /\ a.co = from
                          /\ held.ci < from /\ kept = {a}
      BY <2>1, <3>1, <3>2 DEF Closable, Fits, AssignmentRow
    <3>4. held.ci <= from
      BY <1>6, <2>1, <3>1 DEF Closable, Fits, AssignmentRow
    <3>5. assignment' = (assignment \ {held}) \cup kept
      BY <3>1, <3>2 DEF Closed
    <3>6. Held(b)' = (Held(b) \ {held}) \cup kept /\ \A c \in Bookings : c # b => Held(c)' = Held(c)
      BY <2>1, <3>3, <3>5 DEF Held, RowsOf
    <3>7. Covering(assignment)' /\ Apart(assignment)'
      <4>1. Covering(Closed(assignment, held, from)) /\ Apart(Closed(assignment, held, from))
        BY <1>6, <2>1, <3>1, StayDates, ClosedApart DEF Roomed
      <4> QED BY <3>1, <4>1 DEF Covering, Apart
    <3>8. \A a \in Held(b)' : a.co <= today
      <4>1. CASE from = today
        BY <2>1, <3>3, <3>4, <3>6, <4>1, <1>6
      <4>2. CASE today < booking[b].ci /\ from = booking[b].ci
        <5>1. held.ci = from /\ kept = {}
          BY <1>6, <2>1, <2>2, <3>2, <3>4, <4>2
        <5>2. \A a \in Held(b) : a = held
          BY <2>1, <2>2, <4>2, <5>1, <1>6
        <5> QED BY <3>6, <5>1, <5>2
      <4> QED BY <1>6, <4>1, <4>2
    <3>9. ASSUME NEW a \in Held(b)', NEW c \in Held(b)', a # c PROVE InTurn(a, c)
      <4>1. CASE a \in kept
        <5>1. c \in Held(b) /\ c.co <= held.ci /\ a.ci = held.ci
          BY <2>1, <3>3, <3>6, <3>9, <4>1
        <5> QED BY <5>1 DEF InTurn
      <4>2. CASE c \in kept
        <5>1. a \in Held(b) /\ a.co <= held.ci /\ c.ci = held.ci
          BY <2>1, <3>3, <3>6, <3>9, <4>2
        <5> QED BY <5>1 DEF InTurn
      <4>3. CASE a \in Held(b) /\ c \in Held(b)
        BY <1>6, <3>9, <4>3
      <4> QED BY <3>6, <4>1, <4>2, <4>3
    <3>10. RoomedAs(b)'
      BY <1>4, <1>5, <3>8, <3>9 DEF RoomedAs, Unborn
    <3> QED BY <1>1, <1>4, <1>5, <3>6, <3>7, <3>10, OneRoomed
  <2>4. CASE ~ (from = held.ci \/ from < booking[b].co)
    <3>1. assignment' = assignment
      BY <1>2, <2>1, <2>4 DEF CheckOut
    <3>2. \A c \in Bookings : Held(c)' = Held(c)
      BY <3>1 DEF Held
    <3>3. \A a \in Held(b) : a.co <= today
      BY <1>6, <2>1, <2>2, <2>4
    <3>4. RoomedAs(b)'
      BY <1>4, <1>5, <1>6, <3>2, <3>3 DEF RoomedAs, Unborn
    <3> QED BY <1>1, <1>4, <1>5, <3>1, <3>2, <3>4, OneRoomed DEF Roomed, Covering, Apart
  <2> QED BY <2>3, <2>4
<1> QED BY <1>7, <1>8

LEMMA KeepsRooms ==
  ASSUME Roomed, Charged', Keeps
  PROVE  Roomed'
<1>1. ASSUME UNCHANGED <<today, booking, guestRoom, strays>>,
             Covering(assignment)', Apart(assignment)',
             \A b \in Bookings : Held(b)' = Held(b)
      PROVE  Roomed'
  BY <1>1, RoomFrame DEF Roomed
<1>2. ASSUME NEW r \in Rooms, NEW from \in Dates, NEW to \in Dates, Close(r, from, to)
      PROVE  Roomed'
  <2>1. PICK row \in AssignmentRow : row = Row(r, Closure, from, to) /\ row.holder = Closure
    <3>1. Row(r, Closure, from, to) \in AssignmentRow
      BY RowType
    <3> QED BY <3>1 DEF Row
  <2>2. assignment' = assignment \cup {row} /\ Fits(assignment, row)
    BY <1>2, <2>1 DEF Close
  <2>3. \A b \in Bookings : Held(b)' = Held(b)
    BY <2>1, <2>2, BookingsAssumption DEF Held, RowsOf
  <2>4. Covering(assignment)' /\ Apart(assignment)'
    <3>1. Covering(assignment \cup {row}) /\ Apart(assignment \cup {row})
      BY <2>2, OneMoreRow DEF Roomed, Charged, TypeOK
    <3> QED BY <2>2, <3>1 DEF Covering, Apart
  <2> QED BY <1>1, <1>2, <2>3, <2>4 DEF Close
<1>3. ASSUME NEW a \in assignment, Reopen(a) PROVE Roomed'
  <2>1. assignment' = assignment \ {a} /\ a.holder = Closure
    BY <1>3 DEF Reopen
  <2>2. \A b \in Bookings : Held(b)' = Held(b)
    BY <2>1, BookingsAssumption DEF Held, RowsOf
  <2>3. Covering(assignment)' /\ Apart(assignment)'
    BY <2>1 DEF Roomed, Covering, Apart
  <2> QED BY <1>1, <1>3, <2>2, <2>3 DEF Reopen
<1>4. ASSUME NEW r \in Rooms, NEW c \in Conditions, SetCondition(r, c) PROVE Roomed'
  BY <1>4, RoomsUnchanged DEF SetCondition
<1>5. ASSUME Rollover PROVE Roomed'
  <2>1. /\ today' = today + 1 /\ UNCHANGED <<booking, assignment, guestRoom, strays>>
    BY <1>5 DEF Rollover
  <2>2. ASSUME NEW b \in Bookings PROVE RoomedAs(b)'
    <3>1. Held(b)' = Held(b) /\ Latest(assignment, b)' = Latest(assignment, b)
      BY <2>1 DEF Held, Latest
    <3>2. RoomedAs(b) /\ today \in Int /\ booking[b].ci \in Int /\ booking[b].co \in Int
      BY StayDates
    <3>3. \A a \in Held(b) : a.ci \in Int /\ a.co \in Int
      BY StayDates, RowFields DEF Held, RowsOf
    <3>4. ConfirmedRooms(b)' <=> ConfirmedRooms(b)
      BY <2>1, <3>1 DEF ConfirmedRooms
    <3>5. MissedRooms(b) => MissedRooms(b)'
      BY <2>1, <3>1, <3>2 DEF MissedRooms
    <3>6. GuestRows(b) => GuestRows(b)'
      <4>1. \A a \in Held(b) : Reached(b, a) => Reached(b, a)'
        BY <2>1, <3>2, <3>3 DEF Reached, LaterOf
      <4> QED BY <2>1, <3>1, <3>2, <3>3, <4>1 DEF GuestRows, Took
    <3>7. GuestRows(b) /\ GuestLatest(b) => GuestLatest(b)'
      <4> SUFFICES ASSUME GuestRows(b), GuestLatest(b) PROVE GuestLatest(b)'
        OBVIOUS
      <4>1. ASSUME strays[b] \cap {"unbought", "unheld", "dropped"} = {}, today + 1 = booking[b].ci
            PROVE  \E a \in Held(b) : a.room = guestRoom[b] /\ a.ci = today + 1
        <5>1. PICK a \in Latest(assignment, b) : a.room = guestRoom[b]
          BY <4>1 DEF GuestLatest
        <5>2. a \in Held(b)
          BY DEF Latest, Held
        <5>3. a.ci = booking[b].ci
          BY <3>2, <3>3, <4>1, <5>2 DEF GuestRows, Reached, LaterOf
        <5> QED BY <4>1, <5>1, <5>2, <5>3
      <4>2. today + 1 < booking[b].co => today < booking[b].co
        BY <3>2
      <4> QED BY <2>1, <3>1, <4>1, <4>2 DEF GuestLatest, Took
    <3>8. (\A a \in Held(b) : a.co <= today) => \A a \in Held(b) : a.co <= today + 1
      BY <3>2, <3>3
    <3> QED BY <2>1, <3>1, <3>2, <3>4, <3>5, <3>6, <3>7, <3>8 DEF RoomedAs
  <2> QED BY <2>1, <2>2 DEF Roomed, Covering, Apart
<1> QED BY <1>2, <1>3, <1>4, <1>5 DEF Keeps

LEMMA RoomedInit == Init => Roomed
<1> SUFFICES ASSUME Init PROVE Roomed
  OBVIOUS
<1>1. Charged
  BY ChargedInit
<1>2. assignment = {} /\ \A b \in Bookings : booking[b].state = Unborn
  BY DEF Init
<1>3. \A b \in Bookings : RoomedAs(b)
  BY <1>2 DEF RoomedAs, Held, RowsOf, Unborn
<1> QED BY <1>1, <1>2, <1>3 DEF Roomed, Covering, Apart

LEMMA RoomedNext == Roomed /\ [Next]_vars => Roomed'
<1> SUFFICES ASSUME Roomed, [Next]_vars PROVE Roomed'
  OBVIOUS
<1>1. Charged'
  BY ChargedNext DEF Roomed
<1>2. ASSUME NEW b \in Bookings, MakesOrLoses(b) PROVE Roomed'
  BY <1>2, CreateRooms, ReplaceHoldRooms, ConfirmRooms, CancelRooms DEF MakesOrLoses
<1>3. ASSUME NEW b \in Bookings, ChangesStay(b) PROVE Roomed'
  BY <1>3, AssignRooms, MoveRooms, ChangeTypeRooms, ChangeTypeIntoRooms, ExtendRooms, ShortenRooms
     DEF ChangesStay
<1>4. ASSUME NEW b \in Bookings, ComesOrGoes(b) PROVE Roomed'
  BY <1>4, CheckInRooms, MarkNoShowRooms, ReinstateRooms, CheckOutRooms DEF ComesOrGoes
<1>5. CASE UNCHANGED vars
  BY <1>1, <1>5, RoomsUnchanged DEF vars
<1> QED BY <1>1, <1>2, <1>3, <1>4, <1>5, NoShowSweepRooms, KeepsRooms DEF Next

(* The room column of the state machine: which rows a booking may hold, and for
   which nights, follows from its state.                                      *)
THEOREM StatesHoldTheirRooms == Spec => []RoomsByState
<1>1. Roomed => RoomsByState
  <2> SUFFICES ASSUME Roomed, NEW b \in Bookings, NEW a \in RowsOf(assignment, b)
               PROVE  LET s == booking[b].state IN
                      /\ s \in {"CONFIRMED", "CHECKED_IN", "CHECKED_OUT", "NO_SHOW"}
                      /\ s = "CONFIRMED" => Nightly(a) = Stayed(b)
                      /\ s = "NO_SHOW" => Nightly(a) = {booking[b].ci}
                      /\ s \in {"CONFIRMED", "NO_SHOW"} => Latest(assignment, b) = {a}
    BY DEF RoomsByState
  <2>1. a \in Held(b) /\ RoomedAs(b) /\ booking[b].ci \in Int
    BY StayDates DEF Held
  <2>2. booking[b].state \in {"CONFIRMED", "CHECKED_IN", "CHECKED_OUT", "NO_SHOW"}
    BY <2>1, StayDates DEF RoomedAs, TypeOK, BookingRow, BookingState
  <2>3. booking[b].state = "CONFIRMED" => Nightly(a) = Stayed(b)
    BY <2>1 DEF RoomedAs, ConfirmedRooms, Nightly, Stayed
  <2>4. booking[b].state = "NO_SHOW" => Nightly(a) = {booking[b].ci}
    BY <2>1 DEF RoomedAs, MissedRooms, Nightly, Span
  <2>5. booking[b].state \in {"CONFIRMED", "NO_SHOW"} => Latest(assignment, b) = {a}
    BY <2>1, ConfirmedOnce, LatestLast
  <2> QED BY <2>2, <2>3, <2>4, <2>5
<1> QED BY <1>1, RoomedInit, RoomedNext, PTL DEF Spec

(* Whoever holds a room for a night to come is charged for a room of its type on
   that night: the two inventory layers never part, but on the named paths.   *)
THEOREM RoomsAndCounterAgree == Spec => []HeldNightsAreBought
<1>1. Roomed => HeldNightsAreBought
  <2> SUFFICES ASSUME Roomed, NEW b \in Bookings, NEW a \in RowsOf(assignment, b),
                      NEW n \in Nightly(a), n >= today, strays[b] \cap {"unbought", "dropped"} = {}
               PROVE  OfType(a.room, booking[b].type) /\ n \in owns[b]
    BY DEF HeldNightsAreBought, OfType
  <2>1. /\ a \in Held(b) /\ RoomedAs(b) /\ OwnsAsState(b)
        /\ booking[b].ci \in Int /\ booking[b].co \in Int /\ today \in Int
        /\ a.ci \in Int /\ a.co \in Int
    BY StayDates, RowFields DEF Held, RowsOf, Roomed, Charged
  <2>2. n \in Int /\ a.ci <= n /\ n < a.co
    BY <2>1 DEF Nightly, Span
  <2>3. booking[b].state \in {"CONFIRMED", "CHECKED_IN", "CHECKED_OUT", "NO_SHOW"}
    BY <2>1, StayDates DEF RoomedAs, TypeOK, BookingRow, BookingState
  <2>4. CASE booking[b].state = "CONFIRMED"
    BY <2>1, <2>2, <2>4 DEF RoomedAs, ConfirmedRooms, OwnsAsState, Stayed, Span
  <2>5. CASE booking[b].state = "NO_SHOW"
    BY <2>1, <2>2, <2>5 DEF RoomedAs, MissedRooms, OwnsAsState
  <2>6. CASE booking[b].state = "CHECKED_IN"
    <3>1. booking[b].ci <= a.ci /\ a.co <= booking[b].co /\ OfType(a.room, booking[b].type)
      BY <2>1, <2>2, <2>6 DEF RoomedAs, GuestRows, Took
    <3>2. Span(LaterOf(today, booking[b].ci), booking[b].co) \subseteq owns[b]
      BY <2>1, <2>6 DEF OwnsAsState, Took
    <3> QED BY <2>1, <2>2, <3>1, <3>2 DEF Span, LaterOf
  <2>7. CASE booking[b].state = "CHECKED_OUT"
    BY <2>1, <2>2, <2>7 DEF RoomedAs
  <2> QED BY <2>3, <2>4, <2>5, <2>6, <2>7
<1> QED BY <1>1, RoomedInit, RoomedNext, PTL DEF Spec

LEMMA HoldsTonight == Roomed => InHouseHoldsTonight
<1> SUFFICES ASSUME Roomed, NEW b \in Bookings, InHouse(b),
                    strays[b] \cap {"unbought", "unheld", "dropped"} = {}
             PROVE  \E a \in RowsOf(assignment, b) : a.room = guestRoom[b] /\ today \in Nightly(a)
  BY DEF InHouseHoldsTonight
<1>1. /\ booking[b].state = "CHECKED_IN" /\ booking[b].ci <= today /\ today < booking[b].co
      /\ booking[b].ci \in Int /\ booking[b].co \in Int /\ today \in Int
      /\ GuestRows(b) /\ GuestLatest(b)
  BY StayDates DEF InHouse, Stayed, Span, RoomedAs
<1>2. PICK a \in Latest(assignment, b) : a.room = guestRoom[b]
  BY <1>1 DEF GuestLatest
<1>3. a \in Held(b) /\ a.ci \in Int /\ a.co \in Int /\ a.co = booking[b].co
  BY <1>1, <1>2, LatestLast DEF GuestLatest, Took
<1>4. CASE a.ci <= today
  BY <1>1, <1>2, <1>3, <1>4 DEF Held, Nightly, Span
<1>5. CASE ~ (a.ci <= today)
  <2>1. today = booking[b].ci
    BY <1>1, <1>3, <1>5 DEF GuestRows, Reached, LaterOf
  <2>2. PICK c \in Held(b) : c.room = guestRoom[b] /\ c.ci = today
    BY <1>1, <2>1 DEF GuestLatest
  <2>3. c.ci < c.co /\ c.co \in Int
    BY <1>2, LatestLast
  <2> QED BY <1>1, <2>2, <2>3 DEF Held, Nightly, Span
<1> QED BY <1>4, <1>5

(* A guest in house tonight is held the room they are in. *)
THEOREM GuestsHoldTheirRoom == Spec => []InHouseHoldsTonight
BY HoldsTonight, RoomedInit, RoomedNext, PTL DEF Spec

(* No two guests sleep in one room: each is held it tonight, and the exclusion
   constraint keeps the rows of a room apart.                                 *)
THEOREM OneGuestToARoom == Spec => []NoTwoGuestsInOneRoom
<1>1. Roomed => NoTwoGuestsInOneRoom
  <2> SUFFICES ASSUME Roomed, NEW b \in Bookings, NEW c \in Bookings, b # c,
                      InHouse(b), InHouse(c), guestRoom[b] = guestRoom[c],
                      (strays[b] \cup strays[c]) \cap {"unbought", "unheld", "dropped"} = {}
               PROVE  FALSE
    BY DEF NoTwoGuestsInOneRoom
  <2>1. PICK a \in RowsOf(assignment, b) : a.room = guestRoom[b] /\ today \in Nightly(a)
    BY HoldsTonight DEF InHouseHoldsTonight
  <2>2. PICK e \in RowsOf(assignment, c) : e.room = guestRoom[c] /\ today \in Nightly(e)
    BY HoldsTonight DEF InHouseHoldsTonight
  <2>3. a \in assignment /\ e \in assignment /\ a # e /\ a.room = e.room
    BY <2>1, <2>2 DEF RowsOf
  <2>4. InTurn(a, e)
    BY <2>3 DEF Roomed, Apart
  <2>5. /\ a.ci \in Int /\ a.co \in Int /\ e.ci \in Int /\ e.co \in Int
    BY <2>3, StayDates, RowFields
  <2> QED BY <2>1, <2>2, <2>4, <2>5 DEF InTurn, Nightly, Span
<1> QED BY <1>1, RoomedInit, RoomedNext, PTL DEF Spec

(* A guest who is in house after the arrival date can check out: the database
   never refuses what becomes of the row, unless the nights were not bought.  *)
THEOREM DeparturesGoThrough == Spec => []GuestCanLeave
<1>1. Roomed => GuestCanLeave
  <2> SUFFICES ASSUME Roomed, NEW b \in Bookings, booking[b].state = "CHECKED_IN",
                      today # booking[b].ci, ~ Took(b, "unbought"),
                      NEW from, from = LaterOf(today, booking[b].ci), NEW a \in Latest(assignment, b),
                      from < booking[b].co
               PROVE  Closable(a, from)
    BY DEF GuestCanLeave, DepartureAborts
  <2>1. /\ a \in Held(b) /\ a \in assignment /\ a \in AssignmentRow
        /\ a.ci \in Int /\ a.co \in Int
        /\ booking[b].ci \in Int /\ booking[b].co \in Int /\ today \in Int
        /\ GuestRows(b) /\ GuestLatest(b)
    BY LatestLast, StayDates DEF RoomedAs
  <2>2. from \in Int /\ a.ci <= from /\ a.co = booking[b].co
    BY <2>1 DEF GuestRows, GuestLatest, Reached, LaterOf
  <2>3. CASE a.ci < from
    <3>1. PICK row : row = [a EXCEPT !.co = from]
      OBVIOUS
    <3>2. row.ci = a.ci /\ row.co = from /\ row.room = a.room
      BY <2>1, <3>1 DEF AssignmentRow
    <3>3. ASSUME NEW c \in assignment \ {a}, c.room = row.room
          PROVE  Nightly(c) \cap Nightly(row) = {}
      <4>1. InTurn(c, a) /\ c.ci \in Int /\ c.co \in Int
        BY <2>1, <3>2, <3>3, StayDates, RowFields DEF Roomed, Apart
      <4> QED BY <2>1, <2>2, <3>2, <4>1 DEF InTurn, Nightly, Span
    <3> QED BY <2>3, <3>1, <3>2, <3>3 DEF Closable, Fits
  <2> QED BY <2>1, <2>2, <2>3 DEF Closable
<1> QED BY <1>1, RoomedInit, RoomedNext, PTL DEF Spec

(* A booking that is checked out was checked out by checkOut. *)
LEMMA OnlyCheckOutDeparts ==
  ASSUME TypeOK, Next, NEW b \in Bookings, booking[b].state = "CHECKED_IN",
         booking'[b].state = "CHECKED_OUT"
  PROVE  CheckOut(b)
<1>0. booking \in [Bookings -> BookingRow]
  BY DEF TypeOK
<1>1. ASSUME NEW c \in Bookings, MakesOrLoses(c) PROVE FALSE
  <2>1. ASSUME NEW s \in Creatable, NEW t \in Types, NEW ci \in Dates, NEW co \in Dates,
               Create(c, s, t, ci, co)
        PROVE  FALSE
    BY <1>0, <2>1 DEF Create, Creatable
  <2>2. ASSUME NEW old \in Bookings, NEW t \in Types, NEW ci \in Dates, NEW co \in Dates,
               ReplaceHold(c, old, t, ci, co)
        PROVE  FALSE
    <3>1. b # c /\ b # old
      BY <2>2 DEF ReplaceHold, Unborn
    <3> QED BY <1>0, <2>2, <3>1 DEF ReplaceHold
  <2>3. ASSUME Confirm(c) \/ Cancel(c) PROVE FALSE
    BY <1>0, <2>3 DEF Confirm, Cancel, Rewrite, BookingRow
  <2> QED BY <1>1, <2>1, <2>2, <2>3 DEF MakesOrLoses
<1>2. ASSUME NEW c \in Bookings, ChangesStay(c) PROVE FALSE
  BY <1>0, <1>2 DEF ChangesStay, Assign, Move, ChangeType, ChangeTypeInto, Retype, Extend, Shorten,
                    BookingRow
<1>3. ASSUME NEW c \in Bookings, ComesOrGoes(c) PROVE CheckOut(b)
  <2>1. ASSUME CheckIn(c) PROVE FALSE
    BY <1>0, <2>1 DEF CheckIn, Rewrite, BookingRow
  <2>2. ASSUME MarkNoShow(c) PROVE FALSE
    BY <1>0, <2>2 DEF MarkNoShow, Rewrite, BookingRow
  <2>3. ASSUME NEW r \in Rooms, Reinstate(c, r) PROVE FALSE
    BY <1>0, <2>3 DEF Reinstate, Rewrite, BookingRow
  <2>4. ASSUME CheckOut(c), c # b PROVE FALSE
    BY <1>0, <2>4 DEF CheckOut, Rewrite, BookingRow
  <2> QED BY <1>3, <2>1, <2>2, <2>3, <2>4 DEF ComesOrGoes
<1>4. ASSUME NoShowSweep PROVE FALSE
  BY <1>4 DEF NoShowSweep, Missed
<1>5. ASSUME Keeps PROVE FALSE
  BY <1>5 DEF Keeps, Close, Reopen, SetCondition, Rollover
<1> QED BY <1>1, <1>2, <1>3, <1>4, <1>5 DEF Next

(* A room a guest checks out of is never offered as ready in the same step. *)
THEOREM DepartedRoomsAreDirty == Spec => DepartedRoomAwaitsCleaning
<1>1. Roomed /\ [Next]_vars =>
        [\A b \in Bookings : strays[b] \cap {"unheld", "dropped"} = {} => ~ LeftUncleaned(b)]_vars
  <2> SUFFICES ASSUME Roomed, Next, NEW b \in Bookings,
                      strays[b] \cap {"unheld", "dropped"} = {}, LeftUncleaned(b)
               PROVE  FALSE
    OBVIOUS
  <2>1. booking[b].state = "CHECKED_IN" /\ CheckOut(b)
    BY StayDates, OnlyCheckOutDeparts DEF LeftUncleaned
  <2>2. PICK a \in Latest(assignment, b) : a.room = guestRoom[b]
    BY <2>1, StayDates DEF RoomedAs, GuestLatest
  <2>3. a.room \in Rooms
    BY LatestLast, RowFields
  <2>4. condition'[a.room] = IF condition[a.room] # "OUT_OF_ORDER" THEN "DIRTY" ELSE condition[a.room]
    BY <2>1, <2>3 DEF CheckOut
  <2> QED BY <2>2, <2>4 DEF LeftUncleaned
<1> QED BY <1>1, RoomedInit, RoomedNext, PTL DEF Spec, DepartedRoomAwaitsCleaning

=============================================================================
