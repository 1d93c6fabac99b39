-------------------------- MODULE NightAuditProofs --------------------------
(* What a frozen day is worth, proved for any number of stays, days, acts at the
   desk and rollover hours.

   A day that is frozen and was never traded on again is over: that is Past, and
   it takes the least step an edit of the hour can make to keep it. Whatever is
   written from then on is dated later, or was on its way before and is late, or
   was begun on a day that was traded on again.                               *)
EXTENDS NightAudit, FiniteSetTheorems, WellFoundedInduction, TLAPS

-----------------------------------------------------------------------------
(* The day: the date never goes back while the hour stays, an edit of the hour
   moves it by one day at the most, and a set of dates has an oldest one.     *)

(* Division of instants into days, for the provers.                           *)
LEMMA Division ==
  ASSUME NEW x \in Nat
  PROVE  /\ x \div SlotsPerDay \in Nat /\ x % SlotsPerDay \in 0 .. SlotsPerDay - 1
         /\ x = SlotsPerDay * (x \div SlotsPerDay) + (x % SlotsPerDay)
BY SlotsAssumption

(* businessDateAt goes forward with the clock.                                *)
LEMMA DateMonotone ==
  ASSUME NEW x \in Nat, NEW y \in Nat, x <= y, NEW h \in Int
  PROVE  /\ DateAt(x, h) \in Int /\ DateAt(x, h) <= DateAt(y, h)
         /\ x \div SlotsPerDay <= y \div SlotsPerDay
<1> DEFINE n == SlotsPerDay
           p == x \div n
           r == x % n
           q == y \div n
           s == y % n
<1>1. /\ n \in Nat \ {0} /\ p \in Nat /\ r \in 0 .. n-1 /\ x = n * p + r
      /\ q \in Nat /\ s \in 0 .. n-1 /\ y = n * q + s
  BY SlotsAssumption, Division
<1>2. DateAt(x, h) = p - (IF r < h THEN 1 ELSE 0) /\ DateAt(y, h) = q - (IF s < h THEN 1 ELSE 0)
  BY DEF DateAt
<1> SUFFICES DateAt(x, h) \in Int /\ DateAt(x, h) <= DateAt(y, h) /\ p <= q
  OBVIOUS
<1> HIDE DEF n, p, q, r, s
<1>3. ~ (q < p)
  <2>1. ASSUME q < p PROVE n * q + n <= n * p
    <3>1. p - q - 1 \in Nat /\ n * (p - q - 1) >= 0
      BY <1>1, <2>1
    <3> QED BY <1>1, <3>1
  <2> QED BY <1>1, <2>1
<1>4. p = q => r <= s
  BY <1>1
<1> QED BY <1>1, <1>2, <1>3, <1>4

(* An edit of the hour takes the date back or forward a day, or not at all.   *)
LEMMA HourMovesADay ==
  ASSUME NEW x \in Nat, NEW g \in Int, NEW h \in Int
  PROVE  /\ DateAt(x, g) \in Int /\ DateAt(x, h) \in Int
         /\ DateAt(x, g) <= DateAt(x, h) + 1
         /\ DateAt(x, g) \in (x \div SlotsPerDay) - 1 .. x \div SlotsPerDay
         /\ x \div SlotsPerDay \in Nat
<1>1. PICK p \in Nat : p = x \div SlotsPerDay
  BY Division
<1>2. \A k \in Int : DateAt(x, k) = p \/ DateAt(x, k) = p - 1
  BY <1>1 DEF DateAt
<1>3. DateAt(x, g) \in {p - 1, p} /\ DateAt(x, h) \in {p - 1, p}
  BY <1>2
<1> QED BY <1>1, <1>3

(* Dates start on the day before the first instant, so there is an oldest.    *)
LEMMA OldestDate ==
  ASSUME NEW S, \A d \in S : d \in Int /\ d >= -1, S # {}
  PROVE  \E m \in S : \A k \in S : m <= k
<1> DEFINE Below == OpToRel(<, Nat)
           T == {d + 1 : d \in S}
<1>1. IsWellFoundedOn(Below, Nat)
  BY NatLessThanWellFounded
<1>2. \A x, y \in Nat : x < y => <<x, y>> \in Below
  BY DEF OpToRel
<1>3. T \in SUBSET Nat /\ T # {}
  OBVIOUS
<1>4. \E m \in T : \A k \in T : ~(<<k, m>> \in Below)
  <2> HIDE DEF Below, T
  <2> QED BY <1>1, <1>3, WFMin
<1> HIDE DEF Below
<1>5. PICK m \in S : \A k \in S : ~(<<k + 1, m + 1>> \in Below)
  BY <1>4
<1>6. ASSUME NEW k \in S, ~(m <= k) PROVE FALSE
  <2>1. k + 1 \in Nat /\ m + 1 \in Nat /\ k + 1 < m + 1
    BY <1>6
  <2> QED BY <1>2, <1>5, <2>1
<1> QED BY <1>6

-----------------------------------------------------------------------------

Sold == [type : {"NIGHT", "SERVICE_ITEM", "DESK_CHARGE"}, stay : Stays, date : Int]

TakenBack == [of : Sold, date : Int]

Booking == [state : {"CONFIRMED", "CHECKED_IN", "CHECKED_OUT"},
            departs : Int, read : Int, came : Int, left : Int]

Rows ==
  /\ DayTypeOK
  /\ stay \in [Stays -> Booking]
  /\ line \subseteq Sold /\ correction \subseteq TakenBack
  /\ Frozen \subseteq Dates /\ reopened \subseteq Int

(* The request at the desk writes a row of the date it read.                  *)
Begun ==
  act # Idle => /\ act.op \in {"SELL", "REVERSE"} /\ act.date \in Int
                /\ act.row.date = act.date
                /\ act.op = "SELL" => act.row \in Sold
                /\ act.op = "REVERSE" => act.row \in TakenBack

Past == \A d \in Frozen \ reopened : d < Today

(* What was begun on a frozen day was begun on one that is traded on again.   *)
Told == act # Idle /\ ~act.open => act.date \in reopened

LateRowsAreOfFrozenDays == \A r \in late : r.date \in Frozen

IInv ==
  /\ Rows /\ Begun /\ Past /\ Told /\ LateRowsAreOfFrozenDays
  /\ FrozenFiguresStand /\ FrozenNightsAreCharged
-----------------------------------------------------------------------------
(* The figures of a day read the rows of that day alone.                      *)
LEMMA FiguresAreOfTheirDay ==
  ASSUME NEW d, NEW A, NEW B, NEW U, NEW V,
         {l \in A : l.date = d} = {l \in B : l.date = d},
         {c \in U : c.date = d} = {c \in V : c.date = d}
  PROVE  Figures(d, A, U) = Figures(d, B, V)
<1>1. \A l : Undone(l, d, U) <=> Undone(l, d, V)
  BY DEF Undone
<1>2. {k \in {l \in A : l.date = d} : IsRoom(k) /\ ~Undone(k, d, U)}
      = {k \in {l \in B : l.date = d} : IsRoom(k) /\ ~Undone(k, d, V)}
  BY <1>1
<1> QED BY <1>2 DEF Figures

(* A sale is no correction.                                                   *)
LEMMA RowsDiffer == \A r \in Sold : r \notin TakenBack
<1> SUFFICES ASSUME NEW r \in Sold, r \in TakenBack PROVE FALSE
  OBVIOUS
<1>1. DOMAIN r = {"type", "stay", "date"}
  BY DEF Sold
<1>2. DOMAIN r = {"of", "date"}
  BY DEF TakenBack
<1> QED BY <1>1, <1>2

LEMMA HoursAreNumbers ==
  ASSUME Rows
  PROVE  /\ clock \in Nat /\ rolloverHour \in Int /\ Rollovers \subseteq Int
         /\ Today \in Int /\ Today \in Dates
<1>1. clock \in Nat /\ rolloverHour \in Int /\ Rollovers \subseteq Int /\ clock <= LastInstant
  BY SlotsAssumption, RolloversAssumption, LastInstantAssumption DEF Rows, DayTypeOK
<1>2. /\ clock \div SlotsPerDay \in Nat
      /\ DateAt(clock, rolloverHour) \in Int
      /\ DateAt(clock, rolloverHour)
           \in (clock \div SlotsPerDay) - 1 .. clock \div SlotsPerDay
  BY <1>1, HourMovesADay
<1>3. /\ clock \div SlotsPerDay <= LastInstant \div SlotsPerDay
      /\ LastInstant \div SlotsPerDay \in Nat
  BY <1>1, LastInstantAssumption, Division, DateMonotone
<1> HIDE DEF Today
<1>4. Today = DateAt(clock, rolloverHour)
  BY DEF Today
<1> QED BY <1>1, <1>2, <1>3, <1>4 DEF Dates

(* The three ways the date can move.                                          *)
LEMMA DateMoves ==
  ASSUME Rows, Tick \/ (\E h \in Rollovers : MoveHour(h)) \/ UNCHANGED day
  PROVE  Today' \in Int /\ Today <= Today' + 1 /\ DayTypeOK'
<1>0. clock \in Nat /\ rolloverHour \in Int /\ Rollovers \subseteq Int /\ Today \in Int
  BY HoursAreNumbers
<1>1. CASE Tick
  <2>1. clock' \in Nat /\ clock <= clock' /\ rolloverHour' = rolloverHour /\ DayTypeOK'
    BY <1>0, <1>1, LastInstantAssumption DEF Tick, DayTypeOK, Rows
  <2>2. clock + 1 \in Nat /\ clock' = clock + 1
    BY <1>0, <1>1 DEF Tick
  <2>3. DateAt(clock, rolloverHour) <= DateAt(clock + 1, rolloverHour)
        /\ DateAt(clock + 1, rolloverHour) \in Int
    BY <1>0, <2>2, DateMonotone, HourMovesADay
  <2>4. Today = DateAt(clock, rolloverHour) /\ Today' = DateAt(clock + 1, rolloverHour)
    BY <2>1, <2>2 DEF Today
  <2> QED BY <1>0, <2>1, <2>3, <2>4
<1>2. ASSUME NEW h \in Rollovers, MoveHour(h)
      PROVE  Today' \in Int /\ Today <= Today' + 1 /\ DayTypeOK'
  <2>1. clock' = clock /\ rolloverHour' = h /\ h \in Int /\ DayTypeOK'
    BY <1>0, <1>2 DEF MoveHour, DayTypeOK, Rows
  <2>2. DateAt(clock, rolloverHour) <= DateAt(clock, h) + 1 /\ DateAt(clock, h) \in Int
    BY <1>0, <2>1, HourMovesADay
  <2>3. Today = DateAt(clock, rolloverHour) /\ Today' = DateAt(clock, h)
    BY <2>1 DEF Today
  <2> QED BY <1>0, <2>1, <2>2, <2>3
<1>3. CASE UNCHANGED day
  <2>1. Today' = Today /\ DayTypeOK'
    BY <1>3 DEF day, Today, DayTypeOK, Rows
  <2> QED BY <1>0, <2>1
<1> QED BY <1>1, <1>2, <1>3
-----------------------------------------------------------------------------
(* Steps that write no day's figures leave the two promises as they are: the
   nights of a day that is over were counted whole, whatever the date does.   *)
LEMMA NightsKept ==
  ASSUME IInv, stay' = stay, line \subseteq line', snapshot' = snapshot,
         missed \subseteq missed', reopened \subseteq reopened'
  PROVE  FrozenNightsAreCharged'
<1> SUFFICES ASSUME NEW d \in Frozen' \ reopened', NEW s \in Stays, Slept(s, d)'
             PROVE  Charged(s, d)' \/ <<s, d>> \in missed'
  BY DEF FrozenNightsAreCharged
<1>1. d \in Frozen \ reopened
  BY DEF Frozen
<1>2. d < Today
  BY <1>1 DEF IInv, Past
<1>3. Slept(s, d)
  BY <1>2 DEF Slept, Covers
<1>4. Charged(s, d) \/ <<s, d>> \in missed
  BY <1>1, <1>3 DEF IInv, FrozenNightsAreCharged
<1> QED BY <1>4 DEF Charged, Night

LEMMA FiguresKept ==
  ASSUME IInv, snapshot' = snapshot, reopened \subseteq reopened',
         \A d \in Frozen \ reopened :
           /\ {l \in line \ late : l.date = d} = {l \in line' \ late' : l.date = d}
           /\ {c \in correction \ late : c.date = d}
                = {c \in correction' \ late' : c.date = d}
  PROVE  FrozenFiguresStand'
<1> SUFFICES ASSUME NEW d \in Frozen' \ reopened'
             PROVE  snapshot'[d] = Figures(d, line' \ late', correction' \ late')
  <2>1. \A d : Figures(d, line \ late, correction \ late)'
                = Figures(d, line' \ late', correction' \ late')
    BY DEF Figures, Undone, IsRoom
  <2> QED BY <2>1 DEF FrozenFiguresStand
<1>1. d \in Frozen \ reopened
  BY DEF Frozen
<1>2. snapshot[d] = Figures(d, line \ late, correction \ late)
  BY <1>1 DEF IInv, FrozenFiguresStand
<1>3. Figures(d, line \ late, correction \ late)
      = Figures(d, line' \ late', correction' \ late')
  BY <1>1, FiguresAreOfTheirDay
<1> QED BY <1>2, <1>3

(* The clock and the hour: a frozen day whose date comes again is remembered. *)
LEMMA DaySteps ==
  ASSUME IInv, TimePasses \/ EditHour
  PROVE  IInv'
<1>1. /\ UNCHANGED <<stay, agreed, line, correction, act, acts, snapshot, late, missed>>
      /\ reopened' = reopened \cup ({Today'} \cap Frozen)
  BY DEF TimePasses, EditHour, Reopen, ledger
<1>2. Today' \in Int /\ Today <= Today' + 1 /\ DayTypeOK'
  BY DateMoves DEF TimePasses, EditHour, IInv
<1>3. Today \in Int /\ Dates \subseteq Int
  <2>1. LastInstant \div SlotsPerDay \in Nat
    BY LastInstantAssumption, SlotsAssumption, Division
  <2> QED BY <2>1, HoursAreNumbers DEF IInv, Dates
<1>4. Frozen' = Frozen /\ Frozen \subseteq Int
  BY <1>1, <1>3 DEF Frozen, IInv, Rows
<1>5. Rows' /\ Begun' /\ Told' /\ LateRowsAreOfFrozenDays'
  <2>1. Rows'
    BY <1>1, <1>2, <1>4 DEF IInv, Rows
  <2>2. Begun' /\ Told' /\ LateRowsAreOfFrozenDays'
    BY <1>1, <1>4 DEF IInv, Begun, Told, LateRowsAreOfFrozenDays
  <2> QED BY <2>1, <2>2
<1>6. Past'
  <2> SUFFICES ASSUME NEW d \in Frozen' \ reopened' PROVE d < Today'
    BY DEF Past
  <2>1. d < Today /\ d # Today' /\ d \in Int
    BY <1>1, <1>4 DEF IInv, Past
  <2>2. \A m, n \in Int : d < m /\ m <= n + 1 /\ d # n => d < n
    BY <2>1
  <2> QED BY <1>2, <1>3, <2>1, <2>2
<1>7. FrozenNightsAreCharged' /\ FrozenFiguresStand'
  BY <1>1, NightsKept, FiguresKept
<1> QED BY <1>5, <1>6, <1>7 DEF IInv

(* A request that ends writes a booking and frees its row.                    *)
LEMMA RequestsWriteBookings ==
  ASSUME NEW b \in Booking, NEW to \in Int
  PROVE  /\ [b EXCEPT !.read = NoDate] \in Booking
         /\ [b EXCEPT !.departs = to, !.read = NoDate] \in Booking
         /\ [b EXCEPT !.state = "CHECKED_IN", !.came = b.read, !.read = NoDate] \in Booking
         /\ [b EXCEPT !.state = "CHECKED_OUT", !.left = b.read, !.read = NoDate] \in Booking
<1>1. \A c \in Booking : [c EXCEPT !.read = NoDate] \in Booking
  BY DEF Booking, NoDate
<1> DEFINE moved == [b EXCEPT !.departs = to]
           in    == [b EXCEPT !.state = "CHECKED_IN", !.came = b.read]
           out   == [b EXCEPT !.state = "CHECKED_OUT", !.left = b.read]
<1>2. moved \in Booking /\ in \in Booking /\ out \in Booking
  BY DEF Booking
<1>3. /\ [b EXCEPT !.departs = to, !.read = NoDate] = [moved EXCEPT !.read = NoDate]
      /\ [b EXCEPT !.state = "CHECKED_IN", !.came = b.read, !.read = NoDate]
           = [in EXCEPT !.read = NoDate]
      /\ [b EXCEPT !.state = "CHECKED_OUT", !.left = b.read, !.read = NoDate]
           = [out EXCEPT !.read = NoDate]
  OBVIOUS
<1> HIDE DEF moved, in, out
<1> QED BY <1>1, <1>2, <1>3

(* What the guests and the desk do to a stay keeps every night that was slept on
   a day that is over: the nights it adds to one are in missed.               *)
GuestStep(g) ==
  \/ BeginRequest(g) \/ CheckIn(g) \/ CheckOut(g) \/ Shorten(g)
  \/ GiveUpRequest(g) \/ Extend(g) \/ CloseAccount(g)

LEMMA GuestSteps ==
  ASSUME IInv, NEW g \in Stays, GuestStep(g)
  PROVE  IInv'
<1>1. /\ UNCHANGED <<clock, rolloverHour, line, correction, act, acts, snapshot, late, reopened>>
      /\ missed \subseteq missed'
  BY DEF GuestStep, BeginRequest, CheckIn, CheckOut, Shorten, GiveUpRequest, Extend,
         CloseAccount, ledger, day
<1>2. Today' = Today /\ Today \in Int /\ Frozen' = Frozen
  BY <1>1, HoursAreNumbers DEF Today, IInv, Frozen
<1>3. stay \in [Stays -> Booking] /\ stay[g] \in Booking
  BY DEF IInv, Rows
<1>4. /\ stay' \in [Stays -> Booking]
      /\ \A s \in Stays \ {g} : stay'[s] = stay[s]
  <2>1. ASSUME NEW b \in Booking, stay' = [stay EXCEPT ![g] = b]
        PROVE  /\ stay' \in [Stays -> Booking]
               /\ \A s \in Stays \ {g} : stay'[s] = stay[s]
    BY <1>3, <2>1
  <2>2. CASE BeginRequest(g)
    BY <1>2, <1>3, <2>2 DEF BeginRequest, Booking
  <2>3. CASE CheckIn(g)
    <3>1. [stay[g] EXCEPT !.state = "CHECKED_IN", !.came = stay[g].read, !.read = NoDate]
            \in Booking
      BY <1>3, RequestsWriteBookings DEF Booking
    <3> QED BY <2>1, <2>3, <3>1 DEF CheckIn
  <2>4. CASE CheckOut(g)
    <3>1. [stay[g] EXCEPT !.state = "CHECKED_OUT", !.left = stay[g].read, !.read = NoDate]
            \in Booking
      BY <1>3, RequestsWriteBookings DEF Booking
    <3> QED BY <2>1, <2>4, <3>1 DEF CheckOut
  <2>5. CASE Shorten(g)
    <3>1. PICK to \in (Arrival[g] + 1) .. (stay[g].departs - 1) :
            stay' = [stay EXCEPT ![g] = [@ EXCEPT !.departs = to, !.read = NoDate]]
      BY <2>5 DEF Shorten
    <3>2. to \in Int
      BY <1>3, StaysAssumption DEF Booking
    <3>3. [stay[g] EXCEPT !.departs = to, !.read = NoDate] \in Booking
      BY <1>3, <3>2, RequestsWriteBookings
    <3> QED BY <2>1, <3>1, <3>3
  <2>6. CASE GiveUpRequest(g)
    BY <1>3, <2>6 DEF GiveUpRequest, Booking, NoDate
  <2>7. CASE Extend(g)
    <3>1. stay[g].departs + 1 \in Int /\ LastDeparture \in Int
      BY <1>3, AuditAssumption DEF Booking
    <3> QED BY <1>3, <2>7, <3>1 DEF Extend, Booking
  <2>8. CASE CloseAccount(g)
    BY <1>3, <2>8 DEF CloseAccount
  <2> QED BY <2>2, <2>3, <2>4, <2>5, <2>6, <2>7, <2>8 DEF GuestStep
<1>5. Rows' /\ Begun' /\ Told' /\ LateRowsAreOfFrozenDays' /\ Past'
  <2>1. Rows'
    BY <1>1, <1>2, <1>4 DEF IInv, Rows, DayTypeOK
  <2>2. Begun' /\ Told' /\ LateRowsAreOfFrozenDays' /\ Past'
    BY <1>1, <1>2 DEF IInv, Begun, Told, LateRowsAreOfFrozenDays, Past
  <2> QED BY <2>1, <2>2
<1>6. FrozenFiguresStand'
  BY <1>1, FiguresKept
<1>7. FrozenNightsAreCharged'
  <2> SUFFICES ASSUME NEW d \in Frozen' \ reopened', NEW s \in Stays, Slept(s, d)',
                      <<s, d>> \notin missed'
               PROVE  Charged(s, d)'
    BY DEF FrozenNightsAreCharged
  <2>1. d \in Frozen \ reopened /\ d < Today /\ d \in Int
    <3>1. LastInstant \div SlotsPerDay \in Nat
      BY LastInstantAssumption, SlotsAssumption, Division
    <3> QED BY <1>1, <1>2, <3>1 DEF IInv, Past, Rows, Dates
  <2>2. CASE ~Charged(s, d)
    <3>1. Slept(s, d)
      <4>1. CASE s # g
        BY <1>2, <1>4, <4>1 DEF Slept, Covers
      <4>2. CASE s = g /\ CheckIn(g)
        <5>1. /\ stay'[g].came = stay[g].read /\ stay'[g].departs = stay[g].departs
              /\ missed' = missed \cup FrozenNights(g, stay[g].read, stay[g].departs)
          BY <1>3, <4>2 DEF CheckIn
        <5>2. stay[g].read <= d /\ d < stay[g].departs
          BY <4>2, <5>1 DEF Slept, Covers
        <5>3. <<g, d>> \in missed'
          BY <2>1, <2>2, <4>2, <5>1, <5>2 DEF FrozenNights
        <5> QED BY <4>2, <5>3
      <4>3. CASE s = g /\ CheckOut(g)
        <5>1. /\ stay'[g].came = stay[g].came /\ stay'[g].departs = stay[g].departs
              /\ stay[g].state = "CHECKED_IN"
          BY <1>3, <4>3 DEF CheckOut
        <5> QED BY <2>1, <4>3, <5>1 DEF Slept, Covers
      <4>4. CASE s = g /\ Shorten(g)
        <5>1. /\ stay'[g].came = stay[g].came /\ stay'[g].state = stay[g].state
              /\ stay'[g].left = stay[g].left
              /\ stay'[g].departs <= stay[g].departs - 1
          <6>1. PICK to \in (Arrival[g] + 1) .. (stay[g].departs - 1) :
                  stay' = [stay EXCEPT ![g] = [@ EXCEPT !.departs = to, !.read = NoDate]]
            BY <4>4 DEF Shorten
          <6>2. stay'[g].departs = to
            BY <1>3, <6>1 DEF Booking
          <6>3. to <= stay[g].departs - 1
            BY <1>3, StaysAssumption DEF Booking
          <6> QED BY <1>3, <6>1, <6>2, <6>3
        <5>2. stay[g].departs \in Int /\ stay'[g].departs \in Int
          BY <1>3, <1>4 DEF Booking
        <5> QED BY <1>2, <2>1, <4>4, <5>1, <5>2 DEF Slept, Covers
      <4>5. CASE s = g /\ Extend(g)
        <5>1. PICK to \in (stay[g].departs + 1) .. LastDeparture :
                /\ stay' = [stay EXCEPT ![g].departs = to]
                /\ missed' = missed \cup FrozenNights(g, stay[g].departs, to)
          BY <4>5 DEF Extend
        <5>2. /\ stay'[g].came = stay[g].came /\ stay'[g].state = stay[g].state
              /\ stay'[g].left = stay[g].left /\ stay'[g].departs = to
          BY <1>3, <5>1
        <5>3. stay[g].departs \in Int /\ to \in Int
          BY <1>3, <1>4, <5>2 DEF Booking
        <5>4. d < stay[g].departs
          <6>1. CASE stay[g].departs <= d
            <7>1. <<g, d>> \in missed'
              BY <2>1, <2>2, <4>5, <5>1, <5>2, <6>1 DEF FrozenNights, Slept, Covers
            <7> QED BY <4>5, <7>1
          <6> QED BY <2>1, <5>3, <6>1
        <5> QED BY <1>2, <4>5, <5>2, <5>4 DEF Slept, Covers
      <4>6. CASE s = g /\ (BeginRequest(g) \/ GiveUpRequest(g))
        <5>1. PICK x \in {Today, NoDate} : stay' = [stay EXCEPT ![g].read = x]
          BY <4>6 DEF BeginRequest, GiveUpRequest
        <5>2. stay'[g] = [stay[g] EXCEPT !.read = x]
          BY <1>3, <5>1
        <5>3. /\ stay'[g].came = stay[g].came /\ stay'[g].state = stay[g].state
              /\ stay'[g].left = stay[g].left /\ stay'[g].departs = stay[g].departs
          BY <1>3, <5>2 DEF Booking
        <5> QED BY <1>2, <4>6, <5>3 DEF Slept, Covers
      <4>7. CASE CloseAccount(g)
        BY <1>2, <4>7 DEF CloseAccount, Slept, Covers
      <4> QED BY <4>1, <4>2, <4>3, <4>4, <4>5, <4>6, <4>7 DEF GuestStep
    <3> QED BY <1>1, <2>1, <2>2, <3>1 DEF IInv, FrozenNightsAreCharged
  <2> QED BY <1>1, <2>2 DEF Charged, Night
<1> QED BY <1>5, <1>6, <1>7 DEF IInv

(* A request begun on a frozen day was begun on one that is traded on again.  *)
LEMMA BeginSteps ==
  ASSUME IInv, BeginAct
  PROVE  IInv'
<1>1. UNCHANGED <<clock, rolloverHour, stay, line, correction, snapshot, late, missed, reopened>>
  BY DEF BeginAct, ledger, day
<1>2. Today' = Today /\ Today \in Int /\ Frozen' = Frozen
  BY <1>1, HoursAreNumbers DEF Today, IInv, Frozen
<1>3. Rows' /\ LateRowsAreOfFrozenDays' /\ Past'
  <2>1. Rows'
    BY <1>1, <1>2 DEF IInv, Rows, DayTypeOK
  <2>2. LateRowsAreOfFrozenDays' /\ Past'
    BY <1>1, <1>2 DEF IInv, LateRowsAreOfFrozenDays, Past
  <2> QED BY <2>1, <2>2
<1>4. Today \in Frozen => Today \in reopened
  BY <1>2 DEF IInv, Past
<1>5. Begun' /\ Told'
  <2>1. CASE \E s \in Stays, type \in Sales :
               act' = [op |-> "SELL", open |-> Today \notin Frozen, date |-> Today,
                       row |-> [type |-> type, stay |-> s, date |-> Today]]
    <3>1. PICK s \in Stays, type \in Sales :
               act' = [op |-> "SELL", open |-> Today \notin Frozen, date |-> Today,
                       row |-> [type |-> type, stay |-> s, date |-> Today]]
      BY <2>1
    <3>2. act'.row \in Sold
      BY <1>2, <3>1, SalesAssumption DEF Sold
    <3>3. act'.op = "SELL" /\ act'.date = Today /\ act'.row.date = Today
          /\ (act'.open <=> Today \notin Frozen)
      BY <3>1
    <3> QED BY <1>1, <1>2, <1>4, <3>2, <3>3 DEF Begun, Told
  <2>2. CASE \E l \in line :
               act' = [op |-> "REVERSE", open |-> Today \notin Frozen, date |-> Today,
                       row |-> [of |-> l, date |-> Today]]
    <3>1. PICK l \in line :
               act' = [op |-> "REVERSE", open |-> Today \notin Frozen, date |-> Today,
                       row |-> [of |-> l, date |-> Today]]
      BY <2>2
    <3>2. act'.row \in TakenBack
      BY <1>2, <3>1 DEF TakenBack, IInv, Rows
    <3>3. act'.op = "REVERSE" /\ act'.date = Today /\ act'.row.date = Today
          /\ (act'.open <=> Today \notin Frozen)
      BY <3>1
    <3> QED BY <1>1, <1>2, <1>4, <3>2, <3>3 DEF Begun, Told
  <2> QED BY <2>1, <2>2 DEF BeginAct
<1>6. FrozenNightsAreCharged' /\ FrozenFiguresStand'
  BY <1>1, NightsKept, FiguresKept
<1> QED BY <1>3, <1>5, <1>6 DEF IInv

(* What it writes is dated on a day not frozen, or is late, or is a row the day
   had already.                                                               *)
LEMMA CommitSteps ==
  ASSUME IInv, CommitAct
  PROVE  IInv'
<1>1. /\ UNCHANGED <<clock, rolloverHour, stay, snapshot, missed, reopened>>
      /\ act # Idle /\ act' = Idle
  BY DEF CommitAct, day
<1>2. Today' = Today /\ Frozen' = Frozen
  BY <1>1 DEF Today, Frozen
<1> DEFINE r == act.row
<1>3. /\ act.op \in {"SELL", "REVERSE"} /\ r.date = act.date
      /\ act.op = "SELL" => r \in Sold
      /\ act.op = "REVERSE" => r \in TakenBack
  BY <1>1 DEF IInv, Begun
<1>4. line \subseteq Sold /\ correction \subseteq TakenBack
  BY DEF IInv, Rows
<1>5. late' = late \/ (late' = late \cup {r} /\ r.date \in Frozen /\ r \notin line
                      /\ Accepted)
  BY <1>3 DEF CommitAct
<1>6. r.date \in Frozen \ reopened /\ Accepted /\ r \notin line => late' = late \cup {r}
  <2>1. r.date \in Frozen \ reopened => act.open
    BY <1>1, <1>3 DEF IInv, Told
  <2> QED BY <1>3, <2>1 DEF CommitAct
<1>7. CASE act.op = "SELL"
  <2>1. correction' = correction /\ (line' = line \/ line' = line \cup {r})
        /\ (~Accepted => line' = line)
    BY <1>7 DEF CommitAct
  <2>2. r \notin correction /\ r \in Sold
    BY <1>3, <1>4, <1>7, RowsDiffer
  <2>3. ASSUME NEW d \in Frozen \ reopened
        PROVE  /\ {l \in line \ late : l.date = d} = {l \in line' \ late' : l.date = d}
               /\ {c \in correction \ late : c.date = d}
                    = {c \in correction' \ late' : c.date = d}
    <3>1. {c \in correction \ late : c.date = d} = {c \in correction' \ late' : c.date = d}
      BY <1>5, <2>1, <2>2
    <3>2. CASE line' = line
      BY <1>5, <3>1, <3>2
    <3>3. CASE line' = line \cup {r} /\ r \notin line /\ Accepted
      <4>1. CASE r.date = d
        <5>1. late' = late \cup {r}
          BY <1>6, <3>3, <4>1
        <5> HIDE DEF r
        <5> QED BY <3>1, <3>3, <5>1
      <4>2. CASE r.date # d
        <5> HIDE DEF r
        <5> QED BY <1>5, <3>1, <3>3, <4>2
      <4> QED BY <4>1, <4>2
    <3> QED BY <2>1, <3>2, <3>3
  <2>4. line \subseteq line' /\ line' \subseteq Sold /\ correction' \subseteq TakenBack
    BY <1>4, <2>1, <2>2
  <2>5. FrozenNightsAreCharged' /\ FrozenFiguresStand'
    BY <1>1, <2>3, <2>4, NightsKept, FiguresKept
  <2>6. Rows' /\ Begun' /\ Told' /\ LateRowsAreOfFrozenDays' /\ Past'
    <3>1. Rows'
      BY <1>1, <1>2, <2>4 DEF IInv, Rows, DayTypeOK
    <3>2. Begun' /\ Told' /\ Past'
      BY <1>1, <1>2 DEF IInv, Begun, Told, Past
    <3>3. LateRowsAreOfFrozenDays'
      BY <1>2, <1>5 DEF IInv, LateRowsAreOfFrozenDays
    <3> QED BY <3>1, <3>2, <3>3
  <2> QED BY <2>5, <2>6 DEF IInv
<1>8. CASE act.op = "REVERSE"
  <2>1. line' = line /\ (correction' = correction \/ correction' = correction \cup {r})
        /\ (~Accepted => correction' = correction)
    BY <1>8 DEF CommitAct
  <2>2. r \notin line /\ r \in TakenBack
    BY <1>3, <1>4, <1>8, RowsDiffer
  <2>3. Accepted => r \notin correction
    BY <1>8 DEF Accepted
  <2>4. ASSUME NEW d \in Frozen \ reopened
        PROVE  /\ {l \in line \ late : l.date = d} = {l \in line' \ late' : l.date = d}
               /\ {c \in correction \ late : c.date = d}
                    = {c \in correction' \ late' : c.date = d}
    <3>1. {l \in line \ late : l.date = d} = {l \in line' \ late' : l.date = d}
      BY <1>5, <2>1, <2>2
    <3>2. CASE ~Accepted
      BY <1>5, <2>1, <3>1, <3>2
    <3>3. CASE Accepted
      <4>1. CASE r.date = d
        <5>1. late' = late \cup {r} /\ r \notin correction
          BY <1>6, <2>2, <2>3, <3>3, <4>1
        <5> HIDE DEF r
        <5> QED BY <2>1, <3>1, <5>1
      <4>2. CASE r.date # d
        <5> HIDE DEF r
        <5> QED BY <1>5, <2>1, <3>1, <4>2
      <4> QED BY <4>1, <4>2
    <3> QED BY <3>2, <3>3
  <2>5. line \subseteq line' /\ line' \subseteq Sold /\ correction' \subseteq TakenBack
    BY <1>4, <2>1, <2>2
  <2>6. FrozenNightsAreCharged' /\ FrozenFiguresStand'
    BY <1>1, <2>4, <2>5, NightsKept, FiguresKept
  <2>7. Rows' /\ Begun' /\ Told' /\ LateRowsAreOfFrozenDays' /\ Past'
    <3>1. Rows'
      BY <1>1, <1>2, <2>5 DEF IInv, Rows, DayTypeOK
    <3>2. Begun' /\ Told' /\ Past'
      BY <1>1, <1>2 DEF IInv, Begun, Told, Past
    <3>3. LateRowsAreOfFrozenDays'
      BY <1>2, <1>5 DEF IInv, LateRowsAreOfFrozenDays
    <3> QED BY <3>1, <3>2, <3>3
  <2> QED BY <2>6, <2>7 DEF IInv
<1> QED BY <1>3, <1>7, <1>8

(* The nights a sweep charges are new, and of the kind sold.                  *)
LEMMA NightsAreSold ==
  ASSUME NEW d \in Int, NEW s \in Stays
  PROVE  Night(s, d) \in Sold /\ Night(s, d).date = d
BY DEF Night, Sold

(* Today is no frozen day that was not traded on again, and a night recovered
   into a frozen day is late for it.                                          *)
LEMMA SweepSteps ==
  ASSUME IInv, NEW n \in Named \cup {Today}, SweepNight(n)
  PROVE  IInv'
<1> DEFINE nights == Charges(n)
<1>1. /\ UNCHANGED <<clock, rolloverHour, stay, correction, act, acts, snapshot, missed,
                  reopened>>
      /\ line' = line \cup nights /\ n <= Today
      /\ late' = IF n < Today /\ n \in Frozen THEN late \cup nights ELSE late
  BY DEF SweepNight, day
<1>2. Today' = Today /\ Today \in Int /\ Frozen' = Frozen /\ n \in Int
  BY <1>1, HoursAreNumbers, AuditAssumption DEF Today, IInv, Frozen
<1>3. nights \subseteq Sold /\ (\A r \in nights : r.date = n /\ r \notin line)
  BY <1>2, NightsAreSold DEF Due, Charged, Charges
<1>4. line \subseteq Sold /\ correction \subseteq TakenBack
  BY DEF IInv, Rows
<1> HIDE DEF nights
<1>5. \A r \in nights : r \notin correction
  BY <1>3, <1>4, RowsDiffer
<1>6. ASSUME NEW d \in Frozen \ reopened
      PROVE  /\ {l \in line \ late : l.date = d} = {l \in line' \ late' : l.date = d}
             /\ {c \in correction \ late : c.date = d}
                  = {c \in correction' \ late' : c.date = d}
  <2>1. {c \in correction \ late : c.date = d} = {c \in correction' \ late' : c.date = d}
    BY <1>1, <1>5
  <2>2. CASE n = d
    <3>1. d < Today
      BY DEF IInv, Past
    <3>2. late' = late \cup nights
      BY <1>1, <2>2, <3>1
    <3> QED BY <1>1, <1>3, <2>1, <3>2
  <2>3. CASE n # d
    BY <1>1, <1>3, <2>1, <2>3
  <2> QED BY <2>2, <2>3
<1>7. FrozenNightsAreCharged' /\ FrozenFiguresStand'
  BY <1>1, <1>6, NightsKept, FiguresKept
<1>8. Rows' /\ Begun' /\ Told' /\ LateRowsAreOfFrozenDays' /\ Past'
  <2>1. Rows'
    BY <1>1, <1>2, <1>3, <1>4 DEF IInv, Rows, DayTypeOK
  <2>2. Begun' /\ Told' /\ Past'
    BY <1>1, <1>2 DEF IInv, Begun, Told, Past
  <2>3. LateRowsAreOfFrozenDays'
    BY <1>1, <1>2, <1>3 DEF IInv, LateRowsAreOfFrozenDays
  <2> QED BY <2>1, <2>2, <2>3
<1> QED BY <1>7, <1>8 DEF IInv

(* A day is closed with the charges of the same run in it, and nothing late is
   of a day that was not frozen yet.                                          *)
LEMMA AuditSteps ==
  ASSUME IInv, NEW on \in Named \cup {Today}, Audit(on)
  PROVE  IInv'
<1> DEFINE days   == Outstanding(on)
           nights == UNION {Charges(d) : d \in days}
           lines  == line \cup nights
           closed == Closable(days)
<1>1. /\ UNCHANGED <<clock, rolloverHour, stay, correction, act, acts, late, missed>>
      /\ line' = lines
      /\ snapshot' = [d \in Frozen \cup closed |->
                        IF d \in closed THEN Figures(d, lines, correction)
                        ELSE snapshot[d]]
      /\ reopened' = reopened \cup {d \in closed : on > Today /\ d >= Today}
  BY DEF Audit, day
<1>2. Today' = Today /\ Today \in Int /\ on \in Int
  BY <1>1, HoursAreNumbers, AuditAssumption DEF Today, IInv
<1>3. Dates \subseteq Int
  <2>1. LastInstant \div SlotsPerDay \in Nat
    BY LastInstantAssumption, SlotsAssumption, Division
  <2> QED BY <2>1 DEF Dates
<1>4. /\ \A d \in days : d \in Dates /\ d \notin Frozen /\ d \in Int /\ d <= on - 1
      /\ closed \subseteq days
  <2>1. on - LookBack \in Int /\ on - 1 \in Int
    BY <1>2, AuditAssumption
  <2> QED BY <1>3, <2>1 DEF Outstanding, Candidates, Closable
<1>5. nights \subseteq Sold /\ (\A r \in nights : r.date \in days)
  <2> SUFFICES ASSUME NEW d \in days, NEW s \in Due(d)
               PROVE  Night(s, d) \in Sold /\ Night(s, d).date \in days
    BY DEF Charges
  <2>1. d \in Int /\ s \in Stays
    BY <1>4 DEF Due
  <2> HIDE DEF days
  <2> QED BY <2>1, NightsAreSold
<1>6. Frozen' = Frozen \cup closed
  BY <1>1 DEF Frozen
<1>7. \A d \in closed, s \in Stays : Slept(s, d)' => Charged(s, d)'
  <2> SUFFICES ASSUME NEW d \in closed, NEW s \in Stays, Slept(s, d)', ~Charged(s, d)'
               PROVE  FALSE
    OBVIOUS
  <2>1. Covers(s, d) /\ stay[s].state # "CONFIRMED" /\ Night(s, d) \notin lines
    BY <1>1 DEF Slept, Covers, Charged, Night
  <2>2. Night(s, d) \notin line \cup Charges(d)
    BY <1>4, <2>1
  <2>3. stay[s].state \in Occupied
    BY <2>1 DEF IInv, Rows, Booking, Occupied
  <2>4. s \in Short(d)
    BY <2>1, <2>2, <2>3 DEF Short
  <2> QED BY <2>4 DEF Closable
<1>8. \A d \in closed : {l \in lines \ late : l.date = d} = {l \in lines : l.date = d}
                      /\ {c \in correction \ late : c.date = d}
                           = {c \in correction : c.date = d}
  BY <1>4 DEF IInv, LateRowsAreOfFrozenDays
<1> HIDE DEF days, nights, closed
<1>9. FrozenNightsAreCharged'
  <2> SUFFICES ASSUME NEW d \in Frozen' \ reopened', NEW s \in Stays, Slept(s, d)'
               PROVE  Charged(s, d)' \/ <<s, d>> \in missed'
    BY DEF FrozenNightsAreCharged
  <2>1. CASE d \in closed
    BY <1>7, <2>1
  <2>2. CASE d \in Frozen \ reopened
    <3>1. Slept(s, d)
      BY <1>1, <1>2 DEF Slept, Covers
    <3>2. Charged(s, d) \/ <<s, d>> \in missed
      BY <2>2, <3>1 DEF IInv, FrozenNightsAreCharged
    <3> QED BY <1>1, <3>2 DEF Charged, Night
  <2> QED BY <1>1, <1>6, <2>1, <2>2
<1>10. FrozenFiguresStand'
  <2> SUFFICES ASSUME NEW d \in Frozen' \ reopened'
               PROVE  snapshot'[d] = Figures(d, line' \ late', correction' \ late')
    <3>1. \A d : Figures(d, line \ late, correction \ late)'
                  = Figures(d, line' \ late', correction' \ late')
      BY DEF Figures, Undone, IsRoom
    <3> QED BY <3>1 DEF FrozenFiguresStand
  <2>1. CASE d \in closed
    <3>1. snapshot'[d] = Figures(d, lines, correction)
      <4> HIDE DEF lines
      <4> QED BY <1>1, <2>1
    <3>2. /\ {l \in lines : l.date = d} = {l \in lines \ late : l.date = d}
          /\ {c \in correction : c.date = d} = {c \in correction \ late : c.date = d}
      BY <1>8, <2>1
    <3>3. Figures(d, lines, correction) = Figures(d, lines \ late, correction \ late)
      <4> HIDE DEF lines
      <4> QED BY <3>2, FiguresAreOfTheirDay
    <3> QED BY <1>1, <3>1, <3>3
  <2>2. CASE d \in Frozen \ reopened /\ d \notin closed
    <3>1. snapshot'[d] = snapshot[d]
      BY <1>1, <2>2
    <3>2. snapshot[d] = Figures(d, line \ late, correction \ late)
      BY <2>2 DEF IInv, FrozenFiguresStand
    <3>3. d \notin days
      BY <1>4, <2>2
    <3>4. {l \in line \ late : l.date = d} = {l \in lines \ late : l.date = d}
      BY <1>5, <3>3
    <3>5. Figures(d, line \ late, correction \ late)
          = Figures(d, lines \ late, correction \ late)
      <4> HIDE DEF lines
      <4> QED BY <3>4, FiguresAreOfTheirDay
    <3> QED BY <1>1, <3>1, <3>2, <3>5
  <2> QED BY <1>1, <1>6, <2>1, <2>2
<1>11. Past'
  <2> SUFFICES ASSUME NEW d \in Frozen' \ reopened' PROVE d < Today'
    BY DEF Past
  <2>1. CASE d \in closed
    <3>1. d \in Int /\ d <= on - 1 /\ (on > Today => ~(d >= Today))
      BY <1>1, <1>4, <2>1
    <3>2. \A t \in Int : (on > t => ~(d >= t)) => d < t
      BY <1>2, <3>1
    <3> QED BY <1>2, <3>1, <3>2
  <2>2. CASE d \in Frozen \ reopened
    BY <1>2, <2>2 DEF IInv, Past
  <2> QED BY <1>1, <1>6, <2>1, <2>2
<1>12. Rows' /\ Begun' /\ Told' /\ LateRowsAreOfFrozenDays'
  <2>1. Rows'
    <3>1. lines \subseteq Sold
      BY <1>5 DEF IInv, Rows
    <3>2. Frozen' \subseteq Dates
      BY <1>4, <1>6 DEF IInv, Rows
    <3>3. reopened' \subseteq Int
      BY <1>1, <1>4 DEF IInv, Rows
    <3> HIDE DEF lines
    <3> QED BY <1>1, <3>1, <3>2, <3>3 DEF IInv, Rows, DayTypeOK, Frozen
  <2>2. Begun' /\ Told'
    BY <1>1 DEF IInv, Begun, Told
  <2>3. LateRowsAreOfFrozenDays'
    BY <1>1, <1>6 DEF IInv, LateRowsAreOfFrozenDays
  <2> QED BY <2>1, <2>2, <2>3
<1> QED BY <1>9, <1>10, <1>11, <1>12 DEF IInv
-----------------------------------------------------------------------------
LEMMA Initially ==
  ASSUME Init
  PROVE  IInv
<1>1. /\ clock = 0 /\ rolloverHour \in Rollovers /\ line = {} /\ correction = {}
      /\ late = {} /\ reopened = {} /\ act = Idle
      /\ stay = [s \in Stays |-> [state |-> "CONFIRMED", departs |-> Departure[s],
                                  read |-> NoDate, came |-> -1, left |-> -1]]
      /\ Frozen = {}
  BY DEF Init, DayInit, Frozen
<1>2. Rows
  BY <1>1, LastInstantAssumption, StaysAssumption DEF Rows, DayTypeOK, Booking, NoDate
<1>3. Begun /\ Past /\ Told /\ LateRowsAreOfFrozenDays
  BY <1>1 DEF Begun, Past, Told, LateRowsAreOfFrozenDays
<1>4. FrozenFiguresStand /\ FrozenNightsAreCharged
  BY <1>1 DEF FrozenFiguresStand, FrozenNightsAreCharged
<1> QED BY <1>2, <1>3, <1>4 DEF IInv

LEMMA Steps ==
  ASSUME IInv, [Next]_vars
  PROVE  IInv'
<1>1. CASE UNCHANGED vars
  <2>1. UNCHANGED <<clock, rolloverHour, stay, agreed, line, correction, act, acts,
                    snapshot, late, missed, reopened>>
    BY <1>1 DEF vars
  <2>2. Rows' /\ Begun' /\ Told' /\ LateRowsAreOfFrozenDays' /\ Past'
    BY <2>1 DEF IInv, Rows, Begun, Told, LateRowsAreOfFrozenDays, Past, DayTypeOK,
                Frozen, Today
  <2>3. FrozenNightsAreCharged' /\ FrozenFiguresStand'
    BY <2>1, NightsKept, FiguresKept
  <2> QED BY <2>2, <2>3 DEF IInv
<1>2. CASE TimePasses \/ EditHour
  BY <1>2, DaySteps
<1>3. ASSUME NEW s \in Stays, GuestStep(s)
      PROVE  IInv'
  BY <1>3, GuestSteps
<1>4. CASE BeginAct
  BY <1>4, BeginSteps
<1>5. CASE CommitAct
  BY <1>5, CommitSteps
<1>6. ASSUME NEW d \in Named \cup {Today}, SweepNight(d)
      PROVE  IInv'
  BY <1>6, SweepSteps
<1>7. ASSUME NEW d \in Named \cup {Today}, Audit(d)
      PROVE  IInv'
  BY <1>7, AuditSteps
<1> QED BY <1>1, <1>2, <1>3, <1>4, <1>5, <1>6, <1>7 DEF Next, GuestStep

(* What holds of every reachable state: the rows' types, and that a frozen day
   nobody traded on again is over.                                            *)
THEOREM Invariance == Spec => []IInv
<1>1. Init => IInv
  BY Initially
<1>2. IInv /\ [Next]_vars => IInv'
  BY Steps
<1> QED BY <1>1, <1>2, PTL DEF Spec

(* The figures the audit froze for a day are what its ledger comes to for good,
   but for the rows that were on their way or recovered by hand, whatever the
   desk, the sweeps and the edits of the hour do afterwards.                  *)
THEOREM FiguresCorrect == Spec => []FrozenFiguresStand
<1>1. IInv => FrozenFiguresStand
  BY DEF IInv
<1> QED BY <1>1, Invariance, PTL

(* No day is frozen without the charge of a guest who slept there, but for the
   nights added to a stay when they were frozen already: by an extension of it
   after the date, or by a check-in that was on its way.                      *)
THEOREM NightsCorrect == Spec => []FrozenNightsAreCharged
<1>1. IInv => FrozenNightsAreCharged
  BY DEF IInv
<1> QED BY <1>1, Invariance, PTL

(* Every open day behind the first that was closed is in the page.            *)
LEMMA OpenDaysAreBehindTheFirst ==
  ASSUME Rows
  PROVE  OpenDaysArePagedAbout
<1> SUFFICES ASSUME NEW d \in Dates \ Frozen, d < Today,
                    clock >= StartOf(Today) + Grace,
                    d = Today - 1 \/ \E e \in Frozen : e < d
             PROVE  d \in Pages
  BY DEF OpenDaysArePagedAbout
<1>1. clock \in Nat /\ rolloverHour \in Int /\ Today \in Int
  BY HoursAreNumbers
<1>2. \A e \in Dates : e \in Int /\ e >= -1
  <2>1. LastInstant \div SlotsPerDay \in Nat
    BY LastInstantAssumption, SlotsAssumption, Division
  <2> QED BY <2>1 DEF Dates
<1>3. Frozen \subseteq Dates
  BY DEF Rows
<1>4. ~InGrace
  <2>1. StartOf(Today) \in Int
    BY <1>1, SlotsAssumption DEF StartOf
  <2>2. ~(clock < StartOf(Today) + Grace)
    BY <1>1, <2>1, AuditAssumption
  <2> QED BY <2>2 DEF InGrace
<1>5. Earliest \in Int /\ Earliest <= d
  <2>1. CASE \E e \in Frozen : e < Today
    <3>1. PICK m \in Frozen : \A e \in Frozen : m <= e
      BY <1>2, <1>3, <2>1, OldestDate
    <3>2. Earliest = CHOOSE f \in Frozen : \A e \in Frozen : f <= e
      BY <2>1 DEF Earliest
    <3>3. Earliest \in Frozen /\ \A e \in Frozen : Earliest <= e
      BY <3>1, <3>2
    <3>4. Earliest \in Int /\ \A e \in Frozen : e \in Int
      BY <1>2, <1>3, <3>3
    <3> HIDE DEF Earliest
    <3>5. CASE d = Today - 1
      BY <1>1, <2>1, <3>3, <3>4, <3>5
    <3>6. CASE \E e \in Frozen : e < d
      BY <1>2, <3>3, <3>4, <3>6
    <3> QED BY <3>4, <3>5, <3>6
  <2>2. CASE ~\E e \in Frozen : e < Today
    <3>1. Earliest = Today - 1
      BY <2>2 DEF Earliest
    <3>2. d = Today - 1
      BY <1>1, <1>2, <1>3, <2>2
    <3> QED BY <1>1, <3>1, <3>2
  <2> QED BY <2>1, <2>2
<1>6. d \in Unclosed
  BY <1>1, <1>2, <1>5 DEF Unclosed
<1> QED BY <1>4, <1>6 DEF Pages

(* The watchdog's page names every open day behind the first that was closed,
   past the grace of the morning.                                             *)
THEOREM PagesCorrect == Spec => []OpenDaysArePagedAbout
<1>1. IInv => OpenDaysArePagedAbout
  BY OpenDaysAreBehindTheFirst DEF IInv
<1> QED BY <1>1, Invariance, PTL

=============================================================================
