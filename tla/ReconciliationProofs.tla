------------------------ MODULE ReconciliationProofs ------------------------
(* What a reconciled day is worth, proved for any number of attempts, days,
   refusals, rollbacks and rollover hours.

   A run holds the hour it read against a clock and an hour that go on. The
   argument is that a day a run has taken up is never the date again without
   being remembered as reopened (TakenUpDaysAreOver), so that what is settled
   later falls outside the day, and what was settled before can be dated anew by
   an edit of the hour alone.                                                 *)
EXTENDS Reconciliation, FiniteSetTheorems, WellFoundedInduction, TLAPS

-----------------------------------------------------------------------------
(* The day: the date never goes back while the hour stays, an edit of the hour
   moves it by one day at the most, and a set of dates has an oldest one.     *)

(* Division of instants into days, for the provers.                           *)
LEMMA Division ==
  ASSUME NEW x \in Nat
  PROVE  /\ x \div SlotsPerDay \in Nat /\ x % SlotsPerDay \in 0 .. SlotsPerDay - 1
         /\ x = SlotsPerDay * (x \div SlotsPerDay) + (x % SlotsPerDay)
BY SlotsAssumption

(* businessDateAt goes forward with the clock.                                *)
LEMMA DateMonotone ==
  ASSUME NEW x \in Nat, NEW y \in Nat, x <= y, NEW h \in Int
  PROVE  /\ DateAt(x, h) \in Int /\ DateAt(x, h) <= DateAt(y, h)
         /\ x \div SlotsPerDay <= y \div SlotsPerDay
<1> DEFINE n == SlotsPerDay
           p == x \div n
           r == x % n
           q == y \div n
           s == y % n
<1>1. /\ n \in Nat \ {0} /\ p \in Nat /\ r \in 0 .. n-1 /\ x = n * p + r
      /\ q \in Nat /\ s \in 0 .. n-1 /\ y = n * q + s
  BY SlotsAssumption, Division
<1>2. DateAt(x, h) = p - (IF r < h THEN 1 ELSE 0) /\ DateAt(y, h) = q - (IF s < h THEN 1 ELSE 0)
  BY DEF DateAt
<1> SUFFICES DateAt(x, h) \in Int /\ DateAt(x, h) <= DateAt(y, h) /\ p <= q
  OBVIOUS
<1> HIDE DEF n, p, q, r, s
<1>3. ~ (q < p)
  <2>1. ASSUME q < p PROVE n * q + n <= n * p
    <3>1. p - q - 1 \in Nat /\ n * (p - q - 1) >= 0
      BY <1>1, <2>1
    <3> QED BY <1>1, <3>1
  <2> QED BY <1>1, <2>1
<1>4. p = q => r <= s
  BY <1>1
<1> QED BY <1>1, <1>2, <1>3, <1>4

(* An edit of the hour takes the date back or forward a day, or not at all.   *)
LEMMA HourMovesADay ==
  ASSUME NEW x \in Nat, NEW g \in Int, NEW h \in Int
  PROVE  /\ DateAt(x, g) \in Int /\ DateAt(x, h) \in Int
         /\ DateAt(x, g) <= DateAt(x, h) + 1
         /\ DateAt(x, g) \in (x \div SlotsPerDay) - 1 .. x \div SlotsPerDay
         /\ x \div SlotsPerDay \in Nat
<1>1. PICK p \in Nat : p = x \div SlotsPerDay
  BY Division
<1>2. \A k \in Int : DateAt(x, k) = p \/ DateAt(x, k) = p - 1
  BY <1>1 DEF DateAt
<1>3. DateAt(x, g) \in {p - 1, p} /\ DateAt(x, h) \in {p - 1, p}
  BY <1>2
<1> QED BY <1>1, <1>3

(* Dates start on the day before the first instant, so there is an oldest.    *)
LEMMA OldestDate ==
  ASSUME NEW S, \A d \in S : d \in Int /\ d >= -1, S # {}
  PROVE  \E m \in S : \A k \in S : m <= k
<1> DEFINE Below == OpToRel(<, Nat)
           T == {d + 1 : d \in S}
<1>1. IsWellFoundedOn(Below, Nat)
  BY NatLessThanWellFounded
<1>2. \A x, y \in Nat : x < y => <<x, y>> \in Below
  BY DEF OpToRel
<1>3. T \in SUBSET Nat /\ T # {}
  OBVIOUS
<1>4. \E m \in T : \A k \in T : ~(<<k, m>> \in Below)
  <2> HIDE DEF Below, T
  <2> QED BY <1>1, <1>3, WFMin
<1> HIDE DEF Below
<1>5. PICK m \in S : \A k \in S : ~(<<k + 1, m + 1>> \in Below)
  BY <1>4
<1>6. ASSUME NEW k \in S, ~(m <= k) PROVE FALSE
  <2>1. k + 1 \in Nat /\ m + 1 \in Nat /\ k + 1 < m + 1
    BY <1>6
  <2> QED BY <1>2, <1>5, <2>1
<1> QED BY <1>6

-----------------------------------------------------------------------------

Lines == [date : Int, of : Attempts, kind : {"MISSING_LOCALLY", "MISSING_AT_GATEWAY"}]

Runs ==
  [step : {"IDLE", "RULE", "NIGHT", "COMPARE"}, today : Int, first : Int, hour : Int,
   left : SUBSET Dates, report : SUBSET Attempts, done : SUBSET Dates,
   unfinished : SUBSET Dates,
   rows : SUBSET Lines, seen : SUBSET Attempts]

Tables ==
  /\ DayTypeOK
  /\ status \in [Attempts -> {"NONE", "PENDING", "SUCCESS", "FAILED"}]
  /\ openedAt \in [Attempts -> Nat \cup {Never}]
  /\ settledAt \in [Attempts -> Nat \cup {Never}]
  /\ run \in Runs

Recorded ==
  \A a \in Attempts : /\ status[a] = "SUCCESS" => Settled(a)
                      /\ Settled(a) => status[a] # "NONE"

(* The date only goes forward on the hour a run read first, and its days were
   over then.                                                                 *)
Started ==
  run.step # "IDLE" => /\ run.today <= DateAt(clock, run.first)
                       /\ \A d \in run.left : d < run.today

Comparing ==
  run.step = "COMPARE" =>
    /\ run.left # {}
    /\ \A a \in run.report : Settled(a) /\ DateAt(settledAt[a], run.hour) = Oldest
    /\ run.first = run.hour =>
         \A a \in Attempts : Settled(a) /\ DateAt(settledAt[a], run.hour) = Oldest
                               /\ AskedAbout(a, Oldest)
                               => a \in run.report

TakenUp == reconciled \cup run.left \cup run.done

TakenUpDaysAreOver == Today \in TakenUp => Today \in reopened

(* Money of the given days is among the given attempts, or an edit displaced it. *)
Accounted(days, attempts) ==
  \A a \in Attempts : Settled(a) /\ DayOf(a) \in days => a \in attempts \/ Displaced(a)

DatedAlike == {a \in Attempts : DateAt(settledAt[a], run.hour) = DayOf(a)}

Accounts ==
  /\ Accounted(reconciled, compared)
  /\ Accounted(run.done, run.seen)
  /\ run.step = "COMPARE" => Accounted({Oldest}, run.report)
  /\ run.step \in {"NIGHT", "COMPARE"} => Accounted(run.left, DatedAlike)

IInv ==
  /\ Tables /\ Recorded /\ Started /\ Comparing /\ TakenUpDaysAreOver
  /\ Accounts
-----------------------------------------------------------------------------
LEMMA HoursAreNumbers ==
  ASSUME Tables
  PROVE  /\ clock \in Nat /\ rolloverHour \in Int /\ Rollovers \subseteq Int
         /\ Today \in Int
<1>1. clock \in Nat /\ rolloverHour \in Int /\ Rollovers \subseteq Int
  BY SlotsAssumption, RolloversAssumption, LastInstantAssumption DEF Tables, DayTypeOK
<1>2. DateAt(clock, rolloverHour) \in Int
  BY <1>1, HourMovesADay
<1> QED BY <1>1, <1>2 DEF Today

LEMMA DatesAreNumbers == \A d \in Dates : d \in Int /\ d >= -1
<1>1. LastInstant \div SlotsPerDay \in Nat
  BY LastInstantAssumption, SlotsAssumption, Division
<1> QED BY <1>1 DEF Dates

(* The day a run is at is one of those it has left.                           *)
LEMMA OldestIsLeft ==
  ASSUME Tables, run.left # {}
  PROVE  Oldest \in run.left /\ Oldest \in Dates
<1>1. run.left \subseteq Dates
  BY DEF Tables, Runs
<1>2. PICK m \in run.left : \A k \in run.left : m <= k
  <2>1. \A d \in run.left : d \in Int /\ d >= -1
    BY <1>1, DatesAreNumbers
  <2> QED BY <2>1, OldestDate
<1> QED BY <1>1, <1>2 DEF Oldest

(* Steps outside a run. Money on a day that was taken up is dated as it was, or
   an edit of the hour displaced it.                                          *)
Outside ==
  \/ TimePasses \/ EditHour
  \/ \E a \in Attempts : OpenAttempt(a) \/ Settle(a) \/ Callback(a)

LEMMA OutsideKeeps ==
  ASSUME IInv, Outside
  PROVE  /\ run' = run /\ reconciled' = reconciled /\ compared' = compared
         /\ filed' = filed /\ aborts' = aborts
         /\ moved \subseteq moved' /\ reopened \subseteq reopened'
         /\ clock' \in Nat /\ clock <= clock' /\ DayTypeOK'
<1>1. clock \in Nat /\ rolloverHour \in Int
  BY HoursAreNumbers DEF IInv
<1>2. CASE TimePasses
  BY <1>1, <1>2, LastInstantAssumption
     DEF TimePasses, Tick, Reopen, looked, table, IInv, Tables, DayTypeOK
<1>3. CASE EditHour
  BY <1>1, <1>3 DEF EditHour, MoveHour, Reopen, looked, table, IInv, Tables, DayTypeOK
<1>4. CASE \E a \in Attempts : OpenAttempt(a) \/ Settle(a) \/ Callback(a)
  BY <1>1, <1>4 DEF OpenAttempt, Settle, Callback, day, looked, table, IInv, Tables, DayTypeOK
<1> QED BY <1>2, <1>3, <1>4 DEF Outside

LEMMA OutsideDates ==
  ASSUME IInv, Outside, NEW a \in Attempts, Settled(a)', DayOf(a)' \in TakenUp
  PROVE  \/ Displaced(a)'
         \/ Settled(a) /\ settledAt'[a] = settledAt[a] /\ DayOf(a)' = DayOf(a)
<1>1. CASE TimePasses
  BY <1>1 DEF TimePasses, Tick, table, DayOf, Settled
<1>2. CASE EditHour
  <2>1. PICK h \in Rollovers :
          /\ rolloverHour' = h /\ settledAt' = settledAt
          /\ moved' = moved \cup {b \in Attempts : Settled(b)
               /\ DateAt(settledAt[b], h) # DateAt(settledAt[b], rolloverHour)}
    BY <1>2 DEF EditHour, MoveHour, table
  <2>2. Settled(a)
    BY <2>1 DEF Settled
  <2>3. CASE DateAt(settledAt[a], h) # DateAt(settledAt[a], rolloverHour)
    BY <2>1, <2>2, <2>3 DEF Displaced
  <2>4. CASE DateAt(settledAt[a], h) = DateAt(settledAt[a], rolloverHour)
    BY <2>1, <2>2, <2>4 DEF DayOf
  <2> QED BY <2>3, <2>4
<1>3. CASE \E b \in Attempts : OpenAttempt(b) \/ Callback(b)
  BY <1>3 DEF OpenAttempt, Callback, day, DayOf, Settled
<1>4. ASSUME NEW b \in Attempts, Settle(b)
      PROVE  \/ Displaced(a)'
             \/ Settled(a) /\ settledAt'[a] = settledAt[a] /\ DayOf(a)' = DayOf(a)
  <2>1. /\ settledAt' = [settledAt EXCEPT ![b] = clock]
        /\ rolloverHour' = rolloverHour /\ clock' = clock /\ reopened' = reopened
    BY <1>4 DEF Settle, day
  <2>2. CASE a # b
    BY <2>1, <2>2 DEF DayOf, Settled
  <2>3. CASE a = b
    <3>1. settledAt'[a] = clock
      BY <2>1, <2>3 DEF IInv, Tables
    <3>2. DayOf(a)' = Today
      BY <2>1, <3>1 DEF DayOf, Today
    <3>3. DayOf(a)' \in reopened'
      BY <2>1, <3>2 DEF IInv, TakenUpDaysAreOver
    <3> QED BY <3>3 DEF Displaced
  <2> QED BY <2>2, <2>3
<1> QED BY <1>1, <1>2, <1>3, <1>4 DEF Outside

(* Money is settled once, at the instant it is.                               *)
LEMMA OutsideMoney ==
  ASSUME IInv, Outside
  PROVE  /\ Tables' /\ Recorded'
         /\ \A a \in Attempts :
              /\ Settled(a) => settledAt'[a] = settledAt[a] /\ Settled(a)'
                               /\ openedAt'[a] = openedAt[a]
              /\ Settled(a)' /\ ~Settled(a) => settledAt'[a] = clock
<1>1. /\ status \in [Attempts -> {"NONE", "PENDING", "SUCCESS", "FAILED"}]
      /\ openedAt \in [Attempts -> Nat \cup {Never}]
      /\ settledAt \in [Attempts -> Nat \cup {Never}] /\ run \in Runs
      /\ clock \in Nat /\ clock # Never
  BY HoursAreNumbers, NeverAssumption DEF IInv, Tables
<1>2. DayTypeOK' /\ run' = run
  BY OutsideKeeps
<1>3. CASE TimePasses \/ EditHour
  <2>1. UNCHANGED table
    BY <1>3 DEF TimePasses, EditHour
  <2> QED BY <1>1, <1>2, <2>1 DEF table, Tables, Recorded, Settled, IInv
<1>4. ASSUME NEW b \in Attempts, OpenAttempt(b) \/ Callback(b)
      PROVE  /\ Tables' /\ Recorded'
             /\ \A a \in Attempts :
                  /\ Settled(a) => settledAt'[a] = settledAt[a] /\ Settled(a)'
                                   /\ openedAt'[a] = openedAt[a]
                  /\ Settled(a)' /\ ~Settled(a) => settledAt'[a] = clock
  <2>1. settledAt' = settledAt
    BY <1>4 DEF OpenAttempt, Callback
  <2>2. status' \in [Attempts -> {"NONE", "PENDING", "SUCCESS", "FAILED"}]
    BY <1>1, <1>4 DEF OpenAttempt, Callback
  <2>3. \A a \in Attempts : /\ status'[a] = "SUCCESS" => status[a] = "SUCCESS" \/ Settled(a)
                            /\ status'[a] = "NONE" => status[a] = "NONE"
    BY <1>1, <1>4 DEF OpenAttempt, Callback
  <2>4. openedAt' \in [Attempts -> Nat \cup {Never}]
    BY <1>1, <1>4 DEF OpenAttempt, Callback
  <2>5. \A a \in Attempts : Settled(a) => openedAt'[a] = openedAt[a]
    BY <1>1, <1>4 DEF OpenAttempt, Callback, Recorded, IInv
  <2> QED BY <1>1, <1>2, <2>1, <2>2, <2>3, <2>4, <2>5 DEF Tables, Recorded, Settled, IInv
<1>5. ASSUME NEW b \in Attempts, Settle(b)
      PROVE  /\ Tables' /\ Recorded'
             /\ \A a \in Attempts :
                  /\ Settled(a) => settledAt'[a] = settledAt[a] /\ Settled(a)'
                                   /\ openedAt'[a] = openedAt[a]
                  /\ Settled(a)' /\ ~Settled(a) => settledAt'[a] = clock
  <2>1. settledAt' = [settledAt EXCEPT ![b] = clock] /\ status' = status /\ ~Settled(b)
        /\ openedAt' = openedAt /\ status[b] # "NONE"
    BY <1>5 DEF Settle
  <2>2. \A a \in Attempts : settledAt'[a] = IF a = b THEN clock ELSE settledAt[a]
    BY <1>1, <2>1
  <2>3. settledAt' \in [Attempts -> Nat \cup {Never}]
    BY <1>1, <2>1
  <2> QED BY <1>1, <1>2, <2>1, <2>2, <2>3 DEF Tables, Recorded, Settled, IInv
<1> QED BY <1>3, <1>4, <1>5 DEF Outside

LEMMA OutsideSteps ==
  ASSUME IInv, Outside
  PROVE  IInv'
<1>1. /\ run' = run /\ reconciled' = reconciled /\ compared' = compared
      /\ moved \subseteq moved' /\ reopened \subseteq reopened'
      /\ clock' \in Nat /\ clock <= clock' /\ clock \in Nat
  BY OutsideKeeps, HoursAreNumbers DEF IInv
<1>2. /\ Tables' /\ Recorded'
      /\ \A a \in Attempts :
           /\ Settled(a) => settledAt'[a] = settledAt[a] /\ Settled(a)'
                            /\ openedAt'[a] = openedAt[a]
           /\ Settled(a)' /\ ~Settled(a) => settledAt'[a] = clock
  BY OutsideMoney
<1>3. run \in Runs /\ Oldest' = Oldest /\ TakenUp' = TakenUp
  BY <1>1 DEF IInv, Tables, Oldest, TakenUp
<1>4. Started'
  <2> SUFFICES ASSUME run.step # "IDLE"
               PROVE  /\ run.today <= DateAt(clock', run.first)
                      /\ \A d \in run.left : d < run.today
    BY <1>1 DEF Started, DateAt
  <2>1. run.today <= DateAt(clock, run.first) /\ \A d \in run.left : d < run.today
    BY DEF IInv, Started
  <2>2. run.today \in Int /\ run.first \in Int
    BY <1>3 DEF Runs
  <2>3. PICK n : n = clock'
    OBVIOUS
  <2>4. DateAt(clock, run.first) <= DateAt(n, run.first)
        /\ DateAt(clock, run.first) \in Int /\ DateAt(n, run.first) \in Int
    BY <1>1, <2>2, <2>3, DateMonotone
  <2> QED BY <2>1, <2>2, <2>3, <2>4
<1>5. Comparing'
  <2> SUFFICES ASSUME run.step = "COMPARE"
               PROVE  /\ run.left # {}
                      /\ \A a \in run.report :
                           Settled(a)' /\ DateAt(settledAt'[a], run.hour) = Oldest
                      /\ run.first = run.hour =>
                           \A a \in Attempts :
                             Settled(a)' /\ DateAt(settledAt'[a], run.hour) = Oldest
                             /\ AskedAbout(a, Oldest)'
                               => a \in run.report
    BY <1>1, <1>3 DEF Comparing, DateAt
  <2>1. /\ run.left # {}
        /\ \A a \in run.report : Settled(a) /\ DateAt(settledAt[a], run.hour) = Oldest
        /\ run.first = run.hour =>
             \A a \in Attempts : Settled(a) /\ DateAt(settledAt[a], run.hour) = Oldest
                                 /\ AskedAbout(a, Oldest) => a \in run.report
    BY DEF IInv, Comparing
  <2>2. \A a \in run.report : Settled(a)' /\ DateAt(settledAt'[a], run.hour) = Oldest
    BY <1>2, <1>3, <2>1 DEF Runs
  <2>3. ASSUME run.first = run.hour, NEW a \in Attempts, Settled(a)',
               DateAt(settledAt'[a], run.hour) = Oldest, AskedAbout(a, Oldest)'
        PROVE  a \in run.report
    <3>1. CASE Settled(a)
      <4>1. AskedAbout(a, Oldest)
        BY <1>2, <1>3, <2>3, <3>1 DEF AskedAbout
      <4> QED BY <1>2, <2>1, <2>3, <3>1, <4>1
    <3>2. CASE ~Settled(a)
      <4>1. DateAt(clock, run.hour) = Oldest
        BY <1>2, <2>3, <3>2
      <4>2. Oldest \in run.left /\ Oldest \in Int
        BY <2>1, OldestIsLeft, DatesAreNumbers DEF IInv
      <4>3. run.today <= Oldest /\ Oldest < run.today /\ run.today \in Int
        BY <1>3, <2>3, <4>1, <4>2 DEF IInv, Started, Runs
      <4> QED BY <4>2, <4>3
    <3> QED BY <3>1, <3>2
  <2> QED BY <2>1, <2>2, <2>3
<1>6. TakenUpDaysAreOver'
  <2>1. CASE TimePasses \/ EditHour
    BY <1>1, <1>3, <2>1 DEF TimePasses, EditHour, Reopen, TakenUpDaysAreOver, TakenUp
  <2>2. CASE \E a \in Attempts : OpenAttempt(a) \/ Settle(a) \/ Callback(a)
    <3>1. UNCHANGED <<clock, rolloverHour, reopened>>
      BY <2>2 DEF OpenAttempt, Settle, Callback, day
    <3>2. Today' = Today
      BY <3>1 DEF Today
    <3> QED BY <1>3, <3>1, <3>2 DEF IInv, TakenUpDaysAreOver
  <2> QED BY <2>1, <2>2 DEF Outside
<1>7. \A a \in Attempts :
        Settled(a) /\ Displaced(a) /\ DayOf(a)' = DayOf(a) => Displaced(a)'
  <2> SUFFICES ASSUME NEW a \in Attempts, Settled(a), Displaced(a), DayOf(a)' = DayOf(a)
               PROVE  Displaced(a)'
    OBVIOUS
  <2>1. AskedAbout(a, DayOf(a))' <=> AskedAbout(a, DayOf(a))
    BY <1>2 DEF AskedAbout
  <2> QED BY <1>1, <2>1 DEF Displaced
<1>8. ASSUME NEW days, days \subseteq TakenUp, NEW some, Accounted(days, some)
      PROVE  \A a \in Attempts : Settled(a)' /\ DayOf(a)' \in days
                                  => a \in some \/ Displaced(a)'
  <2> SUFFICES ASSUME NEW a \in Attempts, Settled(a)', DayOf(a)' \in days, ~Displaced(a)'
               PROVE  a \in some
    OBVIOUS
  <2>1. Settled(a) /\ DayOf(a)' = DayOf(a)
    BY <1>8, OutsideDates
  <2>2. ~Displaced(a)
    BY <1>7, <2>1
  <2> QED BY <1>8, <2>1, <2>2 DEF Accounted
<1>9. Accounted(reconciled, compared)'
  BY <1>1, <1>8 DEF IInv, Accounts, TakenUp, Accounted
<1>10. Accounted(run.done, run.seen)'
  BY <1>1, <1>8 DEF IInv, Accounts, TakenUp, Accounted
<1>11. (run.step = "COMPARE" => Accounted({Oldest}, run.report))'
  <2> SUFFICES ASSUME run.step = "COMPARE"
               PROVE  Accounted({Oldest}, run.report)'
    BY <1>1
  <2>1. {Oldest} \subseteq TakenUp
    BY OldestIsLeft DEF IInv, Comparing, TakenUp
  <2>2. Accounted({Oldest}, run.report)
    BY DEF IInv, Accounts
  <2> QED BY <1>1, <1>3, <1>8, <2>1, <2>2 DEF Accounted
<1>12. (run.step \in {"NIGHT", "COMPARE"} => Accounted(run.left, DatedAlike))'
  <2> SUFFICES ASSUME run.step \in {"NIGHT", "COMPARE"},
                      NEW a \in Attempts, Settled(a)', DayOf(a)' \in run.left,
                      ~Displaced(a)'
               PROVE  DateAt(settledAt'[a], run.hour) = DayOf(a)'
    BY <1>1 DEF Accounted, DatedAlike, DateAt
  <2>1. Settled(a) /\ settledAt'[a] = settledAt[a] /\ DayOf(a)' = DayOf(a)
    BY OutsideDates DEF TakenUp
  <2>2. ~Displaced(a)
    BY <1>7, <2>1
  <2>3. a \in DatedAlike
    BY <2>1, <2>2 DEF IInv, Accounts, Accounted
  <2> QED BY <2>1, <2>3 DEF DatedAlike
<1>13. Accounts'
  BY <1>9, <1>10, <1>11, <1>12 DEF Accounts
<1> QED BY <1>2, <1>4, <1>5, <1>6, <1>13 DEF IInv
-----------------------------------------------------------------------------
(* The steps of a run write nothing that money is dated by.                   *)
Inside == BeginRun \/ ReadRule \/ Fetch \/ GiveUpNight \/ Compare \/ Commit \/ Abandon

LEMMA InsideKeeps ==
  ASSUME IInv, Inside
  PROVE  /\ UNCHANGED <<clock, rolloverHour, status, openedAt, settledAt, moved>>
         /\ reopened \subseteq reopened' /\ Today' = Today
<1>1. UNCHANGED <<clock, rolloverHour, status, openedAt, settledAt, moved>>
      /\ reopened \subseteq reopened'
  BY DEF Inside, BeginRun, ReadRule, Fetch, GiveUpNight, Compare, Commit, Abandon, day, table
<1> QED BY <1>1 DEF Today

LEMMA InsideAccounts ==
  ASSUME IInv, Inside, NEW days, NEW some, Accounted(days, some)
  PROVE  \A a \in Attempts : Settled(a)' /\ DayOf(a)' \in days => a \in some \/ Displaced(a)'
<1> SUFFICES ASSUME NEW a \in Attempts, Settled(a)', DayOf(a)' \in days, ~Displaced(a)'
             PROVE  a \in some
  OBVIOUS
<1>1. /\ settledAt' = settledAt /\ openedAt' = openedAt
      /\ rolloverHour' = rolloverHour /\ moved' = moved
      /\ reopened \subseteq reopened'
  BY InsideKeeps
<1>2. Settled(a) /\ DayOf(a)' = DayOf(a)
  BY <1>1 DEF Settled, DayOf
<1>3. ~Displaced(a)
  BY <1>1, <1>2 DEF Displaced, AskedAbout
<1> QED BY <1>2, <1>3 DEF Accounted

(* What is left to show of a step of a run.                                   *)
LEMMA InsideInvariant ==
  ASSUME IInv, Inside, run' \in Runs, Started', Comparing', TakenUpDaysAreOver', Accounts'
  PROVE  IInv'
<1>1. Tables' /\ Recorded'
  BY InsideKeeps DEF IInv, Tables, Recorded, DayTypeOK, Settled
<1> QED BY <1>1 DEF IInv

LEMMA OutstandingDaysAreOver ==
  ASSUME NEW today \in Int
  PROVE  \A d \in OutstandingDays(today) : d \in Dates /\ d < today
BY DEF OutstandingDays

(* Beginning, and giving the run up: nothing is taken up, nothing was found.  *)
LEMMA EmptyRuns ==
  ASSUME IInv, BeginRun \/ Abandon
  PROVE  IInv'
<1>1. Inside /\ reconciled' = reconciled /\ compared' = compared /\ reopened' = reopened
  BY DEF Inside, BeginRun, Abandon, looked
<1>2. clock \in Nat /\ rolloverHour \in Int /\ Today \in Int
  BY HoursAreNumbers DEF IInv
<1>3. /\ run' \in Runs /\ run'.step \in {"IDLE", "RULE"} /\ run'.left = {}
      /\ run'.done = {} /\ run'.seen = {}
      /\ run'.step = "RULE" => run'.today = Today /\ run'.first = rolloverHour
  <2>1. CASE BeginRun
    <3>1. run' = [step |-> "RULE", today |-> Today, first |-> rolloverHour, hour |-> 0,
                  left |-> {}, report |-> {}, done |-> {}, unfinished |-> {}, rows |-> {}, seen |-> {}]
      BY <2>1 DEF BeginRun, NoRun
    <3> QED BY <1>2, <3>1 DEF Runs
  <2>2. CASE Abandon
    BY <2>2 DEF Abandon, NoRun, Runs
  <2> QED BY <2>1, <2>2
<1>4. Started'
  <2> SUFFICES ASSUME run'.step = "RULE"
               PROVE  run'.today <= DateAt(clock', run'.first)
    BY <1>3 DEF Started, DateAt
  <2>1. run'.today = Today /\ DateAt(clock', run'.first) = Today
    BY <1>1, <1>3, InsideKeeps DEF Today, DateAt
  <2> QED BY <1>2, <2>1
<1>5. Comparing'
  BY <1>3 DEF Comparing
<1>6. TakenUpDaysAreOver'
  BY <1>1, <1>3, InsideKeeps DEF IInv, TakenUpDaysAreOver, TakenUp
<1>7. Accounts'
  <2>1. Accounted(reconciled, compared)'
    BY <1>1, InsideAccounts DEF IInv, Accounts, Accounted
  <2>2. Accounted(run.done, run.seen)'
    BY <1>3 DEF Accounted
  <2> QED BY <1>3, <2>1, <2>2 DEF Accounts
<1> QED BY <1>1, <1>3, <1>4, <1>5, <1>6, <1>7, InsideInvariant

(* The hour is read after the date: unless it was edited in between, the days
   taken up were over, and if it was, the one that is not is remembered.      *)
LEMMA RuleSteps ==
  ASSUME IInv, ReadRule
  PROVE  IInv'
<1> DEFINE days == OutstandingDays(run.today)
<1>1. /\ run.step = "RULE" /\ Inside /\ reconciled' = reconciled /\ compared' = compared
      /\ run' = [run EXCEPT !.step = "NIGHT", !.hour = rolloverHour, !.left = days]
      /\ reopened' = IF Torn THEN reopened \cup ({Today} \cap days) ELSE reopened
  BY DEF Inside, ReadRule, looked
<1>2. clock \in Nat /\ rolloverHour \in Int /\ Today \in Int /\ run \in Runs
  BY HoursAreNumbers DEF IInv, Tables
<1>3. \A d \in days : d \in Dates /\ d < run.today
  <2>1. run.today \in Int
    BY <1>2 DEF Runs
  <2> QED BY <2>1, OutstandingDaysAreOver
<1> HIDE DEF days
<1>4. /\ run' \in Runs /\ run'.step = "NIGHT" /\ run'.hour = rolloverHour
      /\ run'.left = days /\ run'.today = run.today /\ run'.first = run.first
      /\ run'.done = run.done /\ run'.seen = run.seen
  BY <1>1, <1>2, <1>3 DEF Runs
<1>5. run.today <= DateAt(clock, run.first)
  BY <1>1 DEF IInv, Started
<1>6. Started'
  BY <1>3, <1>4, <1>5, InsideKeeps, <1>1 DEF Started, DateAt
<1>7. Comparing'
  BY <1>4 DEF Comparing
<1>8. TakenUpDaysAreOver'
  <2> SUFFICES ASSUME Today \in reconciled \cup days \cup run.done
               PROVE  Today \in reopened'
    BY <1>1, <1>4, InsideKeeps DEF TakenUpDaysAreOver, TakenUp
  <2>1. CASE Today \in reconciled \cup run.done
    BY <1>1, <2>1 DEF IInv, TakenUpDaysAreOver, TakenUp
  <2>2. CASE Today \in days /\ Torn
    BY <1>1, <2>2
  <2>3. CASE Today \in days /\ ~Torn
    <3>1. run.today <= Today /\ Today < run.today /\ run.today \in Int
      BY <1>2, <1>3, <1>5, <2>3 DEF Torn, Today, Runs
    <3> QED BY <1>2, <3>1
  <2> QED BY <2>1, <2>2, <2>3
<1>9. Accounts'
  <2>1. Accounted(reconciled, compared) /\ Accounted(run.done, run.seen)
    BY DEF IInv, Accounts
  <2>2. Accounted(reconciled, compared)' /\ Accounted(run.done, run.seen)'
    BY <1>1, <1>4, <2>1, InsideAccounts DEF Accounted
  <2>3. Accounted(run.left, DatedAlike)'
    <3>1. \A a \in Attempts : DateAt(settledAt[a], run.hour)' = DayOf(a)'
      BY <1>1, <1>4, InsideKeeps DEF DayOf, DateAt
    <3> QED BY <3>1 DEF Accounted, DatedAlike
  <2> QED BY <1>4, <2>2, <2>3 DEF Accounts
<1> QED BY <1>1, <1>4, <1>6, <1>7, <1>8, <1>9, InsideInvariant

(* What the gateways report of a day is all of it, but for what an edit of the
   hour dated anew.                                                           *)
LEMMA FetchSteps ==
  ASSUME IInv, Fetch
  PROVE  IInv'
<1>1. /\ run.step = "NIGHT" /\ run.left # {} /\ Inside /\ reconciled' = reconciled
      /\ compared' = compared /\ reopened' = reopened
      /\ run' = [run EXCEPT !.step = "COMPARE", !.report = Report(Oldest, run.hour)]
  BY DEF Inside, Fetch, looked
<1>2. run \in Runs /\ Report(Oldest, run.hour) \subseteq Attempts
  BY DEF IInv, Tables, Report
<1>3. /\ run' \in Runs /\ run'.step = "COMPARE" /\ run'.report = Report(Oldest, run.hour)
      /\ run'.left = run.left /\ run'.today = run.today /\ run'.first = run.first
      /\ run'.done = run.done /\ run'.seen = run.seen /\ run'.hour = run.hour
  BY <1>1, <1>2 DEF Runs
<1>4. Oldest' = Oldest
  BY <1>3 DEF Oldest
<1>5. Started'
  BY <1>1, <1>3, InsideKeeps DEF IInv, Started, DateAt
<1>6. Comparing'
  <2>1. settledAt' = settledAt
    BY <1>1, InsideKeeps
  <2>2. \A a \in Attempts :
          (Settled(a) /\ DateAt(settledAt[a], run.hour) = Oldest
             /\ AskedAbout(a, Oldest))' <=> a \in run'.report
    BY <1>1, <1>3, <1>4, <2>1, InsideKeeps DEF Report, DateAt, Settled, AskedAbout
  <2> QED BY <1>1, <1>2, <1>3, <2>2 DEF Comparing
<1>7. TakenUpDaysAreOver'
  BY <1>1, <1>3, InsideKeeps DEF IInv, TakenUpDaysAreOver, TakenUp
<1>8. Accounts'
  <2>1. Accounted(reconciled, compared) /\ Accounted(run.done, run.seen)
    BY DEF IInv, Accounts
  <2>2. Accounted(reconciled, compared)' /\ Accounted(run.done, run.seen)'
    BY <1>1, <1>3, <2>1, InsideAccounts DEF Accounted
  <2>3. Accounted(run.left, DatedAlike)'
    <3>1. Accounted(run.left, DatedAlike)
      BY <1>1 DEF IInv, Accounts
    <3>2. settledAt' = settledAt /\ rolloverHour' = rolloverHour
      BY <1>1, InsideKeeps
    <3>3. \A a \in DatedAlike : DateAt(settledAt[a], run.hour)' = DayOf(a)'
      BY <1>3, <3>2 DEF DatedAlike, DayOf, DateAt
    <3> QED BY <1>1, <1>3, <3>1, <3>3, InsideAccounts DEF Accounted, DatedAlike
  <2>4. Accounted({Oldest}, run.report)'
    <3> SUFFICES ASSUME NEW a \in Attempts, Settled(a), DayOf(a) = Oldest, ~Displaced(a)
                 PROVE  a \in Report(Oldest, run.hour)
      <4>1. Accounted({Oldest}, Report(Oldest, run.hour))
        BY DEF Accounted
      <4> QED BY <1>1, <1>3, <1>4, <4>1, InsideAccounts DEF Accounted
    <3>1. DayOf(a) \in run.left
      BY <1>1, OldestIsLeft DEF IInv
    <3>2. a \in DatedAlike
      BY <1>1, <3>1 DEF IInv, Accounts, Accounted
    <3> QED BY <3>2 DEF DatedAlike, Report, Displaced
  <2> QED BY <1>3, <2>2, <2>3, <2>4 DEF Accounts
<1> QED BY <1>1, <1>3, <1>5, <1>6, <1>7, <1>8, InsideInvariant

(* A night that is refused is taken up by nobody any more.      *)
LEMMA GiveUpSteps ==
  ASSUME IInv, GiveUpNight
  PROVE  IInv'
<1>1. /\ run.step \in {"NIGHT", "COMPARE"} /\ run.left # {} /\ Inside /\ reconciled' = reconciled
      /\ compared' = compared /\ reopened' = reopened
      /\ run' = [run EXCEPT !.step = "NIGHT", !.left = @ \ {Oldest}, !.report = {},
                   !.done = @ \ {Oldest}, !.unfinished = @ \cup {Oldest}]
  BY DEF Inside, GiveUpNight, looked, DoneWithout
<1>2. run \in Runs /\ Oldest \in Dates
  BY <1>1, OldestIsLeft DEF IInv, Tables
<1>3. /\ run' \in Runs /\ run'.step = "NIGHT" /\ run'.left = run.left \ {Oldest}
      /\ run'.today = run.today /\ run'.first = run.first
      /\ run'.done = run.done \ {Oldest} /\ run'.seen = run.seen /\ run'.hour = run.hour
  BY <1>1, <1>2 DEF Runs
<1>4. Started'
  BY <1>1, <1>3, InsideKeeps DEF IInv, Started, DateAt
<1>5. Comparing'
  BY <1>3 DEF Comparing
<1>6. TakenUpDaysAreOver'
  BY <1>1, <1>3, InsideKeeps DEF IInv, TakenUpDaysAreOver, TakenUp
<1>7. Accounts'
  <2>1. Accounted(reconciled, compared) /\ Accounted(run.done, run.seen)
        /\ Accounted(run.left, DatedAlike)
    BY <1>1 DEF IInv, Accounts
  <2>2. Accounted(reconciled, compared)' /\ Accounted(run.done, run.seen)'
    BY <1>1, <1>3, <2>1, InsideAccounts DEF Accounted
  <2>3. Accounted(run.left, DatedAlike)'
    <3>1. settledAt' = settledAt /\ rolloverHour' = rolloverHour
      BY <1>1, InsideKeeps
    <3>2. \A a \in DatedAlike : DateAt(settledAt[a], run.hour)' = DayOf(a)'
      BY <1>3, <3>1 DEF DatedAlike, DayOf, DateAt
    <3> QED BY <1>1, <1>3, <2>1, <3>2, InsideAccounts DEF Accounted, DatedAlike
  <2> QED BY <1>3, <2>2, <2>3 DEF Accounts
<1> QED BY <1>1, <1>3, <1>4, <1>5, <1>6, <1>7, InsideInvariant

(* What was fetched of the day is counted as looked at with the day.          *)
LEMMA CompareSteps ==
  ASSUME IInv, Compare
  PROVE  IInv'
<1> DEFINE found == Discrepancies(Oldest, run.report, Ledger(Oldest, run.hour))
<1>1. /\ run.step = "COMPARE" /\ Inside /\ reconciled' = reconciled
      /\ compared' = compared /\ reopened' = reopened
      /\ run' = [run EXCEPT !.step = "NIGHT", !.left = @ \ {Oldest}, !.report = {},
                   !.done = @ \cup {Oldest}, !.seen = @ \cup run.report,
                   !.rows = @ \cup found]
  BY DEF Inside, Compare, looked
<1>2. run \in Runs /\ Oldest \in run.left /\ Oldest \in Dates /\ Oldest \in Int
  BY <1>1, OldestIsLeft, DatesAreNumbers DEF IInv, Tables, Comparing
<1>3. found \subseteq Lines
  <2>1. run.report \subseteq Attempts /\ Ledger(Oldest, run.hour) \subseteq Attempts
    BY <1>2 DEF Runs, Ledger
  <2> QED BY <1>2, <2>1 DEF Discrepancies, Lines
<1> HIDE DEF found
<1>4. /\ run' \in Runs /\ run'.step = "NIGHT" /\ run'.left = run.left \ {Oldest}
      /\ run'.today = run.today /\ run'.first = run.first
      /\ run'.done = run.done \cup {Oldest} /\ run'.seen = run.seen \cup run.report
      /\ run'.hour = run.hour
  BY <1>1, <1>2, <1>3 DEF Runs
<1>5. Started'
  BY <1>1, <1>4, InsideKeeps DEF IInv, Started, DateAt
<1>6. Comparing'
  BY <1>4 DEF Comparing
<1>7. TakenUpDaysAreOver'
  BY <1>1, <1>2, <1>4, InsideKeeps DEF IInv, TakenUpDaysAreOver, TakenUp
<1>8. Accounts'
  <2>1. Accounted(reconciled, compared) /\ Accounted(run.done, run.seen)
        /\ Accounted({Oldest}, run.report) /\ Accounted(run.left, DatedAlike)
    BY <1>1 DEF IInv, Accounts
  <2>2. Accounted(reconciled, compared)'
    BY <1>1, <1>4, <2>1, InsideAccounts DEF Accounted
  <2>3. Accounted(run.done \cup {Oldest}, run.seen \cup run.report)
    BY <2>1 DEF Accounted
  <2>4. Accounted(run.done, run.seen)'
    BY <1>1, <1>4, <2>3, InsideAccounts DEF Accounted
  <2>5. Accounted(run.left, DatedAlike)'
    <3>1. settledAt' = settledAt /\ rolloverHour' = rolloverHour
      BY <1>1, InsideKeeps
    <3>2. \A a \in DatedAlike : DateAt(settledAt[a], run.hour)' = DayOf(a)'
      BY <1>4, <3>1 DEF DatedAlike, DayOf, DateAt
    <3> QED BY <1>1, <1>4, <2>1, <3>2, InsideAccounts DEF Accounted, DatedAlike
  <2> QED BY <1>4, <2>2, <2>4, <2>5 DEF Accounts
<1> QED BY <1>1, <1>4, <1>5, <1>6, <1>7, <1>8, InsideInvariant

LEMMA CommitSteps ==
  ASSUME IInv, Commit
  PROVE  IInv'
<1>1. /\ Inside /\ run' = NoRun /\ reopened' = reopened
      /\ reconciled' = reconciled \cup run.done /\ compared' = compared \cup run.seen
  BY DEF Inside, Commit
<1>2. run' \in Runs /\ run'.step = "IDLE" /\ run'.left = {} /\ run'.done = {}
      /\ run'.seen = {}
  BY <1>1 DEF NoRun, Runs
<1>3. Started' /\ Comparing'
  BY <1>2 DEF Started, Comparing
<1>4. TakenUpDaysAreOver'
  BY <1>1, <1>2, InsideKeeps DEF IInv, TakenUpDaysAreOver, TakenUp
<1>5. Accounts'
  <2>1. Accounted(reconciled, compared) /\ Accounted(run.done, run.seen)
    BY DEF IInv, Accounts
  <2>2. Accounted(reconciled \cup run.done, compared \cup run.seen)
    BY <2>1 DEF Accounted
  <2>3. Accounted(reconciled, compared)'
    BY <1>1, <2>2, InsideAccounts DEF Accounted
  <2>4. Accounted(run.done, run.seen)'
    BY <1>2 DEF Accounted
  <2> QED BY <1>2, <2>3, <2>4 DEF Accounts
<1> QED BY <1>1, <1>2, <1>3, <1>4, <1>5, InsideInvariant
-----------------------------------------------------------------------------
LEMMA Initially ==
  ASSUME Init
  PROVE  IInv
<1>1. /\ clock = 0 /\ rolloverHour \in Rollovers /\ reconciled = {} /\ compared = {}
      /\ status = [a \in Attempts |-> "NONE"]
      /\ openedAt = [a \in Attempts |-> Never]
      /\ settledAt = [a \in Attempts |-> Never]
      /\ run = [step |-> "IDLE", today |-> 0, first |-> 0, hour |-> 0, left |-> {},
                report |-> {}, done |-> {}, unfinished |-> {}, rows |-> {}, seen |-> {}]
  BY DEF Init, DayInit, NoRun
<1>2. Tables
  <2>1. run \in Runs
    BY <1>1 DEF Runs
  <2> QED BY <1>1, <2>1, LastInstantAssumption, SlotsAssumption DEF Tables, DayTypeOK
<1>3. run.step = "IDLE" /\ run.left = {} /\ run.done = {}
  BY <1>1
<1>4. Recorded /\ Started /\ Comparing /\ TakenUpDaysAreOver
  BY <1>1, <1>3 DEF Recorded, Settled, Started, Comparing, TakenUpDaysAreOver, TakenUp
<1>5. Accounts
  BY <1>1, <1>3 DEF Accounts, Accounted
<1> QED BY <1>2, <1>4, <1>5 DEF IInv

LEMMA Steps ==
  ASSUME IInv, [Next]_vars
  PROVE  IInv'
<1>1. CASE UNCHANGED vars
  <2>1. UNCHANGED <<clock, rolloverHour, status, openedAt, settledAt, reconciled,
                    filed, run, aborts, compared, moved, reopened>>
    BY <1>1 DEF vars
  <2>2. Tables' /\ Recorded' /\ Started' /\ Comparing' /\ TakenUpDaysAreOver'
    BY <2>1 DEF IInv, Tables, Recorded, Started, Comparing, TakenUpDaysAreOver, TakenUp,
                DayTypeOK, Today, Oldest, Settled, DateAt, AskedAbout
  <2>3. Accounts'
    BY <2>1 DEF IInv, Accounts, Accounted, DatedAlike, Oldest, Settled, DayOf, DateAt, Displaced,
                AskedAbout
  <2> QED BY <2>2, <2>3 DEF IInv
<1>2. CASE Outside
  BY <1>2, OutsideSteps
<1>3. CASE BeginRun \/ Abandon
  BY <1>3, EmptyRuns
<1>4. CASE ReadRule
  BY <1>4, RuleSteps
<1>5. CASE Fetch
  BY <1>5, FetchSteps
<1>6. CASE GiveUpNight
  BY <1>6, GiveUpSteps
<1>7. CASE Compare
  BY <1>7, CompareSteps
<1>8. CASE Commit
  BY <1>8, CommitSteps
<1> QED BY <1>1, <1>2, <1>3, <1>4, <1>5, <1>6, <1>7, <1>8 DEF Next, Sweep, Outside

(* What holds of every reachable state: a day that was taken up is not the date
   again without being remembered, a report holds all of its day, and the money
   of every day taken up is accounted for.                                    *)
THEOREM Invariance == Spec => []IInv
<1>1. Init => IInv
  BY Initially
<1>2. IInv /\ [Next]_vars => IInv'
  BY Steps
<1> QED BY <1>1, <1>2, PTL DEF Spec

(* A day marked as looked at was looked at: all of its money was compared with
   the payment table, but for what an edit of the hour displaced and attempts
   opened too long before they were paid for their gateway to be asked.       *)
THEOREM DaysCorrect == Spec => []ReconciledMoneyWasCompared
<1>1. IInv => ReconciledMoneyWasCompared
  BY DEF IInv, Accounts, Accounted, ReconciledMoneyWasCompared
<1> QED BY <1>1, Invariance, PTL

(* Nothing is filed that is not so when it is compared.                       *)
LEMMA RowsAreReal ==
  ASSUME IInv, [Next]_vars, run.first = run.hour, NEW r \in run'.rows \ run.rows
  PROVE  /\ r.kind = "MISSING_LOCALLY" => status[r.of] # "SUCCESS"
         /\ r.kind = "MISSING_AT_GATEWAY" =>
              ~Settled(r.of) \/ ~AskedAbout(r.of, r.date)
<1>1. Compare
  <2>1. run \in Runs
    BY DEF IInv, Tables
  <2>2. run' = run => FALSE
    OBVIOUS
  <2>3. run' = NoRun => FALSE
    BY DEF NoRun
  <2>4. ~(UNCHANGED vars) /\ ~Outside
    <3>1. Outside => run' = run
      BY OutsideKeeps
    <3> QED BY <2>2, <3>1 DEF vars
  <2>5. ~BeginRun /\ ~Commit /\ ~Abandon
    <3>1. BeginRun => run'.rows = {}
      BY DEF BeginRun, NoRun
    <3> QED BY <2>3, <3>1 DEF Commit, Abandon
  <2>6. ~ReadRule /\ ~Fetch /\ ~GiveUpNight
    BY <2>1 DEF ReadRule, Fetch, GiveUpNight, Runs
  <2> QED BY <2>4, <2>5, <2>6 DEF Next, Sweep, Outside
<1>2. r \in Discrepancies(Oldest, run.report, Ledger(Oldest, run.hour))
  BY <1>1 DEF Compare, IInv, Tables, Runs
<1>3. CASE r.of \in run.report \ Ledger(Oldest, run.hour) /\ r.kind = "MISSING_LOCALLY"
  BY <1>1, <1>3 DEF IInv, Comparing, Compare, Ledger, Tables, Runs
<1>4. CASE r.of \in Ledger(Oldest, run.hour) \ run.report
  <2>1. r.date = Oldest /\ run.first = run.hour
    BY <1>2 DEF Discrepancies
  <2>2. AskedAbout(r.of, Oldest) <=> AskedAbout(r.of, r.date)
    BY <2>1
  <2>3. r.kind = "MISSING_AT_GATEWAY" /\ r.of \in Attempts
    BY <1>2, <1>4 DEF Discrepancies, Ledger
  <2>4. Settled(r.of) /\ DateAt(settledAt[r.of], run.hour) = Oldest
    BY <1>4, <2>3 DEF Ledger, IInv, Recorded
  <2>5. ~AskedAbout(r.of, Oldest)
    BY <1>1, <1>4, <2>1, <2>3, <2>4 DEF IInv, Comparing, Compare
  <2> QED BY <2>2, <2>3, <2>5
<1> QED BY <1>2, <1>3, <1>4 DEF Discrepancies

(* What is written down against a day is so when it is compared.              *)
THEOREM RowsCorrect == Spec => DiscrepanciesAreReal
<1>1. IInv /\ [Next]_vars =>
        [run.first = run.hour => \A r \in run'.rows \ run.rows :
           /\ r.kind = "MISSING_LOCALLY" => status[r.of] # "SUCCESS"
           /\ r.kind = "MISSING_AT_GATEWAY" =>
                ~Settled(r.of) \/ ~AskedAbout(r.of, r.date)]_vars
  BY RowsAreReal
<1> QED BY <1>1, Invariance, PTL DEF Spec, DiscrepanciesAreReal

=============================================================================
