----------------------------- MODULE TradingDay -----------------------------
(* The property's day. A day of trading starts at the rollover hour of its own
   calendar date, so until then the date is still yesterday's. The hour is a row
   an ADMIN edits, read again by everyone who asks for the date: raising it in
   the small hours takes the date back a day.                                 *)
EXTENDS Integers

CONSTANTS
  SlotsPerDay,    \* instants a calendar day is divided into
  Rollovers,      \* the hours an ADMIN may set, as slots of the day
  LastInstant     \* bound: the last instant of a behaviour

ASSUME SlotsAssumption == SlotsPerDay \in Nat \ {0}
ASSUME RolloversAssumption == Rollovers \subseteq 0 .. SlotsPerDay - 1
ASSUME LastInstantAssumption == LastInstant \in Nat

VARIABLES
  clock,          \* the instant it is
  rolloverHour    \* system_config.business_date_rollover_hour

day == <<clock, rolloverHour>>

(* businessDateAt: days are counted from the calendar day of instant 0.       *)
DateAt(instant, hour) ==
  (instant \div SlotsPerDay) - (IF instant % SlotsPerDay < hour THEN 1 ELSE 0)

Today == DateAt(clock, rolloverHour)

(* The instant a day of trading starts, the rule run backwards.               *)
StartOf(date) == date * SlotsPerDay + rolloverHour

DayTypeOK == clock \in 0 .. LastInstant /\ rolloverHour \in Rollovers

DayInit == clock = 0 /\ rolloverHour \in Rollovers

Tick == clock < LastInstant /\ clock' = clock + 1 /\ UNCHANGED rolloverHour

MoveHour(hour) ==
  /\ hour \in Rollovers \ {rolloverHour} /\ rolloverHour' = hour
  /\ UNCHANGED clock

=============================================================================
