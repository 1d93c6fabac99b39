----------------------------- MODULE NightAudit -----------------------------
(* A day of trading, closed: the charges of its nights, the figures frozen for
   the reports, and the watchdog over the days nobody froze.

   The stays are the ones of a booking, the lines those of its account, reduced
   to what a day's figures read: a line is revenue of one unit on one business
   date, and a correction takes it back on the date it was made. A request at
   the desk reads the date when it begins and writes when it commits, and one
   that moves a stay holds the booking's row in between; a sweep is one
   transaction under the runner's lock, and one step here, taken when the rows
   it locks are free.                                                         *)
EXTENDS TradingDay, FiniteSets

CONSTANTS
  Stays,          \* the stays of the property
  Arrival,        \* the date each arrives on
  Departure,      \* the date each was booked to leave on
  Sales,          \* what the desk sells: "SERVICE_ITEM", "DESK_CHARGE"
  Named,          \* the dates a manager names when running a sweep by hand
  LookBack,       \* LOOK_BACK_DAYS
  Grace,          \* GRACE_MINUTES, in slots
  MaxActs,        \* bound: acts at the desk
  MaxEdits,       \* bound: edits of the rollover hour
  LastDeparture   \* bound: the date no stay is extended beyond

ASSUME StaysAssumption ==
  \A s \in Stays : Arrival[s] \in Nat /\ Departure[s] \in Nat
                   /\ Arrival[s] < Departure[s]
ASSUME SalesAssumption == Sales \subseteq {"SERVICE_ITEM", "DESK_CHARGE"}
ASSUME AuditAssumption ==
  Named \subseteq Int /\ LookBack \in Nat \ {0} /\ Grace \in Nat /\ MaxActs \in Nat
  /\ LastDeparture \in Nat /\ MaxEdits \in Nat

VARIABLES
  stay,           \* each booking: its state, the date it is to leave on, the
                  \* date the request holding its row has read, and the dates
                  \* the guest came and left on
  agreed,         \* stays whose account is CLOSED
  line,           \* folio_posting: sales, each [type, stay, date]
  correction,     \* folio_posting of type REVERSAL: [of, date]
  act,            \* the request at the desk, and the date it read
  acts,           \* acts begun at the desk
  edits,          \* edits made of the rollover hour
  snapshot,       \* night_audit_snapshot, by business date
  late,           \* history: lines and corrections a frozen day did not see
  missed,         \* history: nights added to a stay when they were frozen
  reopened        \* history: frozen days that were traded on afterwards

vars == <<clock, rolloverHour, stay, agreed, line, correction, act, acts, edits,
          snapshot, late, missed, reopened>>
ledger == <<line, correction>>

(* The dates a behaviour can reach, the one before the first rollover too.    *)
Dates == -1 .. (LastInstant \div SlotsPerDay)

(* What the row of a booking nobody is at work on has of a date.              *)
NoDate == -2

Idle == [op |-> "IDLE", open |-> FALSE]

Frozen == DOMAIN snapshot

Init ==
  /\ DayInit
  /\ stay = [s \in Stays |-> [state |-> "CONFIRMED", departs |-> Departure[s],
                              read |-> NoDate, came |-> -1, left |-> -1]]
  /\ agreed = {} /\ line = {} /\ correction = {}
  /\ late = {} /\ missed = {} /\ reopened = {}
  /\ act = Idle /\ acts = 0 /\ edits = 0
  /\ snapshot = [d \in {} |-> {}]

-----------------------------------------------------------------------------
Covers(s, d) == Arrival[s] <= d /\ d < stay[s].departs

Night(s, d) == [type |-> "NIGHT", stay |-> s, date |-> d]

Charged(s, d) == Night(s, d) \in line

(* RoomChargeSweep.run: the stays in house over the night without the line this
   sweep would have written.                                                  *)
Due(d) ==
  {s \in Stays : stay[s].state = "CHECKED_IN" /\ Covers(s, d) /\ ~Charged(s, d)}

(* A line for a closed account is refused by the trigger, and the refusal is the
   whole run's.                                                               *)
Stuck(d) == Due(d) \cap agreed

(* What a run of the sweep writes for a date.                                 *)
Charges(d) == {Night(s, d) : s \in Due(d)}

(* The sweep locks the bookings it charges, and waits for a request at work on
   one of them; one that is being checked in it does not see.                 *)
RowsFree(d) == \A s \in Due(d) : stay[s].read = NoDate

(* Mutant of Occupied: a day is asked about the guests still in house only.   *)
OccupiedNow == {"CHECKED_IN"}

Occupied == {"CHECKED_IN", "CHECKED_OUT"}

(* unchargedStays, after the charges of the run: what is left is what no run
   can charge.                                                                *)
Short(d) ==
  {s \in Stays : /\ stay[s].state \in Occupied /\ Covers(s, d)
                 /\ Night(s, d) \notin line \cup Charges(d)}

(* Mutant of Undone: a correction counts whenever it was made.                *)
UndoneEver(l, d, undone) == \E c \in undone : c.of = l

(* A night corrected within its own day was not a room sold.                  *)
Undone(l, d, undone) == \E c \in undone : c.of = l /\ c.date = d

IsRoom(l) == l.type \in {"NIGHT", "DESK_CHARGE"}

(* rollUp over the lines of one date; its rooms on sale are left out.         *)
Figures(d, lines, undone) ==
  LET sold == {l \in lines : l.date = d}
      back == {c \in undone : c.date = d}
      Net(some, taken) == Cardinality(some) - Cardinality(taken)
  IN  [roomsSold |-> Cardinality({l.stay : l \in
                       {k \in sold : IsRoom(k) /\ ~Undone(k, d, undone)}}),
       room  |-> Net({l \in sold : IsRoom(l)}, {c \in back : IsRoom(c.of)}),
       other |-> Net({l \in sold : ~IsRoom(l)}, {c \in back : ~IsRoom(c.of)})]

(* Mutant of Closable: a day that is refused stops those behind it.           *)
ClosableInOrder(days) ==
  {d \in days : \A e \in days : e <= d => Short(e) = {}}

(* A day that would be frozen short is not frozen at all; the others are.     *)
Closable(days) == {d \in days : Short(d) = {}}

(* Mutant of Candidates: the day being traded is closed with the others.      *)
CandidatesToday(on) == (on - LookBack) .. on

Candidates(on) == (on - LookBack) .. (on - 1)

Outstanding(on) == {d \in Candidates(on) : d \in Dates /\ d \notin Frozen}
-----------------------------------------------------------------------------
(* A frozen day that is today's again is being traded once more.              *)
Reopen == reopened' = reopened \cup ({Today'} \cap Frozen)

TimePasses ==
  /\ Tick
  /\ UNCHANGED <<stay, agreed, ledger, act, acts, edits, snapshot, late, missed>>
  /\ Reopen

EditHour ==
  /\ edits < MaxEdits /\ edits' = edits + 1
  /\ \E h \in Rollovers : MoveHour(h)
  /\ UNCHANGED <<stay, agreed, ledger, act, acts, snapshot, late, missed>>
  /\ Reopen

Free(s) == stay[s].read = NoDate

(* A request that moves a stay locks its row, and then reads the date: a guest
   it is too early or too late to let in is refused there and then.           *)
BeginRequest(s) ==
  /\ stay[s].state \in {"CONFIRMED", "CHECKED_IN"} /\ Free(s)
  /\ stay[s].state = "CONFIRMED" => Arrival[s] <= Today /\ Today <= stay[s].departs
  /\ stay' = [stay EXCEPT ![s].read = Today]
  /\ UNCHANGED <<day, agreed, ledger, act, acts, edits, snapshot, late, missed, reopened>>

(* The nights of a stay from one date to another that are frozen without it.  *)
FrozenNights(s, from, to) ==
  {<<s, d>> : d \in {e \in Frozen : from <= e /\ e < to /\ ~Charged(s, e)}}

(* A guest is let in on the date that was read, however late it is written.   *)
CheckIn(s) ==
  /\ stay[s].state = "CONFIRMED" /\ ~Free(s)
  /\ stay' = [stay EXCEPT ![s] = [@ EXCEPT !.state = "CHECKED_IN",
                                               !.came = stay[s].read, !.read = NoDate]]
  /\ missed' = missed \cup FrozenNights(s, stay[s].read, stay[s].departs)
  /\ UNCHANGED <<day, agreed, ledger, act, acts, edits, snapshot, late, reopened>>

(* Leaving changes the state and no date of the stay, on whatever day it is; the
   guest settles the balance first.                                           *)
CheckOut(s) ==
  /\ stay[s].state = "CHECKED_IN" /\ ~Free(s)
  /\ stay' = [stay EXCEPT ![s] = [@ EXCEPT !.state = "CHECKED_OUT",
                                               !.left = stay[s].read, !.read = NoDate]]
  /\ UNCHANGED <<day, agreed, ledger, act, acts, edits, snapshot, late, missed, reopened>>

(* shortenStay: no night before the date that was read is given back.         *)
Shorten(s) ==
  /\ stay[s].state = "CHECKED_IN" /\ ~Free(s)
  /\ \E to \in (Arrival[s] + 1) .. (stay[s].departs - 1) :
       /\ stay[s].read <= to
       /\ stay' = [stay EXCEPT ![s] = [@ EXCEPT !.departs = to, !.read = NoDate]]
  /\ UNCHANGED <<day, agreed, ledger, act, acts, edits, snapshot, late, missed, reopened>>

(* A request that is refused, or fails, leaves the row as it was.             *)
GiveUpRequest(s) ==
  /\ ~Free(s)
  /\ stay' = [stay EXCEPT ![s].read = NoDate]
  /\ UNCHANGED <<day, agreed, ledger, act, acts, edits, snapshot, late, missed, reopened>>

EndRequest(s) == CheckIn(s) \/ CheckOut(s) \/ Shorten(s) \/ GiveUpRequest(s)

(* extendStay asks nothing of the date: a stay that is over may be extended, over
   nights that are over too.                                                  *)
Extend(s) ==
  /\ stay[s].state \in {"CONFIRMED", "CHECKED_IN"} /\ Free(s)
  /\ \E to \in (stay[s].departs + 1) .. LastDeparture :
       /\ stay' = [stay EXCEPT ![s].departs = to]
       /\ missed' = missed \cup FrozenNights(s, stay[s].departs, to)
  /\ UNCHANGED <<day, agreed, ledger, act, acts, edits, snapshot, late, reopened>>

(* An account that was charged is settled and agreed, in house or after.      *)
CloseAccount(s) ==
  /\ stay[s].state # "CONFIRMED" /\ s \notin agreed
  /\ \E l \in line : l.stay = s
  /\ agreed' = agreed \cup {s}
  /\ UNCHANGED <<day, stay, ledger, act, acts, edits, snapshot, late, missed, reopened>>

(* The desk sells something, or takes a line back: the date is read now.      *)
BeginAct ==
  /\ act = Idle /\ acts < MaxActs /\ acts' = acts + 1
  /\ \/ \E s \in Stays, type \in Sales :
          act' = [op |-> "SELL", open |-> Today \notin Frozen, date |-> Today,
                  row |-> [type |-> type, stay |-> s, date |-> Today]]
     \/ \E l \in line :
          act' = [op |-> "REVERSE", open |-> Today \notin Frozen, date |-> Today,
                  row |-> [of |-> l, date |-> Today]]
  /\ UNCHANGED <<day, stay, agreed, ledger, edits, snapshot, late, missed, reopened>>

(* Whether the database takes what the desk wrote: the account is open, and a
   line is reversed once.                                                     *)
Accepted ==
  IF act.op = "SELL" THEN act.row.stay \notin agreed
  ELSE act.row.of.stay \notin agreed
       /\ \A c \in correction : c.of # act.row.of

(* What was begun before a day was frozen is written after it all the same.   *)
CommitAct ==
  /\ act # Idle /\ act' = Idle
  /\ line' = IF act.op = "SELL" /\ Accepted THEN line \cup {act.row} ELSE line
  /\ correction' = IF act.op = "REVERSE" /\ Accepted
                   THEN correction \cup {act.row} ELSE correction
  /\ late' = IF Accepted /\ act.open /\ act.date \in Frozen
                /\ act.row \notin line
             THEN late \cup {act.row} ELSE late
  /\ UNCHANGED <<day, stay, agreed, acts, edits, snapshot, missed, reopened>>

(* RoomChargeSweep, hourly over today, or by hand over a night it missed: the
   recovery of a night that was already frozen is late for it.                *)
SweepNight(d) ==
  /\ d <= Today /\ Due(d) # {} /\ RowsFree(d) /\ Stuck(d) = {}
  /\ line' = line \cup Charges(d)
  /\ late' = IF d < Today /\ d \in Frozen THEN late \cup Charges(d) ELSE late
  /\ UNCHANGED <<day, stay, agreed, correction, act, acts, edits, snapshot, missed, reopened>>

(* NightAuditJob.run: charge, ask, freeze, for each day that is outstanding. A
   day somebody would be missing from is left open and the others are closed.
   By hand it is run over the date that is named, and closes those before it. *)
Audit(on) ==
  LET days   == Outstanding(on)
      lines  == line \cup UNION {Charges(d) : d \in days}
      closed == Closable(days)
  IN  /\ \A d \in days : RowsFree(d) /\ Stuck(d) = {}
      /\ closed # {} \/ lines # line
      /\ line' = lines
      /\ snapshot' = [d \in Frozen \cup closed |->
                        IF d \in closed THEN Figures(d, lines, correction)
                        ELSE snapshot[d]]
      /\ reopened' = reopened \cup {d \in closed : on > Today /\ d >= Today}
      /\ UNCHANGED <<day, stay, agreed, correction, act, acts, edits, late, missed>>

Earliest == IF \E d \in Frozen : d < Today
            THEN CHOOSE d \in Frozen : \A e \in Frozen : d <= e ELSE Today - 1

(* Mutant of Unclosed: the watchdog asks about last night only.               *)
UnclosedLastNight == {Today - 1} \ Frozen

(* From the first day the audit ever closed to the one that has just ended.   *)
Unclosed == (Earliest .. (Today - 1)) \ Frozen

InGrace == Unclosed = {Today - 1} /\ clock < StartOf(Today) + Grace

(* NightAuditWatchdogJob.run: the days it pages about, on every run of it. It
   writes nothing.                                                            *)
Pages == IF InGrace THEN {} ELSE Unclosed

Next ==
  \/ TimePasses \/ EditHour
  \/ \E s \in Stays : \/ BeginRequest(s) \/ CheckIn(s) \/ CheckOut(s) \/ Shorten(s)
                      \/ GiveUpRequest(s) \/ Extend(s) \/ CloseAccount(s)
  \/ BeginAct \/ CommitAct
  \/ \E d \in Named \cup {Today} : SweepNight(d) \/ Audit(d)

Spec == Init /\ [][Next]_vars

(* The clock goes on, a request ends, and the audit, run every hour over the day
   it is, gets the rows it waits for though requests come one after another.  *)
FairSpec ==
  /\ Spec /\ WF_vars(TimePasses) /\ SF_vars(Audit(Today))
  /\ \A s \in Stays : WF_vars(EndRequest(s))
-----------------------------------------------------------------------------
TypeOK ==
  /\ DayTypeOK
  /\ \A s \in Stays : /\ stay[s].state \in {"CONFIRMED", "CHECKED_IN", "CHECKED_OUT"}
                      /\ stay[s].departs \in Nat /\ stay[s].read \in Dates \cup {NoDate}
                      /\ stay[s].came \in Dates /\ stay[s].left \in Dates
  /\ agreed \subseteq Stays /\ acts \in 0 .. MaxActs /\ edits \in 0 .. MaxEdits
  /\ \A l \in line : l.stay \in Stays /\ l.date \in Dates
  /\ \A c \in correction : c.of \in line /\ c.date \in Dates
  /\ Frozen \subseteq Dates /\ reopened \subseteq Frozen

(* The figures of a day are what its ledger comes to, for good: sales,
   corrections, charges and audits run by hand in any order change none, but
   what was on its way when the day was frozen, a night recovered by hand
   afterwards, and a day traded on once more because the hour was moved or the
   audit was run over a date to come.                                         *)
FrozenFiguresStand ==
  \A d \in Frozen \ reopened :
    snapshot[d] = Figures(d, line \ late, correction \ late)

Slept(s, d) ==
  /\ stay[s].state # "CONFIRMED" /\ Covers(s, d) /\ stay[s].came <= d
  /\ d < (IF stay[s].state = "CHECKED_OUT" THEN stay[s].left ELSE Today)

(* A day is frozen with the charge of every guest who slept there, whether or not
   they had left, whatever was done to the dates of their stay before, and however
   long the sweeps were down. Nothing asks a frozen day again: what it does not
   have is a night added to its stay once it was frozen, as extendStay does for a
   guest who stayed on, and the night of a guest whose check-in read the date
   before the freeze and was written after it. Nor does it have the nights a guest
   stays past the dates of the booking, which no line is due for.             *)
FrozenNightsAreCharged ==
  \A d \in Frozen \ reopened, s \in Stays :
    Slept(s, d) => Charged(s, d) \/ <<s, d>> \in missed

(* A day left open for good is one that a departed guest's missing night keeps
   open, or one behind an account that was agreed before its guest left, or one
   too old for the audit: whatever else happens, the audit catches up.        *)
DaysAreClosed ==
  \A d \in Dates :
    <>[](d \in Outstanding(Today)) =>
      []<>(Short(d) # {} \/ \E e \in Outstanding(Today) : Stuck(e) # {})

(* Past the grace of the morning, a day that is over and not frozen is in every
   page of the watchdog, however old it is and whatever was closed after it; but
   for the days before the first one that was ever closed.                    *)
OpenDaysArePagedAbout ==
  \A d \in Dates \ Frozen :
    d < Today /\ clock >= StartOf(Today) + Grace
      /\ (d = Today - 1 \/ \E e \in Frozen : e < d) => d \in Pages

=============================================================================
