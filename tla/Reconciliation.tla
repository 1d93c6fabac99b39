--------------------------- MODULE Reconciliation ---------------------------
(* The property's record of gateway money held against the gateways' own, one
   closed business date at a time.

   A run is one transaction under the runner's lock and several steps here: the
   date is read, then the hour it is drawn on, then each outstanding day is
   fetched from the gateways and compared with the table. Nothing it writes is
   seen before it commits, and callbacks and an edit of the hour come in between.
   Amounts are left out: an attempt is a sum both sides agree on, or one side
   does not know of.                                                          *)
EXTENDS TradingDay, FiniteSets

CONSTANTS
  Attempts,       \* references of payment attempts
  Never,          \* no instant
  Windowed,       \* those of a gateway that answers about a window (PayPal)
  UtcMidnight,    \* the slot of the property's day the UTC day starts at
  LookBack,       \* LOOK_BACK_DAYS
  MaxAborts       \* bound: runs rolled back

ASSUME NeverAssumption == Never \notin Nat
ASSUME GatewayAssumption == Windowed \subseteq Attempts /\ UtcMidnight \in Nat
ASSUME LookBackAssumption == LookBack \in Nat \ {0} /\ MaxAborts \in Nat

VARIABLES
  status,         \* payment.status of each attempt
  openedAt,       \* payment.created_at, the instant the gateway was handed
  settledAt,      \* the instant the gateway took the money
  reconciled,     \* payment_reconciliation_run, the dates of it
  filed,          \* payment_discrepancy: [date, of, kind]
  run,            \* the sweep's transaction
  aborts,         \* runs rolled back so far
  compared,       \* history: attempts a committed run found settled
  moved,          \* history: attempts an edit of the hour dated anew
  reopened        \* history: dates traded on after a run took them up

vars == <<clock, rolloverHour, status, openedAt, settledAt, reconciled, filed,
          run, aborts, compared, moved, reopened>>
table == <<status, openedAt, settledAt>>
looked == <<reconciled, filed, compared>>

Dates == -1 .. (LastInstant \div SlotsPerDay)

NoRun == [step |-> "IDLE", today |-> 0, first |-> 0, hour |-> 0, left |-> {},
          report |-> {}, done |-> {}, unfinished |-> {}, rows |-> {}, seen |-> {}]

TypeOK ==
  /\ DayTypeOK
  /\ status \in [Attempts -> {"NONE", "PENDING", "SUCCESS", "FAILED"}]
  /\ openedAt \in [Attempts -> 0 .. LastInstant \cup {Never}]
  /\ settledAt \in [Attempts -> 0 .. LastInstant \cup {Never}]
  /\ reconciled \subseteq Dates /\ reopened \subseteq Dates
  /\ run.step \in {"IDLE", "RULE", "NIGHT", "COMPARE"}
  /\ compared \cup moved \subseteq Attempts /\ aborts \in 0 .. MaxAborts

Init ==
  /\ DayInit
  /\ status = [a \in Attempts |-> "NONE"]
  /\ openedAt = [a \in Attempts |-> Never]
  /\ settledAt = [a \in Attempts |-> Never]
  /\ reconciled = {} /\ filed = {} /\ run = NoRun
  /\ compared = {} /\ moved = {} /\ reopened = {} /\ aborts = 0
-----------------------------------------------------------------------------
Settled(a) == settledAt[a] # Never

(* Mutant of OutstandingDays: the day being traded is reconciled too.         *)
OutstandingToday(today) ==
  {d \in Dates : today - LookBack <= d /\ d <= today} \ reconciled

(* Mutant of OutstandingDays: only the day that has just ended.               *)
OutstandingLastNight(today) == ({today - 1} \cap Dates) \ reconciled

(* outstanding: the closed days of the window without a run.                  *)
OutstandingDays(today) ==
  {d \in Dates : today - LookBack <= d /\ d < today} \ reconciled

(* attempts: a gateway that answers about one attempt at a time is asked about
   the ones opened within a UTC day either side of the date.                  *)
AskedAbout(a, date) ==
  \/ a \in Windowed
  \/ /\ (date - 1) * SlotsPerDay + UtcMidnight <= openedAt[a]
     /\ openedAt[a] < (date + 2) * SlotsPerDay + UtcMidnight

(* report: what the gateways took on a day, dated by the hour of the run.     *)
Report(date, hour) ==
  {a \in Attempts : /\ Settled(a) /\ DateAt(settledAt[a], hour) = date
                    /\ AskedAbout(a, date)}

(* Mutant of Ledger: the hour is read again for every night.                  *)
LedgerReadAgain(date, hour) ==
  {a \in Attempts : status[a] = "SUCCESS"
                    /\ DateAt(settledAt[a], rolloverHour) = date}

(* ledgerFor: the payments recorded, dated by the gateway's own instant.      *)
Ledger(date, hour) ==
  {a \in Attempts : status[a] = "SUCCESS" /\ DateAt(settledAt[a], hour) = date}

(* compare: one outcome for each attempt either side names.                   *)
Discrepancies(date, report, ledger) ==
  [date : {date}, of : report \ ledger, kind : {"MISSING_LOCALLY"}]
  \cup [date : {date}, of : ledger \ report, kind : {"MISSING_AT_GATEWAY"}]
-----------------------------------------------------------------------------
Reopen ==
  reopened' = reopened \cup ({Today'} \cap (reconciled \cup run.left \cup run.done))

TimePasses ==
  /\ Tick /\ UNCHANGED <<table, looked, run, aborts, moved>>
  /\ Reopen

EditHour ==
  \E h \in Rollovers :
    /\ MoveHour(h)
    /\ moved' = moved \cup {a \in Attempts : Settled(a)
                  /\ DateAt(settledAt[a], h) # DateAt(settledAt[a], rolloverHour)}
    /\ UNCHANGED <<table, looked, run, aborts>>
    /\ Reopen

OpenAttempt(a) ==
  /\ status[a] = "NONE" /\ status' = [status EXCEPT ![a] = "PENDING"]
  /\ openedAt' = [openedAt EXCEPT ![a] = clock]
  /\ UNCHANGED <<day, settledAt, looked, run, aborts, moved, reopened>>

(* The gateway takes the money, whether or not a refusal was reported first.  *)
Settle(a) ==
  /\ status[a] \in {"PENDING", "FAILED"} /\ ~Settled(a)
  /\ settledAt' = [settledAt EXCEPT ![a] = clock]
  /\ UNCHANGED <<day, status, openedAt, looked, run, aborts, moved, reopened>>

(* Its callback, whenever it comes: an attempt that was refused stays so.     *)
Callback(a) ==
  /\ status[a] = "PENDING"
  /\ status' = [status EXCEPT ![a] = IF Settled(a) THEN "SUCCESS" ELSE "FAILED"]
  /\ UNCHANGED <<day, openedAt, settledAt, looked, run, aborts, moved, reopened>>

(* JobRunner.run reads the date inside the transaction.                       *)
BeginRun ==
  /\ run.step = "IDLE" /\ OutstandingDays(Today) # {}
  /\ run' = [NoRun EXCEPT !.step = "RULE", !.today = Today, !.first = rolloverHour]
  /\ UNCHANGED <<day, table, looked, aborts, moved, reopened>>

Torn == run.first # rolloverHour

(* The days outstanding, and the one hour both sides are drawn on, read a
   statement later than the date was.                                         *)
ReadRule ==
  LET days == OutstandingDays(run.today) IN
  /\ run.step = "RULE"
  /\ run' = [run EXCEPT !.step = "NIGHT", !.hour = rolloverHour, !.left = days]
  /\ reopened' = IF Torn THEN reopened \cup ({Today} \cap days) ELSE reopened
  /\ UNCHANGED <<day, table, looked, aborts, moved>>

Oldest == CHOOSE d \in run.left : \A e \in run.left : d <= e

Fetch ==
  /\ run.step = "NIGHT" /\ run.left # {}
  /\ run' = [run EXCEPT !.step = "COMPARE", !.report = Report(Oldest, run.hour)]
  /\ UNCHANGED <<day, table, looked, aborts, moved, reopened>>

(* Mutant of DoneWithout: the row of the run is written whatever happened.    *)
DoneAnyway(done, d) == done \cup {d}

DoneWithout(done, d) == done \ {d}

(* A gateway that does not answer, and a report or a row that cannot be read,
   costs its night and no other; the next run has it again, and the one after.  *)
GiveUpNight ==
  /\ run.step \in {"NIGHT", "COMPARE"} /\ run.left # {}
  /\ run' = [run EXCEPT !.step = "NIGHT", !.left = @ \ {Oldest}, !.report = {},
               !.done = DoneWithout(@, Oldest), !.unfinished = @ \cup {Oldest}]
  /\ UNCHANGED <<day, table, looked, aborts, moved, reopened>>

(* reconcile, and the run's row after it.                                     *)
Compare ==
  /\ run.step = "COMPARE"
  /\ run' = [run EXCEPT !.step = "NIGHT", !.left = @ \ {Oldest}, !.report = {},
               !.done = @ \cup {Oldest}, !.seen = @ \cup run.report,
               !.rows = @ \cup Discrepancies(Oldest, run.report,
                                             Ledger(Oldest, run.hour))]
  /\ UNCHANGED <<day, table, looked, aborts, moved, reopened>>

(* The unique key on the date and the reference keeps what is there.          *)
Commit ==
  /\ run.step = "NIGHT" /\ run.left = {} /\ run' = NoRun
  /\ reconciled' = reconciled \cup run.done
  /\ filed' = filed \cup {r \in run.rows :
                 \A f \in filed : f.date # r.date \/ f.of # r.of}
  /\ compared' = compared \cup run.seen
  /\ UNCHANGED <<day, table, aborts, moved, reopened>>

(* A rollback, or the process goes: nothing of the run is left.               *)
Abandon ==
  /\ run.step # "IDLE" /\ aborts < MaxAborts /\ run' = NoRun
  /\ aborts' = aborts + 1
  /\ UNCHANGED <<day, table, looked, moved, reopened>>

Sweep == BeginRun \/ ReadRule \/ Fetch \/ Compare \/ Commit

Next ==
  \/ TimePasses \/ EditHour
  \/ \E a \in Attempts : OpenAttempt(a) \/ Settle(a) \/ Callback(a)
  \/ Sweep \/ GiveUpNight \/ Abandon

Spec == Init /\ [][Next]_vars

(* The clock goes on and the sweep is run every hour, to its end but for the
   aborts that are counted. No gateway is assumed to answer.                  *)
FairSpec == Spec /\ WF_vars(TimePasses) /\ WF_vars(Sweep)
-----------------------------------------------------------------------------
DayOf(a) == DateAt(settledAt[a], rolloverHour)

(* Money no gateway is asked about on its day: an edit of the hour dated it anew,
   it was taken on a day that had been taken up already, or its attempt was opened
   long before it was paid.                                                   *)
Displaced(a) ==
  a \in moved \/ DayOf(a) \in reopened \/ ~AskedAbout(a, DayOf(a))

(* What is written down against a day is so when it is compared: money said to
   be missing here is in no row, and money said to be missing at a gateway was
   never taken there, whatever callbacks and edits of the hour come in the
   middle of a run; unless the edit came between its two readings of the hour,
   or the gateway was not asked, the attempt having been opened too long before. *)
DiscrepanciesAreReal ==
  [][run.first = run.hour => \A r \in run'.rows \ run.rows :
       /\ r.kind = "MISSING_LOCALLY" => status[r.of] # "SUCCESS"
       /\ r.kind = "MISSING_AT_GATEWAY" =>
            ~Settled(r.of) \/ ~AskedAbout(r.of, r.date)]_vars

(* A day that is marked as looked at was looked at: all the money taken on it
   was held against the table.                                                *)
ReconciledMoneyWasCompared ==
  \A a \in Attempts :
    Settled(a) /\ DayOf(a) \in reconciled => a \in compared \/ Displaced(a)

(* Money a gateway took and the property never recorded, its callback lost or
   come after a refusal, is written down in the end, while its day is one the
   sweep still looks back to; but for a day that is refused tick after tick, by a
   gateway that will not answer about it or for a report or a row that cannot be
   read, which every run leaves unfinished and pages about.                   *)
UnrecordedMoneyIsFiled ==
  \A a \in Attempts :
    <>[](/\ Settled(a) /\ status[a] # "SUCCESS" /\ ~Displaced(a)
         /\ DayOf(a) < Today /\ DayOf(a) >= Today - LookBack)
      => \/ <>(\E f \in filed : f.of = a)
         \/ []<>(Settled(a) /\ DayOf(a) \in run.unfinished)

=============================================================================
