----------------------------- MODULE JobRunner -----------------------------
(* The one door every sweep goes through: a transaction that takes the job's
   advisory lock, runs the sweep, runs it again if it changed anything, and
   rolls all of it back if the second pass changed a row too. Messages leave
   after the commit; what a sweep asks of a service outside the database (the
   issuer of invoices) happens inside the transaction and is not undone.

   One job over some rows. A row the sweep has written is locked until the end
   of its transaction; each statement reads what is committed when it starts
   (read committed), and the transaction's own writes.                        *)
EXTENDS Naturals, FiniteSets

CONSTANTS
  Runs,          \* the connections a run may be on: the scheduler's, a manager's
  Rows,          \* what the sweep's predicate is about
  MaxAborts      \* bound: crashes and thrown errors

ASSUME BoundAssumption == MaxAborts \in Nat

VARIABLES
  status,    \* whether each row, as committed, matches the predicate
  phase,     \* where each run is
  touched,   \* what each run has written and not committed
  queue,     \* what each run registered with afterCommit
  asked,     \* requests outside the database, those of rolled back runs left out
  sent,      \* messages that left
  aborts     \* how often a run was cut short

vars == <<status, phase, touched, queue, asked, sent, aborts>>

TypeOK ==
  /\ status \in [Rows -> {"LATER", "DUE", "DONE", "GONE"}]
  /\ phase \in [Runs -> {"IDLE", "WAITING", "FIRST", "SECOND"}]
  /\ touched \in [Runs -> SUBSET Rows] /\ queue \in [Runs -> SUBSET Rows]
  /\ \A r \in Runs : phase[r] # "SECOND" => touched[r] = {}
  /\ asked \in [Rows -> Nat] /\ sent \in [Rows -> Nat]
  /\ aborts \in 0 .. MaxAborts

Init ==
  /\ status = [i \in Rows |-> "LATER"]
  /\ phase = [r \in Runs |-> "IDLE"]
  /\ touched = [r \in Runs |-> {}] /\ queue = [r \in Runs |-> {}]
  /\ asked = [i \in Rows |-> 0] /\ sent = [i \in Rows |-> 0]
  /\ aborts = 0

-----------------------------------------------------------------------------
Matching(r) == {i \in Rows : status[i] = "DUE"} \ touched[r]

(* Mutant of Found: the sweep takes one row at a time. *)
FoundLimited(r) ==
  {i \in Matching(r) : i = CHOOSE j \in Matching(r) : TRUE}

(* What a pass changes: every row it reads as matching. *)
Found(r) == Matching(r)

(* Mutant of LockFree: no advisory lock. *)
LockNotTaken == TRUE

LockFree == \A r \in Runs : phase[r] \notin {"FIRST", "SECOND"}

Plus(count, rows) == [i \in Rows |-> IF i \in rows THEN count[i] + 1 ELSE count[i]]
Minus(count, rows) == [i \in Rows |-> IF i \in rows THEN count[i] - 1 ELSE count[i]]

(* Mutant of Discarded: afterCommit's queue outlives the rollback. *)
DiscardedNever(r) == queue

Discarded(r) == [queue EXCEPT ![r] = {}]

Written(r, rows) == [touched EXCEPT ![r] = rows]

(* The transaction is gone, and with it the lock. The issuer keeps the requests it
   was made: they will be made again, and are the port's to recognise, so that
   asked counts what the runner answers for.                                  *)
RollBack(r) ==
  /\ phase' = [phase EXCEPT ![r] = "IDLE"]
  /\ touched' = Written(r, {})
  /\ queue' = Discarded(r)
  /\ asked' = Minus(asked, touched[r])
  /\ UNCHANGED <<status, sent>>

-----------------------------------------------------------------------------
(* The rest of the system commits a change to one row: it comes to match, or it
   is settled otherwise (a hold that is paid) unless a run has it locked.     *)
BecomeDue(i) ==
  /\ status[i] = "LATER"
  /\ status' = [status EXCEPT ![i] = "DUE"]
  /\ UNCHANGED <<phase, touched, queue, asked, sent, aborts>>

Withdraw(i) ==
  /\ status[i] = "DUE"
  /\ \A r \in Runs : i \notin touched[r]
  /\ status' = [status EXCEPT ![i] = "GONE"]
  /\ UNCHANGED <<phase, touched, queue, asked, sent, aborts>>

Begin(r) ==
  /\ phase[r] = "IDLE" /\ queue[r] = {}
  /\ phase' = [phase EXCEPT ![r] = "WAITING"]
  /\ UNCHANGED <<status, touched, queue, asked, sent, aborts>>

TakeLock(r) ==
  /\ phase[r] = "WAITING"
  /\ LockFree
  /\ phase' = [phase EXCEPT ![r] = "FIRST"]
  /\ UNCHANGED <<status, touched, queue, asked, sent, aborts>>

FirstPass(r) ==
  /\ phase[r] = "FIRST"
  /\ phase' = [phase EXCEPT ![r] = IF Found(r) = {} THEN "IDLE" ELSE "SECOND"]
  /\ touched' = Written(r, Found(r))
  /\ queue' = [queue EXCEPT ![r] = Found(r)]
  /\ asked' = Plus(asked, Found(r))
  /\ UNCHANGED <<status, sent, aborts>>

SettledPass(r) ==
  /\ phase[r] = "SECOND" /\ Found(r) = {}
  /\ status' = [i \in Rows |-> IF i \in touched[r] THEN "DONE" ELSE status[i]]
  /\ phase' = [phase EXCEPT ![r] = "IDLE"]
  /\ touched' = Written(r, {})
  /\ UNCHANGED <<queue, asked, sent, aborts>>

(* NonIdempotentSweepError. *)
RejectedPass(r) ==
  /\ phase[r] = "SECOND" /\ Found(r) # {}
  /\ RollBack(r)
  /\ UNCHANGED aborts

(* A throw inside a pass, or the process gone: before the commit. *)
Abort(r) ==
  /\ aborts < MaxAborts
  /\ phase[r] # "IDLE"
  /\ RollBack(r)
  /\ aborts' = aborts + 1

(* The queue is drained after the commit; a task that fails is logged. *)
Send(r) ==
  /\ phase[r] = "IDLE"
  /\ \E i \in queue[r] :
       /\ queue' = [queue EXCEPT ![r] = @ \ {i}]
       /\ sent' \in {sent, Plus(sent, {i})}
  /\ UNCHANGED <<status, phase, touched, asked, aborts>>

(* The process gone between the commit and its queue. *)
LoseQueue(r) ==
  /\ aborts < MaxAborts
  /\ phase[r] = "IDLE" /\ queue[r] # {}
  /\ queue' = [queue EXCEPT ![r] = {}]
  /\ aborts' = aborts + 1
  /\ UNCHANGED <<status, phase, touched, asked, sent>>

Step(r) == TakeLock(r) \/ FirstPass(r) \/ SettledPass(r) \/ RejectedPass(r) \/ Send(r)

Next ==
  \/ \E i \in Rows : BecomeDue(i) \/ Withdraw(i)
  \/ \E r \in Runs : Begin(r) \/ Step(r) \/ Abort(r) \/ LoseQueue(r)

(* The cron ticks for ever, an opened run goes on, and the lock is given to
   those who wait for it in turn.                                             *)
Fairness ==
  \A r \in Runs : WF_vars(Begin(r)) /\ WF_vars(Step(r)) /\ SF_vars(TakeLock(r))

Spec == Init /\ [][Next]_vars /\ Fairness

-----------------------------------------------------------------------------
(* e-invoice.job.ts: no run asks outside for what a run before it was given, but
   after a rollback; two overlapping runs never ask for the same.             *)
AskedOnce == \A i \in Rows : asked[i] <= 1

(* pre-arrival-reminder-sweep.ts: a message that left is one whose mark is
   committed, and it leaves once, whatever the runner rejected or a crash cut.  *)
MessagesFollowTheMark ==
  \A i \in Rows : sent[i] <= 1 /\ (sent[i] = 1 => status[i] = "DONE")

(* job-runner.service.ts: what matches is got to, and stays got to. A run that
   loses to a change between its passes is rolled back whole; the next finds
   the row again, until it is swept or has stopped matching.                  *)
EveryDueRowIsSwept == \A i \in Rows : status[i] = "DUE" ~> status[i] \in {"DONE", "GONE"}

=============================================================================
