------------------------------- MODULE Drawer -------------------------------
(* The cash drawers of the desk: opened, filled by payments and by the
   property's own cash book, counted out and handed over.

   A request is a transaction of several statements, so it is several steps
   here: it begins, it may wait for the row of the drawer (FOR SHARE to put cash
   in, FOR UPDATE to count it out), and it commits. An instant is the start of a
   transaction, which is what now() is inside it; only those of closings and of
   reversals are ever compared. Every amount is one: the float and the count are
   figures the operator gives, so the variance moves exactly as the expected
   figure does.                                                               *)
EXTENDS Integers, FiniteSets

CONSTANTS
  Desks,        \* connections a request may be on
  Operators,    \* the staff who open drawers
  Shifts,       \* ids of drawers
  Payments,     \* ids of cash payments
  Entries,      \* ids of cash movements in the property's own book
  Items,        \* ids of pending items
  None,         \* no drawer, no row, no operator
  LastInstant   \* bound: closings and reversals begun

ASSUME InstantAssumption == LastInstant \in Nat
ASSUME NoneAssumption ==
  None \notin Operators \cup Shifts \cup Payments \cup Entries \cup Items
ASSUME RowsAssumption == IsFiniteSet(Payments) /\ IsFiniteSet(Entries)

VARIABLES
  now,        \* the last instant given out
  drawer,     \* table shift
  payment,    \* table payment, the cash of it, with its reversal's instant
  entry,      \* table cash_book_entry, the cash of it
  item,       \* table pending_item
  tx,         \* the transaction each connection is in
  signed,     \* history: the figure each closed drawer was signed for against
  overtaken   \* history: payments whose reversal was under way at the count

vars == <<now, drawer, payment, entry, item, tx, signed, overtaken>>
rows == <<drawer, payment, entry, item>>

NoTx == [op |-> "IDLE", on |-> None, row |-> None, of |-> None,
         flow |-> 0, began |-> 0, lock |-> "NONE"]

TypeOK ==
  /\ now \in 0 .. LastInstant
  /\ drawer \in [Shifts -> [state : {"NONE", "OPEN", "CLOSED"},
                            operator : Operators \cup {None},
                            closedAt : 0 .. LastInstant]]
  /\ \A s \in Shifts : (drawer[s].state = "CLOSED") <=> (drawer[s].closedAt # 0)
  /\ payment \in [Payments -> [status : {"NONE", "SUCCESS", "REFUNDED"},
                               on : Shifts \cup {None},
                               reversedAt : 0 .. LastInstant]]
  /\ entry \in [Entries -> [on : Shifts \cup {None}, flow : {-1, 0, 1},
                            reverses : Entries \cup {None}]]
  /\ item \in [Items -> [raised : Shifts \cup {None},
                         cleared : Shifts \cup {None}]]
  /\ \A d \in Desks :
       /\ tx[d].op \in {"IDLE", "PAY", "RECORD", "CORRECT", "CLOSE",
                        "REVERSE", "RAISE", "CLEAR"}
       /\ tx[d].lock \in {"NONE", "SHARE", "UPDATE"}
  /\ signed \in [Shifts -> Int]
  /\ overtaken \subseteq Payments

Init ==
  /\ now = 0
  /\ drawer = [s \in Shifts |->
       [state |-> "NONE", operator |-> None, closedAt |-> 0]]
  /\ payment = [p \in Payments |->
       [status |-> "NONE", on |-> None, reversedAt |-> 0]]
  /\ entry = [e \in Entries |-> [on |-> None, flow |-> 0, reverses |-> None]]
  /\ item = [i \in Items |-> [raised |-> None, cleared |-> None]]
  /\ tx = [d \in Desks |-> NoTx]
  /\ signed = [s \in Shifts |-> 0]
  /\ overtaken = {}

-----------------------------------------------------------------------------
(* Mutant of Counted: a reversal takes the money out of a drawer whenever it
   was made.                                                                  *)
CountedUnlessReversed(p, s, closedAt) ==
  payment[p].on = s /\ payment[p].status # "REFUNDED"

(* Whether a payment was in drawer s when it was counted: it is bound to it, and
   it was not reversed before the close.                                      *)
Counted(p, s, closedAt) ==
  /\ payment[p].on = s
  /\ \/ payment[p].status # "REFUNDED"
     \/ closedAt # 0 /\ payment[p].reversedAt > closedAt

CashTaken(s, closedAt) ==
  Cardinality({p \in Payments : Counted(p, s, closedAt)})

CashBookNet(s) ==
  LET moved(flow) == {e \in Entries : entry[e].on = s /\ entry[e].flow = flow}
  IN  Cardinality(moved(1)) - Cardinality(moved(-1))

(* What a drawer should hold over its float. The count is a figure the operator
   gives, so a variance changes only when this does.                          *)
Expected(s, closedAt) == CashTaken(s, closedAt) + CashBookNet(s)

OpenDrawers(o) ==
  {s \in Shifts : drawer[s].state = "OPEN" /\ drawer[s].operator = o}

Idle(d) == tx[d].op = "IDLE"

Locked(s, modes) == \E d \in Desks : tx[d].on = s /\ tx[d].lock \in modes

(* A row nobody is writing: its id was not given out.                         *)
Fresh(r) == \A d \in Desks : tx[d].row # r

(* A transaction begins and has done its first reads.                         *)
Start(d, t) == tx' = [tx EXCEPT ![d] = t]

End(d) == tx' = [tx EXCEPT ![d] = NoTx]
-----------------------------------------------------------------------------
(* The partial unique index decides: one open drawer for an operator.         *)
Open(o, s) ==
  /\ drawer[s].state = "NONE" /\ OpenDrawers(o) = {}
  /\ drawer' = [drawer EXCEPT ![s].state = "OPEN", ![s].operator = o]
  /\ UNCHANGED <<now, payment, entry, item, tx, signed, overtaken>>

(* Cash at the desk: the drawer is read off the operator's open shift.        *)
BeginPayment(d, o, p) ==
  /\ Idle(d) /\ payment[p].status = "NONE" /\ Fresh(p)
  /\ \E s \in OpenDrawers(o) :
       Start(d, [NoTx EXCEPT !.op = "PAY", !.on = s, !.row = p])
  /\ UNCHANGED <<now, rows, signed, overtaken>>

(* The property's own cash: the drawer is named in the request, open or not.  *)
BeginEntry(d, e, s, flow) ==
  /\ Idle(d) /\ entry[e].on = None /\ Fresh(e) /\ drawer[s].state # "NONE"
  /\ Start(d, [NoTx EXCEPT !.op = "RECORD", !.on = s, !.row = e, !.flow = flow])
  /\ UNCHANGED <<now, rows, signed, overtaken>>

(* A correction is the opposite movement, through a drawer named again; a
   correction is not itself corrected.                                        *)
BeginCorrection(d, e, mistake, s) ==
  /\ Idle(d) /\ entry[e].on = None /\ Fresh(e) /\ drawer[s].state # "NONE"
  /\ entry[mistake].on # None /\ entry[mistake].reverses = None
  /\ Start(d, [NoTx EXCEPT !.op = "CORRECT", !.on = s, !.row = e,
                           !.of = mistake, !.flow = -entry[mistake].flow])
  /\ UNCHANGED <<now, rows, signed, overtaken>>

BeginClose(d, s) ==
  /\ Idle(d) /\ drawer[s].state # "NONE" /\ now < LastInstant
  /\ now' = now + 1
  /\ Start(d, [NoTx EXCEPT !.op = "CLOSE", !.on = s, !.began = now'])
  /\ UNCHANGED <<rows, signed, overtaken>>

BeginReversal(d, p) ==
  /\ Idle(d) /\ payment[p].status # "NONE" /\ now < LastInstant
  /\ now' = now + 1
  /\ Start(d, [NoTx EXCEPT !.op = "REVERSE", !.of = p, !.began = now'])
  /\ UNCHANGED <<rows, signed, overtaken>>

(* Raising and clearing an item: the operator's open drawer is read first and
   without a lock.                                                            *)
BeginItem(d, o, i, op) ==
  /\ Idle(d)
  /\ op = "RAISE" => item[i].raised = None /\ Fresh(i)
  /\ op = "CLEAR" => item[i].raised # None
  /\ \E s \in OpenDrawers(o) :
       Start(d, [NoTx EXCEPT !.op = op, !.on = s, !.of = i,
                             !.row = IF op = "RAISE" THEN i ELSE None])
  /\ UNCHANGED <<now, rows, signed, overtaken>>
-----------------------------------------------------------------------------
(* Mutant of ShareGranted: the trigger reads the drawer and locks nothing.    *)
ShareUnlocked(s) == TRUE

ShareGranted(s) == ~Locked(s, {"UPDATE"})

PutsCashIn(d) == tx[d].op \in {"PAY", "RECORD", "CORRECT"} /\ tx[d].lock = "NONE"

(* The trigger on the insert: the drawer's row is read FOR SHARE, and a drawer
   already counted out takes nothing more.                                    *)
PutCashIn(d) ==
  /\ PutsCashIn(d) /\ ShareGranted(tx[d].on)
  /\ drawer[tx[d].on].state = "OPEN"
  /\ tx' = [tx EXCEPT ![d].lock = "SHARE"]
  /\ UNCHANGED <<now, rows, signed, overtaken>>

(* SELECT ... FOR UPDATE: nobody may be putting cash in.                      *)
LockDrawer(d) ==
  /\ tx[d].op = "CLOSE" /\ tx[d].lock = "NONE"
  /\ ~Locked(tx[d].on, {"SHARE", "UPDATE"}) /\ drawer[tx[d].on].state = "OPEN"
  /\ tx' = [tx EXCEPT ![d].lock = "UPDATE"]
  /\ UNCHANGED <<now, rows, signed, overtaken>>

(* MV006 for cash, CONFLICT for a second close: nothing is written.           *)
RefuseClosed(d) ==
  /\ \/ PutsCashIn(d)
     \/ tx[d].op = "CLOSE" /\ tx[d].lock = "NONE"
  /\ ~Locked(tx[d].on, {"UPDATE"}) /\ drawer[tx[d].on].state = "CLOSED"
  /\ End(d)
  /\ UNCHANGED <<now, rows, signed, overtaken>>
-----------------------------------------------------------------------------
CommitPayment(d) ==
  /\ tx[d].op = "PAY" /\ tx[d].lock = "SHARE"
  /\ payment' = [payment EXCEPT ![tx[d].row] =
                   [status |-> "SUCCESS", on |-> tx[d].on, reversedAt |-> 0]]
  /\ End(d)
  /\ UNCHANGED <<now, drawer, entry, item, signed, overtaken>>

(* Mutant of Undone: no unique key on the entry a correction reverses.        *)
UndoneNever(mistake) == FALSE

Undone(mistake) == \E e \in Entries : entry[e].reverses = mistake

(* The unique key on the entry reversed refuses the second correction.        *)
CommitEntry(d) ==
  /\ tx[d].op \in {"RECORD", "CORRECT"} /\ tx[d].lock = "SHARE"
  /\ entry' = IF tx[d].op = "CORRECT" /\ Undone(tx[d].of) THEN entry
              ELSE [entry EXCEPT ![tx[d].row] =
                     [on |-> tx[d].on, flow |-> tx[d].flow,
                      reverses |-> tx[d].of]]
  /\ End(d)
  /\ UNCHANGED <<now, drawer, payment, item, signed, overtaken>>

(* A line is reversed once (the unique key); the payment behind it becomes
   REFUNDED and keeps its drawer, and no row of the drawer is locked.         *)
CommitReversal(d) ==
  LET p == tx[d].of IN
  /\ tx[d].op = "REVERSE"
  /\ End(d)
  /\ IF payment[p].status # "SUCCESS" THEN UNCHANGED <<payment, overtaken>>
     ELSE /\ payment' = [payment EXCEPT ![p].status = "REFUNDED",
                                        ![p].reversedAt = tx[d].began]
          /\ overtaken' =
               IF tx[d].began < drawer[payment[p].on].closedAt
               THEN overtaken \cup {p} ELSE overtaken
  /\ UNCHANGED <<now, drawer, entry, item, signed>>

(* The drawer is counted out and the figure read back under the lock.         *)
CommitClose(d) ==
  LET s == tx[d].on IN
  /\ tx[d].op = "CLOSE" /\ tx[d].lock = "UPDATE"
  /\ drawer' = [drawer EXCEPT ![s].state = "CLOSED",
                              ![s].closedAt = tx[d].began]
  /\ signed' = [signed EXCEPT ![s] = Expected(s, tx[d].began)]
  /\ End(d)
  /\ UNCHANGED <<now, payment, entry, item, overtaken>>

CommitRaise(d) ==
  /\ tx[d].op = "RAISE"
  /\ item' = [item EXCEPT ![tx[d].of].raised = tx[d].on]
  /\ End(d)
  /\ UNCHANGED <<now, drawer, payment, entry, signed, overtaken>>

(* Mutant of Outstanding: the update names the item and not its state.        *)
OutstandingAlways(i) == TRUE

Outstanding(i) == item[i].cleared = None

CommitClear(d) ==
  /\ tx[d].op = "CLEAR"
  /\ item' = IF Outstanding(tx[d].of)
             THEN [item EXCEPT ![tx[d].of].cleared = tx[d].on] ELSE item
  /\ End(d)
  /\ UNCHANGED <<now, drawer, payment, entry, signed, overtaken>>
-----------------------------------------------------------------------------
Begin(d) ==
  \/ \E o \in Operators, p \in Payments : BeginPayment(d, o, p)
  \/ \E e \in Entries, s \in Shifts, flow \in {-1, 1} : BeginEntry(d, e, s, flow)
  \/ \E e, m \in Entries, s \in Shifts : BeginCorrection(d, e, m, s)
  \/ \E s \in Shifts : BeginClose(d, s)
  \/ \E p \in Payments : BeginReversal(d, p)
  \/ \E o \in Operators, i \in Items, op \in {"RAISE", "CLEAR"} :
       BeginItem(d, o, i, op)

Step(d) ==
  \/ PutCashIn(d) \/ LockDrawer(d) \/ RefuseClosed(d)
  \/ CommitPayment(d) \/ CommitEntry(d) \/ CommitReversal(d) \/ CommitClose(d)
  \/ CommitRaise(d) \/ CommitClear(d)

Next ==
  \/ \E o \in Operators, s \in Shifts : Open(o, s)
  \/ \E d \in Desks : Begin(d) \/ Step(d)

Spec == Init /\ [][Next]_vars
-----------------------------------------------------------------------------
Closed(s) == drawer[s].state = "CLOSED"

(* The figure a drawer was signed for stands, whoever pays, reverses, records
   or corrects afterwards and whatever was waiting for the row meanwhile: it
   differs from what is computed now by the reversals that were already under
   way when the drawer was counted, and by nothing else.                      *)
SignedCountsStand ==
  \A s \in Shifts : Closed(s) =>
    signed[s] = Expected(s, drawer[s].closedAt)
                + Cardinality({p \in overtaken : payment[p].on = s})

(* A movement of the property's cash is undone at most once, by its opposite,
   and an undoing is never undone, whoever else is correcting it.             *)
MistakesAreUndoneOnce ==
  \A e, f \in Entries : entry[e].reverses = f /\ f # None =>
    /\ entry[f].reverses = None /\ entry[e].flow = -entry[f].flow
    /\ \A g \in Entries : entry[g].reverses = f => g = e

(* The shift credited with clearing an item is never rewritten, when two of
   them clear it at once.                                                     *)
ClearedItemsKeepTheirCredit ==
  [][\A i \in Items : item[i].cleared # None => item'[i] = item[i]]_vars

=============================================================================
