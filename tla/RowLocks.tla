------------------------------ MODULE RowLocks ------------------------------
(* The order in which the transactions of the booking side take row locks.

   Every movement of the counter is one UPDATE whose locking read is sorted by
   stay date, and every operation on an existing booking locks its row first.
   A transaction keeps what it locked until it commits or rolls back. Only the
   locks are modelled: what the transactions write is in Stay.               *)
EXTENDS Naturals, Sequences, SequencesExt

CONSTANTS
  Txns,        \* connections, each with at most one transaction open
  Types,       \* room types
  LastNight,   \* the last night open for sale
  StayOf,      \* the stay of each booking, a sequence: bookings are 1 .. Len(StayOf)
  Kinds,       \* the operations that are run, of those in Program
  Nobody, Idle

ASSUME TxnsAssumption == Nobody \notin Txns
ASSUME KindsAssumption ==
  /\ Kinds \subseteq {"create", "amend", "replace", "retype", "sweep", "close"}
  /\ Idle \notin Kinds
ASSUME CalendarAssumption == LastNight \in Nat \ {0}

Bookings == DOMAIN StayOf

(* One or more nights [from, to) open for sale. *)
Spans == {s \in [from : 1 .. LastNight, to : 1 .. LastNight + 1] : s.from < s.to}

ASSUME StaysAssumption ==
  \A b \in Bookings :
    /\ StayOf[b] \in [type : Types, from : 1 .. LastNight, to : 1 .. LastNight + 1]
    /\ StayOf[b].from < StayOf[b].to

BookingRow(b) == <<"booking", b>>
NightRow(t, n) == <<"night", t, n>>
LockableRows ==
  {BookingRow(b) : b \in Bookings} \cup {NightRow(t, n) : t \in Types, n \in 1 .. LastNight}

VARIABLES
  todo,     \* the rows each open transaction has still to lock, in order
  op,       \* the operation each connection has a transaction open for, or Idle
  holder    \* who holds each row's lock

locks == <<todo, op, holder>>

LocksTypeOK ==
  /\ todo \in [Txns -> Seq(LockableRows)]
  /\ op \in [Txns -> Kinds \cup {Idle}]
  /\ holder \in [LockableRows -> Txns \cup {Nobody}]

LocksInit ==
  /\ todo = [x \in Txns |-> <<>>]
  /\ op = [x \in Txns |-> Idle]
  /\ holder = [r \in LockableRows |-> Nobody]

-----------------------------------------------------------------------------
(* What each operation locks. *)

(* A plain UPDATE over the nights: in whatever order the plan reads them. *)
PlainUpdate(t, span) ==
  {[i \in DOMAIN p |-> NightRow(t, p[i])] : p \in SetToSeqs(span.from .. span.to - 1)}

(* InventoryService.move: SELECT ... ORDER BY stay_date FOR UPDATE. *)
Movement(t, span) ==
  {[i \in 1 .. span.to - span.from |-> NightRow(t, span.from + i - 1)]}

(* The nights a change to the stay of b moves: all of them or the last ones
   (cancel, shortenStay, markNoShow, reinstate), or some after (extendStay).  *)
Amended(b) ==
  {s \in Spans : \/ s.from >= StayOf[b].from /\ s.to = StayOf[b].to
                 \/ s.from = StayOf[b].to}

Whole(b) == [from |-> StayOf[b].from, to |-> StayOf[b].to]

(* The bookings of a sweep, in id order, and then the nights of each in turn. *)
Swept(bs) ==
  LET ids == SetToSortSeq(bs, <)
      nights == FoldSeq(LAMBDA b, acc : {a \o m : a \in acc, m \in Movement(StayOf[b].type, Whole(b))},
                        {<<>>}, ids)
  IN {[i \in DOMAIN ids |-> BookingRow(ids[i])] \o p : p \in nights}

Amendments(b) ==
  {<<BookingRow(b)>> \o m : m \in UNION {Movement(StayOf[b].type, s) : s \in Amended(b)}}

(* changeRoomType: take the new type, then give back the old. *)
TypeChanges(b) ==
  {<<BookingRow(b)>> \o m \o old :
     m \in UNION {Movement(t, Whole(b)) : t \in Types \ {StayOf[b].type}},
     old \in Movement(StayOf[b].type, Whole(b))}

Program(kind) ==
  CASE kind = "create" -> UNION {Movement(t, s) : t \in Types, s \in Spans}
    [] kind = "amend" -> UNION {Amendments(b) : b \in Bookings}
    [] kind = "replace" ->   \* createHold on a new stay, then the hold of b let go
         UNION {{m \o <<BookingRow(b)>> \o old : m \in Movement(t, s),
                                                old \in Movement(StayOf[b].type, Whole(b))} :
                  t \in Types, s \in Spans, b \in Bookings}
    [] kind = "retype" -> UNION {TypeChanges(b) : b \in Bookings}
    [] kind = "sweep" -> UNION {Swept(bs) : bs \in SUBSET Bookings \ {{}}}
    [] kind = "close" -> UNION {PlainUpdate(t, s) : t \in Types, s \in Spans}

-----------------------------------------------------------------------------
WaitsFor(x, y) ==
  /\ op[x] # Idle /\ todo[x] # <<>> /\ x # y
  /\ holder[Head(todo[x])] = y

(* A cycle, or several: a set in which each waits for, and is waited for by,
   another; a transaction waits for one row at a time.                        *)
Cycle(c) ==
  c # {} /\ \A y \in c : (\E z \in c : WaitsFor(y, z)) /\ (\E z \in c : WaitsFor(z, y))

OnCycle(x) == \E c \in SUBSET Txns : x \in c /\ Cycle(c)

Released(x) == [r \in LockableRows |-> IF holder[r] = x THEN Nobody ELSE holder[r]]

Open(x) ==
  /\ op[x] = Idle
  /\ \E k \in Kinds : /\ op' = [op EXCEPT ![x] = k]
                      /\ \E p \in Program(k) : todo' = [todo EXCEPT ![x] = p]
  /\ UNCHANGED holder

Lock(x) ==
  /\ op[x] # Idle /\ todo[x] # <<>>
  /\ holder[Head(todo[x])] \in {Nobody, x}
  /\ holder' = [holder EXCEPT ![Head(todo[x])] = x]
  /\ todo' = [todo EXCEPT ![x] = Tail(@)]
  /\ UNCHANGED op

(* TransactionRunner.run: everything is let go of together. *)
Commit(x) ==
  /\ op[x] # Idle /\ todo[x] = <<>>
  /\ holder' = Released(x)
  /\ op' = [op EXCEPT ![x] = Idle]
  /\ UNCHANGED todo

(* PostgreSQL breaks a cycle by aborting one of its transactions, and nothing
   in the code retries it: the caller is answered with an error.              *)
DeadlockVictim(x) ==
  /\ OnCycle(x)
  /\ holder' = Released(x)
  /\ op' = [op EXCEPT ![x] = Idle]
  /\ todo' = [todo EXCEPT ![x] = <<>>]

LocksNext == \E x \in Txns : Open(x) \/ Lock(x) \/ Commit(x) \/ DeadlockVictim(x)

LocksSpec == LocksInit /\ [][LocksNext]_locks

-----------------------------------------------------------------------------
(* The ordered locking read at work: transactions wait for each other only where
   one of them moves the nights of two stays (a replaced hold, a sweep), updates
   without the ordering (a closure), or where two change room types.           *)
CyclesNeedTwoMovements ==
  \A c \in SUBSET Txns : Cycle(c) =>
    \/ \E x \in c : op[x] \in {"replace", "sweep", "close"}
    \/ \E x, y \in c : x # y /\ op[x] = "retype" /\ op[y] = "retype"

=============================================================================
