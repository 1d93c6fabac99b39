-------------------------- MODULE TransactionProofs --------------------------
(* The two things a transaction holds until it ends: the row locks of any request
   (RowLocks), and the advisory lock and post-commit queue of a job's run
   (JobRunner). The two models share no variable; each theorem is of one of them.

   RowLocks, for any number of connections, bookings, types and nights. Every
   transaction but three kinds locks each row before those it has still to come
   to, in one order of the nights of a type, and all but a type change stay with
   one type. So a wait leads to a later night of the same type, and a way round
   needs somebody who breaks that: two type changes, or one of the three.

   JobRunner, for any number of runs, rows and aborts. One run at most holds the
   lock (OneRun); a row that is written and not committed is still due, so nobody
   has asked for it before (Asking); and a queue is what its run has written
   until the commit, and done rows not yet sent after it (Queues).            *)
EXTENDS RowLocks, JobRunner, SequenceTheorems, WellFoundedInduction, TLAPS

(* The order of the locks. *)

Positions(p) == 1 .. Len(p)

(* q is a night, and r is not that night or a later one of the same type. *)
Before(r, q) ==
  \E t \in Types, n \in 1 .. LastNight :
    /\ q = NightRow(t, n)
    /\ \A m \in 1 .. LastNight : r = NightRow(t, m) => m < n

Ascends(p) == \A i, j \in Positions(p) : i < j => Before(p[i], p[j])

OfOneType(t) == {BookingRow(b) : b \in Bookings} \cup {NightRow(t, n) : n \in 1 .. LastNight}

Ordered == {"create", "amend", "retype"}

-----------------------------------------------------------------------------
(* What the operations lock. *)

LEMMA RowsApart ==
  /\ \A b, t, n : BookingRow(b) # NightRow(t, n)
  /\ \A t, u, n, m : NightRow(t, n) = NightRow(u, m) <=> t = u /\ n = m
BY DEF BookingRow, NightRow

(* A movement's nights, in date order. *)
LEMMA MovementAscends ==
  ASSUME NEW t \in Types, NEW s \in Spans, NEW m \in Movement(t, s)
  PROVE  /\ m \in Seq(LockableRows) /\ Ascends(m)
         /\ \A i \in Positions(m) : \E n \in 1 .. LastNight : m[i] = NightRow(t, n)
<1>1. /\ s.from \in 1 .. LastNight /\ s.to \in 1 .. LastNight + 1 /\ s.from < s.to
      /\ LastNight \in Nat
  BY CalendarAssumption DEF Spans
<1> DEFINE k == s.to - s.from
<1>2. k \in Nat /\ m = [i \in 1 .. k |-> NightRow(t, s.from + i - 1)]
  BY <1>1 DEF Movement
<1>3. \A i \in 1 .. k : s.from + i - 1 \in 1 .. LastNight
  BY <1>1
<1>4. \A i \in 1 .. k : NightRow(t, s.from + i - 1) \in LockableRows
  BY <1>3 DEF LockableRows
<1>5. m \in [1 .. k -> LockableRows]
  BY <1>2, <1>4
<1>6. m \in Seq(LockableRows) /\ Len(m) = k
  BY <1>2, <1>5
<1>7. Ascends(m)
  <2> SUFFICES ASSUME NEW i \in 1 .. k, NEW j \in 1 .. k, i < j
               PROVE  Before(m[i], m[j])
    BY <1>6 DEF Ascends, Positions
  <2>1. /\ m[i] = NightRow(t, s.from + i - 1) /\ m[j] = NightRow(t, s.from + j - 1)
        /\ s.from + j - 1 \in 1 .. LastNight /\ s.from + i - 1 < s.from + j - 1
    BY <1>1, <1>2, <1>3
  <2> QED BY <2>1, RowsApart DEF Before
<1> QED BY <1>2, <1>3, <1>6, <1>7 DEF Positions

(* One sequence after another, all of whose rows come later. *)
LEMMA ThenAscends ==
  ASSUME NEW p \in Seq(LockableRows), NEW q \in Seq(LockableRows), Ascends(p), Ascends(q),
         \A i \in Positions(p), j \in Positions(q) : Before(p[i], q[j])
  PROVE  /\ p \o q \in Seq(LockableRows) /\ Ascends(p \o q)
         /\ \A k \in Positions(p \o q) :
              (\E i \in Positions(p) : (p \o q)[k] = p[i]) \/ (\E j \in Positions(q) : (p \o q)[k] = q[j])
<1>1. /\ p \o q \in Seq(LockableRows) /\ Len(p \o q) = Len(p) + Len(q)
      /\ Len(p) \in Nat /\ Len(q) \in Nat
      /\ \A i \in 1 .. Len(p) + Len(q) : (p \o q)[i] = IF i <= Len(p) THEN p[i] ELSE q[i - Len(p)]
  BY ConcatProperties, LenProperties
<1> DEFINE pq == p \o q
<1> HIDE DEF pq
<1>2. \A k \in 1 .. Len(p) + Len(q) :
        \/ k \in 1 .. Len(p) /\ pq[k] = p[k]
        \/ k - Len(p) \in 1 .. Len(q) /\ k > Len(p) /\ pq[k] = q[k - Len(p)]
  BY <1>1 DEF pq
<1>3. ASSUME NEW i \in 1 .. Len(p) + Len(q), NEW j \in 1 .. Len(p) + Len(q), i < j
      PROVE  Before(pq[i], pq[j])
  <2>1. CASE j <= Len(p)
    <3>1. i \in 1 .. Len(p) /\ j \in 1 .. Len(p)
      BY <1>1, <1>3, <2>1
    <3>2. pq[i] = p[i] /\ pq[j] = p[j]
      BY <1>1, <1>2, <3>1
    <3> QED BY <1>3, <3>1, <3>2 DEF Ascends, Positions
  <2>2. CASE i > Len(p)
    <3> DEFINE k == i - Len(p)
               l == j - Len(p)
    <3>1. k \in 1 .. Len(q) /\ l \in 1 .. Len(q) /\ k < l
      BY <1>1, <1>3, <2>2
    <3>2. pq[i] = q[k] /\ pq[j] = q[l]
      BY <1>1, <1>2, <1>3, <2>2
    <3> HIDE DEF k, l
    <3> QED BY <3>1, <3>2 DEF Ascends, Positions
  <2>3. CASE i <= Len(p) /\ j > Len(p)
    BY <1>1, <1>2, <1>3, <2>3 DEF Positions
  <2> QED BY <1>1, <2>1, <2>2, <2>3
<1> QED BY <1>1, <1>2, <1>3 DEF Ascends, Positions, pq

(* A booking's row, and then nights. *)
LEMMA BookingFirst ==
  ASSUME NEW b \in Bookings, NEW p \in Seq(LockableRows), Ascends(p),
         \A i \in Positions(p) : \E t \in Types, n \in 1 .. LastNight : p[i] = NightRow(t, n)
  PROVE  /\ <<BookingRow(b)>> \o p \in Seq(LockableRows) /\ Ascends(<<BookingRow(b)>> \o p)
         /\ \A k \in Positions(<<BookingRow(b)>> \o p) :
              \/ (<<BookingRow(b)>> \o p)[k] = BookingRow(b)
              \/ \E i \in Positions(p) : (<<BookingRow(b)>> \o p)[k] = p[i]
<1> DEFINE one == <<BookingRow(b)>>
<1>1. one \in Seq(LockableRows) /\ Positions(one) = {1} /\ one[1] = BookingRow(b)
  BY DEF LockableRows, Positions
<1>2. Ascends(one)
  BY <1>1 DEF Ascends
<1>3. \A i \in Positions(one), j \in Positions(p) : Before(one[i], p[j])
  BY <1>1, RowsApart DEF Before
<1> HIDE DEF one
<1>4. /\ one \o p \in Seq(LockableRows) /\ Ascends(one \o p)
      /\ \A k \in Positions(one \o p) :
           (\E i \in Positions(one) : (one \o p)[k] = one[i]) \/ (\E i \in Positions(p) : (one \o p)[k] = p[i])
  BY <1>1, <1>2, <1>3, ThenAscends
<1> QED BY <1>1, <1>4 DEF one

(* Every operation but the three goes down its rows in order, and but for a type
   change through one type.                                                   *)
LEMMA ProgramAscends ==
  ASSUME NEW kind \in Ordered, NEW p \in Program(kind)
  PROVE  /\ p \in Seq(LockableRows) /\ Ascends(p)
         /\ kind # "retype" =>
              \E t \in Types : \A i \in Positions(p) : p[i] \in OfOneType(t)
<1>1. CASE kind = "create"
  <2>1. PICK t \in Types, s \in Spans : p \in Movement(t, s)
    BY <1>1 DEF Program
  <2>2. /\ p \in Seq(LockableRows) /\ Ascends(p)
        /\ \A i \in Positions(p) : \E n \in 1 .. LastNight : p[i] = NightRow(t, n)
    BY <2>1, MovementAscends
  <2> QED BY <2>2 DEF OfOneType
<1>2. CASE kind = "amend"
  <2>0. PICK b \in Bookings : p \in Amendments(b)
    BY <1>2 DEF Program
  <2>1. PICK s \in Amended(b) : \E m \in Movement(StayOf[b].type, s) : p = <<BookingRow(b)>> \o m
    BY <2>0 DEF Amendments
  <2>a. PICK m \in Movement(StayOf[b].type, s) : p = <<BookingRow(b)>> \o m
    BY <2>1
  <2>2. s \in Spans /\ StayOf[b].type \in Types
    BY StaysAssumption DEF Amended
  <2>3. /\ m \in Seq(LockableRows) /\ Ascends(m)
        /\ \A i \in Positions(m) : \E n \in 1 .. LastNight : m[i] = NightRow(StayOf[b].type, n)
    BY <2>2, MovementAscends
  <2>4. /\ p \in Seq(LockableRows) /\ Ascends(p)
        /\ \A k \in Positions(p) : p[k] = BookingRow(b) \/ \E i \in Positions(m) : p[k] = m[i]
    BY <2>a, <2>2, <2>3, BookingFirst
  <2>5. \A k \in Positions(p) : p[k] \in OfOneType(StayOf[b].type)
    BY <2>3, <2>4 DEF OfOneType
  <2> QED BY <2>2, <2>4, <2>5
<1>3. CASE kind = "retype"
  <2>0. PICK b \in Bookings : p \in TypeChanges(b)
    BY <1>3 DEF Program
  <2>1. PICK m \in UNION {Movement(t, Whole(b)) : t \in Types \ {StayOf[b].type}},
             old \in Movement(StayOf[b].type, Whole(b)) : p = <<BookingRow(b)>> \o m \o old
    BY <2>0 DEF TypeChanges
  <2>a. PICK t \in Types \ {StayOf[b].type} : m \in Movement(t, Whole(b))
    BY <2>1
  <2>2. Whole(b) \in Spans /\ StayOf[b].type \in Types
    <3>1. /\ StayOf[b].type \in Types /\ StayOf[b].from \in 1 .. LastNight
          /\ StayOf[b].to \in 1 .. LastNight + 1 /\ StayOf[b].from < StayOf[b].to
      BY StaysAssumption
    <3> QED BY <3>1 DEF Spans, Whole
  <2>3. /\ m \in Seq(LockableRows) /\ Ascends(m)
        /\ \A i \in Positions(m) : \E n \in 1 .. LastNight : m[i] = NightRow(t, n)
    BY <2>a, <2>2, MovementAscends
  <2>4. /\ old \in Seq(LockableRows) /\ Ascends(old)
        /\ \A i \in Positions(old) : \E n \in 1 .. LastNight : old[i] = NightRow(StayOf[b].type, n)
    BY <2>2, MovementAscends
  <2>5. PICK first : first = <<BookingRow(b)>> \o m
    OBVIOUS
  <2>6. /\ first \in Seq(LockableRows) /\ Ascends(first)
        /\ \A k \in Positions(first) : first[k] = BookingRow(b) \/ \E i \in Positions(m) : first[k] = m[i]
    BY <2>3, <2>5, BookingFirst
  <2>7. \A i \in Positions(first), j \in Positions(old) : Before(first[i], old[j])
    BY <2>2, <2>3, <2>4, <2>6, RowsApart DEF Before
  <2>8. first \o old \in Seq(LockableRows) /\ Ascends(first \o old)
    BY <2>4, <2>6, <2>7, ThenAscends
  <2> QED BY <1>3, <2>1, <2>5, <2>8
<1> QED BY <1>1, <1>2, <1>3 DEF Ordered

-----------------------------------------------------------------------------
(* What a transaction holds comes before what it has still to lock. *)

Holds(x, r) == holder[r] = x

InOrder(x) ==
  /\ todo[x] \in Seq(LockableRows) /\ Ascends(todo[x])
  /\ \A r \in LockableRows : Holds(x, r) => \A i \in Positions(todo[x]) : Before(r, todo[x][i])
  /\ op[x] # "retype" =>
       \E t \in Types : /\ \A i \in Positions(todo[x]) : todo[x][i] \in OfOneType(t)
                        /\ \A r \in LockableRows : Holds(x, r) => r \in OfOneType(t)

KeepsOrder(x) ==
  /\ op[x] = Idle => \A r \in LockableRows : ~ Holds(x, r)
  /\ op[x] # Idle /\ op[x] \in Ordered => InOrder(x)

Orderly ==
  /\ op \in [Txns -> Kinds \cup {Idle}] /\ DOMAIN todo = Txns
  /\ holder \in [LockableRows -> Txns \cup {Nobody}]
  /\ \A x \in Txns : KeepsOrder(x)

LEMMA OrderlyInit == LocksInit => Orderly
BY TxnsAssumption DEF LocksInit, Orderly, KeepsOrder, Holds

(* The order of a transaction is disturbed by its own steps alone. *)
LEMMA OthersKeepOrder ==
  ASSUME Orderly, NEW x \in Txns, op' \in [Txns -> Kinds \cup {Idle}], DOMAIN todo' = Txns,
         holder' \in [LockableRows -> Txns \cup {Nobody}], KeepsOrder(x)',
         \A y \in Txns \ {x} : /\ op'[y] = op[y] /\ todo'[y] = todo[y]
                               /\ \A r \in LockableRows : Holds(y, r)' <=> Holds(y, r)
  PROVE  Orderly'
<1>1. \A y \in Txns \ {x} : KeepsOrder(y)'
  BY DEF Orderly, KeepsOrder, InOrder
<1> QED BY <1>1 DEF Orderly

LEMMA OrderlyOpen ==
  ASSUME Orderly, NEW x \in Txns, Open(x)
  PROVE  Orderly'
<1>0. PICK k \in Kinds : op' = [op EXCEPT ![x] = k]
                       /\ \E p \in Program(k) : todo' = [todo EXCEPT ![x] = p]
  BY DEF Open
<1>1. PICK p \in Program(k) : todo' = [todo EXCEPT ![x] = p]
  BY <1>0
<1>2. op'[x] = k /\ todo'[x] = p /\ holder' = holder /\ \A r \in LockableRows : ~ Holds(x, r)'
  BY <1>0, <1>1 DEF Open, Orderly, KeepsOrder, Holds
<1>3. k \in Ordered => InOrder(x)'
  BY <1>2, ProgramAscends DEF InOrder
<1>4. KeepsOrder(x)'
  BY <1>2, <1>3, KindsAssumption DEF KeepsOrder
<1> QED BY <1>0, <1>1, <1>2, <1>4, OthersKeepOrder DEF Orderly, Holds

LEMMA OrderlyLock ==
  ASSUME Orderly, NEW x \in Txns, Lock(x)
  PROVE  Orderly'
<1> DEFINE h == Head(todo[x])
           p == todo[x]
<1>0. /\ op' = op /\ op[x] # Idle /\ p # <<>> /\ holder[h] \in {Nobody, x}
      /\ holder' = [holder EXCEPT ![h] = x] /\ todo' = [todo EXCEPT ![x] = Tail(p)]
  BY DEF Lock
<1>1. /\ todo'[x] = Tail(p) /\ DOMAIN todo' = Txns
      /\ holder' \in [LockableRows -> Txns \cup {Nobody}]
      /\ \A r \in LockableRows : holder'[r] = IF r = h THEN x ELSE holder[r]
      /\ \A y \in Txns \ {x} : todo'[y] = todo[y]
  BY <1>0 DEF Orderly
<1>2. \A y \in Txns \ {x}, r \in LockableRows : Holds(y, r)' <=> Holds(y, r)
  BY <1>0, <1>1, TxnsAssumption DEF Holds
<1>3. ASSUME op[x] \in Ordered PROVE InOrder(x)'
  <2>1. p \in Seq(LockableRows) /\ Ascends(p) /\ InOrder(x)
    BY <1>0, <1>3 DEF Orderly, KeepsOrder, InOrder
  <2>2. /\ Tail(p) \in Seq(LockableRows) /\ Len(Tail(p)) = Len(p) - 1 /\ Len(p) \in Nat \ {0}
        /\ \A i \in 1 .. Len(Tail(p)) : Tail(p)[i] = p[i + 1]
        /\ h = p[1] /\ h \in LockableRows
    BY <1>0, <2>1, HeadTailProperties, LenProperties, EmptySeq
  <2>3. \A i \in Positions(Tail(p)) : i + 1 \in Positions(p) /\ 1 < i + 1 /\ Tail(p)[i] = p[i + 1]
    BY <2>2 DEF Positions
  <2>4. 1 \in Positions(p)
    BY <2>2 DEF Positions
  <2>5. Ascends(Tail(p))
    <3> SUFFICES ASSUME NEW i \in Positions(Tail(p)), NEW j \in Positions(Tail(p)), i < j
                 PROVE  Before(Tail(p)[i], Tail(p)[j])
      BY DEF Ascends
    <3>1. i + 1 < j + 1
      BY DEF Positions
    <3> QED BY <2>1, <2>3, <3>1 DEF Ascends
  <2>6. \A i \in Positions(Tail(p)) : Before(h, Tail(p)[i])
    BY <2>1, <2>2, <2>3, <2>4 DEF Ascends
  <2>7. \A r \in LockableRows : Holds(x, r)' => \A i \in Positions(Tail(p)) : Before(r, Tail(p)[i])
    <3> SUFFICES ASSUME NEW r \in LockableRows, Holds(x, r), r # h, NEW i \in Positions(Tail(p))
                 PROVE  Before(r, Tail(p)[i])
      BY <1>1, <2>6 DEF Holds
    <3> QED BY <2>1, <2>3 DEF InOrder
  <2>8. ASSUME op[x] # "retype"
        PROVE  \E t \in Types : /\ \A i \in Positions(Tail(p)) : Tail(p)[i] \in OfOneType(t)
                                /\ \A r \in LockableRows : Holds(x, r)' => r \in OfOneType(t)
    <3>1. PICK t \in Types : /\ \A i \in Positions(p) : p[i] \in OfOneType(t)
                             /\ \A r \in LockableRows : Holds(x, r) => r \in OfOneType(t)
      BY <2>1, <2>8 DEF InOrder
    <3>2. h \in OfOneType(t)
      BY <2>2, <2>4, <3>1
    <3>3. \A r \in LockableRows : Holds(x, r)' => r = h \/ Holds(x, r)
      BY <1>1 DEF Holds
    <3> QED BY <2>3, <3>1, <3>2, <3>3
  <2> QED BY <1>0, <1>1, <2>2, <2>5, <2>7, <2>8 DEF InOrder
<1>4. KeepsOrder(x)'
  BY <1>0, <1>3 DEF KeepsOrder
<1> QED BY <1>0, <1>1, <1>2, <1>4, OthersKeepOrder DEF Orderly

(* A transaction that ends lets go of everything. *)
LEMMA OrderlyEnd ==
  ASSUME Orderly, NEW x \in Txns, holder' = Released(x), op' = [op EXCEPT ![x] = Idle],
         DOMAIN todo' = Txns, \A y \in Txns \ {x} : todo'[y] = todo[y]
  PROVE  Orderly'
<1>1. /\ holder' \in [LockableRows -> Txns \cup {Nobody}]
      /\ \A r \in LockableRows : holder'[r] = IF holder[r] = x THEN Nobody ELSE holder[r]
  BY DEF Released, Orderly
<1>2. \A r \in LockableRows : ~ Holds(x, r)'
  BY <1>1, TxnsAssumption DEF Holds
<1>3. \A y \in Txns \ {x}, r \in LockableRows : Holds(y, r)' <=> Holds(y, r)
  BY <1>1, TxnsAssumption DEF Holds
<1>4. op'[x] = Idle /\ op' \in [Txns -> Kinds \cup {Idle}] /\ \A y \in Txns \ {x} : op'[y] = op[y]
  BY DEF Orderly
<1>5. KeepsOrder(x)'
  BY <1>2, <1>4 DEF KeepsOrder
<1> QED BY <1>1, <1>3, <1>4, <1>5, OthersKeepOrder

LEMMA OrderlyNext == Orderly /\ [LocksNext]_locks => Orderly'
<1> SUFFICES ASSUME Orderly, [LocksNext]_locks PROVE Orderly'
  OBVIOUS
<1>1. ASSUME NEW x \in Txns, Commit(x) PROVE Orderly'
  BY <1>1, OrderlyEnd DEF Commit, Orderly
<1>2. ASSUME NEW x \in Txns, DeadlockVictim(x) PROVE Orderly'
  BY <1>2, OrderlyEnd DEF DeadlockVictim, Orderly
<1>3. CASE UNCHANGED locks
  BY <1>3 DEF locks, Orderly, KeepsOrder, InOrder, Holds
<1> QED BY <1>1, <1>2, <1>3, OrderlyOpen, OrderlyLock DEF LocksNext

-----------------------------------------------------------------------------
(* Round a cycle the nights would have to go up for ever. *)

(* Nights end. *)
LEMMA LastOfNights ==
  ASSUME NEW S \in SUBSET (1 .. LastNight), S # {}
  PROVE  \E m \in S : \A n \in S : ~ (m < n)
<1> DEFINE T == {LastNight - n : n \in S}
           Below == OpToRel(<, Nat)
<1>0. LastNight \in Nat /\ \A n \in S : n \in Nat /\ n <= LastNight
  BY CalendarAssumption
<1>1. IsWellFoundedOn(Below, Nat)
  BY NatLessThanWellFounded
<1>2. \A i, j \in Nat : i < j => <<i, j>> \in Below
  BY DEF OpToRel
<1>3. T \in SUBSET Nat /\ T # {}
  BY <1>0
<1>4. \E i \in T : \A j \in T : ~ (<<j, i>> \in Below)
  <2> HIDE DEF Below, T
  <2> QED BY <1>1, <1>3, WFMin
<1> HIDE DEF Below
<1>5. PICK m \in S : \A n \in S : ~ (<<LastNight - n, LastNight - m>> \in Below)
  BY <1>4
<1>6. ASSUME NEW n \in S, m < n PROVE FALSE
  <2>1. LastNight - n \in Nat /\ LastNight - m \in Nat /\ LastNight - n < LastNight - m
    BY <1>0, <1>6
  <2> QED BY <1>2, <1>5, <2>1
<1> QED BY <1>6

Wanted(x) == todo[x][1]

(* Whoever waits and keeps the order wants a row that comes after all it holds. *)
LEMMA WantedComesLast ==
  ASSUME Orderly, NEW x \in Txns, NEW y \in Txns, op[x] \in Ordered, WaitsFor(x, y)
  PROVE  /\ x # y /\ Wanted(x) \in LockableRows /\ Holds(y, Wanted(x))
         /\ \A r \in LockableRows : Holds(x, r) => Before(r, Wanted(x))
         /\ op[x] # "retype" =>
              \E t \in Types : /\ Wanted(x) \in OfOneType(t)
                               /\ \A r \in LockableRows : Holds(x, r) => r \in OfOneType(t)
<1>1. /\ op[x] # Idle /\ todo[x] # <<>> /\ x # y /\ holder[Head(todo[x])] = y
  BY DEF WaitsFor
<1>2. InOrder(x)
  BY <1>1 DEF Orderly, KeepsOrder
<1>3. 1 \in Positions(todo[x]) /\ Head(todo[x]) = Wanted(x) /\ Wanted(x) \in LockableRows
  <2>1. todo[x] \in Seq(LockableRows)
    BY <1>2 DEF InOrder
  <2>2. Len(todo[x]) \in Nat \ {0}
    BY <1>1, <2>1, LenProperties, EmptySeq
  <2> QED BY <1>1, <2>1, <2>2, ElementOfSeq DEF Positions, Wanted
<1>4. \A r \in LockableRows : Holds(x, r) => Before(r, Wanted(x))
  BY <1>2, <1>3 DEF InOrder, Wanted
<1>5. op[x] # "retype" =>
        \E t \in Types : /\ Wanted(x) \in OfOneType(t)
                         /\ \A r \in LockableRows : Holds(x, r) => r \in OfOneType(t)
  BY <1>2, <1>3 DEF InOrder, Wanted
<1> QED BY <1>1, <1>3, <1>4, <1>5 DEF Holds

(* A wait on a cycle is for a night, and of one who stays with a type, for a
   later night than one it holds of it.                                       *)
LEMMA WaitsForANight ==
  ASSUME Orderly, NEW c \in SUBSET Txns, Cycle(c), \A y \in c : op[y] \in Ordered, NEW y \in c
  PROVE  /\ \E t \in Types, n \in 1 .. LastNight : Wanted(y) = NightRow(t, n)
         /\ \A t \in Types, n \in 1 .. LastNight : Holds(y, NightRow(t, n)) =>
              /\ \A m \in 1 .. LastNight : Wanted(y) = NightRow(t, m) => n < m
              /\ op[y] # "retype" => \E m \in 1 .. LastNight : Wanted(y) = NightRow(t, m)
         /\ \E z \in c \ {y} : Holds(z, Wanted(y))
<1>1. PICK z \in c : WaitsFor(y, z)
  BY DEF Cycle
<1>2. PICK w \in c : WaitsFor(w, y)
  BY DEF Cycle
<1>3. /\ z # y /\ Holds(z, Wanted(y))
      /\ \A r \in LockableRows : Holds(y, r) => Before(r, Wanted(y))
      /\ op[y] # "retype" =>
           \E t \in Types : /\ Wanted(y) \in OfOneType(t)
                            /\ \A r \in LockableRows : Holds(y, r) => r \in OfOneType(t)
  BY <1>1, WantedComesLast
<1>4. Wanted(w) \in LockableRows /\ Holds(y, Wanted(w))
  BY <1>2, WantedComesLast
<1>5. \E t \in Types, n \in 1 .. LastNight : Wanted(y) = NightRow(t, n)
  BY <1>3, <1>4 DEF Before
<1>6. ASSUME NEW t \in Types, NEW n \in 1 .. LastNight, Holds(y, NightRow(t, n))
      PROVE  /\ \A m \in 1 .. LastNight : Wanted(y) = NightRow(t, m) => n < m
             /\ op[y] # "retype" => \E m \in 1 .. LastNight : Wanted(y) = NightRow(t, m)
  <2>1. NightRow(t, n) \in LockableRows
    BY DEF LockableRows
  <2>2. Before(NightRow(t, n), Wanted(y))
    BY <1>3, <1>6, <2>1
  <2>3. ASSUME NEW m \in 1 .. LastNight, Wanted(y) = NightRow(t, m) PROVE n < m
    <3>1. PICK u \in Types : \E k \in 1 .. LastNight :
            /\ Wanted(y) = NightRow(u, k)
            /\ \A l \in 1 .. LastNight : NightRow(t, n) = NightRow(u, l) => l < k
      BY <2>2 DEF Before
    <3>2. PICK k \in 1 .. LastNight :
            /\ Wanted(y) = NightRow(u, k)
            /\ \A l \in 1 .. LastNight : NightRow(t, n) = NightRow(u, l) => l < k
      BY <3>1
    <3>3. u = t /\ k = m
      <4>1. NightRow(u, k) = NightRow(t, m)
        BY <2>3, <3>2
      <4> QED BY <4>1 DEF NightRow
    <3>4. NightRow(t, n) = NightRow(u, n)
      BY <3>3
    <3>5. n < k
      BY <3>2, <3>4
    <3> QED BY <3>3, <3>5
  <2>4. ASSUME op[y] # "retype" PROVE \E m \in 1 .. LastNight : Wanted(y) = NightRow(t, m)
    <3>1. PICK u \in Types : Wanted(y) \in OfOneType(u) /\ NightRow(t, n) \in OfOneType(u)
      BY <1>3, <1>6, <2>1, <2>4
    <3>2. u = t
      BY <3>1, RowsApart DEF OfOneType
    <3> QED BY <1>5, <3>1, <3>2, RowsApart DEF OfOneType
  <2> QED BY <2>3, <2>4
<1> QED BY <1>3, <1>5, <1>6

(* A cycle through transactions that keep the order has two type changes. *)
LEMMA CyclesGoUp ==
  ASSUME Orderly, NEW c \in SUBSET Txns, Cycle(c), \A y \in c : op[y] \in Ordered
  PROVE  \E x, y \in c : x # y /\ op[x] = "retype" /\ op[y] = "retype"
<1> SUFFICES ASSUME \A x, y \in c : op[x] = "retype" /\ op[y] = "retype" => x = y
             PROVE  FALSE
  OBVIOUS
<1>1. PICK x \in c : \A y \in c \ {x} : op[y] # "retype"
  <2>1. CASE \E x \in c : op[x] = "retype"
    BY <2>1
  <2>2. CASE \A x \in c : op[x] # "retype"
    BY <2>2 DEF Cycle
  <2> QED BY <2>1, <2>2
<1>2. PICK t \in Types, first \in 1 .. LastNight : Wanted(x) = NightRow(t, first)
  BY WaitsForANight
<1> DEFINE Sought == {n \in 1 .. LastNight : \E y \in c : Wanted(y) = NightRow(t, n) /\ ~ (n < first)}
<1>3. Sought # {} /\ Sought \in SUBSET (1 .. LastNight)
  <2>1. first \in Sought
    BY <1>2, CalendarAssumption
  <2> QED BY <2>1
<1>4. ASSUME NEW n \in Sought PROVE \E m \in Sought : n < m
  <2>1. PICK y \in c : Wanted(y) = NightRow(t, n) /\ ~ (n < first)
    BY <1>4
  <2>2. PICK z \in c \ {y} : Holds(z, NightRow(t, n))
    BY <2>1, WaitsForANight
  <2>3. z # x
    BY <1>2, <2>1, <2>2, WaitsForANight
  <2>4. PICK m \in 1 .. LastNight : Wanted(z) = NightRow(t, m)
    BY <1>1, <2>2, <2>3, WaitsForANight
  <2>5. n < m
    BY <2>2, <2>4, WaitsForANight
  <2>6. ~ (m < first)
    BY <2>1, <2>5, CalendarAssumption
  <2> QED BY <2>2, <2>4, <2>5, <2>6
<1> HIDE DEF Sought
<1> QED BY <1>3, <1>4, LastOfNights

(* Whatever the number of connections, bookings, types and nights: a cycle of
   waits goes through a transaction that moves two spans or updates without the
   ordered read, or through two type changes.                                 *)
THEOREM OrderedLocksDoNotCycle == LocksSpec => []CyclesNeedTwoMovements
<1>1. Orderly => CyclesNeedTwoMovements
  <2> SUFFICES ASSUME Orderly, NEW c \in SUBSET Txns, Cycle(c),
                      ~ \E x \in c : op[x] \in {"replace", "sweep", "close"}
               PROVE  \E x, y \in c : x # y /\ op[x] = "retype" /\ op[y] = "retype"
    BY DEF CyclesNeedTwoMovements
  <2>1. \A y \in c : op[y] \in Kinds
    BY DEF Cycle, WaitsFor, Orderly
  <2>2. \A y \in c : op[y] \in Ordered
    BY <2>1, KindsAssumption DEF Ordered
  <2> QED BY <2>2, CyclesGoUp
<1> QED BY <1>1, OrderlyInit, OrderlyNext, PTL DEF LocksSpec


-----------------------------------------------------------------------------
(* The runs of a job. *)

OneRun ==
  \A p, q \in Runs :
    phase[p] \in {"FIRST", "SECOND"} /\ phase[q] \in {"FIRST", "SECOND"} => p = q

Asking ==
  /\ \A r \in Runs : \A i \in touched[r] : status[i] = "DUE"
  /\ \A i \in Rows : asked[i] = IF status[i] = "DONE" \/ (\E r \in Runs : i \in touched[r]) THEN 1 ELSE 0

Queues ==
  /\ \A r \in Runs : phase[r] \in {"WAITING", "FIRST"} => queue[r] = {}
  /\ \A r \in Runs : phase[r] = "SECOND" => queue[r] = touched[r]
  /\ \A r \in Runs : phase[r] = "IDLE" => \A i \in queue[r] : status[i] = "DONE" /\ sent[i] = 0
  /\ \A p, q \in Runs : p # q => queue[p] \cap queue[q] = {}

Inv == TypeOK /\ OneRun /\ Asking /\ Queues /\ MessagesFollowTheMark

LEMMA InitInv == Init => Inv
BY BoundAssumption DEF Init, Inv, TypeOK, OneRun, Asking, Queues, MessagesFollowTheMark

(* What a rollback does: the run's rows are unwritten and its queue dropped. *)
LEMMA RollBackInv ==
  ASSUME Inv, NEW r \in Runs, phase[r] # "IDLE", RollBack(r), aborts' \in 0 .. MaxAborts
  PROVE  Inv'
<1>1. TypeOK'
  BY DEF RollBack, Inv, TypeOK, Written, Discarded, Minus, Asking
<1>2. OneRun'
  BY DEF RollBack, Inv, TypeOK, OneRun
<1>3. Asking'
  BY DEF RollBack, Inv, TypeOK, OneRun, Asking, Written, Minus
<1>4. Queues'
  BY DEF RollBack, Inv, TypeOK, Queues, Written, Discarded
<1>5. MessagesFollowTheMark'
  BY DEF RollBack, Inv, MessagesFollowTheMark
<1> QED BY <1>1, <1>2, <1>3, <1>4, <1>5 DEF Inv

LEMMA NextInv == Inv /\ [Next]_vars => Inv'
<1> SUFFICES ASSUME Inv, [Next]_vars PROVE Inv'
  OBVIOUS
<1> USE DEF Inv, TypeOK
<1>1. ASSUME NEW i \in Rows, BecomeDue(i) PROVE Inv'
  BY <1>1 DEF BecomeDue, OneRun, Asking, Queues, MessagesFollowTheMark
<1>2. ASSUME NEW i \in Rows, Withdraw(i) PROVE Inv'
  BY <1>2 DEF Withdraw, OneRun, Asking, Queues, MessagesFollowTheMark
<1>3. ASSUME NEW r \in Runs, Begin(r) PROVE Inv'
  BY <1>3 DEF Begin, OneRun, Asking, Queues, MessagesFollowTheMark
<1>4. ASSUME NEW r \in Runs, TakeLock(r) PROVE Inv'
  BY <1>4 DEF TakeLock, LockFree, OneRun, Asking, Queues, MessagesFollowTheMark
<1>5. ASSUME NEW r \in Runs, FirstPass(r) PROVE Inv'
  <2>1. Found(r) = {i \in Rows : status[i] = "DUE"}
    BY <1>5 DEF FirstPass, Found, Matching
  <2>2. \A q \in Runs : touched[q] = {}
    BY <1>5 DEF FirstPass, OneRun
  <2>3. TypeOK'
    BY <1>5, <2>1, <2>2 DEF FirstPass, Written, Plus
  <2>4. OneRun' /\ MessagesFollowTheMark'
    BY <1>5 DEF FirstPass, OneRun, MessagesFollowTheMark
  <2>5. Asking'
    BY <1>5, <2>1, <2>2 DEF FirstPass, Asking, Written, Plus
  <2>6. Queues'
    <3>1. \A q \in Runs : q # r => phase[q] \in {"IDLE", "WAITING"}
      BY <1>5 DEF FirstPass, OneRun
    <3>2. \A q \in Runs : q # r => queue[q] \cap Found(r) = {}
      BY <2>1, <3>1 DEF Queues
    <3> QED BY <1>5, <2>1, <2>2, <3>1, <3>2 DEF FirstPass, Queues, Written
  <2> QED BY <2>3, <2>4, <2>5, <2>6
<1>6. ASSUME NEW r \in Runs, SettledPass(r) PROVE Inv'
  <2>1. TypeOK'
    BY <1>6 DEF SettledPass, Written
  <2>2. OneRun'
    BY <1>6 DEF SettledPass, OneRun
  <2>3. \A q \in Runs : q # r => touched[q] = {}
    BY <1>6 DEF SettledPass, OneRun
  <2>4. Asking'
    BY <1>6, <2>3 DEF SettledPass, Asking, Written
  <2>5. \A i \in touched[r] : sent[i] = 0
    <3> SUFFICES ASSUME NEW i \in touched[r] PROVE sent[i] = 0
      OBVIOUS
    <3>1. i \in Rows /\ status[i] = "DUE" /\ sent[i] \in Nat
      BY DEF Asking
    <3> QED BY <3>1 DEF MessagesFollowTheMark
  <2>6. Queues'
    BY <1>6, <2>5 DEF SettledPass, Queues, Written
  <2>7. MessagesFollowTheMark'
    BY <1>6 DEF SettledPass, MessagesFollowTheMark
  <2> QED BY <2>1, <2>2, <2>4, <2>6, <2>7
<1>7. ASSUME NEW r \in Runs, RejectedPass(r) PROVE Inv'
  BY <1>7, RollBackInv DEF RejectedPass
<1>8. ASSUME NEW r \in Runs, Abort(r) PROVE Inv'
  BY <1>8, RollBackInv, BoundAssumption DEF Abort
<1>9. ASSUME NEW r \in Runs, Send(r) PROVE Inv'
  <2>1. PICK i \in queue[r] : /\ queue' = [queue EXCEPT ![r] = @ \ {i}]
                              /\ sent' \in {sent, Plus(sent, {i})}
    BY <1>9 DEF Send
  <2>2. i \in Rows /\ status[i] = "DONE" /\ sent[i] = 0
    BY <1>9 DEF Send, Queues
  <2>3. TypeOK'
    BY <1>9, <2>1 DEF Send, Plus
  <2>4. OneRun' /\ Asking'
    BY <1>9 DEF Send, OneRun, Asking
  <2>5. Queues'
    BY <1>9, <2>1, <2>2 DEF Send, Queues, Plus
  <2>6. MessagesFollowTheMark'
    BY <1>9, <2>1, <2>2 DEF Send, MessagesFollowTheMark, Plus
  <2> QED BY <2>3, <2>4, <2>5, <2>6
<1>10. ASSUME NEW r \in Runs, LoseQueue(r) PROVE Inv'
  BY <1>10, BoundAssumption DEF LoseQueue, OneRun, Asking, Queues, MessagesFollowTheMark
<1>11. ASSUME UNCHANGED vars PROVE Inv'
  BY <1>11 DEF vars, OneRun, Asking, Queues, MessagesFollowTheMark
<1> QED BY <1>1, <1>2, <1>3, <1>4, <1>5, <1>6, <1>7, <1>8, <1>9, <1>10, <1>11 DEF Next, Step

LEMMA InvHolds == Spec => []Inv
BY InitInv, NextInv, PTL DEF Spec

(* Every state of the runner has its type. *)
THEOREM TypeCorrect == Spec => []TypeOK
<1>1. Inv => TypeOK
  BY DEF Inv
<1> QED BY <1>1, InvHolds, PTL

(* job-runner.service.ts: whatever is rejected or aborted, and whoever else
   runs the job, a request that was not lost with a rollback is made once.    *)
THEOREM RequestsAreMadeOnce == Spec => []AskedOnce
<1>1. Inv => AskedOnce
  BY DEF Inv, TypeOK, Asking, AskedOnce
<1> QED BY <1>1, InvHolds, PTL

(* transaction-runner.ts: a message leaves at most once, for a committed mark. *)
THEOREM MessagesFollowTheCommit == Spec => []MessagesFollowTheMark
<1>1. Inv => MessagesFollowTheMark
  BY DEF Inv
<1> QED BY <1>1, InvHolds, PTL

=============================================================================
