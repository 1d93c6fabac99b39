---------------------------- MODULE DrawerProofs ----------------------------
(* The properties of Drawer, for any number of desks, drawers, payments, entries
   and items.

   The induction: an id is given out to one transaction (RowsFresh); a drawer
   that cash is being put into is open, and nobody else holds it while it is
   counted out (Locks); a closing and a reversal never began at one instant
   (Instants); and what a transaction was told of the row it is about still
   stands when it commits (Told).                                             *)
EXTENDS Drawer, FiniteSetTheorems, TLAPS

Ops == {"IDLE", "PAY", "RECORD", "CORRECT", "CLOSE", "REVERSE", "RAISE", "CLEAR"}
Ids == Payments \cup Entries \cup Items \cup {None}

Tables ==
  /\ now \in Nat
  /\ drawer \in [Shifts -> [state : {"NONE", "OPEN", "CLOSED"},
                            operator : Operators \cup {None}, closedAt : Nat]]
  /\ payment \in [Payments -> [status : {"NONE", "SUCCESS", "REFUNDED"},
                               on : Shifts \cup {None}, reversedAt : Nat]]
  /\ entry \in [Entries -> [on : Shifts \cup {None}, flow : {-1, 0, 1},
                            reverses : Entries \cup {None}]]
  /\ item \in [Items -> [raised : Shifts \cup {None}, cleared : Shifts \cup {None}]]
  /\ tx \in [Desks -> [op : Ops, on : Shifts \cup {None}, row : Ids, of : Ids,
                       flow : {-1, 0, 1}, began : Nat, lock : {"NONE", "SHARE", "UPDATE"}]]
  /\ signed \in [Shifts -> Int] /\ overtaken \subseteq Payments

Named ==
  \A d \in Desks :
    /\ tx[d].op \in {"PAY", "RECORD", "CORRECT", "CLOSE", "RAISE", "CLEAR"} => tx[d].on \in Shifts
    /\ tx[d].op = "PAY" => tx[d].row \in Payments
    /\ tx[d].op \in {"RECORD", "CORRECT"} => tx[d].row \in Entries
    /\ tx[d].op = "RECORD" => tx[d].of = None
    /\ tx[d].op = "CORRECT" => tx[d].of \in Entries
    /\ tx[d].op = "REVERSE" => tx[d].of \in Payments
    /\ tx[d].op \in {"RAISE", "CLEAR"} => tx[d].of \in Items
    /\ tx[d].op = "RAISE" => tx[d].row = tx[d].of

RowsFresh ==
  /\ \A c, d \in Desks : c # d /\ tx[c].row = tx[d].row => tx[c].row = None
  /\ \A d \in Desks :
       /\ tx[d].op = "PAY" => payment[tx[d].row].status = "NONE"
       /\ tx[d].op \in {"RECORD", "CORRECT"} => entry[tx[d].row].on = None
       /\ tx[d].op = "RAISE" => item[tx[d].of].raised = None

Told ==
  /\ \A d \in Desks :
       /\ tx[d].op = "CORRECT" => /\ entry[tx[d].of].on # None
                                  /\ entry[tx[d].of].reverses = None
                                  /\ tx[d].flow = -entry[tx[d].of].flow
       /\ tx[d].op = "REVERSE" => payment[tx[d].of].status # "NONE"
  /\ \A d \in Desks : tx[d].op = "CLEAR" => item[tx[d].of].raised # None
  /\ \A e \in Entries : entry[e].on = None => entry[e].reverses = None
  /\ \A e \in Entries : entry[e].reverses # None => entry[entry[e].reverses].on # None
  /\ \A i \in Items : item[i].raised = None => item[i].cleared = None
  /\ \A p \in Payments : (payment[p].status = "NONE") <=> (payment[p].on = None)

Locks ==
  /\ \A d \in Desks : tx[d].lock = "SHARE" =>
       tx[d].op \in {"PAY", "RECORD", "CORRECT"} /\ drawer[tx[d].on].state = "OPEN"
  /\ \A d \in Desks : tx[d].lock = "UPDATE" =>
       tx[d].op = "CLOSE" /\ drawer[tx[d].on].state = "OPEN"
  /\ \A c, d \in Desks :
       c # d /\ tx[c].lock = "UPDATE" /\ tx[d].on = tx[c].on => tx[d].lock = "NONE"

Instants ==
  /\ \A d \in Desks : tx[d].began <= now
  /\ \A d \in Desks : tx[d].op \in {"CLOSE", "REVERSE"} => tx[d].began # 0
  /\ \A c, d \in Desks : c # d /\ tx[c].began = tx[d].began => tx[c].began = 0
  /\ \A s \in Shifts : drawer[s].closedAt <= now
  /\ \A s \in Shifts : (drawer[s].state = "CLOSED") <=> (drawer[s].closedAt # 0)
  /\ \A s \in Shifts, d \in Desks :
       tx[d].began = drawer[s].closedAt => tx[d].began = 0

Overtaking ==
  \A p \in overtaken :
    payment[p].status = "REFUNDED" /\ drawer[payment[p].on].state = "CLOSED"

IInv ==
  /\ Tables /\ Named /\ RowsFresh /\ Told /\ Locks /\ Instants /\ Overtaking
  /\ MistakesAreUndoneOnce

LEMMA InitIInv == Init => IInv
<1> SUFFICES ASSUME Init PROVE IInv
  OBVIOUS
<1>1. \A d \in Desks : tx[d] = NoTx
  BY DEF Init
<1>2. /\ NoTx.op = "IDLE" /\ NoTx.on = None /\ NoTx.row = None /\ NoTx.of = None
      /\ NoTx.flow = 0 /\ NoTx.began = 0 /\ NoTx.lock = "NONE"
  BY DEF NoTx
<1>3. Tables
  BY InstantAssumption DEF Init, Tables, NoTx, Ops, Ids
<1>4. Named /\ RowsFresh /\ Locks
  BY <1>1, <1>2 DEF Named, RowsFresh, Locks
<1>5. Instants /\ Told
  BY <1>1, <1>2 DEF Init, Instants, Told
<1>6. Overtaking /\ MistakesAreUndoneOnce
  BY DEF Init, Overtaking, MistakesAreUndoneOnce
<1> QED BY <1>3, <1>4, <1>5, <1>6 DEF IInv

(* A transaction that begins, with what it was told. *)
LEMMA StartIInv ==
  ASSUME IInv, NEW d \in Desks, NEW t, Idle(d), Start(d, t),
         t \in [op : Ops \ {"IDLE"}, on : Shifts \cup {None}, row : Ids, of : Ids,
                flow : {-1, 0, 1}, began : Nat, lock : {"NONE"}],
         UNCHANGED <<rows, signed, overtaken>>, now' \in Nat, now <= now',
         t.began <= now', t.began = 0 \/ now < t.began,
         t.op \in {"CLOSE", "REVERSE"} => t.began # 0,
         t.row = None \/ Fresh(t.row),
         t.op \in {"PAY", "RECORD", "CORRECT", "CLOSE", "RAISE", "CLEAR"} => t.on \in Shifts,
         t.op = "PAY" => t.row \in Payments /\ payment[t.row].status = "NONE",
         t.op \in {"RECORD", "CORRECT"} => t.row \in Entries /\ entry[t.row].on = None,
         t.op = "RECORD" => t.of = None,
         t.op = "CORRECT" => /\ t.of \in Entries /\ entry[t.of].on # None
                             /\ entry[t.of].reverses = None /\ t.flow = -entry[t.of].flow,
         t.op = "REVERSE" => t.of \in Payments /\ payment[t.of].status # "NONE",
         t.op \in {"RAISE", "CLEAR"} => t.of \in Items,
         t.op = "RAISE" => t.row = t.of /\ item[t.of].raised = None,
         t.op = "CLEAR" => item[t.of].raised # None
  PROVE  IInv'
<1>1. /\ tx' = [tx EXCEPT ![d] = t] /\ tx'[d] = t
      /\ \A c \in Desks \ {d} : tx'[c] = tx[c]
      /\ drawer' = drawer /\ payment' = payment /\ entry' = entry /\ item' = item
      /\ signed' = signed /\ overtaken' = overtaken
  BY DEF Start, rows, IInv, Tables
<1>2. Tables'
  BY <1>1 DEF IInv, Tables
<1>3. Named'
  BY <1>1 DEF IInv, Named
<1>4. RowsFresh'
  BY <1>1 DEF IInv, RowsFresh, Fresh
<1>5. Told'
  BY <1>1 DEF IInv, Told
<1>6. Locks'
  BY <1>1 DEF IInv, Locks
<1>7. Instants'
  <2> USE <1>1 DEF IInv, Instants, Tables
  <2>1. \A c \in Desks : tx'[c].began <= now'
    OBVIOUS
  <2>2. \A c \in Desks : tx'[c].op \in {"CLOSE", "REVERSE"} => tx'[c].began # 0
    OBVIOUS
  <2>3. \A b, c \in Desks : b # c /\ tx'[b].began = tx'[c].began => tx'[b].began = 0
    OBVIOUS
  <2>4. \A s \in Shifts : drawer'[s].closedAt <= now'
    OBVIOUS
  <2>5. \A s \in Shifts, c \in Desks :
          tx'[c].began = drawer'[s].closedAt => tx'[c].began = 0
    OBVIOUS
  <2> QED BY <2>1, <2>2, <2>3, <2>4, <2>5
<1>8. Overtaking' /\ MistakesAreUndoneOnce'
  BY <1>1 DEF IInv, Overtaking, MistakesAreUndoneOnce
<1> QED BY <1>2, <1>3, <1>4, <1>5, <1>6, <1>7, <1>8 DEF IInv

LEMMA BeginIInv ==
  ASSUME IInv, NEW d \in Desks, Begin(d)
  PROVE  IInv'
<1> DEFINE Begun == [op : Ops \ {"IDLE"}, on : Shifts \cup {None}, row : Ids, of : Ids,
                     flow : {-1, 0, 1}, began : Nat, lock : {"NONE"}]
<1>1. /\ now \in Nat /\ NoTx.began = 0 /\ NoTx.row = None /\ NoTx.of = None
      /\ \A s \in Shifts : s # None
  BY NoneAssumption DEF NoTx, IInv, Tables
<1>2. ASSUME NEW o \in Operators, NEW p \in Payments, BeginPayment(d, o, p) PROVE IInv'
  <2>1. PICK s \in Shifts : Start(d, [NoTx EXCEPT !.op = "PAY", !.on = s, !.row = p])
    BY <1>2 DEF BeginPayment, OpenDrawers
  <2> DEFINE t == [NoTx EXCEPT !.op = "PAY", !.on = s, !.row = p]
  <2>2. /\ t \in Begun /\ t.op = "PAY" /\ t.row = p /\ t.began = 0 /\ t.on = s
    BY DEF NoTx, Ops, Ids
  <2>3. /\ Idle(d) /\ payment[p].status = "NONE" /\ Fresh(p) /\ now' = now
        /\ UNCHANGED <<rows, signed, overtaken>>
    BY <1>2 DEF BeginPayment
  <2> HIDE DEF t
  <2>4. Start(d, t)
    BY <2>1 DEF t
  <2> QED BY <1>1, <2>2, <2>3, <2>4, StartIInv
<1>3. ASSUME NEW e \in Entries, NEW s \in Shifts, NEW flow \in {-1, 1}, BeginEntry(d, e, s, flow)
      PROVE  IInv'
  <2> DEFINE t == [NoTx EXCEPT !.op = "RECORD", !.on = s, !.row = e, !.flow = flow]
  <2>1. t \in Begun /\ t.op = "RECORD" /\ t.row = e /\ t.began = 0 /\ t.on = s /\ t.of = None
    BY DEF NoTx, Ops, Ids
  <2>2. /\ Idle(d) /\ entry[e].on = None /\ Fresh(e) /\ now' = now
        /\ UNCHANGED <<rows, signed, overtaken>> /\ Start(d, t)
    BY <1>3 DEF BeginEntry
  <2> HIDE DEF t
  <2> QED BY <1>1, <2>1, <2>2, StartIInv
<1>4. ASSUME NEW e \in Entries, NEW m \in Entries, NEW s \in Shifts, BeginCorrection(d, e, m, s)
      PROVE  IInv'
  <2> DEFINE t == [NoTx EXCEPT !.op = "CORRECT", !.on = s, !.row = e,
                               !.of = m, !.flow = -entry[m].flow]
  <2>1. entry[m].flow \in {-1, 0, 1}
    BY DEF IInv, Tables
  <2>2. -entry[m].flow \in {-1, 0, 1}
    BY <2>1
  <2>3. /\ t \in Begun /\ t.op = "CORRECT" /\ t.row = e /\ t.began = 0 /\ t.on = s
        /\ t.of = m /\ t.flow = -entry[m].flow
    BY <2>2 DEF NoTx, Ops, Ids
  <2>4. /\ Idle(d) /\ entry[e].on = None /\ Fresh(e) /\ now' = now
        /\ entry[m].on # None /\ entry[m].reverses = None
        /\ UNCHANGED <<rows, signed, overtaken>> /\ Start(d, t)
    BY <1>4 DEF BeginCorrection
  <2> HIDE DEF t
  <2> QED BY <1>1, <2>3, <2>4, StartIInv
<1>5. ASSUME NEW s \in Shifts, BeginClose(d, s) PROVE IInv'
  <2> DEFINE n == now + 1
             t == [NoTx EXCEPT !.op = "CLOSE", !.on = s, !.began = n]
  <2>1. /\ Idle(d) /\ now' = now + 1 /\ UNCHANGED <<rows, signed, overtaken>> /\ Start(d, t)
    BY <1>5 DEF BeginClose
  <2>2. t \in Begun /\ t.op = "CLOSE" /\ t.row = None /\ t.began = n /\ t.on = s
    <3>1. n \in Nat
      BY <1>1
    <3> HIDE DEF n
    <3> QED BY <3>1 DEF NoTx, Ops, Ids
  <2>3. n \in Nat /\ n # 0 /\ now < n /\ n = now'
    BY <1>1, <2>1
  <2> HIDE DEF t, n
  <2> QED BY <1>1, <2>1, <2>2, <2>3, StartIInv
<1>6. ASSUME NEW p \in Payments, BeginReversal(d, p) PROVE IInv'
  <2> DEFINE n == now + 1
             t == [NoTx EXCEPT !.op = "REVERSE", !.of = p, !.began = n]
  <2>1. /\ Idle(d) /\ now' = now + 1 /\ UNCHANGED <<rows, signed, overtaken>> /\ Start(d, t)
        /\ payment[p].status # "NONE"
    BY <1>6 DEF BeginReversal
  <2>2. t \in Begun /\ t.op = "REVERSE" /\ t.row = None /\ t.began = n /\ t.of = p
    <3>1. n \in Nat
      BY <1>1
    <3> HIDE DEF n
    <3> QED BY <3>1 DEF NoTx, Ops, Ids
  <2>3. n \in Nat /\ n # 0 /\ now < n /\ n = now'
    BY <1>1, <2>1
  <2> HIDE DEF t, n
  <2> QED BY <1>1, <2>1, <2>2, <2>3, StartIInv
<1>7. ASSUME NEW o \in Operators, NEW i \in Items, NEW op \in {"RAISE", "CLEAR"},
             BeginItem(d, o, i, op)
      PROVE  IInv'
  <2>1. PICK s \in Shifts :
          Start(d, [NoTx EXCEPT !.op = op, !.on = s, !.of = i,
                                !.row = IF op = "RAISE" THEN i ELSE None])
    BY <1>7 DEF BeginItem, OpenDrawers
  <2> DEFINE t == [NoTx EXCEPT !.op = op, !.on = s, !.of = i,
                               !.row = IF op = "RAISE" THEN i ELSE None]
  <2>2. /\ t \in Begun /\ t.op = op /\ t.began = 0 /\ t.on = s /\ t.of = i
        /\ t.row = IF op = "RAISE" THEN i ELSE None
    BY DEF NoTx, Ops, Ids
  <2>3. /\ Idle(d) /\ now' = now /\ UNCHANGED <<rows, signed, overtaken>>
        /\ op = "RAISE" => item[i].raised = None /\ Fresh(i)
        /\ op = "CLEAR" => item[i].raised # None
    BY <1>7 DEF BeginItem
  <2> HIDE DEF t
  <2>4. Start(d, t)
    BY <2>1 DEF t
  <2> QED BY <1>1, <2>2, <2>3, <2>4, StartIInv
<1> QED BY <1>2, <1>3, <1>4, <1>5, <1>6, <1>7 DEF Begin

(* A transaction ends, or takes its lock: what it leaves untouched. *)
LEMMA Ended ==
  ASSUME IInv, NEW d \in Desks, End(d), now' = now
  PROVE  /\ tx' = [tx EXCEPT ![d] = NoTx] /\ tx'[d] = NoTx
         /\ \A c \in Desks \ {d} : tx'[c] = tx[c]
         /\ tx' \in [Desks -> [op : Ops, on : Shifts \cup {None}, row : Ids, of : Ids,
                       flow : {-1, 0, 1}, began : Nat, lock : {"NONE", "SHARE", "UPDATE"}]]
         /\ Named'
         /\ NoTx.op = "IDLE" /\ NoTx.on = None /\ NoTx.row = None /\ NoTx.of = None
         /\ NoTx.flow = 0 /\ NoTx.began = 0 /\ NoTx.lock = "NONE"
<1>1. /\ NoTx.op = "IDLE" /\ NoTx.on = None /\ NoTx.row = None /\ NoTx.of = None
      /\ NoTx.flow = 0 /\ NoTx.began = 0 /\ NoTx.lock = "NONE"
      /\ NoTx \in [op : Ops, on : Shifts \cup {None}, row : Ids, of : Ids,
                    flow : {-1, 0, 1}, began : Nat, lock : {"NONE", "SHARE", "UPDATE"}]
  BY DEF NoTx, Ops, Ids
<1>2. /\ tx' = [tx EXCEPT ![d] = NoTx] /\ tx'[d] = NoTx
      /\ \A c \in Desks \ {d} : tx'[c] = tx[c]
  BY DEF End, IInv, Tables
<1>3. Named'
  BY <1>1, <1>2 DEF IInv, Named
<1> QED BY <1>1, <1>2, <1>3 DEF IInv, Tables

LEMMA EndKeeps ==
  ASSUME IInv, NEW d \in Desks, End(d), now' = now, drawer' = drawer
  PROVE  Locks' /\ Instants'
<1>1. /\ tx'[d].op = "IDLE" /\ tx'[d].began = 0 /\ tx'[d].lock = "NONE"
      /\ \A c \in Desks : c # d => tx'[c] = tx[c]
  BY Ended
<1>2. Locks'
  <2>1. ASSUME NEW c \in Desks
        PROVE  /\ tx'[c].lock = "SHARE" =>
                    tx'[c].op \in {"PAY", "RECORD", "CORRECT"} /\ drawer'[tx'[c].on].state = "OPEN"
               /\ tx'[c].lock = "UPDATE" => tx'[c].op = "CLOSE" /\ drawer'[tx'[c].on].state = "OPEN"
    BY <1>1 DEF IInv, Locks
  <2>2. ASSUME NEW b \in Desks, NEW c \in Desks,
               b # c, tx'[b].lock = "UPDATE", tx'[c].on = tx'[b].on
        PROVE  tx'[c].lock = "NONE"
    BY <1>1, <2>2 DEF IInv, Locks
  <2> QED BY <2>1, <2>2 DEF Locks
<1>3. Instants'
  <2>1. ASSUME NEW c \in Desks
        PROVE  tx'[c].began <= now' /\ (tx'[c].op \in {"CLOSE", "REVERSE"} => tx'[c].began # 0)
    BY <1>1 DEF IInv, Instants, Tables
  <2>2. ASSUME NEW b \in Desks, NEW c \in Desks, b # c, tx'[b].began = tx'[c].began
        PROVE  tx'[b].began = 0
    BY <1>1, <2>2 DEF IInv, Instants
  <2>3. \A s \in Shifts : /\ drawer'[s].closedAt <= now'
                          /\ (drawer'[s].state = "CLOSED") <=> (drawer'[s].closedAt # 0)
    BY DEF IInv, Instants
  <2>4. ASSUME NEW s \in Shifts, NEW c \in Desks, tx'[c].began = drawer'[s].closedAt
        PROVE  tx'[c].began = 0
    BY <1>1, <2>4 DEF IInv, Instants
  <2> QED BY <2>1, <2>2, <2>3, <2>4 DEF Instants
<1> QED BY <1>2, <1>3

(* Taking the drawer's row, to put cash in or to count it out. *)
LEMMA LockIInv ==
  ASSUME IInv, NEW d \in Desks, NEW mode \in {"SHARE", "UPDATE"},
         tx' = [tx EXCEPT ![d].lock = mode], UNCHANGED <<now, rows, signed, overtaken>>,
         tx[d].lock = "NONE", tx[d].on \in Shifts, drawer[tx[d].on].state = "OPEN",
         mode = "SHARE" => tx[d].op \in {"PAY", "RECORD", "CORRECT"}
                           /\ ~Locked(tx[d].on, {"UPDATE"}),
         mode = "UPDATE" => tx[d].op = "CLOSE" /\ ~Locked(tx[d].on, {"SHARE", "UPDATE"})
  PROVE  IInv'
<1>1. /\ tx'[d] = [tx[d] EXCEPT !.lock = mode] /\ tx'[d].lock = mode
      /\ tx'[d].op = tx[d].op /\ tx'[d].on = tx[d].on /\ tx'[d].row = tx[d].row
      /\ tx'[d].of = tx[d].of /\ tx'[d].flow = tx[d].flow /\ tx'[d].began = tx[d].began
      /\ \A c \in Desks \ {d} : tx'[c] = tx[c]
      /\ drawer' = drawer /\ payment' = payment /\ entry' = entry /\ item' = item
      /\ now' = now /\ signed' = signed /\ overtaken' = overtaken
  BY DEF IInv, Tables, rows
<1>2. Tables'
  BY <1>1 DEF IInv, Tables
<1>3. Named' /\ RowsFresh' /\ Told'
  BY <1>1 DEF IInv, Named, RowsFresh, Told
<1>4. Locks'
  <2>1. ASSUME NEW c \in Desks
        PROVE  /\ tx'[c].lock = "SHARE" =>
                    tx'[c].op \in {"PAY", "RECORD", "CORRECT"} /\ drawer'[tx'[c].on].state = "OPEN"
               /\ tx'[c].lock = "UPDATE" => tx'[c].op = "CLOSE" /\ drawer'[tx'[c].on].state = "OPEN"
    BY <1>1 DEF IInv, Locks
  <2>2. ASSUME NEW b \in Desks, NEW c \in Desks,
               b # c, tx'[b].lock = "UPDATE", tx'[c].on = tx'[b].on
        PROVE  tx'[c].lock = "NONE"
    <3>1. tx'[c].on = tx[c].on /\ tx'[b].on = tx[b].on
      BY <1>1
    <3>2. CASE b # d /\ c # d
      BY <1>1, <2>2, <3>2 DEF IInv, Locks
    <3>3. CASE c = d
      BY <1>1, <2>2, <3>1, <3>3 DEF Locked
    <3>4. CASE b = d
      <4>1. tx[c].lock # "SHARE" /\ tx[c].lock # "UPDATE"
        BY <1>1, <2>2, <3>1, <3>4 DEF Locked
      <4> QED BY <1>1, <2>2, <3>4, <4>1 DEF IInv, Tables
    <3> QED BY <3>2, <3>3, <3>4
  <2> QED BY <2>1, <2>2 DEF Locks
<1>5. Instants'
  BY <1>1 DEF IInv, Instants
<1>6. Overtaking' /\ MistakesAreUndoneOnce'
  BY <1>1 DEF IInv, Overtaking, MistakesAreUndoneOnce
<1> QED BY <1>2, <1>3, <1>4, <1>5, <1>6 DEF IInv

LEMMA RefuseIInv ==
  ASSUME IInv, NEW d \in Desks, RefuseClosed(d)
  PROVE  IInv'
<1>1. /\ End(d) /\ now' = now /\ drawer' = drawer /\ payment' = payment /\ entry' = entry
      /\ item' = item /\ signed' = signed /\ overtaken' = overtaken
  BY DEF RefuseClosed, rows
<1> USE <1>1, Ended
<1>2. Tables' /\ Named'
  BY DEF IInv, Tables
<1>3. RowsFresh' /\ Told'
  BY DEF IInv, RowsFresh, Told
<1>4. Locks' /\ Instants'
  BY EndKeeps
<1>5. Overtaking' /\ MistakesAreUndoneOnce'
  BY DEF IInv, Overtaking, MistakesAreUndoneOnce
<1> QED BY <1>2, <1>3, <1>4, <1>5 DEF IInv

LEMMA OpenIInv ==
  ASSUME IInv, NEW o \in Operators, NEW s \in Shifts, Open(o, s)
  PROVE  IInv'
<1>1. /\ drawer' = [drawer EXCEPT ![s].state = "OPEN", ![s].operator = o]
      /\ drawer[s].state = "NONE" /\ tx' = tx /\ now' = now /\ payment' = payment
      /\ entry' = entry /\ item' = item /\ signed' = signed /\ overtaken' = overtaken
  BY DEF Open
<1>3. /\ drawer'[s].state = "OPEN" /\ drawer'[s].closedAt = drawer[s].closedAt
      /\ \A r \in Shifts \ {s} : drawer'[r] = drawer[r]
      /\ drawer' \in [Shifts -> [state : {"NONE", "OPEN", "CLOSED"},
                                 operator : Operators \cup {None}, closedAt : Nat]]
  <2> DEFINE Row == [state : {"NONE", "OPEN", "CLOSED"},
                     operator : Operators \cup {None}, closedAt : Nat]
             opened == [drawer[s] EXCEPT !.state = "OPEN", !.operator = o]
  <2>1. drawer \in [Shifts -> Row] /\ drawer[s] \in Row
    BY DEF IInv, Tables
  <2>2. drawer' = [drawer EXCEPT ![s] = opened]
    BY <1>1, <2>1
  <2>3. opened \in Row /\ opened.state = "OPEN" /\ opened.closedAt = drawer[s].closedAt
    BY <2>1
  <2> HIDE DEF opened, Row
  <2>4. /\ drawer' \in [Shifts -> Row] /\ drawer'[s] = opened
        /\ \A r \in Shifts \ {s} : drawer'[r] = drawer[r]
    BY <2>1, <2>2, <2>3
  <2> QED BY <2>3, <2>4 DEF Row
<1>2. Tables'
  BY <1>1, <1>3 DEF IInv, Tables
<1>4. Named' /\ RowsFresh' /\ Told' /\ MistakesAreUndoneOnce'
  BY <1>1 DEF IInv, Named, RowsFresh, Told, MistakesAreUndoneOnce
<1>5. Locks'
  <2>1. ASSUME NEW d \in Desks, tx[d].lock # "NONE" PROVE drawer'[tx[d].on].state = "OPEN"
    <3>1. tx[d].on \in Shifts /\ drawer[tx[d].on].state = "OPEN"
      BY <2>1 DEF IInv, Locks, Named, Tables
    <3> QED BY <1>3, <3>1
  <2> QED BY <1>1, <2>1 DEF IInv, Locks
<1>6. Instants'
  <2>1. drawer[s].closedAt = 0
    BY <1>1 DEF IInv, Instants
  <2> QED BY <1>1, <1>3 DEF IInv, Instants
<1>7. Overtaking'
  BY <1>1, <1>3 DEF IInv, Overtaking, Tables, Told
<1> QED BY <1>2, <1>4, <1>5, <1>6, <1>7 DEF IInv

LEMMA CommitPaymentIInv ==
  ASSUME IInv, NEW d \in Desks, CommitPayment(d)
  PROVE  IInv'
<1>1. /\ End(d) /\ now' = now /\ drawer' = drawer /\ entry' = entry
      /\ item' = item /\ signed' = signed /\ overtaken' = overtaken
      /\ payment' = [payment EXCEPT ![tx[d].row] =
                       [status |-> "SUCCESS", on |-> tx[d].on, reversedAt |-> 0]]
      /\ tx[d].op = "PAY" /\ tx[d].row \in Payments /\ tx[d].on \in Shifts
      /\ payment[tx[d].row].status = "NONE" /\ tx[d].row # None
  BY NoneAssumption DEF CommitPayment, IInv, Named, RowsFresh
<1>2. /\ payment'[tx[d].row] = [status |-> "SUCCESS", on |-> tx[d].on, reversedAt |-> 0]
      /\ \A p \in Payments \ {tx[d].row} : payment'[p] = payment[p]
  BY <1>1 DEF IInv, Tables
<1> USE <1>1, <1>2, Ended
<1>3. Tables' /\ Named'
  BY DEF IInv, Tables
<1>4. RowsFresh'
  BY DEF IInv, RowsFresh, Named
<1>5. Told'
  BY NoneAssumption DEF IInv, Told, Named
<1>6. Locks' /\ Instants'
  BY EndKeeps
<1>7. Overtaking' /\ MistakesAreUndoneOnce'
  BY DEF IInv, Overtaking, MistakesAreUndoneOnce, Tables
<1> QED BY <1>3, <1>4, <1>5, <1>6, <1>7 DEF IInv

LEMMA CommitReversalIInv ==
  ASSUME IInv, NEW d \in Desks, CommitReversal(d)
  PROVE  IInv'
<1> DEFINE p == tx[d].of
<1>1. /\ End(d) /\ now' = now /\ drawer' = drawer /\ entry' = entry
      /\ item' = item /\ signed' = signed /\ p \in Payments /\ tx[d].op = "REVERSE"
      /\ payment[p].status # "NONE"
  BY DEF CommitReversal, IInv, Named, Told
<1>2. \/ UNCHANGED <<payment, overtaken>>
      \/ /\ payment[p].status = "SUCCESS"
         /\ payment' = [payment EXCEPT ![p].status = "REFUNDED",
                                       ![p].reversedAt = tx[d].began]
         /\ overtaken' = IF tx[d].began < drawer[payment[p].on].closedAt
                         THEN overtaken \cup {p} ELSE overtaken
  BY DEF CommitReversal
<1> HIDE DEF p
<1>3. /\ \A q \in Payments \ {p} : payment'[q] = payment[q]
      /\ payment'[p].on = payment[p].on
      /\ payment'[p].status \in {payment[p].status, "REFUNDED"}
      /\ payment'[p].reversedAt \in Nat
      /\ payment' \in [Payments -> [status : {"NONE", "SUCCESS", "REFUNDED"},
                                    on : Shifts \cup {None}, reversedAt : Nat]]
  BY <1>1, <1>2 DEF IInv, Tables
<1>4. overtaken' \subseteq Payments
  BY <1>1, <1>2 DEF IInv, Tables
<1>5. Overtaking'
  <2>1. CASE UNCHANGED <<payment, overtaken>>
    BY <1>1, <2>1 DEF IInv, Overtaking
  <2>2. ASSUME payment[p].status = "SUCCESS",
               payment' = [payment EXCEPT ![p].status = "REFUNDED",
                                          ![p].reversedAt = tx[d].began],
               overtaken' = IF tx[d].began < drawer[payment[p].on].closedAt
                            THEN overtaken \cup {p} ELSE overtaken
        PROVE  Overtaking'
    <3>1. payment[p].on \in Shifts /\ p \notin overtaken /\ payment'[p].status = "REFUNDED"
      BY <1>1, <2>2 DEF IInv, Overtaking, Told, Tables
    <3>2. tx[d].began < drawer[payment[p].on].closedAt => drawer[payment[p].on].state = "CLOSED"
      BY <3>1 DEF IInv, Instants, Tables
    <3> QED BY <1>1, <1>3, <2>2, <3>1, <3>2 DEF IInv, Overtaking, Tables
  <2> QED BY <1>2, <2>1, <2>2
<1> USE <1>1, <1>3, Ended
<1>6. Tables' /\ Named'
  BY <1>4 DEF IInv, Tables
<1>7. RowsFresh'
  BY DEF IInv, RowsFresh, Named
<1>8. Told'
  <2>1. ASSUME NEW c \in Desks, tx'[c].op = "CORRECT"
        PROVE  /\ entry'[tx'[c].of].on # None /\ entry'[tx'[c].of].reverses = None
               /\ tx'[c].flow = -entry'[tx'[c].of].flow
    BY <2>1 DEF IInv, Told
  <2>3. ASSUME NEW c \in Desks, tx'[c].op = "REVERSE"
        PROVE  payment'[tx'[c].of].status # "NONE"
    <3>1. c # d /\ tx'[c] = tx[c] /\ tx[c].of \in Payments
          /\ payment[tx[c].of].status # "NONE"
      BY <2>3 DEF IInv, Told, Named
    <3> QED BY <3>1
  <2>2. \A q \in Payments : (payment'[q].status = "NONE") <=> (payment'[q].on = None)
    BY DEF IInv, Told
  <2> QED BY <2>1, <2>2, <2>3 DEF IInv, Told
<1>9. Locks' /\ Instants'
  BY EndKeeps
<1>10. MistakesAreUndoneOnce'
  BY DEF IInv, MistakesAreUndoneOnce
<1> QED BY <1>5, <1>6, <1>7, <1>8, <1>9, <1>10 DEF IInv

LEMMA CommitEntryIInv ==
  ASSUME IInv, NEW d \in Desks, CommitEntry(d)
  PROVE  IInv'
<1> DEFINE e == tx[d].row
           m == tx[d].of
           row == [on |-> tx[d].on, flow |-> tx[d].flow, reverses |-> tx[d].of]
<1>1. /\ End(d) /\ now' = now /\ drawer' = drawer /\ payment' = payment
      /\ item' = item /\ signed' = signed /\ overtaken' = overtaken
      /\ tx[d].op \in {"RECORD", "CORRECT"}
      /\ entry' = IF tx[d].op = "CORRECT" /\ Undone(m) THEN entry
                  ELSE [entry EXCEPT ![e] = row]
  BY DEF CommitEntry
<1>2. /\ e \in Entries /\ entry[e].on = None /\ entry[e].reverses = None
      /\ tx[d].on \in Shifts /\ tx[d].on # None /\ e # None
      /\ m \in Entries \cup {None}
      /\ tx[d].op = "RECORD" => m = None
      /\ m # None => /\ tx[d].op = "CORRECT" /\ entry[m].on # None
                     /\ entry[m].reverses = None /\ tx[d].flow = -entry[m].flow
  BY <1>1, NoneAssumption DEF IInv, Named, RowsFresh, Told
<1>3. /\ row.on = tx[d].on /\ row.flow = tx[d].flow /\ row.reverses = m
      /\ row \in [on : Shifts \cup {None}, flow : {-1, 0, 1}, reverses : Entries \cup {None}]
  BY <1>2 DEF IInv, Tables
<1> HIDE DEF row, e, m
(* Nothing names the entry that is being written. *)
<1>4. \A f \in Entries : entry[f].reverses # e
  BY <1>2 DEF IInv, Told
<1>5. \/ entry' = entry
      \/ /\ entry'[e] = row /\ \A f \in Entries \ {e} : entry'[f] = entry[f]
         /\ m # None => \A f \in Entries : entry[f].reverses # m
  BY <1>1, <1>2 DEF Undone, IInv, Tables
<1>6. /\ entry' \in [Entries -> [on : Shifts \cup {None}, flow : {-1, 0, 1},
                                 reverses : Entries \cup {None}]]
      /\ \A f \in Entries : entry[f].on # None => entry'[f] = entry[f]
  BY <1>1, <1>2, <1>3, <1>5 DEF IInv, Tables
<1>7. Tables' /\ Named'
  BY <1>1, <1>6, Ended DEF IInv, Tables
<1>8. Locks' /\ Instants'
  BY <1>1, EndKeeps
<1>9. /\ tx'[d] = NoTx /\ NoTx.op = "IDLE" /\ NoTx.row = None
      /\ \A c \in Desks : c # d => tx'[c] = tx[c]
  BY <1>1, Ended
<1>10. RowsFresh'
  <2>1. ASSUME NEW c \in Desks, tx'[c].op \in {"RECORD", "CORRECT"}
        PROVE  entry'[tx'[c].row].on = None
    <3>1. c # d /\ tx'[c] = tx[c] /\ tx[c].row \in Entries /\ entry[tx[c].row].on = None
      BY <1>9, <2>1 DEF IInv, RowsFresh, Named
    <3>2. tx[c].row # e
      BY <1>2, <3>1 DEF IInv, RowsFresh, e
    <3> QED BY <1>5, <3>1, <3>2
  <2>2. ASSUME NEW b \in Desks, NEW c \in Desks, b # c, tx'[b].row = tx'[c].row
        PROVE  tx'[b].row = None
    BY <1>9, <2>2 DEF IInv, RowsFresh
  <2>3. \A c \in Desks : /\ tx'[c].op = "PAY" => payment'[tx'[c].row].status = "NONE"
                         /\ tx'[c].op = "RAISE" => item'[tx'[c].of].raised = None
    BY <1>1, <1>9 DEF IInv, RowsFresh
  <2> QED BY <2>1, <2>2, <2>3 DEF RowsFresh
<1>11. Told'
  <2>1. ASSUME NEW c \in Desks, tx'[c].op = "CORRECT"
        PROVE  /\ entry'[tx'[c].of].on # None /\ entry'[tx'[c].of].reverses = None
               /\ tx'[c].flow = -entry'[tx'[c].of].flow
    <3>1. /\ tx'[c] = tx[c] /\ tx[c].of \in Entries /\ entry[tx[c].of].on # None
          /\ entry[tx[c].of].reverses = None /\ tx[c].flow = -entry[tx[c].of].flow
      BY <1>9, <2>1 DEF IInv, Told, Named
    <3> QED BY <1>6, <3>1
  <2>2. \A c \in Desks :
          /\ tx'[c].op = "REVERSE" => payment'[tx'[c].of].status # "NONE"
          /\ tx'[c].op = "CLEAR" => item'[tx'[c].of].raised # None
    BY <1>1, <1>9 DEF IInv, Told
  <2>3. ASSUME NEW f \in Entries, entry'[f].on = None PROVE entry'[f].reverses = None
    <3>1. entry' = entry \/ f # e
      BY <1>2, <1>3, <1>5, <2>3
    <3> QED BY <1>5, <2>3, <3>1 DEF IInv, Told
  <2>4. ASSUME NEW f \in Entries, entry'[f].reverses # None
        PROVE  entry'[entry'[f].reverses].on # None
    <3>1. CASE entry' = entry
      BY <2>4, <3>1 DEF IInv, Told
    <3>2. CASE f = e /\ entry'[e] = row
      <4>1. m # None /\ m \in Entries /\ entry[m].on # None
        BY <1>2, <1>3, <2>4, <3>2
      <4> QED BY <1>3, <1>6, <3>2, <4>1
    <3>3. CASE f # e /\ entry'[f] = entry[f]
      <4>1. entry[f].reverses \in Entries /\ entry[entry[f].reverses].on # None
        BY <2>4, <3>3 DEF IInv, Told, Tables
      <4> QED BY <1>6, <3>3, <4>1
    <3> QED BY <1>5, <3>1, <3>2, <3>3
  <2>5. /\ \A i \in Items : item'[i].raised = None => item'[i].cleared = None
        /\ \A q \in Payments : (payment'[q].status = "NONE") <=> (payment'[q].on = None)
    BY <1>1 DEF IInv, Told
  <2> QED BY <2>1, <2>2, <2>3, <2>4, <2>5 DEF Told
<1>12. Overtaking'
  BY <1>1 DEF IInv, Overtaking
<1>13. MistakesAreUndoneOnce'
  <2> SUFFICES ASSUME NEW g \in Entries, NEW f \in Entries, entry'[g].reverses = f
               PROVE  /\ entry'[f].reverses = None /\ entry'[g].flow = -entry'[f].flow
                      /\ \A h \in Entries : entry'[h].reverses = f => h = g
    BY DEF MistakesAreUndoneOnce
  <2>1. CASE entry' = entry
    BY <2>1, NoneAssumption DEF IInv, MistakesAreUndoneOnce
  <2>2. ASSUME entry'[e] = row, \A h \in Entries \ {e} : entry'[h] = entry[h],
               m # None => \A h \in Entries : entry[h].reverses # m
        PROVE  /\ entry'[f].reverses = None /\ entry'[g].flow = -entry'[f].flow
               /\ \A h \in Entries : entry'[h].reverses = f => h = g
    <3>1. f # None
      BY NoneAssumption
    <3>2. CASE g = e
      <4>1. m = f /\ m # None
        BY <1>3, <2>2, <3>1, <3>2
      <4>2. /\ entry'[f] = entry[f] /\ entry[f].reverses = None
            /\ tx[d].flow = -entry[f].flow
        BY <1>2, <1>6, <4>1
      <4>3. \A h \in Entries : entry'[h].reverses = f => h = g
        BY <2>2, <3>2, <4>1
      <4> QED BY <1>3, <2>2, <3>2, <4>2, <4>3
    <3>3. CASE g # e
      <4>1. entry[g].reverses = f /\ entry'[g] = entry[g]
        BY <2>2, <3>3
      <4>2. entry[f].on # None /\ entry'[f] = entry[f]
        BY <1>6, <3>1, <4>1 DEF IInv, Told
      <4>3. /\ entry[f].reverses = None /\ entry[g].flow = -entry[f].flow
            /\ \A h \in Entries : entry[h].reverses = f => h = g
        BY <3>1, <4>1 DEF IInv, MistakesAreUndoneOnce
      <4>4. m # f
        BY <2>2, <3>1, <4>1
      <4> QED BY <1>3, <2>2, <4>1, <4>2, <4>3, <4>4
    <3> QED BY <3>2, <3>3
  <2> QED BY <1>5, <2>1, <2>2
<1> QED BY <1>7, <1>8, <1>10, <1>11, <1>12, <1>13 DEF IInv

LEMMA CommitCloseIInv ==
  ASSUME IInv, NEW d \in Desks, CommitClose(d), signed' \in [Shifts -> Int]
  PROVE  IInv'
<1> DEFINE s == tx[d].on
           t == tx[d].began
           Row == [state : {"NONE", "OPEN", "CLOSED"},
                   operator : Operators \cup {None}, closedAt : Nat]
           closed == [drawer[s] EXCEPT !.state = "CLOSED", !.closedAt = t]
<1>1. /\ End(d) /\ now' = now /\ payment' = payment /\ entry' = entry
      /\ item' = item /\ overtaken' = overtaken
      /\ tx[d].op = "CLOSE" /\ tx[d].lock = "UPDATE"
      /\ drawer' = [drawer EXCEPT ![s].state = "CLOSED", ![s].closedAt = t]
  BY DEF CommitClose
<1>2. /\ s \in Shifts /\ t \in Nat /\ t # 0 /\ t <= now
      /\ drawer \in [Shifts -> Row] /\ drawer[s] \in Row /\ drawer[s].state = "OPEN"
  BY <1>1 DEF IInv, Tables, Named, Instants, Locks
<1>3. closed \in Row /\ closed.state = "CLOSED" /\ closed.closedAt = t
  BY <1>2
<1>4. drawer' = [drawer EXCEPT ![s] = closed]
  BY <1>1, <1>2
<1> HIDE DEF closed, Row
<1>5. /\ drawer' \in [Shifts -> Row] /\ drawer'[s] = closed
      /\ \A r \in Shifts : r # s => drawer'[r] = drawer[r]
  BY <1>2, <1>3, <1>4
<1>6. /\ tx'[d].op = "IDLE" /\ tx'[d].began = 0 /\ tx'[d].lock = "NONE" /\ tx'[d].row = None
      /\ \A c \in Desks : c # d => tx'[c] = tx[c]
  BY <1>1, Ended
<1>7. Tables' /\ Named'
  BY <1>1, <1>5, Ended DEF IInv, Tables, Row
<1>8. RowsFresh'
  BY <1>1, <1>6 DEF IInv, RowsFresh
<1>9. Told'
  <2>1. ASSUME NEW c \in Desks
        PROVE  /\ tx'[c].op = "CORRECT" => /\ entry'[tx'[c].of].on # None
                                          /\ entry'[tx'[c].of].reverses = None
                                          /\ tx'[c].flow = -entry'[tx'[c].of].flow
               /\ tx'[c].op = "REVERSE" => payment'[tx'[c].of].status # "NONE"
               /\ tx'[c].op = "CLEAR" => item'[tx'[c].of].raised # None
    BY <1>1, <1>6 DEF IInv, Told
  <2> QED BY <1>1, <2>1 DEF IInv, Told
(* Nobody else had a lock on the drawer that was counted out. *)
<1>10. Locks'
  <2>1. ASSUME NEW c \in Desks, tx'[c].lock # "NONE"
        PROVE  /\ c # d /\ tx'[c] = tx[c] /\ tx[c].on \in Shifts /\ tx[c].on # s
               /\ drawer'[tx'[c].on].state = drawer[tx[c].on].state
    <3>1. c # d /\ tx'[c] = tx[c] /\ tx[c].on \in Shifts
      BY <1>6, <2>1 DEF IInv, Locks, Named, Tables
    <3>2. tx[c].on # s
      BY <1>1, <2>1, <3>1 DEF IInv, Locks
    <3> QED BY <1>5, <3>1, <3>2
  <2>2. ASSUME NEW c \in Desks
        PROVE  /\ tx'[c].lock = "SHARE" =>
                    tx'[c].op \in {"PAY", "RECORD", "CORRECT"} /\ drawer'[tx'[c].on].state = "OPEN"
               /\ tx'[c].lock = "UPDATE" => tx'[c].op = "CLOSE" /\ drawer'[tx'[c].on].state = "OPEN"
    BY <2>1 DEF IInv, Locks
  <2>3. ASSUME NEW b \in Desks, NEW c \in Desks,
               b # c, tx'[b].lock = "UPDATE", tx'[c].on = tx'[b].on
        PROVE  tx'[c].lock = "NONE"
    BY <2>1, <2>3, <1>6 DEF IInv, Locks
  <2> QED BY <2>2, <2>3 DEF Locks
<1>11. Instants'
  <2>1. ASSUME NEW c \in Desks
        PROVE  tx'[c].began <= now' /\ (tx'[c].op \in {"CLOSE", "REVERSE"} => tx'[c].began # 0)
    BY <1>1, <1>6 DEF IInv, Instants, Tables
  <2>2. ASSUME NEW b \in Desks, NEW c \in Desks, b # c, tx'[b].began = tx'[c].began
        PROVE  tx'[b].began = 0
    BY <1>6, <2>2 DEF IInv, Instants
  <2>3. ASSUME NEW r \in Shifts
        PROVE  /\ drawer'[r].closedAt <= now'
               /\ (drawer'[r].state = "CLOSED") <=> (drawer'[r].closedAt # 0)
    BY <1>1, <1>2, <1>3, <1>5 DEF IInv, Instants
  <2>4. ASSUME NEW r \in Shifts, NEW c \in Desks, tx'[c].began = drawer'[r].closedAt
        PROVE  tx'[c].began = 0
    <3>1. CASE c = d
      BY <1>6, <3>1
    <3>2. CASE c # d /\ r # s
      BY <1>5, <1>6, <2>4, <3>2 DEF IInv, Instants
    <3>3. CASE c # d /\ r = s
      BY <1>3, <1>5, <1>6, <2>4, <3>3 DEF IInv, Instants
    <3> QED BY <3>1, <3>2, <3>3
  <2> QED BY <2>1, <2>2, <2>3, <2>4 DEF Instants
<1>12. Overtaking'
  <2> SUFFICES ASSUME NEW p \in overtaken
               PROVE  payment[p].status = "REFUNDED" /\ drawer'[payment[p].on].state = "CLOSED"
    BY <1>1 DEF Overtaking
  <2>1. /\ payment[p].status = "REFUNDED" /\ payment[p].on \in Shifts
        /\ drawer[payment[p].on].state = "CLOSED"
    BY DEF IInv, Overtaking, Tables, Told
  <2> QED BY <1>2, <1>5, <2>1
<1>13. MistakesAreUndoneOnce'
  BY <1>1 DEF IInv, MistakesAreUndoneOnce
<1> QED BY <1>7, <1>8, <1>9, <1>10, <1>11, <1>12, <1>13 DEF IInv

LEMMA CommitItemIInv ==
  ASSUME IInv, NEW d \in Desks, CommitRaise(d) \/ CommitClear(d)
  PROVE  /\ IInv'
         /\ \A i \in Items : item[i].cleared # None => item'[i] = item[i]
<1> DEFINE i == tx[d].of
<1>1. /\ End(d) /\ now' = now /\ drawer' = drawer /\ payment' = payment
      /\ entry' = entry /\ signed' = signed /\ overtaken' = overtaken
      /\ tx[d].op \in {"RAISE", "CLEAR"} /\ i \in Items /\ tx[d].on \in Shifts
      /\ tx[d].op = "RAISE" => /\ tx[d].row = i /\ item[i].raised = None
                               /\ item[i].cleared = None
      /\ tx[d].on # None /\ i # None
  BY NoneAssumption DEF CommitRaise, CommitClear, IInv, Named, RowsFresh, Told
<1>2. /\ tx[d].op = "RAISE" => item' = [item EXCEPT ![i].raised = tx[d].on]
      /\ tx[d].op = "CLEAR" =>
           item' = IF Outstanding(i) THEN [item EXCEPT ![i].cleared = tx[d].on] ELSE item
  BY DEF CommitRaise, CommitClear
<1> HIDE DEF i
<1>3. /\ \A j \in Items : j # i => item'[j] = item[j]
      /\ item' \in [Items -> [raised : Shifts \cup {None}, cleared : Shifts \cup {None}]]
      /\ item[i].cleared # None => item'[i] = item[i]
      /\ tx[d].op = "RAISE" => item'[i].raised # None
      /\ tx[d].op = "CLEAR" => item'[i].raised = item[i].raised
  BY <1>1, <1>2 DEF IInv, Tables, Outstanding
<1>4. /\ tx'[d].op = "IDLE" /\ tx'[d].row = None
      /\ \A c \in Desks : c # d => tx'[c] = tx[c]
  BY <1>1, Ended
<1>5. Tables' /\ Named'
  BY <1>1, <1>3, Ended DEF IInv, Tables
<1>6. RowsFresh'
  <2>1. ASSUME NEW c \in Desks, tx'[c].op = "RAISE" PROVE item'[tx'[c].of].raised = None
    <3>1. /\ c # d /\ tx'[c] = tx[c] /\ tx[c].op = "RAISE" /\ tx[c].row = tx[c].of
          /\ tx[c].of \in Items /\ item[tx[c].of].raised = None
      BY <1>4, <2>1 DEF IInv, RowsFresh, Named
    <3>2. tx[d].op = "RAISE" => tx[c].of # i
      BY <1>1, <3>1 DEF IInv, RowsFresh
    <3> QED BY <1>1, <1>3, <3>1, <3>2
  <2>2. ASSUME NEW b \in Desks, NEW c \in Desks, b # c, tx'[b].row = tx'[c].row
        PROVE  tx'[b].row = None
    BY <1>4, <2>2 DEF IInv, RowsFresh
  <2>3. \A c \in Desks :
          /\ tx'[c].op = "PAY" => payment'[tx'[c].row].status = "NONE"
          /\ tx'[c].op \in {"RECORD", "CORRECT"} => entry'[tx'[c].row].on = None
    BY <1>1, <1>4 DEF IInv, RowsFresh
  <2> QED BY <2>1, <2>2, <2>3 DEF RowsFresh
<1>7. Told'
  <2>1. ASSUME NEW c \in Desks
        PROVE  /\ tx'[c].op = "CORRECT" => /\ entry'[tx'[c].of].on # None
                                          /\ entry'[tx'[c].of].reverses = None
                                          /\ tx'[c].flow = -entry'[tx'[c].of].flow
               /\ tx'[c].op = "REVERSE" => payment'[tx'[c].of].status # "NONE"
    BY <1>1, <1>4 DEF IInv, Told
  <2>2. ASSUME NEW j \in Items, item'[j].raised = None PROVE item'[j].cleared = None
    <3>1. CASE j # i
      BY <1>3, <2>2, <3>1 DEF IInv, Told
    <3>2. CASE j = i
      <4>1. tx[d].op = "CLEAR" /\ item[i].raised = None
        BY <1>1, <1>3, <2>2, <3>2
      <4>2. item[i].raised # None
        BY <4>1, <1>1 DEF IInv, Told, i
      <4> QED BY <4>1, <4>2
    <3> QED BY <3>1, <3>2
  <2>3. ASSUME NEW c \in Desks, tx'[c].op = "CLEAR" PROVE item'[tx'[c].of].raised # None
    <3>1. c # d /\ tx'[c] = tx[c] /\ tx[c].of \in Items /\ item[tx[c].of].raised # None
      BY <1>4, <2>3 DEF IInv, Told, Named
    <3> QED BY <1>1, <1>3, <3>1
  <2> QED BY <1>1, <2>1, <2>2, <2>3 DEF IInv, Told
<1>8. Locks' /\ Instants'
  BY <1>1, EndKeeps
<1>9. Overtaking' /\ MistakesAreUndoneOnce'
  BY <1>1 DEF IInv, Overtaking, MistakesAreUndoneOnce
<1>10. \A j \in Items : item[j].cleared # None => item'[j] = item[j]
  BY <1>3
<1> QED BY <1>5, <1>6, <1>7, <1>8, <1>9, <1>10 DEF IInv

LEMMA CountsAreNumbers ==
  /\ \A s, closedAt : CashTaken(s, closedAt) \in Nat
  /\ \A s : CashBookNet(s) \in Int
  /\ \A s, closedAt : Expected(s, closedAt) \in Int
<1>1. \A s, closedAt : CashTaken(s, closedAt) \in Nat
  <2> SUFFICES ASSUME NEW s, NEW closedAt PROVE CashTaken(s, closedAt) \in Nat
    OBVIOUS
  <2> DEFINE taken == {p \in Payments : Counted(p, s, closedAt)}
  <2>1. taken \in SUBSET Payments /\ IsFiniteSet(Payments)
    BY RowsAssumption
  <2> HIDE DEF taken
  <2>2. Cardinality(taken) \in Nat
    BY <2>1, FS_Subset, FS_CardinalityType
  <2> QED BY <2>2 DEF CashTaken, taken
<1>2. \A s : CashBookNet(s) \in Int
  <2> SUFFICES ASSUME NEW s PROVE CashBookNet(s) \in Int
    OBVIOUS
  <2> DEFINE moved(flow) == {e \in Entries : entry[e].on = s /\ entry[e].flow = flow}
  <2>1. moved(1) \in SUBSET Entries /\ moved(-1) \in SUBSET Entries /\ IsFiniteSet(Entries)
    BY RowsAssumption
  <2>3. CashBookNet(s) = Cardinality(moved(1)) - Cardinality(moved(-1))
    BY DEF CashBookNet
  <2> HIDE DEF moved
  <2>2. Cardinality(moved(1)) \in Nat /\ Cardinality(moved(-1)) \in Nat
    BY <2>1, FS_Subset, FS_CardinalityType
  <2> QED BY <2>2, <2>3
<1> QED BY <1>1, <1>2 DEF Expected

LEMMA NextIInv ==
  ASSUME IInv, [Next]_vars
  PROVE  /\ IInv'
         /\ \A i \in Items : item[i].cleared # None => item'[i] = item[i]
<1>1. ASSUME NEW o \in Operators, NEW s \in Shifts, Open(o, s) PROVE IInv' /\ item' = item
  BY <1>1, OpenIInv DEF Open
<1>2. ASSUME NEW d \in Desks, Begin(d) PROVE IInv' /\ item' = item
  <2>1. IInv'
    BY <1>2, BeginIInv
  <2>2. item' = item
    BY <1>2 DEF Begin, BeginPayment, BeginEntry, BeginCorrection, BeginClose,
                BeginReversal, BeginItem, rows
  <2> QED BY <2>1, <2>2
<1>3. ASSUME NEW d \in Desks, PutCashIn(d) PROVE IInv' /\ item' = item
  <2>1. /\ tx' = [tx EXCEPT ![d].lock = "SHARE"] /\ UNCHANGED <<now, rows, signed, overtaken>>
        /\ tx[d].lock = "NONE" /\ drawer[tx[d].on].state = "OPEN"
        /\ tx[d].op \in {"PAY", "RECORD", "CORRECT"} /\ ~Locked(tx[d].on, {"UPDATE"})
    BY <1>3 DEF PutCashIn, PutsCashIn, ShareGranted
  <2>2. tx[d].on \in Shifts
    BY <2>1 DEF IInv, Named
  <2> QED BY <2>1, <2>2, LockIInv DEF rows
<1>4. ASSUME NEW d \in Desks, LockDrawer(d) PROVE IInv' /\ item' = item
  <2>1. /\ tx' = [tx EXCEPT ![d].lock = "UPDATE"] /\ UNCHANGED <<now, rows, signed, overtaken>>
        /\ tx[d].lock = "NONE" /\ drawer[tx[d].on].state = "OPEN"
        /\ tx[d].op = "CLOSE" /\ ~Locked(tx[d].on, {"SHARE", "UPDATE"})
    BY <1>4 DEF LockDrawer
  <2>2. tx[d].on \in Shifts
    BY <2>1 DEF IInv, Named
  <2> QED BY <2>1, <2>2, LockIInv DEF rows
<1>5. ASSUME NEW d \in Desks, RefuseClosed(d) PROVE IInv' /\ item' = item
  BY <1>5, RefuseIInv DEF RefuseClosed, rows
<1>6. ASSUME NEW d \in Desks, CommitPayment(d) PROVE IInv' /\ item' = item
  BY <1>6, CommitPaymentIInv DEF CommitPayment
<1>7. ASSUME NEW d \in Desks, CommitEntry(d) PROVE IInv' /\ item' = item
  BY <1>7, CommitEntryIInv DEF CommitEntry
<1>8. ASSUME NEW d \in Desks, CommitReversal(d) PROVE IInv' /\ item' = item
  <2>1. item' = item
    BY <1>8 DEF CommitReversal
  <2> QED BY <1>8, <2>1, CommitReversalIInv
<1>9. ASSUME NEW d \in Desks, CommitClose(d) PROVE IInv' /\ item' = item
  <2>1. signed' \in [Shifts -> Int] /\ item' = item
    BY <1>9, CountsAreNumbers DEF CommitClose, IInv, Tables
  <2> QED BY <1>9, <2>1, CommitCloseIInv
<1>10. ASSUME NEW d \in Desks, CommitRaise(d) \/ CommitClear(d)
       PROVE  IInv' /\ \A i \in Items : item[i].cleared # None => item'[i] = item[i]
  BY <1>10, CommitItemIInv
<1>11. ASSUME UNCHANGED vars PROVE IInv' /\ item' = item
  <2> USE <1>11 DEF vars
  <2>1. Tables' /\ Named'
    BY DEF IInv, Tables, Named
  <2>2. RowsFresh' /\ Told'
    BY DEF IInv, RowsFresh, Told
  <2>3. Locks' /\ Instants' /\ Overtaking'
    BY DEF IInv, Locks, Instants, Overtaking
  <2>4. MistakesAreUndoneOnce'
    BY DEF IInv, MistakesAreUndoneOnce
  <2> QED BY <2>1, <2>2, <2>3, <2>4 DEF IInv
<1> QED BY <1>1, <1>2, <1>3, <1>4, <1>5, <1>6, <1>7, <1>8, <1>9, <1>10, <1>11 DEF Next, Step

THEOREM Invariance == Spec => []IInv
<1>1. IInv /\ [Next]_vars => IInv'
  BY NextIInv
<1> QED BY InitIInv, <1>1, PTL DEF Spec

(* Of the property's own cash, a mistake is undone once and by its opposite, and
   an undoing never, however many desks correct it and through whichever drawer. *)
THEOREM MistakesCorrect == Spec => []MistakesAreUndoneOnce
<1>1. IInv => MistakesAreUndoneOnce
  BY DEF IInv
<1> QED BY <1>1, Invariance, PTL

(* Whoever clears an item that was cleared already changes nothing of it. *)
THEOREM CreditCorrect == Spec => ClearedItemsKeepTheirCredit
<1>1. IInv /\ [Next]_vars =>
        [\A i \in Items : item[i].cleared # None => item'[i] = item[i]]_vars
  BY NextIInv
<1> QED BY <1>1, Invariance, PTL DEF Spec, ClearedItemsKeepTheirCredit

-----------------------------------------------------------------------------
(* The figures drawers were signed for. *)

Over(s) == {p \in overtaken : payment[p].on = s}

Signed(s) == Closed(s) => signed[s] = Expected(s, drawer[s].closedAt) + Cardinality(Over(s))

LEMMA OverIsFinite ==
  ASSUME IInv, NEW s PROVE IsFiniteSet(Over(s)) /\ Cardinality(Over(s)) \in Nat
<1>1. Over(s) \in SUBSET Payments /\ IsFiniteSet(Payments)
  BY RowsAssumption DEF IInv, Tables, Over
<1> QED BY <1>1, FS_Subset, FS_CardinalityType

(* A drawer whose counted payments, cash book and figure are left alone. *)
LEMMA SignedKept ==
  ASSUME NEW s \in Shifts, Signed(s), Closed(s), signed'[s] = signed[s],
         drawer'[s] = drawer[s],
         \A p \in Payments : Counted(p, s, drawer[s].closedAt)'
                              <=> Counted(p, s, drawer[s].closedAt),
         \A e \in Entries, flow \in {-1, 1} :
           (entry'[e].on = s /\ entry'[e].flow = flow)
             <=> (entry[e].on = s /\ entry[e].flow = flow),
         Over(s)' = Over(s)
  PROVE  Signed(s)'
<1>1. CashTaken(s, drawer[s].closedAt)' = CashTaken(s, drawer[s].closedAt)
  <2>1. {p \in Payments : Counted(p, s, drawer[s].closedAt)}'
          = {p \in Payments : Counted(p, s, drawer[s].closedAt)}
    OBVIOUS
  <2> QED BY <2>1 DEF CashTaken
<1>2. CashBookNet(s)' = CashBookNet(s)
  <2>1. /\ {e \in Entries : entry'[e].on = s /\ entry'[e].flow = 1}
           = {e \in Entries : entry[e].on = s /\ entry[e].flow = 1}
        /\ {e \in Entries : entry'[e].on = s /\ entry'[e].flow = -1}
           = {e \in Entries : entry[e].on = s /\ entry[e].flow = -1}
    OBVIOUS
  <2> QED BY <2>1 DEF CashBookNet
<1>3. Expected(s, drawer[s].closedAt)' = Expected(s, drawer[s].closedAt)
  BY <1>1, <1>2 DEF Expected
<1> QED BY <1>3 DEF Signed, Closed

LEMMA NoMoneyMoves ==
  ASSUME NEW s \in Shifts, Signed(s),
         payment' = payment, entry' = entry, overtaken' = overtaken, signed' = signed,
         Closed(s)' => drawer'[s] = drawer[s]
  PROVE  Signed(s)'
<1> SUFFICES ASSUME Closed(s)' PROVE Signed(s)'
  BY DEF Signed
<1>1. drawer'[s] = drawer[s] /\ Closed(s)
  BY DEF Closed
<1>2. \A p \in Payments :
        Counted(p, s, drawer[s].closedAt)' <=> Counted(p, s, drawer[s].closedAt)
  BY <1>1 DEF Counted
<1>3. Over(s)' = Over(s)
  BY DEF Over
<1> QED BY <1>1, <1>2, <1>3, SignedKept

LEMMA PaymentSigned ==
  ASSUME IInv, NEW s \in Shifts, Signed(s), NEW d \in Desks, CommitPayment(d)
  PROVE  Signed(s)'
<1> DEFINE q == tx[d].row
<1>1. /\ drawer' = drawer /\ entry' = entry /\ overtaken' = overtaken /\ signed' = signed
      /\ q \in Payments /\ payment[q].on = None /\ payment[q].status = "NONE"
      /\ tx[d].on \in Shifts /\ drawer[tx[d].on].state = "OPEN"
      /\ payment' = [payment EXCEPT ![q] =
                       [status |-> "SUCCESS", on |-> tx[d].on, reversedAt |-> 0]]
  BY DEF CommitPayment, IInv, Named, RowsFresh, Told, Locks
<1> HIDE DEF q
<1>2. /\ payment'[q].on = tx[d].on
      /\ \A p \in Payments : p # q => payment'[p] = payment[p]
  BY <1>1 DEF IInv, Tables
<1> SUFFICES ASSUME Closed(s)' PROVE Signed(s)'
  BY DEF Signed
<1>3. Closed(s) /\ tx[d].on # s /\ s # None
  BY <1>1, NoneAssumption DEF Closed
<1>4. ASSUME NEW p \in Payments
      PROVE  Counted(p, s, drawer[s].closedAt)' <=> Counted(p, s, drawer[s].closedAt)
  BY <1>1, <1>2, <1>3 DEF Counted
<1>5. Over(s)' = Over(s)
  BY <1>1, <1>2, <1>3 DEF Over, IInv, Tables
<1> QED BY <1>1, <1>3, <1>4, <1>5, SignedKept

LEMMA EntrySigned ==
  ASSUME IInv, NEW s \in Shifts, Signed(s), NEW d \in Desks, CommitEntry(d)
  PROVE  Signed(s)'
<1> DEFINE q == tx[d].row
           row == [on |-> tx[d].on, flow |-> tx[d].flow, reverses |-> tx[d].of]
<1>1. /\ drawer' = drawer /\ payment' = payment /\ overtaken' = overtaken /\ signed' = signed
      /\ q \in Entries /\ entry[q].on = None
      /\ tx[d].on \in Shifts /\ drawer[tx[d].on].state = "OPEN"
      /\ entry' = entry \/ entry' = [entry EXCEPT ![q] = row]
  BY DEF CommitEntry, IInv, Named, RowsFresh, Locks
<1>2. row.on = tx[d].on
  OBVIOUS
<1> HIDE DEF q, row
<1>3. /\ entry'[q].on \in {None, tx[d].on}
      /\ \A e \in Entries : e # q => entry'[e] = entry[e]
  BY <1>1, <1>2 DEF IInv, Tables
<1> SUFFICES ASSUME Closed(s)' PROVE Signed(s)'
  BY DEF Signed
<1>4. Closed(s) /\ tx[d].on # s /\ s # None
  BY <1>1, NoneAssumption DEF Closed
<1>5. \A p \in Payments :
        Counted(p, s, drawer[s].closedAt)' <=> Counted(p, s, drawer[s].closedAt)
  BY <1>1 DEF Counted
<1>6. Over(s)' = Over(s)
  BY <1>1 DEF Over
<1>7. \A e \in Entries, flow \in {-1, 1} :
        (entry'[e].on = s /\ entry'[e].flow = flow)
          <=> (entry[e].on = s /\ entry[e].flow = flow)
  BY <1>1, <1>3, <1>4
<1> QED BY <1>1, <1>4, <1>5, <1>6, <1>7, SignedKept

(* A reversal that began after the close leaves its payment in the count; one
   that began before it takes the payment out, and is counted apart.          *)
LEMMA ReversalSigned ==
  ASSUME IInv, NEW s \in Shifts, Signed(s), NEW d \in Desks, CommitReversal(d)
  PROVE  Signed(s)'
<1>6. PICK p : p = tx[d].of
  OBVIOUS
<1>7. PICK t : t = tx[d].began
  OBVIOUS
<1>8. PICK c : c = drawer[s].closedAt
  OBVIOUS
<1>1. /\ drawer' = drawer /\ entry' = entry /\ signed' = signed
      /\ p \in Payments /\ tx[d].op = "REVERSE" /\ t \in Nat /\ t # 0
  BY <1>6, <1>7 DEF CommitReversal, IInv, Named, Instants, Tables
<1>2. \/ UNCHANGED <<payment, overtaken>>
      \/ /\ payment[p].status = "SUCCESS"
         /\ payment' = [payment EXCEPT ![p].status = "REFUNDED", ![p].reversedAt = t]
         /\ overtaken' = IF t < drawer[payment[p].on].closedAt
                         THEN overtaken \cup {p} ELSE overtaken
  BY <1>6, <1>7 DEF CommitReversal
<1> SUFFICES ASSUME Closed(s)' PROVE Signed(s)'
  BY DEF Signed
<1>3. /\ Closed(s) /\ c \in Nat /\ c # 0 /\ c # t /\ c = drawer[s].closedAt
  BY <1>1, <1>7, <1>8 DEF Closed, IInv, Instants, Tables
<1>4. CASE UNCHANGED <<payment, overtaken>>
  <2>1. \A q \in Payments : Counted(q, s, c)' <=> Counted(q, s, c)
    BY <1>1, <1>4 DEF Counted
  <2>2. Over(s)' = Over(s)
    BY <1>4 DEF Over
  <2> QED BY <1>1, <1>3, <2>1, <2>2, SignedKept
<1>5. ASSUME payment[p].status = "SUCCESS",
             payment' = [payment EXCEPT ![p].status = "REFUNDED", ![p].reversedAt = t],
             overtaken' = IF t < drawer[payment[p].on].closedAt
                          THEN overtaken \cup {p} ELSE overtaken
      PROVE  Signed(s)'
  <2>1. /\ payment'[p].status = "REFUNDED" /\ payment'[p].reversedAt = t
        /\ payment'[p].on = payment[p].on
        /\ \A q \in Payments : q # p => payment'[q] = payment[q]
    BY <1>1, <1>5 DEF IInv, Tables
  <2>2. p \notin overtaken
    BY <1>5 DEF IInv, Overtaking
  <2>3. ASSUME NEW q \in Payments, q # p PROVE Counted(q, s, c)' <=> Counted(q, s, c)
    BY <1>1, <2>1, <2>3 DEF Counted
  <2>4. CASE payment[p].on # s
    <3>1. Counted(p, s, c)' <=> Counted(p, s, c)
      BY <2>1, <2>4 DEF Counted
    <3>2. Over(s)' = Over(s)
      BY <1>1, <1>5, <2>1, <2>4 DEF Over, IInv, Tables
    <3> QED BY <1>1, <1>3, <2>3, <3>1, <3>2, SignedKept
  <2>5. CASE payment[p].on = s /\ c < t
    <3>1. Counted(p, s, c)' <=> Counted(p, s, c)
      BY <1>1, <1>3, <1>5, <2>1, <2>5 DEF Counted
    <3>2. overtaken' = overtaken
      BY <1>1, <1>3, <1>5, <2>5
    <3>3. Over(s)' = Over(s)
      BY <1>1, <2>1, <3>2 DEF Over, IInv, Tables
    <3> QED BY <1>1, <1>3, <2>3, <3>1, <3>3, SignedKept
  <2>6. CASE payment[p].on = s /\ t < c
    <3> DEFINE taken == {q \in Payments : Counted(q, s, c)}
               left == {q \in Payments : Counted(q, s, c)'}
    <3>1. Counted(p, s, c) /\ ~Counted(p, s, c)'
      BY <1>1, <1>3, <1>5, <2>1, <2>6 DEF Counted
    <3>2. left = taken \ {p} /\ p \in taken /\ taken \in SUBSET Payments
      BY <1>1, <2>3, <3>1
    <3>3. CashTaken(s, c) = Cardinality(taken) /\ CashTaken(s, c)' = Cardinality(left)
      BY DEF CashTaken
    <3>4. Over(s)' = Over(s) \cup {p} /\ p \notin Over(s)
      <4>1. overtaken' = overtaken \cup {p} /\ overtaken \subseteq Payments
        BY <1>3, <1>5, <2>6 DEF IInv, Tables
      <4>2. \A q \in overtaken : payment'[q].on = payment[q].on
        BY <2>1, <4>1
      <4>3. payment'[p].on = s
        BY <2>1, <2>6
      <4> QED BY <2>2, <4>1, <4>2, <4>3 DEF Over
    <3> HIDE DEF taken, left
    <3>5. IsFiniteSet(taken)
      BY <3>2, RowsAssumption, FS_Subset
    <3>6. /\ Cardinality(left) = Cardinality(taken) - 1 /\ Cardinality(taken) \in Nat
      BY <3>2, <3>5, FS_RemoveElement, FS_CardinalityType
    <3>7. Cardinality(Over(s)') = Cardinality(Over(s)) + 1 /\ Cardinality(Over(s)) \in Nat
      BY <3>4, OverIsFinite, FS_AddElement
    <3>8. CashBookNet(s)' = CashBookNet(s) /\ CashBookNet(s) \in Int
      BY <1>1, CountsAreNumbers DEF CashBookNet
    <3>9. signed[s] = CashTaken(s, c) + CashBookNet(s) + Cardinality(Over(s))
      BY <1>3 DEF Signed, Expected
    <3>10. signed'[s] = CashTaken(s, c)' + CashBookNet(s)' + Cardinality(Over(s)')
      BY <1>1, <3>3, <3>6, <3>7, <3>8, <3>9
    <3> QED BY <1>1, <1>3, <3>10 DEF Signed, Expected
  <2> QED BY <1>3, <1>1, <2>4, <2>5, <2>6
<1> QED BY <1>2, <1>4, <1>5

(* Counting a drawer out: nothing had overtaken it, since it was open. *)
LEMMA CloseSigned ==
  ASSUME IInv, NEW s \in Shifts, Signed(s), NEW d \in Desks, CommitClose(d)
  PROVE  Signed(s)'
<1>4. PICK r : r = tx[d].on
  OBVIOUS
<1>5. PICK t : t = tx[d].began
  OBVIOUS
<1>1. /\ payment' = payment /\ entry' = entry /\ overtaken' = overtaken
      /\ drawer' = [drawer EXCEPT ![r].state = "CLOSED", ![r].closedAt = t]
      /\ signed' = [signed EXCEPT ![r] = Expected(r, t)]
      /\ r \in Shifts /\ drawer[r].state = "OPEN"
  BY <1>4, <1>5 DEF CommitClose, IInv, Named, Locks
<1>2. CASE s # r
  <2>1. drawer'[s] = drawer[s] /\ signed'[s] = signed[s]
    BY <1>1, <1>2 DEF IInv, Tables
  <2>2. Closed(s)' => Closed(s)
    BY <2>1 DEF Closed
  <2>3. \A p \in Payments :
          Counted(p, s, drawer[s].closedAt)' <=> Counted(p, s, drawer[s].closedAt)
    BY <1>1, <2>1 DEF Counted
  <2>4. Over(s)' = Over(s)
    BY <1>1 DEF Over
  <2> SUFFICES ASSUME Closed(s)' PROVE Signed(s)'
    BY DEF Signed
  <2> QED BY <1>1, <2>1, <2>2, <2>3, <2>4, SignedKept
<1>3. CASE s = r
  <2>1. drawer'[s].closedAt = t /\ signed'[s] = Expected(s, t)
    BY <1>1, <1>3 DEF IInv, Tables
  <2>2. Over(s)' = {}
    BY <1>1, <1>3 DEF Over, IInv, Overtaking
  <2>3. Cardinality(Over(s)') = 0
    BY <2>2, FS_EmptySet
  <2>4. Expected(s, t)' = Expected(s, t)
    BY <1>1 DEF Expected, CashTaken, CashBookNet, Counted
  <2>5. Expected(s, drawer[s].closedAt)' = Expected(s, t)
    BY <2>1, <2>4 DEF Expected, CashTaken, CashBookNet, Counted
  <2> QED BY <2>1, <2>3, <2>5, CountsAreNumbers DEF Signed
<1> QED BY <1>2, <1>3

LEMMA NextSigned ==
  ASSUME IInv, SignedCountsStand, [Next]_vars
  PROVE  SignedCountsStand'
<1> SUFFICES ASSUME NEW s \in Shifts PROVE Signed(s)'
  BY DEF SignedCountsStand, Signed, Over
<1>1. Signed(s)
  BY DEF SignedCountsStand, Signed, Over
<1>2. ASSUME NEW o \in Operators, NEW r \in Shifts, Open(o, r) PROVE Signed(s)'
  <2>1. /\ payment' = payment /\ entry' = entry /\ overtaken' = overtaken /\ signed' = signed
        /\ drawer' = [drawer EXCEPT ![r].state = "OPEN", ![r].operator = o]
    BY <1>2 DEF Open
  <2>2. Closed(s)' => drawer'[s] = drawer[s]
    BY <2>1 DEF Closed, IInv, Tables
  <2> QED BY <1>1, <2>1, <2>2, NoMoneyMoves
<1>3. ASSUME UNCHANGED <<rows, signed, overtaken>> PROVE Signed(s)'
  BY <1>1, <1>3, NoMoneyMoves DEF rows
<1>4. ASSUME NEW d \in Desks, Begin(d) PROVE Signed(s)'
  BY <1>3, <1>4 DEF Begin, BeginPayment, BeginEntry, BeginCorrection, BeginClose,
                    BeginReversal, BeginItem
<1>5. ASSUME NEW d \in Desks, PutCashIn(d) \/ LockDrawer(d) \/ RefuseClosed(d)
      PROVE  Signed(s)'
  BY <1>3, <1>5 DEF PutCashIn, LockDrawer, RefuseClosed
<1>6. ASSUME NEW d \in Desks, CommitRaise(d) \/ CommitClear(d) PROVE Signed(s)'
  <2>1. /\ payment' = payment /\ entry' = entry /\ overtaken' = overtaken /\ signed' = signed
        /\ drawer' = drawer
    BY <1>6 DEF CommitRaise, CommitClear
  <2> QED BY <1>1, <2>1, NoMoneyMoves
<1>7. ASSUME NEW d \in Desks, CommitPayment(d) PROVE Signed(s)'
  BY <1>1, <1>7, PaymentSigned
<1>8. ASSUME NEW d \in Desks, CommitEntry(d) PROVE Signed(s)'
  BY <1>1, <1>8, EntrySigned
<1>9. ASSUME NEW d \in Desks, CommitReversal(d) PROVE Signed(s)'
  BY <1>1, <1>9, ReversalSigned
<1>10. ASSUME NEW d \in Desks, CommitClose(d) PROVE Signed(s)'
  BY <1>1, <1>10, CloseSigned
<1>11. CASE UNCHANGED vars
  BY <1>3, <1>11 DEF vars, rows
<1> QED BY <1>2, <1>4, <1>5, <1>6, <1>7, <1>8, <1>9, <1>10, <1>11 DEF Next, Step

(* The figure a drawer was signed for stands: what would be computed for it now
   differs by the reversals that were under way at the count, and by no more,
   for any number of desks, payments and movements.                           *)
THEOREM SignedCorrect == Spec => []SignedCountsStand
<1>1. Init => SignedCountsStand
  BY DEF Init, SignedCountsStand, Closed
<1>2. IInv /\ SignedCountsStand /\ [Next]_vars => SignedCountsStand'
  BY NextSigned
<1> QED BY <1>1, <1>2, Invariance, PTL DEF Spec

=============================================================================
