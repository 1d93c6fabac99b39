---------------------------- MODULE FunnelProofs ----------------------------
(* Funnel, for every number of holds, attempts, callers and gateways: the money
   and the room. Crash, time and the unlocked reads are all steps here; only the
   liveness of holds is left to TLC, and what it rests on is here.             *)
EXTENDS Funnel, FiniteSetTheorems, TLAPS

(* The parts of TypeOK the argument needs, and that an attempt names its stay. *)
Rows ==
  /\ hold \in [Bookings -> [state : HoldState, ttl : Nat, grace : Nat,
                            caller : Callers \cup {NoCaller}, revoked : BOOLEAN]]
  /\ attempt \in [Attempts -> [status : PaymentStatus, booking : Bookings \cup {NoBooking},
                               method : Methods \cup {NoMethod},
                               txn : GatewayTxns \cup {NoTxn}]]
  /\ lines \in [Attempts -> Nat]
  /\ window \in [Attempts -> 0 .. Window]
  /\ \A a \in Attempts : attempt[a].status # "UNOPENED" => attempt[a].booking \in Bookings

(* A transaction id is recorded with the success and not before. *)
TxnOfPaid == \A a \in Attempts : attempt[a].txn # NoTxn => Paid(a)

Kept == Rows /\ TxnOfPaid /\ PaidIsPostedOnce /\ PaidStayIsNotHeld /\ WindowIsCovered

USE NamesAssumption, ClocksAssumption DEF Unborn, HoldState, PaymentStatus

(* An attempt is opened on a stay that exists, and no stay is unmade. *)
Founded ==
  \A a \in Attempts :
    attempt[a].booking \in Bookings => hold[attempt[a].booking].state # Unborn

Inv == Kept /\ Founded

HoldRow == [state : HoldState, ttl : Nat, grace : Nat,
            caller : Callers \cup {NoCaller}, revoked : BOOLEAN]

(* What a step on the holds alone must keep to: no stay is unmade, and one that
   is held was held with the same deadline, or did not exist.                  *)
HoldsOnly ==
  /\ hold' \in [Bookings -> HoldRow]
  /\ \A b \in Bookings :
       /\ hold[b].state # Unborn => hold'[b].state # Unborn
       /\ hold'[b].state = "HELD" =>
            \/ hold[b].state = "HELD" /\ hold'[b].ttl = hold[b].ttl
            \/ hold[b].state = Unborn
  /\ UNCHANGED <<attempt, lines, window>>

LEMMA HoldsOnlyKeeps ==
  ASSUME Inv, HoldsOnly
  PROVE  Inv'
<1>1. Rows'
  BY DEF Inv, Kept, Rows, HoldsOnly, HoldRow
<1>2. TxnOfPaid' /\ PaidIsPostedOnce'
  BY DEF Inv, Kept, TxnOfPaid, PaidIsPostedOnce, Paid, HoldsOnly
<1>3. PaidStayIsNotHeld'
  <2> SUFFICES ASSUME NEW a \in Attempts, Paid(a)', Held(attempt[a].booking)'
               PROVE  FALSE
    BY DEF PaidStayIsNotHeld
  <2>1. Paid(a) /\ attempt'[a] = attempt[a] /\ attempt[a].booking \in Bookings
    BY DEF Inv, Kept, Rows, Paid, HoldsOnly
  <2>2. hold[attempt[a].booking].state # "HELD"
    BY <2>1 DEF Inv, Kept, PaidStayIsNotHeld, Held
  <2>3. hold[attempt[a].booking].state # Unborn
    BY <2>1 DEF Inv, Founded
  <2> QED BY <2>1, <2>2, <2>3 DEF HoldsOnly, Held
<1>4. WindowIsCovered'
  <2> SUFFICES ASSUME NEW a \in Attempts, attempt'[a].status = "PENDING",
                      Held(attempt[a].booking)'
               PROVE  hold'[attempt[a].booking].ttl >= window[a]
    BY DEF WindowIsCovered, HoldsOnly, Held
  <2>1. attempt'[a] = attempt[a] /\ attempt[a].booking \in Bookings
    BY DEF Inv, Kept, Rows, HoldsOnly
  <2> DEFINE b == attempt[a].booking
  <2>2. hold[b].state # Unborn
    BY <2>1 DEF Inv, Founded
  <2>3. hold[b].state = "HELD" /\ hold'[b].ttl = hold[b].ttl
    BY <2>1, <2>2 DEF HoldsOnly, Held
  <2>4. b # NoBooking
    BY <2>1
  <2>5. hold[b].ttl >= window[a]
    BY <2>1, <2>3, <2>4 DEF Inv, Kept, WindowIsCovered, Held
  <2>6. hold[b].ttl \in Nat /\ hold'[b].ttl \in Nat /\ window[a] \in Nat
    BY <2>1 DEF Inv, Kept, Rows, HoldsOnly, HoldRow
  <2> QED BY <2>1, <2>3, <2>5, <2>6
<1>5. Founded'
  BY DEF Inv, Founded, Kept, Rows, HoldsOnly
<1> QED BY <1>1, <1>2, <1>3, <1>4, <1>5 DEF Inv, Kept

LEMMA LeftIsHoldRow ==
  ASSUME Rows, NEW b \in Bookings, NEW s \in HoldState
  PROVE  Left(b, s) \in HoldRow /\ Left(b, s).state = s
<1>1. hold[b] \in HoldRow
  BY DEF Rows, HoldRow
<1>2. ASSUME NEW h \in HoldRow
      PROVE  LET h2 == [h EXCEPT !.state = s, !.ttl = 0, !.grace = 0, !.caller = NoCaller]
             IN  h2 \in HoldRow /\ h2.state = s
  BY DEF HoldRow
<1> QED BY <1>1, <1>2 DEF Left

(* The operations that move holds and no money. *)
LEMMA HoldStepsAreHoldsOnly ==
  ASSUME Inv,
         \/ \E c \in Callers : AskForHold(c) \/ RefuseHold(c)
         \/ \E c \in Callers, b \in Bookings, r \in Bookings \cup {NoBooking} : OpenHold(c, b, r)
         \/ \E b \in Bookings, leaving \in BOOLEAN : MarkPresence(b, leaving)
         \/ Sweep
         \/ \E b \in Bookings : \/ Confirm(b) \/ Cancel(b) \/ AttachToAccount(b)
                                \/ BeginCancelOwn(b) \/ FinishCancelOwn(b)
         \/ \E a \in Attempts : SendPage(a)
         \/ Crash
         \/ UNCHANGED vars
  PROVE  HoldsOnly
<1> USE DEF payments
<1>0. Rows /\ hold \in [Bookings -> HoldRow] /\ \A b \in Bookings : hold[b].ttl >= hold[b].ttl
  BY DEF Inv, Kept, Rows, HoldRow
<1>s. ASSUME UNCHANGED <<hold, attempt, lines, window>> PROVE HoldsOnly
  BY <1>0, <1>s DEF HoldsOnly
<1>1. CASE \E c \in Callers : AskForHold(c) \/ RefuseHold(c)
  BY <1>1, <1>s DEF AskForHold, RefuseHold
<1>2. ASSUME NEW c \in Callers, NEW b \in Bookings, NEW r \in Bookings \cup {NoBooking},
             OpenHold(c, b, r)
      PROVE  HoldsOnly
  <2> DEFINE born == [state |-> "HELD", ttl |-> TTL, grace |-> Grace,
                      caller |-> c, revoked |-> FALSE]
  <2>1. born \in HoldRow
    BY DEF HoldRow
  <2>2. \A x \in Bookings :
          hold'[x] = IF x = b THEN born
                     ELSE IF x = r /\ Replaceable(c, x) THEN Left(x, "CANCELLED") ELSE hold[x]
    BY <1>2 DEF OpenHold
  <2>3. \A x \in Bookings : Left(x, "CANCELLED") \in HoldRow /\ Left(x, "CANCELLED").state = "CANCELLED"
    BY <1>0, LeftIsHoldRow
  <2>4. hold' \in [Bookings -> HoldRow]
    <3>1. \A x \in Bookings : hold'[x] \in HoldRow
      BY <1>0, <2>1, <2>2, <2>3
    <3>2. hold' = [x \in Bookings |-> hold'[x]]
      BY <1>2 DEF OpenHold
    <3> QED BY <3>1, <3>2
  <2>5. hold[b].state = Unborn /\ UNCHANGED <<attempt, lines, window>>
    BY <1>2 DEF OpenHold
  <2>6. ASSUME NEW x \in Bookings
        PROVE  /\ hold[x].state # Unborn => hold'[x].state # Unborn
               /\ hold'[x].state = "HELD" =>
                    \/ hold[x].state = "HELD" /\ hold'[x].ttl = hold[x].ttl
                    \/ hold[x].state = Unborn
    <3>1. CASE x = b
      BY <2>5, <3>1
    <3>2. CASE x # b /\ x = r /\ Replaceable(c, x)
      BY <2>2, <2>3, <3>2
    <3>3. CASE x # b /\ ~(x = r /\ Replaceable(c, x))
      BY <1>0, <2>2, <3>3
    <3> QED BY <3>1, <3>2, <3>3
  <2> QED BY <2>4, <2>5, <2>6 DEF HoldsOnly
<1>3. ASSUME NEW b \in Bookings, NEW leaving \in BOOLEAN, MarkPresence(b, leaving)
      PROVE  HoldsOnly
  <2>1. (IF leaving THEN Shorter(Grace, Reprieve) ELSE Grace) \in Nat
    BY DEF Shorter
  <2> QED BY <1>0, <1>3, <2>1 DEF MarkPresence, HoldsOnly, HoldRow
<1>4. ASSUME Sweep PROVE HoldsOnly
  <2>1. \A x \in Bookings : Left(x, "CANCELLED") \in HoldRow /\ Left(x, "CANCELLED").state = "CANCELLED"
    BY <1>0, LeftIsHoldRow
  <2> QED BY <1>0, <1>4, <2>1 DEF Sweep, HoldsOnly
<1>5. ASSUME NEW b \in Bookings, NEW s \in {"CONFIRMED", "CANCELLED"},
             hold' = [hold EXCEPT ![b] = Left(b, s)], UNCHANGED <<attempt, lines, window>>
      PROVE  HoldsOnly
  <2>1. Left(b, s) \in HoldRow /\ Left(b, s).state = s
    BY <1>0, LeftIsHoldRow
  <2> QED BY <1>0, <1>5, <2>1 DEF HoldsOnly
<1>6. ASSUME NEW b \in Bookings,
             Confirm(b) \/ Cancel(b) \/ AttachToAccount(b) \/ BeginCancelOwn(b) \/ FinishCancelOwn(b)
      PROVE  HoldsOnly
  <2>1. CASE Confirm(b)
    BY <1>5, <2>1 DEF Confirm
  <2>2. CASE Cancel(b)
    BY <1>5, <2>2 DEF Cancel
  <2>3. CASE AttachToAccount(b)
    BY <1>0, <2>3 DEF AttachToAccount, HoldsOnly, HoldRow
  <2>4. CASE BeginCancelOwn(b)
    BY <1>s, <2>4 DEF BeginCancelOwn
  <2>5. CASE FinishCancelOwn(b)
    BY <1>5, <1>s, <2>5 DEF FinishCancelOwn
  <2> QED BY <1>6, <2>1, <2>2, <2>3, <2>4, <2>5
<1>7. CASE (\E a \in Attempts : SendPage(a)) \/ Crash \/ UNCHANGED vars
  BY <1>7, <1>s DEF SendPage, Crash, vars
<1> QED BY <1>1, <1>2, <1>3, <1>4, <1>6, <1>7

-----------------------------------------------------------------------------
(* The steps that move money, and time. *)

LEMMA OpenAttemptKeeps ==
  ASSUME Inv, NEW a \in Attempts, NEW b \in Bookings, NEW m \in Methods, OpenAttempt(a, b, m)
  PROVE  Inv'
<1>0. Rows /\ TxnOfPaid /\ PaidIsPostedOnce /\ PaidStayIsNotHeld /\ WindowIsCovered /\ Founded
  BY DEF Inv, Kept
<1> DEFINE row == [status |-> "PENDING", booking |-> b, method |-> m, txn |-> NoTxn]
<1>1. attempt' = [attempt EXCEPT ![a] = row] /\ UNCHANGED lines /\ attempt[a].status = "UNOPENED"
  BY DEF OpenAttempt
<1>2. /\ hold' \in [Bookings -> HoldRow]
      /\ \A x \in Bookings : /\ hold'[x].state = hold[x].state
                             /\ hold'[x].ttl >= hold[x].ttl
                             /\ x = b /\ Held(b) => hold'[x].ttl >= Window
  <2>1. hold' = IF Held(b) THEN [hold EXCEPT ![b].ttl = Longer(hold[b].ttl, Window)] ELSE hold
    BY DEF OpenAttempt, ExtendHold
  <2>2. hold \in [Bookings -> HoldRow]
    BY <1>0 DEF Rows, HoldRow
  <2>3. hold[b].ttl \in Nat /\ Window \in Nat
    BY <2>2 DEF HoldRow
  <2>4. /\ Longer(hold[b].ttl, Window) \in Nat
        /\ Longer(hold[b].ttl, Window) >= hold[b].ttl
        /\ Longer(hold[b].ttl, Window) >= Window
    BY <2>3 DEF Longer
  <2>5. CASE Held(b)
    BY <2>1, <2>2, <2>4, <2>5 DEF HoldRow
  <2>6. CASE ~Held(b)
    BY <2>1, <2>2, <2>6 DEF HoldRow
  <2> QED BY <2>5, <2>6
<1>3. window' \in [Attempts -> 0 .. Window] /\ \A x \in Attempts \ {a} : window'[x] = window[x]
  BY <1>0 DEF OpenAttempt, Rows
<1>4. Rows'
  BY <1>0, <1>1, <1>2, <1>3 DEF Rows, HoldRow
<1>5. TxnOfPaid' /\ PaidIsPostedOnce'
  BY <1>0, <1>1 DEF TxnOfPaid, PaidIsPostedOnce, Paid, Rows
<1>6. PaidStayIsNotHeld'
  BY <1>0, <1>1, <1>2 DEF PaidStayIsNotHeld, Paid, Held, Rows
<1>7. WindowIsCovered'
  <2> SUFFICES ASSUME NEW x \in Attempts, attempt'[x].status = "PENDING",
                      attempt'[x].booking # NoBooking, hold'[attempt'[x].booking].state = "HELD"
               PROVE  hold'[attempt'[x].booking].ttl >= window'[x]
    BY DEF WindowIsCovered, Held
  <2>1. CASE x = a
    <3>1. attempt'[x].booking = b /\ Held(b)
      BY <1>0, <1>1, <1>2, <2>1 DEF Rows, Held
    <3>2. hold'[b].ttl >= Window /\ window'[x] \in 0 .. Window /\ hold'[b].ttl \in Nat
      BY <1>2, <1>3, <3>1 DEF HoldRow
    <3> QED BY <3>1, <3>2
  <2>2. CASE x # a
    <3>1. attempt'[x] = attempt[x] /\ attempt[x].booking \in Bookings
      BY <1>0, <1>1, <2>2 DEF Rows
    <3>2. Held(attempt[x].booking) /\ hold'[attempt[x].booking].ttl >= hold[attempt[x].booking].ttl
      BY <1>2, <3>1 DEF Held
    <3>3. hold[attempt[x].booking].ttl >= window[x]
      BY <1>0, <3>1, <3>2 DEF WindowIsCovered
    <3>4. hold[attempt[x].booking].ttl \in Nat /\ hold'[attempt[x].booking].ttl \in Nat /\ window[x] \in Nat
      BY <1>0, <1>2, <3>1 DEF Rows, HoldRow
    <3> QED BY <1>3, <2>2, <3>1, <3>2, <3>3, <3>4
  <2> QED BY <2>1, <2>2
<1>8. Founded'
  BY <1>0, <1>1, <1>2 DEF Founded, OpenAttempt, Rows
<1> QED BY <1>4, <1>5, <1>6, <1>7, <1>8 DEF Inv, Kept

LEMMA PaidHoldIsHoldsOnly ==
  ASSUME Inv, NEW b \in Bookings
  PROVE  /\ PaidHold(b) \in [Bookings -> HoldRow]
         /\ PaidHold(b)[b].state # "HELD"
         /\ \A x \in Bookings : x # b => PaidHold(b)[x] = hold[x]
         /\ hold[b].state # Unborn => PaidHold(b)[b].state # Unborn
<1>1. hold \in [Bookings -> HoldRow] /\ Rows
  BY DEF Inv, Kept, Rows, HoldRow
<1>2. Left(b, "CONFIRMED") \in HoldRow /\ Left(b, "CONFIRMED").state = "CONFIRMED"
  BY <1>1, LeftIsHoldRow
<1> QED BY <1>1, <1>2 DEF PaidHold, Held

LEMMA RecordSuccessKeeps ==
  ASSUME Inv, NEW a \in Attempts, NEW m \in Methods, NEW txn \in GatewayTxns,
         RecordSuccess(a, m, txn)
  PROVE  Inv'
<1>0. Rows /\ TxnOfPaid /\ PaidIsPostedOnce /\ PaidStayIsNotHeld /\ WindowIsCovered /\ Founded
  BY DEF Inv, Kept
<1> DEFINE b == attempt[a].booking
<1>1. /\ attempt[a].status = "PENDING" /\ Unrecorded(a, txn)
      /\ attempt' = [attempt EXCEPT ![a].status = "SUCCESS", ![a].txn = txn]
      /\ hold' = PaidHold(b)
      /\ lines' = [lines EXCEPT ![a] = lines[a] + 1]
      /\ UNCHANGED window
  BY DEF RecordSuccess, Claims
<1>2. b \in Bookings
  BY <1>0, <1>1 DEF Rows
<1>3. /\ hold' \in [Bookings -> HoldRow]
      /\ hold'[b].state # "HELD" /\ hold'[b].state # Unborn
      /\ \A x \in Bookings : x # b => hold'[x] = hold[x]
  BY <1>0, <1>1, <1>2, PaidHoldIsHoldsOnly DEF Founded
<1>4. \A x \in Attempts : /\ attempt'[x].booking = attempt[x].booking
                          /\ x # a => attempt'[x] = attempt[x] /\ lines'[x] = lines[x]
  BY <1>0, <1>1 DEF Rows
<1>5. attempt'[a].status = "SUCCESS" /\ attempt'[a].txn = txn /\ lines'[a] = 1
  BY <1>0, <1>1 DEF Rows, PaidIsPostedOnce, Paid
<1>6. Rows'
  <2> DEFINE PaymentRow == [status : PaymentStatus, booking : Bookings \cup {NoBooking},
                            method : Methods \cup {NoMethod}, txn : GatewayTxns \cup {NoTxn}]
  <2>1. ASSUME NEW p \in PaymentRow
        PROVE  [p EXCEPT !.status = "SUCCESS", !.txn = txn] \in PaymentRow
    OBVIOUS
  <2>2. attempt' = [attempt EXCEPT ![a] = [attempt[a] EXCEPT !.status = "SUCCESS", !.txn = txn]]
    BY <1>0, <1>1 DEF Rows
  <2>3. attempt \in [Attempts -> PaymentRow]
    BY <1>0 DEF Rows
  <2>4. attempt' \in [Attempts -> PaymentRow]
    <3> HIDE DEF PaymentRow
    <3> QED BY <2>1, <2>2, <2>3
  <2>5. lines' \in [Attempts -> Nat]
    BY <1>0, <1>1 DEF Rows
  <2>6. \A x \in Attempts : attempt'[x].status # "UNOPENED" => attempt'[x].booking \in Bookings
    BY <1>0, <1>2, <1>4 DEF Rows
  <2> QED BY <1>0, <1>1, <1>3, <2>4, <2>5, <2>6 DEF Rows, HoldRow
<1>7. TxnOfPaid'
  BY <1>0, <1>4, <1>5 DEF TxnOfPaid, Paid
<1>8. PaidIsPostedOnce'
  <2>1. \A x \in Attempts : x # a => attempt[x].txn # txn
    BY <1>1 DEF Unrecorded
  <2>2. \A x \in Attempts : lines'[x] = IF attempt'[x].status = "SUCCESS" THEN 1 ELSE 0
    BY <1>0, <1>4, <1>5 DEF PaidIsPostedOnce, Paid
  <2>3. \A x, y \in Attempts :
          attempt'[x].txn # NoTxn /\ attempt'[y].txn = attempt'[x].txn => y = x
    BY <1>0, <1>4, <1>5, <2>1 DEF PaidIsPostedOnce
  <2> QED BY <2>2, <2>3 DEF PaidIsPostedOnce, Paid
<1>9. PaidStayIsNotHeld'
  <2> SUFFICES ASSUME NEW x \in Attempts, attempt'[x].status = "SUCCESS"
               PROVE  hold'[attempt[x].booking].state # "HELD"
    BY <1>4 DEF PaidStayIsNotHeld, Paid, Held
  <2>1. CASE attempt[x].booking = b
    BY <1>3, <2>1
  <2>2. CASE attempt[x].booking # b
    <3>1. x # a /\ attempt'[x] = attempt[x]
      BY <1>4, <2>2
    <3>2. attempt[x].booking \in Bookings /\ Paid(x)
      BY <1>0, <3>1 DEF Rows, Paid
    <3> QED BY <1>0, <1>3, <2>2, <3>1, <3>2 DEF PaidStayIsNotHeld, Held
  <2> QED BY <2>1, <2>2
<1>10. WindowIsCovered'
  <2> SUFFICES ASSUME NEW x \in Attempts, attempt'[x].status = "PENDING",
                      attempt'[x].booking # NoBooking, hold'[attempt'[x].booking].state = "HELD"
               PROVE  hold'[attempt'[x].booking].ttl >= window[x]
    BY <1>1 DEF WindowIsCovered, Held
  <2>1. x # a /\ attempt'[x] = attempt[x]
    BY <1>4, <1>5
  <2>2. attempt[x].booking \in Bookings /\ attempt[x].booking # b
    BY <1>0, <1>3, <2>1 DEF Rows
  <2> QED BY <1>0, <1>3, <2>1, <2>2 DEF WindowIsCovered, Held
<1>11. Founded'
  <2> SUFFICES ASSUME NEW x \in Attempts, attempt[x].booking \in Bookings
               PROVE  hold'[attempt[x].booking].state # Unborn
    BY <1>4 DEF Founded
  <2> QED BY <1>0, <1>3 DEF Founded
<1> QED BY <1>6, <1>7, <1>8, <1>9, <1>10, <1>11 DEF Inv, Kept

LEMMA RecordRefusalKeeps ==
  ASSUME Inv, NEW a \in Attempts, NEW m \in Methods, RecordRefusal(a, m)
  PROVE  Inv'
<1>0. Rows /\ TxnOfPaid /\ PaidIsPostedOnce /\ PaidStayIsNotHeld /\ WindowIsCovered /\ Founded
  BY DEF Inv, Kept
<1>1. /\ attempt[a].status = "PENDING"
      /\ attempt' = [attempt EXCEPT ![a].status = "FAILED"]
      /\ UNCHANGED <<hold, lines, window>>
  BY DEF RecordRefusal, Claims
<1>2. \A x \in Attempts : /\ attempt'[x].booking = attempt[x].booking
                          /\ attempt'[x].txn = attempt[x].txn
                          /\ x # a => attempt'[x] = attempt[x]
  BY <1>0, <1>1 DEF Rows
<1>3. attempt'[a].status = "FAILED"
  BY <1>0, <1>1 DEF Rows
<1>4. Rows'
  BY <1>0, <1>1 DEF Rows
<1>5. TxnOfPaid' /\ PaidIsPostedOnce'
  BY <1>0, <1>1, <1>2, <1>3 DEF TxnOfPaid, PaidIsPostedOnce, Paid
<1>6. PaidStayIsNotHeld' /\ WindowIsCovered'
  BY <1>0, <1>1, <1>2, <1>3 DEF PaidStayIsNotHeld, WindowIsCovered, Paid, Held
<1>7. Founded'
  BY <1>0, <1>1, <1>2 DEF Founded
<1> QED BY <1>4, <1>5, <1>6, <1>7 DEF Inv, Kept

LEMMA TickKeeps ==
  ASSUME Inv, Tick
  PROVE  Inv'
<1>0. Rows /\ TxnOfPaid /\ PaidIsPostedOnce /\ PaidStayIsNotHeld /\ WindowIsCovered /\ Founded
  BY DEF Inv, Kept
<1>1. hold \in [Bookings -> HoldRow]
  BY <1>0 DEF Rows, HoldRow
<1>2. \A n \in Nat : Less(n) \in Nat /\ Less(n) <= n
  BY DEF Less
<1>3. \A n \in Nat, k \in Nat : n >= k => Less(n) >= Less(k)
  BY DEF Less
<1>4. /\ hold' = [b \in Bookings |-> [hold[b] EXCEPT !.ttl = Less(@), !.grace = Less(@)]]
      /\ window' = [a \in Attempts |-> Less(window[a])]
      /\ UNCHANGED <<attempt, lines>>
  BY DEF Tick
<1>5. ASSUME NEW h \in HoldRow
      PROVE  LET h2 == [h EXCEPT !.ttl = Less(@), !.grace = Less(@)]
             IN  h2 \in HoldRow /\ h2.state = h.state /\ h2.ttl = Less(h.ttl)
  BY <1>2 DEF HoldRow
<1>6. /\ hold' \in [Bookings -> HoldRow]
      /\ \A b \in Bookings : hold'[b].state = hold[b].state /\ hold'[b].ttl = Less(hold[b].ttl)
  BY <1>1, <1>4, <1>5
<1>7. \A a \in Attempts : window[a] \in Nat /\ window'[a] = Less(window[a]) /\ window'[a] \in 0 .. Window
  <2> TAKE a \in Attempts
  <2>1. window[a] \in 0 .. Window /\ window'[a] = Less(window[a]) /\ Window \in Nat
    BY <1>0, <1>4 DEF Rows
  <2> QED BY <1>2, <2>1
<1>8. Rows'
  <2>1. window' \in [Attempts -> 0 .. Window]
    BY <1>4, <1>7
  <2> QED BY <1>0, <1>4, <1>6, <2>1 DEF Rows, HoldRow
<1>9. TxnOfPaid' /\ PaidIsPostedOnce'
  BY <1>0, <1>4 DEF TxnOfPaid, PaidIsPostedOnce, Paid
<1>10. PaidStayIsNotHeld' /\ Founded'
  BY <1>0, <1>4, <1>6 DEF PaidStayIsNotHeld, Founded, Paid, Held, Rows
<1>11. WindowIsCovered'
  <2> SUFFICES ASSUME NEW a \in Attempts, attempt[a].status = "PENDING",
                      attempt[a].booking # NoBooking, hold'[attempt[a].booking].state = "HELD"
               PROVE  hold'[attempt[a].booking].ttl >= window'[a]
    BY <1>4 DEF WindowIsCovered, Held
  <2> DEFINE b == attempt[a].booking
  <2>1. b \in Bookings
    BY <1>0 DEF Rows
  <2>2. hold[b].ttl >= window[a] /\ hold[b].ttl \in Nat
    BY <1>0, <1>1, <1>6, <2>1 DEF WindowIsCovered, Held, HoldRow
  <2> QED BY <1>3, <1>6, <1>7, <2>1, <2>2
<1> QED BY <1>8, <1>9, <1>10, <1>11 DEF Inv, Kept

-----------------------------------------------------------------------------
LEMMA InitInv == Init => Inv
BY DEF Init, Inv, Kept, Rows, TxnOfPaid, PaidIsPostedOnce, PaidStayIsNotHeld, WindowIsCovered,
       Founded, Paid, Held

LEMMA NextInv == Inv /\ [Next]_vars => Inv'
<1> SUFFICES ASSUME Inv, [Next]_vars PROVE Inv'
  OBVIOUS
<1>1. ASSUME NEW a \in Attempts, NEW b \in Bookings, NEW m \in Methods, OpenAttempt(a, b, m)
      PROVE  Inv'
  BY <1>1, OpenAttemptKeeps
<1>2. ASSUME NEW a \in Attempts, NEW m \in Methods,
             RecordRefusal(a, m) \/ \E txn \in GatewayTxns : RecordSuccess(a, m, txn)
      PROVE  Inv'
  BY <1>2, RecordRefusalKeeps, RecordSuccessKeeps
<1>3. CASE Tick
  BY <1>3, TickKeeps
<1>4. ASSUME ~\E a \in Attempts, b \in Bookings, m \in Methods : OpenAttempt(a, b, m),
             ~\E a \in Attempts, m \in Methods :
                RecordRefusal(a, m) \/ \E txn \in GatewayTxns : RecordSuccess(a, m, txn),
             ~Tick
      PROVE  Inv'
  BY <1>4, HoldStepsAreHoldsOnly, HoldsOnlyKeeps DEF Next
<1> QED BY <1>1, <1>2, <1>3, <1>4

LEMMA InvHolds == Spec => []Inv
BY InitInv, NextInv, PTL DEF Spec

(* FR-PAY-03 for any number of attempts, gateways, deliveries and crashes. *)
THEOREM MoneyIsPostedOnce == Spec => []PaidIsPostedOnce
<1>1. Inv => PaidIsPostedOnce
  BY DEF Inv, Kept
<1> QED BY <1>1, InvHolds, PTL

(* A paid stay is never counting down. *)
THEOREM PaidStaysAreSold == Spec => []PaidStayIsNotHeld
<1>1. Inv => PaidStayIsNotHeld
  BY DEF Inv, Kept
<1> QED BY <1>1, InvHolds, PTL

(* The room outlasts the window of every attempt open on it. *)
THEOREM WindowsAreCovered == Spec => []WindowIsCovered
<1>1. Inv => WindowIsCovered
  BY DEF Inv, Kept
<1> QED BY <1>1, InvHolds, PTL

(* Neither the sweep nor another pick takes the room from a guest who is paying. *)
THEOREM PayingGuestsKeepTheirRooms == Spec => PayingGuestKeepsTheRoom
<1> DEFINE Taking ==
      Sweep \/ \E c \in Callers, b \in Bookings, r \in Bookings \cup {NoBooking} : OpenHold(c, b, r)
<1>1. ASSUME Inv, Taking, NEW a \in Attempts, attempt[a].status = "PENDING", window[a] > 0,
             Held(attempt[a].booking)
      PROVE  hold'[attempt[a].booking].state = "HELD"
  <2> DEFINE x == attempt[a].booking
  <2>1. x \in Bookings /\ x # NoBooking /\ InFlight(x)
    BY <1>1 DEF Inv, Kept, Rows, InFlight
  <2>2. hold[x].ttl # 0
    <3>1. hold[x].ttl >= window[a] /\ hold[x].ttl \in Nat /\ window[a] \in Nat
      BY <1>1, <2>1 DEF Inv, Kept, Rows, WindowIsCovered
    <3> QED BY <1>1, <3>1
  <2>3. CASE Sweep
    BY <1>1, <2>1, <2>2, <2>3 DEF Sweep, Expired, Held
  <2>4. ASSUME NEW c \in Callers, NEW b \in Bookings, NEW r \in Bookings \cup {NoBooking},
               OpenHold(c, b, r)
        PROVE  hold'[x].state = "HELD"
    <3>1. x # b /\ ~Replaceable(c, x)
      BY <1>1, <2>1, <2>4 DEF OpenHold, Replaceable, Held
    <3> QED BY <1>1, <2>1, <2>4, <3>1 DEF OpenHold, Held
  <2> QED BY <1>1, <2>3, <2>4
<1>2. Inv => [Taking => \A a \in Attempts :
                 attempt[a].status = "PENDING" /\ window[a] > 0 /\ Held(attempt[a].booking)
                   => hold'[attempt[a].booking].state = "HELD"]_vars
  BY <1>1
<1> QED BY <1>2, InvHolds, PTL DEF PayingGuestKeepsTheRoom

-----------------------------------------------------------------------------
(* Funnel implements PaidStay. *)

LEMMA StayOfStates ==
  ASSUME Inv, NEW b \in Bookings
  PROVE  /\ hold[b].state \in HoldState
         /\ StayOf(b) = "none" <=> hold[b].state = Unborn
         /\ StayOf(b) = "held" <=> hold[b].state = "HELD"
         /\ StayOf(b) = "sold" <=> hold[b].state = "CONFIRMED"
         /\ StayOf(b) = "gone" <=> hold[b].state = "CANCELLED"
<1>1. hold[b].state \in HoldState
  BY DEF Inv, Kept, Rows
<1> QED BY <1>1 DEF StayOf

(* The stays a step leaves in the same state are the same in PaidStay. *)
LEMMA SameStay ==
  ASSUME Inv, Inv', NEW b \in Bookings, hold'[b].state = hold[b].state
  PROVE  StayOf(b)' = StayOf(b)
BY DEF StayOf

LEMMA SameMoney ==
  ASSUME NEW a \in Attempts, attempt'[a].status = attempt[a].status
  PROVE  MoneyOf(a)' = MoneyOf(a)
BY DEF MoneyOf

(* A step on holds alone that moves none, or lets some go, or sells one. *)
LEMMA HoldStepIsAStay ==
  ASSUME Inv, Inv', UNCHANGED <<attempt, lines>>,
         \/ \A b \in Bookings : hold'[b].state = hold[b].state
         \/ \E b \in Bookings, gone \in SUBSET Bookings :
              /\ hold[b].state = Unborn /\ hold'[b].state = "HELD"
              /\ \A x \in gone : hold[x].state = "HELD" /\ hold'[x].state = "CANCELLED"
              /\ \A x \in Bookings \ (gone \cup {b}) : hold'[x].state = hold[x].state
         \/ \E b \in Bookings :
              /\ hold[b].state = "HELD" /\ hold'[b].state = "CONFIRMED"
              /\ \A x \in Bookings \ {b} : hold'[x].state = hold[x].state
         \/ \E gone \in SUBSET Bookings :
              /\ gone # {}
              /\ \A x \in gone : Cancellable(x) /\ hold'[x].state = "CANCELLED"
              /\ \A x \in Bookings \ gone : hold'[x].state = hold[x].state
  PROVE  [Promised!Next]_(Promised!vars)
<1> DEFINE S == [b \in Bookings |-> StayOf(b)]
           M == [a \in Attempts |-> MoneyOf(a)]
           F == [a \in Attempts |-> attempt[a].booking]
<1>1. M' = M /\ F' = F /\ lines' = lines
  BY SameMoney
<1>2. \A b \in Bookings : /\ hold'[b].state = hold[b].state => S'[b] = S[b]
                          /\ hold[b].state = Unborn <=> S[b] = "none"
                          /\ hold[b].state = "HELD" <=> S[b] = "held"
                          /\ Cancellable(b) => S[b] \in {"held", "sold"}
                          /\ hold'[b].state = "HELD" => S'[b] = "held"
                          /\ hold'[b].state = "CONFIRMED" => S'[b] = "sold"
                          /\ hold'[b].state = "CANCELLED" => S'[b] = "gone"
  <2> TAKE b \in Bookings
  <2>1. hold'[b].state = hold[b].state => StayOf(b)' = StayOf(b)
    BY SameStay
  <2>2. /\ hold'[b].state = "HELD" => StayOf(b)' = "held"
        /\ hold'[b].state = "CONFIRMED" => StayOf(b)' = "sold"
        /\ hold'[b].state = "CANCELLED" => StayOf(b)' = "gone"
    BY DEF StayOf
  <2> QED BY <2>1, <2>2, StayOfStates DEF Cancellable
<1> HIDE DEF S, M, F
<1>3. S = [b \in Bookings |-> S[b]] /\ S' = [b \in Bookings |-> S'[b]]
  BY DEF S
<1>4. CASE \A b \in Bookings : hold'[b].state = hold[b].state
  <2>1. S' = S
    BY <1>2, <1>3, <1>4
  <2> QED BY <1>1, <2>1 DEF Promised!vars, S, M, F
<1>5. ASSUME NEW b \in Bookings, NEW gone \in SUBSET Bookings,
             hold[b].state = Unborn, hold'[b].state = "HELD",
             \A x \in gone : hold[x].state = "HELD" /\ hold'[x].state = "CANCELLED",
             \A x \in Bookings \ (gone \cup {b}) : hold'[x].state = hold[x].state
      PROVE  Promised!Hold(b)
  <2>1. S[b] = "none" /\ S'[b] = "held" /\ gone \in SUBSET {x \in Bookings : S[x] = "held"}
    BY <1>2, <1>5
  <2>2. S' = [x \in Bookings |-> IF x = b THEN "held" ELSE IF x \in gone THEN "gone" ELSE S[x]]
    BY <1>2, <1>3, <1>5, <2>1
  <2> QED BY <1>1, <2>1, <2>2 DEF Promised!Hold, S, M, F
<1>6. ASSUME NEW b \in Bookings, hold[b].state = "HELD", hold'[b].state = "CONFIRMED",
             \A x \in Bookings \ {b} : hold'[x].state = hold[x].state
      PROVE  Promised!Sell(b)
  <2>1. S[b] = "held" /\ S' = [S EXCEPT ![b] = "sold"]
    BY <1>2, <1>3, <1>6
  <2> QED BY <1>1, <2>1 DEF Promised!Sell, S, M, F
<1>7. ASSUME NEW gone \in SUBSET Bookings, gone # {},
             \A x \in gone : Cancellable(x) /\ hold'[x].state = "CANCELLED",
             \A x \in Bookings \ gone : hold'[x].state = hold[x].state
      PROVE  Promised!LetGo(gone)
  <2>1. \A x \in gone : S[x] \in {"held", "sold"}
    BY <1>2, <1>7
  <2>2. S' = [x \in Bookings |-> IF x \in gone THEN "gone" ELSE S[x]]
    BY <1>2, <1>3, <1>7
  <2> QED BY <1>1, <1>7, <2>1, <2>2 DEF Promised!LetGo, S, M, F
<1>8. CASE \E b \in Bookings, gone \in SUBSET Bookings :
             /\ hold[b].state = Unborn /\ hold'[b].state = "HELD"
             /\ \A x \in gone : hold[x].state = "HELD" /\ hold'[x].state = "CANCELLED"
             /\ \A x \in Bookings \ (gone \cup {b}) : hold'[x].state = hold[x].state
  <2>1. PICK b \in Bookings : Promised!Hold(b)
    BY <1>5, <1>8
  <2> QED BY <2>1 DEF Promised!Next
<1>9. CASE \E b \in Bookings :
             /\ hold[b].state = "HELD" /\ hold'[b].state = "CONFIRMED"
             /\ \A x \in Bookings \ {b} : hold'[x].state = hold[x].state
  <2>1. PICK b \in Bookings : Promised!Sell(b)
    BY <1>6, <1>9
  <2> QED BY <2>1 DEF Promised!Next
<1>10. CASE \E gone \in SUBSET Bookings :
              /\ gone # {}
              /\ \A x \in gone : Cancellable(x) /\ hold'[x].state = "CANCELLED"
              /\ \A x \in Bookings \ gone : hold'[x].state = hold[x].state
  <2>1. PICK gone \in SUBSET Bookings : Promised!LetGo(gone)
    BY <1>7, <1>10
  <2> QED BY <2>1 DEF Promised!Next
<1> QED BY <1>4, <1>8, <1>9, <1>10

LEMMA HoldStepsRefine ==
  ASSUME Inv, Inv',
         \/ \E c \in Callers : AskForHold(c) \/ RefuseHold(c)
         \/ \E c \in Callers, b \in Bookings, r \in Bookings \cup {NoBooking} : OpenHold(c, b, r)
         \/ \E b \in Bookings, leaving \in BOOLEAN : MarkPresence(b, leaving)
         \/ Sweep
         \/ \E b \in Bookings : \/ Confirm(b) \/ Cancel(b) \/ AttachToAccount(b)
                                \/ BeginCancelOwn(b) \/ FinishCancelOwn(b)
         \/ \E a \in Attempts : SendPage(a)
         \/ Crash \/ Tick
         \/ UNCHANGED vars
  PROVE  [Promised!Next]_(Promised!vars)
<1> USE DEF payments
<1>0. Rows /\ \A b \in Bookings : hold[b] \in HoldRow /\ Cancellable(b) = (hold[b].state \in {"HELD", "CONFIRMED"})
  BY DEF Inv, Kept, Rows, HoldRow, Cancellable
<1>l. \A b \in Bookings, s \in HoldState : Left(b, s).state = s
  BY <1>0, LeftIsHoldRow
<1>s. ASSUME UNCHANGED <<hold, attempt, lines>> PROVE [Promised!Next]_(Promised!vars)
  BY <1>s, HoldStepIsAStay
<1>1. CASE \E c \in Callers : AskForHold(c) \/ RefuseHold(c)
  BY <1>1, <1>s DEF AskForHold, RefuseHold
<1>2. ASSUME NEW c \in Callers, NEW b \in Bookings, NEW r \in Bookings \cup {NoBooking},
             OpenHold(c, b, r)
      PROVE  [Promised!Next]_(Promised!vars)
  <2> DEFINE gone == {x \in Bookings : x = r /\ Replaceable(c, x)}
  <2>1. b \notin gone /\ hold[b].state = Unborn /\ hold'[b].state = "HELD" /\ UNCHANGED <<attempt, lines>>
    BY <1>2 DEF OpenHold, Replaceable, Held
  <2>2. \A x \in gone : hold[x].state = "HELD" /\ hold'[x].state = "CANCELLED"
    BY <1>2, <1>l, <2>1 DEF OpenHold, Replaceable, Held
  <2>3. \A x \in Bookings \ (gone \cup {b}) : hold'[x].state = hold[x].state
    BY <1>2 DEF OpenHold
  <2> HIDE DEF gone
  <2>4. gone \in SUBSET Bookings
    BY DEF gone
  <2> QED BY <2>1, <2>2, <2>3, <2>4, HoldStepIsAStay
<1>3. ASSUME NEW b \in Bookings, NEW leaving \in BOOLEAN, MarkPresence(b, leaving)
      PROVE  [Promised!Next]_(Promised!vars)
  <2>1. \A x \in Bookings : hold'[x].state = hold[x].state
    BY <1>0, <1>3 DEF MarkPresence, Rows
  <2> QED BY <1>3, <2>1, HoldStepIsAStay DEF MarkPresence
<1>4. CASE Sweep
  <2>1. /\ Expired \in SUBSET Bookings /\ Expired # {} /\ UNCHANGED <<attempt, lines>>
        /\ \A x \in Expired : Cancellable(x) /\ hold'[x].state = "CANCELLED"
        /\ \A x \in Bookings \ Expired : hold'[x].state = hold[x].state
    BY <1>4, <1>l DEF Sweep, Expired, Due, Held, Cancellable
  <2> QED BY <2>1, HoldStepIsAStay
<1>5. ASSUME NEW b \in Bookings, Cancellable(b),
             hold' = [hold EXCEPT ![b] = Left(b, "CANCELLED")], UNCHANGED <<attempt, lines>>
      PROVE  [Promised!Next]_(Promised!vars)
  <2>1. /\ {b} \in SUBSET Bookings /\ {b} # {}
        /\ \A x \in {b} : Cancellable(x) /\ hold'[x].state = "CANCELLED"
        /\ \A x \in Bookings \ {b} : hold'[x].state = hold[x].state
    BY <1>0, <1>5, <1>l DEF Rows
  <2> QED BY <1>5, <2>1, HoldStepIsAStay
<1>6. ASSUME NEW b \in Bookings,
             Confirm(b) \/ Cancel(b) \/ AttachToAccount(b) \/ BeginCancelOwn(b) \/ FinishCancelOwn(b)
      PROVE  [Promised!Next]_(Promised!vars)
  <2>1. CASE Confirm(b)
    <3>1. /\ hold[b].state = "HELD" /\ hold'[b].state = "CONFIRMED"
          /\ \A x \in Bookings \ {b} : hold'[x].state = hold[x].state
      BY <1>0, <1>l, <2>1 DEF Confirm, Held, Rows
    <3> QED BY <2>1, <3>1, HoldStepIsAStay DEF Confirm
  <2>2. CASE Cancel(b)
    BY <1>5, <2>2 DEF Cancel
  <2>3. CASE AttachToAccount(b)
    <3>1. \A x \in Bookings : hold'[x].state = hold[x].state
      BY <1>0, <2>3 DEF AttachToAccount, Rows
    <3> QED BY <2>3, <3>1, HoldStepIsAStay DEF AttachToAccount
  <2>4. CASE BeginCancelOwn(b)
    BY <1>s, <2>4 DEF BeginCancelOwn
  <2>5. CASE FinishCancelOwn(b)
    <3>1. UNCHANGED <<attempt, lines>>
      BY <2>5 DEF FinishCancelOwn
    <3>2. CASE Cancellable(b)
      <4>1. hold' = [hold EXCEPT ![b] = Left(b, "CANCELLED")]
        BY <2>5, <3>2 DEF FinishCancelOwn
      <4> QED BY <1>5, <3>1, <3>2, <4>1
    <3>3. CASE ~Cancellable(b)
      BY <1>s, <2>5, <3>1, <3>3 DEF FinishCancelOwn
    <3> QED BY <3>2, <3>3
  <2> QED BY <1>6, <2>1, <2>2, <2>3, <2>4, <2>5
<1>7. CASE (\E a \in Attempts : SendPage(a)) \/ Crash \/ UNCHANGED vars
  BY <1>7, <1>s DEF SendPage, Crash, vars
<1>8. CASE Tick
  <2>1. \A x \in Bookings : hold'[x].state = hold[x].state
    BY <1>0, <1>8 DEF Tick, HoldRow
  <2> QED BY <1>8, <2>1, HoldStepIsAStay DEF Tick
<1> QED BY <1>1, <1>2, <1>3, <1>4, <1>6, <1>7, <1>8

LEMMA PaymentStepsRefine ==
  ASSUME Inv, Inv', NEW a \in Attempts, NEW m \in Methods,
         \/ \E b \in Bookings : OpenAttempt(a, b, m)
         \/ RecordRefusal(a, m)
         \/ \E txn \in GatewayTxns : RecordSuccess(a, m, txn)
  PROVE  Promised!Next
<1> DEFINE S == [b \in Bookings |-> StayOf(b)]
           M == [x \in Attempts |-> MoneyOf(x)]
           F == [x \in Attempts |-> attempt[x].booking]
<1>0. /\ Rows /\ PaidIsPostedOnce /\ DOMAIN attempt = Attempts
      /\ attempt[a].status \in PaymentStatus
      /\ \A b \in Bookings : hold[b] \in HoldRow
  BY DEF Inv, Kept, Rows, HoldRow
<1>1. ASSUME \A b \in Bookings : hold'[b].state = hold[b].state
      PROVE  S' = S
  BY <1>1, SameStay
<1>2. ASSUME \A x \in Attempts \ {a} : attempt'[x] = attempt[x]
      PROVE  /\ \A x \in Attempts \ {a} : M'[x] = M[x] /\ F'[x] = F[x]
             /\ M' = [M EXCEPT ![a] = MoneyOf(a)']
             /\ F' = [F EXCEPT ![a] = attempt'[a].booking]
  BY <1>2, SameMoney
<1>3. ASSUME NEW b \in Bookings, OpenAttempt(a, b, m) PROVE Promised!Ask(a, b)
  <2>1. /\ attempt[a].status = "UNOPENED" /\ attempt'[a].status = "PENDING"
        /\ attempt'[a].booking = b /\ lines' = lines
        /\ \A x \in Attempts \ {a} : attempt'[x] = attempt[x]
    BY <1>0, <1>3 DEF OpenAttempt
  <2>2. \A x \in Bookings : hold'[x].state = hold[x].state
    BY <1>0, <1>3 DEF OpenAttempt, ExtendHold, Rows
  <2>3. M[a] = "none" /\ MoneyOf(a)' = "asked"
    BY <2>1 DEF MoneyOf
  <2>4. S[b] # "none"
    BY <1>3, StayOfStates DEF OpenAttempt
  <2> QED BY <1>1, <1>2, <2>1, <2>2, <2>3, <2>4 DEF Promised!Ask
<1>4. ASSUME RecordRefusal(a, m) PROVE Promised!Decline(a)
  <2>1. /\ attempt[a].status = "PENDING" /\ attempt'[a].status = "FAILED"
        /\ attempt'[a].booking = attempt[a].booking /\ UNCHANGED <<hold, lines>>
        /\ \A x \in Attempts \ {a} : attempt'[x] = attempt[x]
    BY <1>0, <1>4 DEF RecordRefusal, Claims, Rows
  <2>2. M[a] = "asked" /\ MoneyOf(a)' = "declined"
    BY <2>1 DEF MoneyOf
  <2>3. F' = F
    BY <1>2, <2>1
  <2> QED BY <1>1, <1>2, <2>1, <2>2, <2>3 DEF Promised!Decline
<1>5. ASSUME NEW txn \in GatewayTxns, RecordSuccess(a, m, txn) PROVE Promised!Pay(a)
  <2> DEFINE b == attempt[a].booking
  <2>1. /\ attempt[a].status = "PENDING" /\ attempt'[a].status = "SUCCESS"
        /\ attempt'[a].booking = b
        /\ \A x \in Attempts \ {a} : attempt'[x] = attempt[x]
    <3>1. attempt' = [attempt EXCEPT ![a].status = "SUCCESS", ![a].txn = txn]
      BY <1>5 DEF RecordSuccess
    <3>2. attempt[a].status = "PENDING"
      BY <1>5 DEF RecordSuccess, Claims
    <3>3. attempt[a] \in [status : PaymentStatus, booking : Bookings \cup {NoBooking},
                          method : Methods \cup {NoMethod}, txn : GatewayTxns \cup {NoTxn}]
      BY <1>0 DEF Rows
    <3>4. attempt'[a] = [attempt[a] EXCEPT !.status = "SUCCESS", !.txn = txn]
      BY <1>0, <3>1
    <3> QED BY <1>0, <3>1, <3>2, <3>3, <3>4
  <2>2. b \in Bookings
    BY <1>0, <2>1 DEF Rows
  <2>3. M[a] = "asked" /\ MoneyOf(a)' = "paid"
    BY <2>1 DEF MoneyOf
  <2>4. F' = F
    BY <1>2, <2>1
  <2>5. lines' = [lines EXCEPT ![a] = 1]
    <3>1. lines[a] = 0
      BY <1>0, <2>1 DEF PaidIsPostedOnce, Paid
    <3> QED BY <1>5, <3>1 DEF RecordSuccess
  <2>6. hold' = IF hold[b].state = "HELD" THEN [hold EXCEPT ![b] = Left(b, "CONFIRMED")] ELSE hold
    BY <1>5 DEF RecordSuccess, PaidHold, Held
  <2>7. S' = [x \in Bookings |-> IF x = b /\ S[x] = "held" THEN "sold" ELSE S[x]]
    <3>1. ASSUME NEW x \in Bookings
          PROVE  StayOf(x)' = IF x = b /\ StayOf(x) = "held" THEN "sold" ELSE StayOf(x)
      <4>1. CASE x = b /\ hold[b].state = "HELD"
        <5>1. hold'[x].state = "CONFIRMED"
          BY <1>0, <2>2, <2>6, <4>1, LeftIsHoldRow DEF Rows
        <5>2. StayOf(x)' = "sold"
          BY <5>1 DEF StayOf
        <5> QED BY <4>1, <5>2, StayOfStates
      <4>2. CASE ~(x = b /\ hold[b].state = "HELD")
        <5>1. hold'[x].state = hold[x].state
          BY <1>0, <2>2, <2>6, <4>2 DEF Rows
        <5> QED BY <4>2, <5>1, SameStay, StayOfStates
      <4> QED BY <4>1, <4>2
    <3> QED BY <3>1
  <2>8. \A x \in Bookings : x = F[a] <=> x = b
    OBVIOUS
  <2> QED BY <1>2, <2>1, <2>3, <2>4, <2>5, <2>7, <2>8 DEF Promised!Pay
<1> QED BY <1>3, <1>4, <1>5 DEF Promised!Next

(* Whatever the order of deliveries, picks, sweeps and crashes, money and room
   move as PaidStay says.                                                     *)
THEOREM FunnelImplementsPaidStay == Spec => MoneyAndRoomTogether
<1>1. Init => Promised!Init
  BY DEF Init, Promised!Init, StayOf, MoneyOf
<1>2. Inv /\ Inv' /\ [Next]_vars => [Promised!Next]_(Promised!vars)
  <2> SUFFICES ASSUME Inv, Inv', [Next]_vars PROVE [Promised!Next]_(Promised!vars)
    OBVIOUS
  <2>1. CASE \E a \in Attempts, m \in Methods :
               \/ \E b \in Bookings : OpenAttempt(a, b, m)
               \/ RecordRefusal(a, m)
               \/ \E txn \in GatewayTxns : RecordSuccess(a, m, txn)
    BY <2>1, PaymentStepsRefine
  <2>2. CASE ~\E a \in Attempts, m \in Methods :
               \/ \E b \in Bookings : OpenAttempt(a, b, m)
               \/ RecordRefusal(a, m)
               \/ \E txn \in GatewayTxns : RecordSuccess(a, m, txn)
    BY <2>2, HoldStepsRefine DEF Next
  <2> QED BY <2>1, <2>2
<1> QED BY <1>1, <1>2, InvHolds, PTL DEF Spec, MoneyAndRoomTogether, Promised!Spec

-----------------------------------------------------------------------------
(* The cap on a caller's holds. What is kept is a budget: the holds that count
   and the requests on their way to one are together below cap and requests.   *)
Unrevived(c) == Live(c) \ revived

Budget ==
  /\ admitted \in [Callers -> Nat]
  /\ \A c \in Callers : Cardinality(Unrevived(c)) + admitted[c] < HoldCap + MaxRequests

LEMMA BookingSets ==
  ASSUME NEW S \in SUBSET Bookings, NEW T \in SUBSET Bookings
  PROVE  /\ Cardinality(S) \in Nat
         /\ S \subseteq T => Cardinality(S) <= Cardinality(T)
         /\ \A b \in Bookings : S \subseteq T \cup {b} => Cardinality(S) <= Cardinality(T) + 1
<1>1. IsFiniteSet(S) /\ IsFiniteSet(T)
  BY FS_Subset
<1>2. Cardinality(S) \in Nat /\ Cardinality(T) \in Nat
  BY <1>1, FS_CardinalityType
<1>3. ASSUME S \subseteq T PROVE Cardinality(S) <= Cardinality(T)
  BY <1>1, <1>3, FS_Subset
<1>4. ASSUME NEW b \in Bookings, S \subseteq T \cup {b} PROVE Cardinality(S) <= Cardinality(T) + 1
  <2>1. /\ IsFiniteSet(T \cup {b})
        /\ Cardinality(T \cup {b}) = IF b \in T THEN Cardinality(T) ELSE Cardinality(T) + 1
    BY <1>1, FS_AddElement
  <2>2. Cardinality(S) <= Cardinality(T \cup {b})
    BY <1>4, <2>1, FS_Subset
  <2> QED BY <1>2, <2>1, <2>2
<1> QED BY <1>2, <1>3, <1>4

(* A hold that counts after the step counted before it, for the same caller. *)
NoneAdded ==
  \A b \in Bookings :
    hold'[b].state = "HELD" /\ hold'[b].ttl > 0 /\ b \notin revived' =>
      /\ hold[b].state = "HELD" /\ hold[b].ttl > 0 /\ b \notin revived
      /\ hold[b].caller = hold'[b].caller

LEMMA NoneAddedKeeps ==
  ASSUME Budget, NoneAdded,
         admitted' \in [Callers -> Nat], \A c \in Callers : admitted'[c] <= admitted[c]
  PROVE  Budget'
<1> SUFFICES ASSUME NEW c \in Callers
             PROVE  Cardinality(Unrevived(c)') + admitted'[c] < HoldCap + MaxRequests
  BY DEF Budget
<1>1. Unrevived(c) \in SUBSET Bookings /\ Unrevived(c)' \in SUBSET Bookings
  BY DEF Unrevived, Live
<1>2. Unrevived(c)' \subseteq Unrevived(c)
  BY DEF Unrevived, Live, Held, NoneAdded
<1>3. /\ Cardinality(Unrevived(c)) \in Nat /\ Cardinality(Unrevived(c)') \in Nat
      /\ Cardinality(Unrevived(c)') <= Cardinality(Unrevived(c))
  BY <1>1, <1>2, BookingSets
<1> QED BY <1>3, CapsAssumption DEF Budget

LEMMA BudgetNext == Inv /\ Budget /\ [Next]_vars => Budget'
<1> SUFFICES ASSUME Inv, Budget, [Next]_vars PROVE Budget'
  OBVIOUS
<1> USE DEF payments
<1>0. Rows /\ \A b \in Bookings : hold[b] \in HoldRow
  BY DEF Inv, Kept, Rows, HoldRow
<1>l. \A b \in Bookings, s \in HoldState : Left(b, s).state = s
  BY <1>0, LeftIsHoldRow
<1>a. admitted \in [Callers -> Nat] /\ \A c \in Callers : admitted[c] <= admitted[c]
  BY DEF Budget
<1>s. ASSUME UNCHANGED <<hold, revived, admitted>> PROVE Budget'
  BY <1>a, <1>s, NoneAddedKeeps DEF NoneAdded
<1>h. ASSUME UNCHANGED <<revived, admitted>>,
             \A b \in Bookings : hold'[b] = hold[b] \/ hold'[b].state # "HELD"
      PROVE  Budget'
  BY <1>a, <1>h, NoneAddedKeeps DEF NoneAdded
<1>1. ASSUME NEW c \in Callers, AskForHold(c) PROVE Budget'
  <2>1. Unrevived(c) \in SUBSET Bookings /\ Live(c) \in SUBSET Bookings /\ Unrevived(c) \subseteq Live(c)
    BY DEF Unrevived, Live
  <2>2. Cardinality(Unrevived(c)) \in Nat /\ Cardinality(Unrevived(c)) < HoldCap
    BY <1>1, <2>1, BookingSets, CapsAssumption DEF AskForHold, FewEnough
  <2>3. \A d \in Callers : Unrevived(d)' = Unrevived(d)
    BY <1>1 DEF AskForHold, Unrevived, Live, Held
  <2>4. admitted[c] \in Nat /\ admitted[c] < MaxRequests /\ admitted' = [admitted EXCEPT ![c] = @ + 1]
    BY <1>1 DEF AskForHold, Budget
  <2> QED BY <2>2, <2>3, <2>4, CapsAssumption DEF Budget
<1>2. ASSUME NEW c \in Callers, RefuseHold(c) PROVE Budget'
  <2>1. admitted' \in [Callers -> Nat] /\ \A d \in Callers : admitted'[d] <= admitted[d]
    BY <1>2 DEF RefuseHold, Budget
  <2> QED BY <1>2, <2>1, NoneAddedKeeps DEF RefuseHold, NoneAdded
<1>3. ASSUME NEW c \in Callers, NEW b \in Bookings, NEW r \in Bookings \cup {NoBooking},
             OpenHold(c, b, r)
      PROVE  Budget'
  <2>1. \A x \in Bookings \ {b} : hold'[x] = hold[x] \/ hold'[x].state = "CANCELLED"
    BY <1>3, <1>l DEF OpenHold
  <2>2. hold'[b].caller = c /\ revived' = revived
    BY <1>3 DEF OpenHold
  <2>3. admitted[c] \in Nat /\ admitted[c] > 0 /\ admitted' = [admitted EXCEPT ![c] = @ - 1]
    BY <1>3 DEF OpenHold, Budget
  <2> SUFFICES ASSUME NEW d \in Callers
               PROVE  Cardinality(Unrevived(d)') + admitted'[d] < HoldCap + MaxRequests
    BY <2>3 DEF Budget
  <2>4. Unrevived(d) \in SUBSET Bookings /\ Unrevived(d)' \in SUBSET Bookings
    BY DEF Unrevived, Live
  <2>5. Unrevived(d)' \subseteq Unrevived(d) \cup {b}
    BY <2>1, <2>2 DEF Unrevived, Live, Held
  <2>6. d # c => Unrevived(d)' \subseteq Unrevived(d)
    BY <2>1, <2>2 DEF Unrevived, Live, Held
  <2>7. /\ Cardinality(Unrevived(d)) \in Nat /\ Cardinality(Unrevived(d)') \in Nat
        /\ Cardinality(Unrevived(d)') <= Cardinality(Unrevived(d)) + 1
        /\ d # c => Cardinality(Unrevived(d)') <= Cardinality(Unrevived(d))
    BY <2>4, <2>5, <2>6, BookingSets
  <2>8. admitted[d] \in Nat /\ Cardinality(Unrevived(d)) + admitted[d] < HoldCap + MaxRequests
    BY DEF Budget
  <2>9. admitted'[d] = IF d = c THEN admitted[d] - 1 ELSE admitted[d]
    BY <2>3 DEF Budget
  <2> QED BY <2>3, <2>7, <2>8, <2>9, CapsAssumption
<1>4. ASSUME NEW b \in Bookings, NEW leaving \in BOOLEAN, MarkPresence(b, leaving) PROVE Budget'
  <2>1. \A x \in Bookings : /\ hold'[x].state = hold[x].state /\ hold'[x].ttl = hold[x].ttl
                            /\ hold'[x].caller = hold[x].caller
    BY <1>0, <1>4 DEF MarkPresence, HoldRow, Rows
  <2> QED BY <1>4, <1>a, <2>1, NoneAddedKeeps DEF MarkPresence, NoneAdded
<1>5. CASE Sweep
  BY <1>5, <1>h, <1>l DEF Sweep
<1>6. ASSUME NEW b \in Bookings, Confirm(b) \/ Cancel(b) PROVE Budget'
  BY <1>0, <1>6, <1>h, <1>l DEF Confirm, Cancel, Rows
<1>7. ASSUME NEW b \in Bookings, AttachToAccount(b) PROVE Budget'
  <2>1. \A x \in Bookings : /\ hold'[x].state = hold[x].state /\ hold'[x].ttl = hold[x].ttl
                            /\ hold'[x].caller = hold[x].caller
    BY <1>0, <1>7 DEF AttachToAccount, HoldRow, Rows
  <2> QED BY <1>7, <1>a, <2>1, NoneAddedKeeps DEF AttachToAccount, NoneAdded
<1>8. ASSUME NEW b \in Bookings, BeginCancelOwn(b) \/ FinishCancelOwn(b) PROVE Budget'
  BY <1>0, <1>8, <1>h, <1>l DEF BeginCancelOwn, FinishCancelOwn, Rows
<1>9. ASSUME NEW a \in Attempts, NEW b \in Bookings, NEW m \in Methods, OpenAttempt(a, b, m)
      PROVE  Budget'
  <2>1. hold' = IF hold[b].state = "HELD"
                THEN [hold EXCEPT ![b].ttl = Longer(@, Window)] ELSE hold
    BY <1>9 DEF OpenAttempt, ExtendHold, Held
  <2>2. \A x \in Bookings \ {b} : hold'[x] = hold[x]
    BY <1>0, <2>1 DEF Rows
  <2>3. hold'[b].state = hold[b].state /\ hold'[b].caller = hold[b].caller
    BY <1>0, <2>1 DEF Rows, HoldRow
  <2>4. /\ revived' = IF hold[b].state = "HELD" /\ hold[b].ttl = 0 THEN revived \cup {b} ELSE revived
        /\ admitted' = admitted
    BY <1>9 DEF OpenAttempt, Held
  <2>5. hold[b].ttl \in Nat
    BY <1>0 DEF HoldRow
  <2>6. NoneAdded
    BY <2>2, <2>3, <2>4, <2>5 DEF NoneAdded
  <2> QED BY <1>a, <2>4, <2>6, NoneAddedKeeps
<1>10. ASSUME NEW a \in Attempts, NEW m \in Methods, NEW txn \in GatewayTxns,
              RecordSuccess(a, m, txn)
       PROVE  Budget'
  BY <1>0, <1>10, <1>h, <1>l DEF RecordSuccess, PaidHold, Held, Rows
<1>11. ASSUME NEW a \in Attempts, NEW m \in Methods, RecordRefusal(a, m) PROVE Budget'
  BY <1>11, <1>s DEF RecordRefusal
<1>12. ASSUME NEW a \in Attempts, SendPage(a) PROVE Budget'
  BY <1>12, <1>s DEF SendPage
<1>13. CASE Crash
  <2>1. admitted' \in [Callers -> Nat] /\ \A c \in Callers : admitted'[c] <= admitted[c]
    BY <1>13, <1>a DEF Crash
  <2> QED BY <1>13, <2>1, NoneAddedKeeps DEF Crash, NoneAdded
<1>14. CASE Tick
  <2>1. \A x \in Bookings : /\ hold'[x].state = hold[x].state /\ hold'[x].ttl = Less(hold[x].ttl)
                            /\ hold'[x].caller = hold[x].caller
    BY <1>0, <1>14 DEF Tick, HoldRow
  <2>2. \A x \in Bookings : hold[x].ttl \in Nat /\ (hold'[x].ttl > 0 => hold[x].ttl > 0)
    BY <1>0, <2>1 DEF HoldRow, Less
  <2> QED BY <1>14, <1>a, <2>1, <2>2, NoneAddedKeeps DEF Tick, NoneAdded
<1>15. CASE UNCHANGED vars
  BY <1>15, <1>s DEF vars
<1> QED BY <1>1, <1>2, <1>3, <1>4, <1>5, <1>6, <1>7, <1>8, <1>9, <1>10, <1>11, <1>12, <1>13,
            <1>14, <1>15 DEF Next

(* The cap holds for any number of callers, holds and concurrent requests, but
   for the holds that an attempt brought back.                                *)
THEOREM CallersStayNearTheCap == Spec => []HoldsWithinCap
<1>1. Init => Budget
  <2> SUFFICES ASSUME Init PROVE Budget
    OBVIOUS
  <2>1. \A c \in Callers : Unrevived(c) = {} /\ admitted[c] = 0
    BY DEF Init, Unrevived, Live, Held
  <2>2. \A c \in Callers : Cardinality(Unrevived(c)) = 0
    BY <2>1, FS_EmptySet
  <2>3. admitted \in [Callers -> Nat] /\ HoldCap + MaxRequests > 0
    BY CapsAssumption DEF Init
  <2> QED BY <2>1, <2>2, <2>3 DEF Budget
<1>2. Budget => HoldsWithinCap
  <2> SUFFICES ASSUME Budget, NEW c \in Callers
               PROVE  Cardinality(Unrevived(c)) < HoldCap + MaxRequests
    BY DEF HoldsWithinCap, Unrevived
  <2>1. Cardinality(Unrevived(c)) \in Nat /\ admitted[c] \in Nat
    BY BookingSets DEF Budget, Unrevived, Live
  <2> QED BY <2>1, CapsAssumption DEF Budget
<1> QED BY <1>1, <1>2, BudgetNext, InvHolds, PTL DEF Spec

-----------------------------------------------------------------------------
(* The page. Money that has not been taken landed on nothing yet, so the one
   step that takes it decides once where it landed and whether to page.       *)

Untaken ==
  /\ landed \in [Attempts -> HoldState]
  /\ \A a \in Attempts : ~Paid(a) => landed[a] # "CANCELLED"

Alerted(a) == a \in afterCommit \cup paged \cup dropped

LEMMA AlertsKept ==
  ASSUME CancelledMoneyIsPaged, Untaken, landed' = landed,
         \A a \in Attempts : (Alerted(a)' <=> Alerted(a)) /\ (Paid(a) => Paid(a)')
  PROVE  CancelledMoneyIsPaged' /\ Untaken'
BY DEF CancelledMoneyIsPaged, Untaken, Alerted

LEMMA RecordSuccessAlerts ==
  ASSUME Inv, CancelledMoneyIsPaged, Untaken, NEW a \in Attempts, NEW m \in Methods,
         NEW txn \in GatewayTxns, RecordSuccess(a, m, txn)
  PROVE  CancelledMoneyIsPaged' /\ Untaken'
<1>0. /\ Rows /\ landed \in [Attempts -> HoldState]
      /\ attempt \in [Attempts -> [status : PaymentStatus, booking : Bookings \cup {NoBooking},
                                   method : Methods \cup {NoMethod}, txn : GatewayTxns \cup {NoTxn}]]
  BY DEF Inv, Kept, Rows, Untaken
<1> DEFINE cancelled == hold[attempt[a].booking].state = "CANCELLED"
<1>1. ~Paid(a) /\ landed[a] # "CANCELLED" /\ ~Alerted(a)
  BY DEF RecordSuccess, Claims, Paid, Untaken, CancelledMoneyIsPaged, Alerted
<1>2. Paid(a)' /\ \A x \in Attempts \ {a} : Paid(x)' = Paid(x)
  BY <1>0 DEF RecordSuccess, Paid
<1>3. landed'[a] = hold[attempt[a].booking].state /\ \A x \in Attempts \ {a} : landed'[x] = landed[x]
  BY <1>0 DEF RecordSuccess
<1>4. landed' \in [Attempts -> HoldState]
  <2>1. attempt[a].booking \in Bookings
    BY <1>0 DEF Rows, RecordSuccess, Claims
  <2>2. hold[attempt[a].booking].state \in HoldState
    BY <1>0, <2>1 DEF Rows
  <2> QED BY <1>0, <2>2 DEF RecordSuccess
<1>5. Alerted(a)' <=> cancelled
  BY <1>1 DEF RecordSuccess, FoundBy, Alerted
<1>6. \A x \in Attempts \ {a} : Alerted(x)' <=> Alerted(x)
  BY DEF RecordSuccess, Alerted
<1> QED BY <1>1, <1>2, <1>3, <1>4, <1>5, <1>6 DEF CancelledMoneyIsPaged, Untaken, Alerted

LEMMA AlertsNext ==
  ASSUME Inv, CancelledMoneyIsPaged, Untaken, [Next]_vars
  PROVE  CancelledMoneyIsPaged' /\ Untaken'
<1>0. attempt \in [Attempts -> [status : PaymentStatus, booking : Bookings \cup {NoBooking},
                                method : Methods \cup {NoMethod}, txn : GatewayTxns \cup {NoTxn}]]
  BY DEF Inv, Kept, Rows
<1>1. ASSUME UNCHANGED <<attempt, afterCommit, paged, landed, dropped>>
      PROVE  CancelledMoneyIsPaged' /\ Untaken'
  BY <1>1, AlertsKept DEF Alerted, Paid
<1>2. ASSUME NEW a \in Attempts, NEW b \in Bookings, NEW m \in Methods, OpenAttempt(a, b, m)
      PROVE  CancelledMoneyIsPaged' /\ Untaken'
  <2>1. \A x \in Attempts : Paid(x) => Paid(x)'
    BY <1>0, <1>2 DEF OpenAttempt, Paid
  <2> QED BY <1>2, <2>1, AlertsKept DEF OpenAttempt, Alerted
<1>3. ASSUME NEW a \in Attempts, NEW m \in Methods, RecordRefusal(a, m)
      PROVE  CancelledMoneyIsPaged' /\ Untaken'
  <2>1. \A x \in Attempts : Paid(x) => Paid(x)'
    BY <1>0, <1>3 DEF RecordRefusal, Claims, Paid
  <2> QED BY <1>3, <2>1, AlertsKept DEF RecordRefusal, Alerted
<1>4. ASSUME (\E a \in Attempts : SendPage(a)) \/ Crash
      PROVE  CancelledMoneyIsPaged' /\ Untaken'
  BY <1>4, AlertsKept DEF SendPage, Crash, Alerted, Paid
<1>5. CASE \/ \E c \in Callers : AskForHold(c) \/ RefuseHold(c)
           \/ \E c \in Callers, b \in Bookings, r \in Bookings \cup {NoBooking} : OpenHold(c, b, r)
           \/ \E b \in Bookings, leaving \in BOOLEAN : MarkPresence(b, leaving)
           \/ Sweep
           \/ \E b \in Bookings : \/ Confirm(b) \/ Cancel(b) \/ AttachToAccount(b)
                                  \/ BeginCancelOwn(b) \/ FinishCancelOwn(b)
           \/ Tick \/ UNCHANGED vars
  BY <1>1, <1>5 DEF AskForHold, RefuseHold, OpenHold, MarkPresence, Sweep, Confirm, Cancel,
                    AttachToAccount, BeginCancelOwn, FinishCancelOwn, Tick, vars, payments
<1> QED BY <1>2, <1>3, <1>4, <1>5, RecordSuccessAlerts DEF Next

(* ops-alert is paged about money that found its stay cancelled, and only about
   it, but for the page that went with a crashed process.                     *)
THEOREM CancelledMoneyAlerts == Spec => []CancelledMoneyIsPaged
<1>1. Init => CancelledMoneyIsPaged /\ Untaken
  BY DEF Init, CancelledMoneyIsPaged, Untaken, Unborn
<1>2. Inv /\ CancelledMoneyIsPaged /\ Untaken /\ [Next]_vars => CancelledMoneyIsPaged' /\ Untaken'
  BY AlertsNext
<1> QED BY <1>1, <1>2, InvHolds, PTL DEF Spec

-----------------------------------------------------------------------------
(* What makes every hold end. *)

Unopened == {a \in Attempts : attempt[a].status = "UNOPENED"}

\* A stay is held at most once. While it is, what is left of its deadline grows
\* only by an attempt nobody had opened before, and then to no more than the
\* window; every tick takes from it; and once nothing is left of it the sweep has
\* work, and its run takes the stay whatever attempts are open on it.
HoldsRunDown ==
  [][ /\ Unopened' \subseteq Unopened
      /\ \A b \in Bookings :
           /\ Held(b)' => Held(b) \/ hold[b].state = Unborn
           /\ Held(b) /\ Held(b)' /\ hold'[b].ttl > hold[b].ttl =>
                Unopened' # Unopened /\ hold'[b].ttl <= Window
           /\ Held(b) /\ Tick => hold[b].ttl = 0 \/ hold'[b].ttl < hold[b].ttl
           /\ Held(b) /\ hold[b].ttl = 0 => b \in Expired
           /\ Sweep => \A x \in Expired : ~Held(x)' ]_vars

LEMMA TickLessens ==
  ASSUME Rows, Tick, NEW b \in Bookings
  PROVE  hold'[b].state = hold[b].state /\ hold'[b].ttl = Less(hold[b].ttl)
<1>1. hold[b] \in HoldRow
  BY DEF Rows, HoldRow
<1>2. hold'[b] = [hold[b] EXCEPT !.ttl = Less(@), !.grace = Less(@)]
  BY DEF Tick
<1>3. ASSUME NEW h \in HoldRow
      PROVE  LET h2 == [h EXCEPT !.ttl = Less(@), !.grace = Less(@)]
             IN  h2.state = h.state /\ h2.ttl = Less(h.ttl)
  BY DEF HoldRow
<1> QED BY <1>1, <1>2, <1>3

LEMMA RunningDown ==
  ASSUME Inv, [Next]_vars
  PROVE  /\ Unopened' \subseteq Unopened
         /\ \A b \in Bookings :
              /\ Held(b)' => Held(b) \/ hold[b].state = Unborn
              /\ Held(b) /\ Held(b)' /\ hold'[b].ttl > hold[b].ttl =>
                   Unopened' # Unopened /\ hold'[b].ttl <= Window
<1> DEFINE Goal == /\ Unopened' \subseteq Unopened
                   /\ \A b \in Bookings :
                        /\ Held(b)' => Held(b) \/ hold[b].state = Unborn
                        /\ Held(b) /\ Held(b)' /\ hold'[b].ttl > hold[b].ttl =>
                             Unopened' # Unopened /\ hold'[b].ttl <= Window
<1> SUFFICES Goal
  OBVIOUS
<1>0. Rows /\ \A b \in Bookings : hold[b].ttl \in Nat
  BY DEF Inv, Kept, Rows
<1>1. ASSUME NEW a \in Attempts, NEW b \in Bookings, NEW m \in Methods, OpenAttempt(a, b, m)
      PROVE  Goal
  <2>1. /\ attempt[a].status = "UNOPENED" /\ attempt'[a].status = "PENDING"
        /\ \A x \in Attempts : x # a => attempt'[x] = attempt[x]
    BY <1>0, <1>1 DEF OpenAttempt, Rows
  <2>2. Unopened' \subseteq Unopened /\ a \in Unopened /\ a \notin Unopened'
    BY <2>1 DEF Unopened
  <2>3. ASSUME NEW x \in Bookings
        PROVE  /\ hold'[x].state = hold[x].state
               /\ hold'[x].ttl = hold[x].ttl \/ hold'[x].ttl = Longer(hold[x].ttl, Window)
    BY <1>0, <1>1 DEF OpenAttempt, ExtendHold, Rows
  <2>4. ASSUME NEW x \in Bookings, hold'[x].ttl > hold[x].ttl
        PROVE  hold'[x].ttl <= Window
    BY <1>0, <2>3, <2>4 DEF Longer
  <2> QED BY <2>2, <2>3, <2>4 DEF Held
<1>2. ASSUME NEW a \in Attempts, NEW m \in Methods, NEW txn \in GatewayTxns,
             RecordSuccess(a, m, txn)
      PROVE  Goal
  <2>1. Unopened' = Unopened
    BY <1>0, <1>2 DEF RecordSuccess, Claims, Rows, Unopened
  <2>2. hold' = PaidHold(attempt[a].booking) /\ attempt[a].booking \in Bookings
    BY <1>0, <1>2 DEF RecordSuccess, Claims, Rows
  <2>3. \A x \in Bookings : Held(x)' => hold'[x] = hold[x]
    BY <2>2, PaidHoldIsHoldsOnly DEF Held
  <2> QED BY <1>0, <2>1, <2>3 DEF Held
<1>3. ASSUME NEW a \in Attempts, NEW m \in Methods, RecordRefusal(a, m)
      PROVE  Goal
  <2>1. Unopened' = Unopened /\ hold' = hold
    BY <1>0, <1>3 DEF RecordRefusal, Claims, Rows, Unopened
  <2> QED BY <1>0, <2>1 DEF Held
<1>4. ASSUME Tick PROVE Goal
  <2>1. Unopened' = Unopened
    BY <1>4 DEF Tick, Unopened
  <2>2. \A x \in Bookings : hold'[x].state = hold[x].state /\ hold'[x].ttl = Less(hold[x].ttl)
    BY <1>0, <1>4, TickLessens
  <2>3. \A n \in Nat : ~(Less(n) > n)
    BY DEF Less
  <2> QED BY <1>0, <2>1, <2>2, <2>3 DEF Held
<1>5. ASSUME HoldsOnly PROVE Goal
  <2>1. Unopened' = Unopened
    BY <1>5 DEF HoldsOnly, Unopened
  <2>2. \A n \in Nat : ~(n > n)
    OBVIOUS
  <2> QED BY <1>0, <1>5, <2>1, <2>2 DEF HoldsOnly, Held
<1> QED BY <1>1, <1>2, <1>3, <1>4, <1>5, HoldStepsAreHoldsOnly DEF Next

LEMMA TicksTake ==
  ASSUME Inv, Tick, NEW b \in Bookings
  PROVE  hold[b].ttl = 0 \/ hold'[b].ttl < hold[b].ttl
<1>1. hold[b].ttl \in Nat /\ hold'[b].ttl = Less(hold[b].ttl)
  BY TickLessens DEF Inv, Kept, Rows
<1>2. \A n \in Nat : n = 0 \/ Less(n) < n
  BY DEF Less
<1> QED BY <1>1, <1>2

LEMMA SweepTakes ==
  ASSUME Inv, Sweep, NEW x \in Expired
  PROVE  ~Held(x)'
<1>1. x \in Bookings
  BY DEF Expired
<1>a. hold'[x] = Left(x, "CANCELLED")
  BY <1>1 DEF Sweep
<1>2. hold'[x].state = "CANCELLED"
  BY <1>1, <1>a, LeftIsHoldRow DEF Inv, Kept
<1> QED BY <1>2 DEF Held

(* hold-expiry-sweep.ts and extendHoldForPayment: no order of guests, gateways,
   crashes and sweeps lets a hold live on nothing but its own open tab. Its
   deadline, and the attempts still to be opened, only ever run down while it is
   held; the clock and the sweep being fair, EveryHoldEnds follows for any
   finite number of attempts.                                                 *)
THEOREM HoldsRunDownAlways == Spec => HoldsRunDown
<1>1. ASSUME Inv, [Next]_vars
      PROVE  /\ Unopened' \subseteq Unopened
             /\ \A b \in Bookings :
                  /\ Held(b)' => Held(b) \/ hold[b].state = Unborn
                  /\ Held(b) /\ Held(b)' /\ hold'[b].ttl > hold[b].ttl =>
                       Unopened' # Unopened /\ hold'[b].ttl <= Window
                  /\ Held(b) /\ Tick => hold[b].ttl = 0 \/ hold'[b].ttl < hold[b].ttl
                  /\ Held(b) /\ hold[b].ttl = 0 => b \in Expired
                  /\ Sweep => \A x \in Expired : ~Held(x)'
  <2>1. \A b \in Bookings : Held(b) /\ hold[b].ttl = 0 => b \in Expired
    BY DEF Expired, Due
  <2> QED BY <1>1, <2>1, RunningDown, TicksTake, SweepTakes
<1> QED BY <1>1, InvHolds, PTL DEF Spec, HoldsRunDown
=============================================================================
