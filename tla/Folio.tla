------------------------------- MODULE Folio -------------------------------
(* The account of a stay: an append-only ledger of charges, payments, refunds
   and reversals, the desk's operations on it, the hourly room-charge sweep, and
   the two places where the stay's own life reads it (check-out and the policy
   charge). What the operations do to rooms and to inventory is in Stay, and how
   a gateway's money arrives is in Funnel.

   Every insert into folio_posting goes through the trigger that refuses a
   closed account and takes a share lock on the folio, and close and the policy
   charge take the exclusive one, so each is one atomic step. Check-out is two:
   it reads the balance on another connection and holds no lock on the account. *)
EXTENDS Tariff

CONSTANTS
  Stays,
  Arrival, Departure,  \* the dates each stay is booked for
  NonRefundable,       \* the stays on the NONREF plan
  LastDay,             \* bound on the business date
  Calendar,            \* the price of each night when it was sold
  Plan,                \* per stay: its plan's percentage and breakfast, the extra
                       \* person's rate, the party
  Candidates,          \* promotions its guest is owed one of, by code
  Rules,               \* the rates of service charge and tax
  Figures,             \* what the desk may charge, take or hand back
  MaxLines             \* bound: no act of the desk on an account this long

ASSUME DatesAssumption ==
  /\ LastDay \in Nat \ {0}
  /\ Arrival \in [Stays -> 1 .. LastDay] /\ Departure \in [Stays -> 1 .. LastDay]
  /\ \A s \in Stays : Arrival[s] < Departure[s]
ASSUME PlanAssumption ==
  /\ NonRefundable \subseteq Stays
  /\ Plan \in [Stays -> [percent : -100 .. 100, breakfast : Nat, extra : Nat \ {0},
                         party : PartyRows]]
  /\ Candidates \in Seq(CandidateRows)
ASSUME MoneyAssumption ==
  /\ Calendar \in [1 .. LastDay -> Nat \ {0}]
  /\ Figures \subseteq Nat \ {0}
  /\ Rules \in [service : 0 .. BasisPoints, vat : 0 .. BasisPoints, vatOnService : BOOLEAN]
ASSUME BoundAssumption == MaxLines \in Nat

NightsOf(s, to) == [n \in 1 .. (to - Arrival[s]) |-> Calendar[Arrival[s] + n - 1]]

(* What the booking froze: its plan, and the promotion of the stay as sold. *)
Quote ==
  [s \in Stays |->
     LET room == PlanAdjusted(Total(NightsOf(s, Departure[s])), Plan[s].percent)
         sold == [checkIn |-> Arrival[s], checkOut |-> Departure[s], room |-> room]
     IN  [percent |-> Plan[s].percent, breakfast |-> Plan[s].breakfast,
          extra |-> Plan[s].extra, party |-> Plan[s].party,
          promotion |-> BestPromotion(Candidates, sold)]]

(* What the stay has cost through a night, less what it cost through the last one. *)
Nightly ==
  [s \in Stays |-> [d \in Arrival[s] .. LastDay |-> NightPrice(Quote[s], NightsOf(s, d + 1))]]

States == {"CONFIRMED", "CHECKED_IN", "CHECKED_OUT", "CANCELLED", "NO_SHOW"}
Terms == {"IN_TIME", "LATE", "WAIVED"}
Types == {"ROOM_CHARGE", "SERVICE_ITEM", "SERVICE_CHARGE_FEE", "VAT", "PAYMENT",
          "REFUND", "POLICY_CHARGE", "REVERSAL"}

VARIABLES
  today,     \* the business date
  state,     \* the booking's state
  leaves,    \* the date it departs
  priced,    \* the date its night prices, once written, run up to
  terms,     \* what a cancellation came with: in time, late, or its penalty waived
  leaving,   \* stays whose check-out has read the balance and not yet committed
  account,   \* "NONE" until something is posted
  lines,     \* the ledger: a line is named by its place
  payments   \* the desk's payment rows

stays == <<today, state, leaves, priced, terms>>
ledger == <<account, lines, payments>>
vars == <<stays, leaving, ledger>>

(* of: the sale a tax line is levied on; reverses: the line a reversal undoes;
   swept: written by the sweep, on: for the night of this business date.      *)
Line == [type : Types, amount : Int, of : Nat, reverses : Nat, on : Nat, swept : BOOLEAN]

TypeOK ==
  /\ today \in 1 .. LastDay
  /\ state \in [Stays -> States]
  /\ leaves \in [Stays -> 1 .. LastDay] /\ priced \in [Stays -> 1 .. LastDay]
  /\ \A s \in Stays : Arrival[s] < leaves[s] /\ leaves[s] <= priced[s]
  /\ terms \in [Stays -> Terms] /\ leaving \subseteq Stays
  /\ account \in [Stays -> {"NONE", "OPEN", "CLOSED"}]
  /\ lines \in [Stays -> Seq(Line)]
  /\ \A s \in Stays : account[s] = "NONE" => lines[s] = <<>>
  /\ \A p \in payments : /\ p \in [stay : Stays, line : Nat, status : {"SUCCESS", "REFUNDED"}]
                         /\ p.line \in DOMAIN lines[p.stay]

Init ==
  /\ today = 1
  /\ state = [s \in Stays |-> "CONFIRMED"]
  /\ leaves = Departure /\ priced = Departure
  /\ terms = [s \in Stays |-> "LATE"] /\ leaving = {}
  /\ account = [s \in Stays |-> "NONE"]
  /\ lines = [s \in Stays |-> <<>>]
  /\ payments = {}

-----------------------------------------------------------------------------
(* Reading an account. *)

Sum(l) == Total([i \in DOMAIN l |-> l[i].amount])
Balance(s) == Sum(lines[s])

Posted(type, amount) ==
  [type |-> type, amount |-> amount, of |-> 0, reverses |-> 0, on |-> 0,
   swept |-> FALSE]

Reversed(s, i) == \E j \in DOMAIN lines[s] : lines[s][j].reverses = i
Standing(s, type) == {i \in DOMAIN lines[s] : lines[s][i].type = type /\ ~Reversed(s, i)}

(* A sale at a gross price, and what is levied on it. *)
Sale(s, charge, gross) ==
  LET split  == Decompose(gross, Rules)
      levied == [Posted("VAT", 0) EXCEPT !.of = Len(lines[s]) + 1]
  IN <<[charge EXCEPT !.amount = split.net],
       [levied EXCEPT !.type = "SERVICE_CHARGE_FEE", !.amount = split.service],
       [levied EXCEPT !.amount = split.vat]>>

(* Mutant of Accepts: the trigger on folio_posting is not there. *)
AcceptsAlways(s) == TRUE

(* Mutant of Accepts: nothing opens the account of a stay with none yet. *)
AcceptsOpenOnly(s) == account[s] = "OPEN"

Accepts(s) == account[s] # "CLOSED"

(* ensureFolio, then write: the whole insert, or the refusal of all of it. *)
Write(s, new) ==
  /\ Accepts(s)
  /\ Len(lines[s]) < MaxLines
  /\ account' = [account EXCEPT ![s] = IF @ = "NONE" THEN "OPEN" ELSE @]
  /\ lines' = [lines EXCEPT ![s] = @ \o new]
  /\ UNCHANGED <<stays, leaving>>

-----------------------------------------------------------------------------
(* The desk and the gateway. *)

PostCharge(s, gross) ==
  /\ \E type \in {"ROOM_CHARGE", "SERVICE_ITEM"} : Write(s, Sale(s, Posted(type, 0), gross))
  /\ UNCHANGED payments

PostPayment(s, a) ==
  /\ Write(s, <<Posted("PAYMENT", -a)>>)
  /\ payments' = payments \cup {[stay |-> s, line |-> Len(lines[s]) + 1, status |-> "SUCCESS"]}

(* The gateway's own row is in the funnel; this is its line. *)
PostGatewayPayment(s, a) ==
  /\ Write(s, <<Posted("PAYMENT", -a)>>)
  /\ UNCHANGED payments

PostOverrideRefund(s, a) ==
  /\ Write(s, <<Posted("REFUND", a)>>)
  /\ UNCHANGED payments

(* Mutant of Undone: the sale alone, and what is levied on it stays. *)
UndoneAlone(s, i) == {i}

Undone(s, i) == {i} \cup {j \in DOMAIN lines[s] : lines[s][j].of = i}

(* Mutant of Refunded: the ledger is corrected and the payment row is not. *)
RefundedNever(s, i) == payments

Refunded(s, i) ==
  {IF p.stay = s /\ p.line \in Undone(s, i) THEN [p EXCEPT !.status = "REFUNDED"] ELSE p :
     p \in payments}

Reversal(s, j) == [Posted("REVERSAL", -lines[s][j].amount) EXCEPT !.reverses = j]

(* The lines undone come back in no order that matters. *)
ReversePosting(s, i) ==
  LET undone == SetToSeq(Undone(s, i)) IN
  /\ \A j \in Undone(s, i) : ~Reversed(s, j)
  /\ Write(s, [k \in 1 .. Cardinality(Undone(s, i)) |-> Reversal(s, undone[k])])
  /\ payments' = Refunded(s, i)

PolicyEvent(s) ==
  CASE state[s] = "CANCELLED" /\ terms[s] = "IN_TIME" -> "CANCELLED_IN_TIME"
    [] state[s] = "CANCELLED" /\ terms[s] # "IN_TIME" -> "CANCELLED_LATE"
    [] state[s] = "NO_SHOW"    -> "NO_SHOW"
    [] state[s] = "CHECKED_IN" -> "EARLY_DEPARTURE"

(* The grid over the calendar prices of every night the stay was ever sold; a
   waived stay does not reach it.                                             *)
PolicyCharge(s) ==
  LET spent == Cardinality(Standing(s, "ROOM_CHARGE"))
      nights == NightsOf(s, priced[s])
  IN  [Posted("POLICY_CHARGE", 0) EXCEPT
         !.amount = IF terms[s] = "WAIVED" THEN 0
                    ELSE Penalty(PolicyEvent(s), s \in NonRefundable, nights, spent)]

(* Mutant of PolicyApplies: what has been charged before is not looked at. *)
PolicyAppliesAgain(s) ==
  state[s] \in {"CANCELLED", "NO_SHOW"} \/ (state[s] = "CHECKED_IN" /\ leaves[s] < priced[s])

PolicyApplies(s) ==
  /\ Standing(s, "POLICY_CHARGE") = {}
  /\ state[s] \in {"CANCELLED", "NO_SHOW"} \/ (state[s] = "CHECKED_IN" /\ leaves[s] < priced[s])

PostPolicyRefund(s) ==
  LET charge  == PolicyCharge(s)
      settled == Balance(s) + charge.amount
  IN  /\ PolicyApplies(s)
      /\ Write(s, IF settled < 0 THEN <<charge, Posted("REFUND", -settled)>> ELSE <<charge>>)
      /\ UNCHANGED payments

(* Any account may be agreed that comes to nothing, whatever its stay is at. *)
Close(s) ==
  /\ account[s] = "OPEN"
  /\ Balance(s) = 0
  /\ account' = [account EXCEPT ![s] = "CLOSED"]
  /\ UNCHANGED <<stays, leaving, lines, payments>>

-----------------------------------------------------------------------------
(* The room-charge sweep. *)

(* Mutant of ChargedTonight: a night whose charge was reversed is charged again. *)
ChargedTonightStanding(s) ==
  \E i \in Standing(s, "ROOM_CHARGE") : lines[s][i].on = today /\ lines[s][i].swept

ChargedTonight(s) ==
  \E i \in DOMAIN lines[s] :
    lines[s][i].type = "ROOM_CHARGE" /\ lines[s][i].on = today /\ lines[s][i].swept

Due ==
  {s \in Stays : /\ state[s] = "CHECKED_IN"
                 /\ Arrival[s] <= today /\ today < leaves[s] /\ ~ChargedTonight(s)}

NightCharge == [Posted("ROOM_CHARGE", 0) EXCEPT !.swept = TRUE, !.on = today]

Tonight(s) == Sale(s, NightCharge, Nightly[s][today])

(* One transaction: a closed account among them refuses its line, and the throw
   takes the others with it. FOR UPDATE waits for a check-out in hand.        *)
ChargeRooms ==
  /\ Due # {}
  /\ Due \cap leaving = {}
  /\ \A s \in Due : Accepts(s)
  /\ account' = [s \in Stays |-> IF s \in Due THEN "OPEN" ELSE account[s]]
  /\ lines' = [s \in Stays |-> IF s \in Due THEN lines[s] \o Tonight(s) ELSE lines[s]]
  /\ UNCHANGED <<stays, leaving, payments>>

-----------------------------------------------------------------------------
(* The stay itself. Each of these holds the booking's row lock. *)

Becomes(s, from, to) ==
  /\ state[s] = from
  /\ state' = [state EXCEPT ![s] = to]
  /\ UNCHANGED <<today, leaves, priced, leaving, ledger>>

Cancel(s) ==
  /\ Becomes(s, "CONFIRMED", "CANCELLED")
  /\ \E t \in Terms : terms' = [terms EXCEPT ![s] = t]

(* Checking in, and reinstating a no-show: inside the arrival window. *)
CheckIn(s) ==
  /\ Arrival[s] <= today /\ today <= leaves[s]
  /\ Becomes(s, "CONFIRMED", "CHECKED_IN") \/ Becomes(s, "NO_SHOW", "CHECKED_IN")
  /\ UNCHANGED terms

MarkNoShow(s) ==
  /\ Arrival[s] <= today
  /\ Becomes(s, "CONFIRMED", "NO_SHOW")
  /\ UNCHANGED terms

Priced(s, to) == IF to < priced[s] THEN priced[s] ELSE to

(* extendStay and shortenStay: the night prices of nights given back are kept. *)
Rebook(s, to) ==
  /\ s \notin leaving
  /\ \/ state[s] \in {"CONFIRMED", "CHECKED_IN"} /\ leaves[s] < to
     \/ /\ state[s] = "CHECKED_IN" /\ to < leaves[s]
        /\ today <= to /\ Arrival[s] < to
  /\ leaves' = [leaves EXCEPT ![s] = to]
  /\ priced' = [priced EXCEPT ![s] = Priced(s, to)]
  /\ UNCHANGED <<today, state, terms, leaving, ledger>>

ReadBalance(s) ==
  /\ state[s] = "CHECKED_IN" /\ s \notin leaving
  /\ Balance(s) = 0
  /\ leaving' = leaving \cup {s}
  /\ UNCHANGED <<stays, ledger>>

FinishCheckOut(s) ==
  /\ s \in leaving
  /\ state' = [state EXCEPT ![s] = "CHECKED_OUT"]
  /\ leaving' = leaving \ {s}
  /\ UNCHANGED <<today, leaves, priced, terms, ledger>>

Rollover ==
  /\ today < LastDay
  /\ today' = today + 1
  /\ UNCHANGED <<state, leaves, priced, terms, leaving, ledger>>

Desk(s) ==
  \/ \E a \in Figures : \/ PostCharge(s, a) \/ PostPayment(s, a)
                       \/ PostGatewayPayment(s, a) \/ PostOverrideRefund(s, a)
  \/ \E i \in DOMAIN lines[s] : ReversePosting(s, i)
  \/ PostPolicyRefund(s)
  \/ Close(s)

Life(s) ==
  \/ Cancel(s) \/ CheckIn(s) \/ MarkNoShow(s)
  \/ \E to \in 1 .. LastDay : Rebook(s, to)
  \/ ReadBalance(s) \/ FinishCheckOut(s)

Next == (\E s \in Stays : Desk(s) \/ Life(s)) \/ ChargeRooms \/ Rollover

(* The sweep runs every hour, and a handler runs on to its commit. *)
Fairness == WF_vars(ChargeRooms) /\ \A s \in Stays : WF_vars(FinishCheckOut(s))

Spec == Init /\ [][Next]_vars /\ Fairness

-----------------------------------------------------------------------------
(* close, the trigger: an account that was agreed at nothing stays at nothing,
   whoever writes next and however late.                                      *)
ClosedAccountsAgree == \A s \in Stays : account[s] = "CLOSED" => Balance(s) = 0

(* room-charge-sweep.ts: however often the sweep runs on one business date, and
   whatever was reversed in between, a night is charged by it once.           *)
NightChargedOnce ==
  \A s \in Stays : \A i, j \in DOMAIN lines[s] :
    /\ lines[s][i].swept /\ lines[s][j].swept
    /\ lines[s][i].type = "ROOM_CHARGE" /\ lines[s][j].type = "ROOM_CHARGE"
    /\ lines[s][i].on = lines[s][j].on
    => i = j

(* reversePosting: no tax stands on a sale that was taken back, also when a line
   of it had been corrected on its own before.                                *)
NoTaxOnAnUndoneSale ==
  \A s \in Stays : \A i \in DOMAIN lines[s] :
    lines[s][i].of # 0 /\ Reversed(s, lines[s][i].of) => Reversed(s, i)

(* postPayment, reversePosting: a payment row of the desk says REFUNDED exactly
   when a reversal names its line.                                            *)
DrawerFollowsItsLine ==
  \A p \in payments : (p.status = "REFUNDED") <=> Reversed(p.stay, p.line)

(* postPolicyRefund: two desks that apply the grid to one account leave one
   charge that was not taken back.                                            *)
OnePolicyChargeStands == \A s \in Stays : Cardinality(Standing(s, "POLICY_CHARGE")) <= 1

(* The sweep gets to every guest in the house for tonight, unless the account of
   one of those it owes a charge is closed.                                   *)
EveryNightIsCharged ==
  \A s \in Stays : s \in Due ~> (s \notin Due \/ \E t \in Due : account[t] = "CLOSED")

=============================================================================
