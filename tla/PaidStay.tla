------------------------------ MODULE PaidStay ------------------------------
(* What the funnel promises about a stay and the money for it, with no clocks,
   callbacks, gateways or pages: money is taken once per attempt, it reaches the
   account in the step that takes it, and in that same step it turns a held room
   into a sold one.                                                            *)
EXTENDS Naturals

CONSTANTS Bookings, Attempts, NoBooking

VARIABLES
  stay,    \* none, held, sold or gone
  money,   \* none, asked, declined or paid
  for,     \* the stay each attempt collects for
  lines    \* payment lines on the account for each attempt

vars == <<stay, money, for, lines>>

Init ==
  /\ stay = [b \in Bookings |-> "none"]
  /\ money = [a \in Attempts |-> "none"]
  /\ for = [a \in Attempts |-> NoBooking]
  /\ lines = [a \in Attempts |-> 0]

(* A room is held; the room the guest moved off may be let go with it. *)
Hold(b) ==
  /\ stay[b] = "none"
  /\ \E gone \in SUBSET {x \in Bookings : stay[x] = "held"} :
       stay' = [x \in Bookings |-> IF x = b THEN "held"
                                   ELSE IF x \in gone THEN "gone" ELSE stay[x]]
  /\ UNCHANGED <<money, for, lines>>

Sell(b) ==
  /\ stay[b] = "held"
  /\ stay' = [stay EXCEPT ![b] = "sold"]
  /\ UNCHANGED <<money, for, lines>>

LetGo(gone) ==
  /\ gone # {}
  /\ \A b \in gone : stay[b] \in {"held", "sold"}
  /\ stay' = [b \in Bookings |-> IF b \in gone THEN "gone" ELSE stay[b]]
  /\ UNCHANGED <<money, for, lines>>

Ask(a, b) ==
  /\ money[a] = "none" /\ stay[b] # "none"
  /\ money' = [money EXCEPT ![a] = "asked"]
  /\ for' = [for EXCEPT ![a] = b]
  /\ UNCHANGED <<stay, lines>>

Decline(a) ==
  /\ money[a] = "asked"
  /\ money' = [money EXCEPT ![a] = "declined"]
  /\ UNCHANGED <<stay, for, lines>>

Pay(a) ==
  /\ money[a] = "asked"
  /\ money' = [money EXCEPT ![a] = "paid"]
  /\ lines' = [lines EXCEPT ![a] = 1]
  /\ stay' = [b \in Bookings |-> IF b = for[a] /\ stay[b] = "held" THEN "sold" ELSE stay[b]]
  /\ UNCHANGED for

Next ==
  \/ \E b \in Bookings : Hold(b) \/ Sell(b)
  \/ \E gone \in SUBSET Bookings : LetGo(gone)
  \/ \E a \in Attempts : Decline(a) \/ Pay(a) \/ \E b \in Bookings : Ask(a, b)

Spec == Init /\ [][Next]_vars

=============================================================================
