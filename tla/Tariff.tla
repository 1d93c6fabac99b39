------------------------------- MODULE Tariff -------------------------------
(* What a stay costs, what its price decomposes into and what ending it costs:
   arithmetic on whole dong, without state. Prices are gross. A quote is what a
   booking freezes when it is sold: the plan's percentage, breakfast per head
   (zero on a plan without it), the rate of an extra person, the party and the
   promotion. *)
EXTENDS Integers, Sequences, FiniteSets, FiniteSetsExt, SequencesExt

CONSTANT BasisPoints  \* how many of them make 100%; a rate is a number of them

ASSUME BasisPointsAssumption == BasisPoints \in Nat \ {0}

IncludedOccupancy == 2
ChildFreeBelowAge == 6
ChildHalfRateBelowAge == 12

Total(amounts) == FoldLeft(LAMBDA acc, amount : acc + amount, 0, amounts)

(* Division of signed whole numbers, which drops the fraction. *)
Truncated(a, b) == IF a < 0 THEN -((-a) \div b) ELSE a \div b

-----------------------------------------------------------------------------
(* The room, under the plan and the promotion. *)

NoPromotion == [type |-> "NONE", value |-> 0]

(* The rows, as the schema checks them. *)
PromotionRows ==
  [type : {"PERCENTAGE"}, value : -99 .. -1]
    \cup [type : {"FIXED_AMOUNT"}, value : {v \in Int : v < 0}]

CandidateRows ==
  [type : {"PERCENTAGE"}, value : -99 .. -1, from : Nat, to : Nat, minNights : Nat]
    \cup [type : {"FIXED_AMOUNT"}, value : {v \in Int : v < 0},
          from : Nat, to : Nat, minNights : Nat]

PartyRows == [adults : Nat \ {0}, ages : Seq(Nat)]

QuoteRows ==
  [percent : -100 .. 100, breakfast : Nat, extra : Nat \ {0}, party : PartyRows,
   promotion : PromotionRows \cup {NoPromotion}]

PlanAdjusted(total, percent) == (total * (100 + percent)) \div 100

(* A promotion's value is negative on both scales. *)
Reduction(room, promotion) ==
  CASE promotion.type = "NONE" -> 0
    [] promotion.type = "PERCENTAGE" -> room - (room * (100 + promotion.value)) \div 100
    [] promotion.type = "FIXED_AMOUNT" ->
         IF -promotion.value < room THEN -promotion.value ELSE room

(* Applies to the whole stay, its departure left out. *)
Applies(promotion, stay) ==
  /\ promotion.from <= stay.checkIn /\ stay.checkOut - 1 <= promotion.to
  /\ promotion.minNights <= stay.checkOut - stay.checkIn

(* The candidates come by code, and the first of the deepest wins. *)
BestPromotion(candidates, stay) ==
  LET Deeper(best, next) ==
        IF Applies(next, stay) /\ Reduction(stay.room, next) > Reduction(stay.room, best)
        THEN [type |-> next.type, value |-> next.value] ELSE best
  IN  FoldLeft(Deeper, NoPromotion, candidates)

-----------------------------------------------------------------------------
(* The heads. A party is its adults and the ages of its children. *)

ChargeForAge(age, rate) ==
  CASE age < ChildFreeBelowAge -> 0
    [] ChildFreeBelowAge <= age /\ age < ChildHalfRateBelowAge -> rate \div 2
    [] OTHER -> rate

Heads(party) == party.adults + Len(party.ages)

(* The order SortSeq gives, written out: the provers do not see into SortSeq. *)
Ascending(charges) ==
  LET heads == DOMAIN charges
      order == CHOOSE p \in Bijection(heads, heads) :
                 \A i, j \in heads : i < j => charges[p[i]] <= charges[p[j]]
  IN  [i \in heads |-> charges[order[i]]]

(* The cheapest heads are the ones beyond what the rate includes. *)
ExtraPersons(party, rate) ==
  LET children == [i \in DOMAIN party.ages |-> ChargeForAge(party.ages[i], rate)]
      charges  == children \o [i \in 1 .. party.adults |-> rate]
      beyond   == Heads(party) - IncludedOccupancy
  IN  Total(SubSeq(Ascending(charges), 1, beyond))

BreakfastHeads(party) ==
  party.adults + Cardinality({i \in DOMAIN party.ages : party.ages[i] >= ChildFreeBelowAge})

-----------------------------------------------------------------------------
(* A stay: nights are its calendar prices in order. *)

StayTotal(quote, nights) ==
  LET room == PlanAdjusted(Total(nights), quote.percent)
  IN  room - Reduction(room, quote.promotion)
      + Len(nights) * (ExtraPersons(quote.party, quote.extra)
                       + quote.breakfast * BreakfastHeads(quote.party))

(* The last of the nights: the stay through it less the stay through the one before. *)
NightPrice(quote, nights) == StayTotal(quote, nights) - StayTotal(quote, Front(nights))

-----------------------------------------------------------------------------
(* What a gross price posts as: the net takes what the divisions leave over. *)

NetBase(gross, rules) ==
  LET B == BasisPoints IN
  IF rules.vatOnService
  THEN Truncated(gross * B * B, (B + rules.service) * (B + rules.vat))
  ELSE Truncated(gross * B, B + rules.service + rules.vat)

Decompose(gross, rules) ==
  LET base    == NetBase(gross, rules)
      service == Truncated(base * rules.service, BasisPoints)
      taxed   == IF rules.vatOnService THEN base + service ELSE base
      vat     == Truncated(taxed * rules.vat, BasisPoints)
  IN  [net |-> gross - service - vat, service |-> service, vat |-> vat]

-----------------------------------------------------------------------------
(* The grid: what ending a stay of these nights costs, spent of them being on
   the account.                                                               *)
Penalty(event, nonRefundable, nights, spent) ==
  LET remaining == Total(SubSeq(nights, spent + 1, Len(nights)))
  IN  CASE event = "EARLY_DEPARTURE" -> IF nonRefundable THEN remaining ELSE remaining \div 2
        [] event # "EARLY_DEPARTURE" /\ nonRefundable -> Total(nights)
        [] event = "CANCELLED_IN_TIME" /\ ~nonRefundable -> 0
        [] event \in {"CANCELLED_LATE", "NO_SHOW"} /\ ~nonRefundable -> nights[1]

=============================================================================
