------------------------------ MODULE MCTariff ------------------------------
(* The arithmetic of Tariff against what it is for, over bounded figures. The
   runs of the account evaluate these assumptions before they start.          *)
EXTENDS Tariff

LOCAL Parties == [adults : 1 .. 2, ages : UNION {[1 .. n -> {5, 6, 12}] : n \in 0 .. 2}]
LOCAL Promotions ==
  {NoPromotion} \cup [type : {"PERCENTAGE"}, value : {-99, -7}]
                \cup [type : {"FIXED_AMOUNT"}, value : {-150, -1}]
LOCAL Stays3 == UNION {[1 .. n -> {99, 100, 103}] : n \in 1 .. 3}
LOCAL Couple == [adults |-> 2, ages |-> <<9>>]
LOCAL Quotes ==
  [percent : {-10, 0, 7}, breakfast : {0, 11}, extra : {21}, party : {Couple},
   promotion : Promotions]
LOCAL Rates == {0, BasisPoints \div 20, (BasisPoints * 2) \div 25, BasisPoints}
LOCAL Rules3 == [service : Rates, vat : Rates, vatOnService : BOOLEAN]
LOCAL Signed == -110 .. 110
LOCAL SumOver(f, S) == FoldFunctionOnSet(LAMBDA x, acc : x + acc, 0, f, S)
LOCAL Windows ==
  [type : {"PERCENTAGE", "FIXED_AMOUNT"}, value : {-9, -5}, from : {1, 2}, to : {2, 3},
   minNights : {1, 2}]

(* room-charge-sweep.ts: the nights sum to the quote, to the dong, wherever the
   division left the odd one.                                                 *)
ASSUME NightsSumToTheQuote ==
  \A q \in Quotes, nights \in Stays3 :
    Total([n \in DOMAIN nights |-> NightPrice(q, SubSeq(nights, 1, n))]) = StayTotal(q, nights)

(* stay-quote.ts: no promotion raises a price, and none takes off more than the room. *)
ASSUME ReductionsStayWithinTheRoom ==
  \A room \in 0 .. 200, promotion \in Promotions :
    Reduction(room, promotion) >= 0 /\ Reduction(room, promotion) <= room

(* occupancy-pricing.ts: whichever heads are taken as the extra ones, these are
   no dearer.                                                                 *)
ASSUME ExtraPersonsAreTheCheapest ==
  \A party \in Parties :
    LET head  == [i \in 1 .. Heads(party) |->
                    IF i <= party.adults THEN 21
                    ELSE ChargeForAge(party.ages[i - party.adults], 21)]
        extra == {S \in SUBSET DOMAIN head :
                    Cardinality(S) = Heads(party) - IncludedOccupancy}
        costs == {SumOver(head, S) : S \in extra}
    IN  IF extra = {} THEN ExtraPersons(party, 21) = 0
        ELSE ExtraPersons(party, 21) \in costs /\ \A c \in costs : ExtraPersons(party, 21) <= c

(* tier-promotion.ts: the winner applies, and no candidate that does takes off more. *)
ASSUME TheDeepestPromotionWins ==
  \A a, b \in Windows, room \in {30, 100} :
    LET stay  == [checkIn |-> 1, checkOut |-> 3, room |-> room]
        won   == BestPromotion(<<a, b>>, stay)
        taken == {Reduction(room, p) : p \in {p \in {a, b} : Applies(p, stay)}} \cup {0}
    IN  Reduction(room, won) = Max(taken)

(* tax-decomposition.ts: three lines sum to the gross, a reversal decomposes to
   the opposite lines, no rate yields more than it says, and what the net takes
   of the remainder is six at the worst.                                      *)
ASSUME LinesSumToTheGross ==
  \A gross \in Signed, rules \in Rules3 :
    LET d == Decompose(gross, rules)
        o == Decompose(-gross, rules)
    IN  /\ d.net + d.service + d.vat = gross
        /\ o = [net |-> -d.net, service |-> -d.service, vat |-> -d.vat]
        /\ gross >= 0 => /\ 0 <= d.net - NetBase(gross, rules)
                         /\ d.net - NetBase(gross, rules) <= 6

(* cancellation-calculator.ts: the nights on the account and the remaining ones
   at the whole rate are the stay, also past its end.                         *)
ASSUME SpentAndRemainingAreTheStay ==
  \A nights \in Stays3, spent \in 0 .. 4 :
    Penalty("EARLY_DEPARTURE", TRUE, nights, spent) + Total(SubSeq(nights, 1, Min({spent, Len(nights)})))
      = Penalty("NO_SHOW", TRUE, nights, 0)

=============================================================================
