------------------------------ MODULE MCFolio ------------------------------
(* One stay for TLC, arriving on the first day: two adults and a child of nine,
   breakfast, a plan below the calendar and a promotion.                      *)
EXTENDS Folio, MCTariff

OneStay == 1 .. 1
FirstDay == [s \in Stays |-> 1]
AfterOneNight == [s \in Stays |-> 2]
Weekend == [d \in 1 .. LastDay |-> IF d = 2 THEN 113 ELSE 100]
Family == [s \in Stays |-> [percent |-> -10, breakfast |-> 7, extra |-> 21,
                            party |-> [adults |-> 2, ages |-> <<9>>]]]
Silver ==
  <<[type |-> "FIXED_AMOUNT", value |-> -3, from |-> 1, to |-> 9, minNights |-> 1],
    [type |-> "PERCENTAGE", value |-> -5, from |-> 1, to |-> 9, minNights |-> 1]>>
FiveAndEight == [service |-> 5, vat |-> 8, vatOnService |-> TRUE]

=============================================================================
