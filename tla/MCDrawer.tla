------------------------------ MODULE MCDrawer ------------------------------
(* One operator's successive drawers over few rows. *)
EXTENDS Drawer, TLC

CONSTANTS Desk1, Desk2, Alice, Day, Night, Cash1, Cash2, Book1, Book2,
          Book3, Item1

TwoDesks == {Desk1, Desk2}
OneOperator == {Alice}
TwoShifts == {Day, Night}
OnePayment == {Cash1}
ThreeEntries == {Book1, Book2, Book3}
OneItem == {Item1}

Interchangeable ==
  Permutations(TwoDesks) \cup Permutations(TwoShifts)
    \cup Permutations(ThreeEntries)

=============================================================================
