------------------------------- MODULE MCStay -------------------------------
(* Stay on small hotels for TLC. *)
EXTENDS Stay, TLC

CONSTANTS b1, b2, r1, r2, r3, single, double,
          MaxWithdrawn     \* rooms closed or out of order at once

OneType  == r1 :> single @@ r2 :> single
TwoTypes == r1 :> single @@ r2 :> double
Mixed    == r1 :> single @@ r2 :> single @@ r3 :> double
OneRoom  == r1 :> single

Symmetry == Permutations(Bookings)

Bounds ==
  Cardinality(RowsOf(assignment, Closure))
    + Cardinality({r \in Rooms : condition[r] = "OUT_OF_ORDER"}) <= MaxWithdrawn

=============================================================================
