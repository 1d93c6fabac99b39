----------------------------- MODULE MCRowLocks -----------------------------
(* RowLocks on three connections and two bookings for TLC. *)
EXTENDS RowLocks, TLC

CONSTANTS x1, x2, x3, single, double

(* No definition orders the connections. *)
ConnectionSymmetry == Permutations({x1, x2, x3})

(* Booking 1 has the later nights: id order is not stay-date order. *)
Overlapping == << [type |-> single, from |-> 2, to |-> 4],
                  [type |-> single, from |-> 1, to |-> 3] >>

AllKinds     == {"create", "amend", "replace", "retype", "sweep", "close"}

=============================================================================
