------------------------------ MODULE MCFunnel ------------------------------
(* Funnel for TLC: one hold and two attempts, or three holds and one attempt. *)
EXTENDS Funnel, TLC

HoldSymmetry == Permutations(Bookings)

=============================================================================
