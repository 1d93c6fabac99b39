------------------------------ MODULE MCLinks ------------------------------
(* Links on one stay, two addresses and two calls for TLC. No definition orders *)
(* addresses or calls, nor chooses one.                                         *)
EXTENDS Links, TLC

GuestSymmetry == Permutations(Addresses) \cup Permutations(Calls)

=============================================================================
