-------------------------- MODULE MCReconciliation --------------------------
(* Reconciliation over a few days for TLC. *)
EXTENDS Reconciliation, TLC

=============================================================================
