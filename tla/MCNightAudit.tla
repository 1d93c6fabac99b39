---------------------------- MODULE MCNightAudit ----------------------------
(* NightAudit over a few days for TLC. *)
EXTENDS NightAudit, TLC

CONSTANTS s1, s2

Arrivals   == s1 :> 0 @@ s2 :> 1
Departures == s1 :> 1 @@ s2 :> 2

=============================================================================
