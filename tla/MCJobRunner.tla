---------------------------- MODULE MCJobRunner ----------------------------
(* The scheduler's run and a manager's, over three rows. *)
EXTENDS JobRunner

CONSTANTS Scheduled, Manual, Row1, Row2, Row3

BothDoors == {Scheduled, Manual}
ThreeRows == {Row1, Row2, Row3}

=============================================================================
