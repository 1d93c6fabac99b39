--------------------------- MODULE BookingStates ---------------------------
(* The transition table of a booking: state-machine.ts, the authority every
   operation of booking.service.ts asks before it writes a state.            *)

BookingState ==
  {"HELD", "CONFIRMED", "CHECKED_IN", "CHECKED_OUT", "CANCELLED", "NO_SHOW"}

(* A row that has not been inserted: `from` is null in the code. *)
Unborn == "NONE"

Creatable == {"HELD", "CONFIRMED"}

LegalTransitions ==
  [HELD        |-> {"CONFIRMED", "CANCELLED"},
   CONFIRMED   |-> {"CHECKED_IN", "CANCELLED", "NO_SHOW"},
   CHECKED_IN  |-> {"CHECKED_OUT"},
   CHECKED_OUT |-> {},
   CANCELLED   |-> {},
   NO_SHOW     |-> {"CHECKED_IN"}]

(* isLegalTransition. Same state to same state is legal too, and every caller
   returns there before it writes anything: an operation repeated on a booking
   already in its target state is a stuttering step, so only the transitions
   that write are listed.                                                     *)
Legal(from, to) ==
  IF from = Unborn THEN to \in Creatable ELSE to \in LegalTransitions[from]

=============================================================================
