--------------------------- MODULE MCEventPoller ---------------------------
(* Instances of the event poller for TLC. *)
EXTENDS EventPoller

CONSTANTS c1, c2

MCTwo == {c1, c2}

(* The first event is of a type normalizeEvent() drops. *)
MCRecognised == (1..MaxEvents) \ {1}
=============================================================================
