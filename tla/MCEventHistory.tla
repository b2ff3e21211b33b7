--------------------------- MODULE MCEventHistory ---------------------------
(* The HTTP server and one other context; a ring of two that wraps; a time *)
(* that is unknown first.                                                  *)
EXTENDS EventHistory

MCCallers == {"http", "timer"}
MCKinds   == {"OPEN", "CLOSE"}
MCTimes   == 0..1
=============================================================================
