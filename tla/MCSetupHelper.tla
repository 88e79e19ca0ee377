--------------------------- MODULE MCSetupHelper ---------------------------
(* TLC instances of SetupHelper. *)
EXTENDS SetupHelper, TLC

CONSTANTS v1, v2, none
=============================================================================
