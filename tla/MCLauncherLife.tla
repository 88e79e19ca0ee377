--------------------------- MODULE MCLauncherLife ---------------------------
(* TLC instances of LauncherLife. *)
EXTENDS LauncherLife, TLC

CONSTANTS a
=============================================================================
