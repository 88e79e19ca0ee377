-------------------------- MODULE MCLauncherBridge --------------------------
(* TLC instances of LauncherBridge. *)
EXTENDS LauncherBridge, TLC

CONSTANTS a, b, c, launcher

Interchangeable == Permutations(Conns)
=============================================================================
