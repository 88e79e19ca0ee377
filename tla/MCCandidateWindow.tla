------------------------- MODULE MCCandidateWindow -------------------------
(* A wide and a narrow monitor of one DPI, and one of another; a page that  *)
(* must be cut to fit the narrow one, and a page shorter than the cursor.   *)
EXTENDS CandidateWindow, TLC

CONSTANTS wide, narrow, dense

MCScale == (wide :> 1) @@ (narrow :> 1) @@ (dense :> 2)
MCWorkArea == (wide :> 1280) @@ (narrow :> 320) @@ (dense :> 640)
MCPages == <<<<200, 168>>, <<30>>>>
=============================================================================
