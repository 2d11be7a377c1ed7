--------------------------- MODULE MCRequestQueue ---------------------------
(***************************************************************************)
(* Small instances of RequestQueue for TLC.                                *)
(***************************************************************************)
EXTENDS RequestQueue, TLC

CONSTANTS x1, x2, x3

\* Two requests of one priority, so that FIFO order shows, and one urgent.
MixedPriority == x1 :> 1 @@ x2 :> 1 @@ x3 :> 3
=============================================================================
