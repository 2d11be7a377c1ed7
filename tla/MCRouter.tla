------------------------------- MODULE MCRouter -------------------------------
(***************************************************************************)
(* Small instances of Router for TLC.                                      *)
(***************************************************************************)
EXTENDS Router, TLC

CONSTANTS r1, r2, m1

OneModule == r1 :> m1 @@ r2 :> m1
JustOne == r1 :> m1

\* Worker and controller names are interchangeable.
Interchangeable == Permutations(Workers) \cup Permutations(Controllers)
===============================================================================
