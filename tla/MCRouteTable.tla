----------------------------- MODULE MCRouteTable -----------------------------
(***************************************************************************)
(* Small instances of RouteTable for TLC: two modules; e1 and e2 compete   *)
(* for action a1 with one priority, the regex c1 and the prefix p2 match   *)
(* both actions, and the default d2 is disabled.                           *)
(***************************************************************************)
EXTENDS RouteTable, TLC, Functions

CONSTANTS a1, a2, m1, m2, e1, e2, c1, p2, d1, d2

AllModules == e1 :> m1 @@ e2 :> m2 @@ c1 :> m1 @@ p2 :> m2 @@ d1 :> m1 @@ d2 :> m2
AllKinds == e1 :> "exact" @@ e2 :> "exact" @@ c1 :> "custom"
            @@ p2 :> "prefix" @@ d1 :> "default" @@ d2 :> "default"
AllCovers == e1 :> {a1} @@ e2 :> {a1} @@ c1 :> {a1, a2} @@ p2 :> {a1, a2}
             @@ d1 :> {} @@ d2 :> {}
AllPriorities == e1 :> 10 @@ e2 :> 10 @@ c1 :> 10 @@ p2 :> 5 @@ d1 :> 0 @@ d2 :> 0

SomeModules == Restrict(AllModules, Routes)
SomeKinds == Restrict(AllKinds, Routes)
SomeCovers == Restrict(AllCovers, Routes)
SomePriorities == Restrict(AllPriorities, Routes)
===============================================================================
