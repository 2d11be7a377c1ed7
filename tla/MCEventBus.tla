------------------------------ MODULE MCEventBus ------------------------------
(***************************************************************************)
(* Small instances of EventBus for TLC: s1 wants every event, s2 one.      *)
(***************************************************************************)
EXTENDS EventBus, TLC

CONSTANTS s1, s2, m1, e1, e2

OneSubscriber == s1 :> m1 @@ s2 :> m1
AllAndOne == s1 :> Events @@ s2 :> Events \ {e2}
===============================================================================
