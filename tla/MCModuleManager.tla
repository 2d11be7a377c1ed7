---------------------------- MODULE MCModuleManager ----------------------------
(***************************************************************************)
(* Small instances of ModuleManager for TLC: m2 depends on m1.             *)
(***************************************************************************)
EXTENDS ModuleManager, TLC

CONSTANTS m1, m2

TwoDependsOnOne == m1 :> {} @@ m2 :> {m1}

\* Two calls may deal with m1 at once, and with m2 only till then.
OnlyOneRaced == raced \subseteq {m1}

Interchangeable == Permutations(Tasks)
===============================================================================
