------------------------------- MODULE MCModules -------------------------------
(***************************************************************************)
(* Small instances of ModuleRegistry, LifecycleManager and DependencyGraph *)
(* for TLC.  The three share no state: a behaviour exercises one of them   *)
(* and leaves the others as they began, so that their states add up        *)
(* instead of multiplying.  In the registry p1 and p2 declare one id and   *)
(* p3 cannot be parsed.  The graph can have a diamond, a cycle of three    *)
(* and a module that depends on itself.                                    *)
(***************************************************************************)
EXTENDS ModuleRegistry, LifecycleManager, DependencyGraph, TLC

CONSTANTS i1, i2, p1, p2, p3

SameId == p1 :> i1 @@ p2 :> i1 @@ p3 :> i2

Diamond == {<<"a", "b">>, <<"a", "c">>, <<"b", "d">>, <<"c", "d">>,
            <<"d", "a">>, <<"c", "b">>, <<"d", "d">>}

ThreeOrders == {<<"a", "b", "c", "d">>, <<"d", "c", "b", "a">>, <<"c", "a", "d", "b">>}

Wants(d) == [on |-> d, required |-> TRUE, version |-> "fits"]
MayWant(d) == [Wants(d) EXCEPT !.required = FALSE]
WantsOther(d, how) == [Wants(d) EXCEPT !.version = how]

SomeDeclarations ==
    "a" :> {<<Wants("b"), MayWant("c")>>, <<[MayWant("c") EXCEPT !.version = "differs"], Wants("b")>>}
    @@ "b" :> {<<>>, <<Wants("d")>>, <<MayWant("d")>>, <<MayWant("c"), Wants("d")>>}
    @@ "c" :> {<<WantsOther("d", "differs")>>, <<WantsOther("d", "garbled")>>,
               <<MayWant("d"), Wants("b")>>, <<Wants("a")>>}
    @@ "d" :> {<<>>, <<MayWant("d")>>}

\* The graph and the resolver's lookup are changed by turns, as they have nothing to do with
\* each other.
GraphOrLookup == found = {} \/ edges = <<>>

MCInit == RegistryInit /\ LifecycleInit /\ DependencyInit

MCNext ==
    \/ /\ LifecycleInit /\ DependencyInit
       /\ RegistryNext /\ UNCHANGED <<lifecycleVars, dependencyVars>>
    \/ /\ RegistryInit /\ DependencyInit
       /\ LifecycleNext /\ UNCHANGED <<registryVars, dependencyVars>>
    \/ /\ RegistryInit /\ LifecycleInit
       /\ DependencyNext /\ GraphOrLookup' /\ UNCHANGED <<registryVars, lifecycleVars>>

MCSpec ==
    /\ MCInit /\ [][MCNext]_<<registryVars, lifecycleVars, dependencyVars>>
    /\ RegistryFairness /\ LifecycleFairness

\* Every call of the registry and of the lifecycle manager returns, but for the two deadlocks.
CallsReturn == ReturnsUnlessCrossed /\ ReturnsUnlessReentered
===============================================================================
