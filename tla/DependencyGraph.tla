---------------------------- MODULE DependencyGraph ----------------------------
(***************************************************************************)
(* The graph and the resolver of src/module/dependency.rs.  The graph is   *)
(* kept twice, forwards and backwards; its walks are the recursive         *)
(* functions of the code, over the keys of a HashMap in any order.  The    *)
(* resolver walks what the modules declare instead.                        *)
(*                                                                         *)
(* A recursive walk is a function of how deep it may still go.  What it    *)
(* has visited keeps it from going deeper than there are modules.          *)
(***************************************************************************)
EXTENDS Integers, Sequences, SequencesExt, FiniteSets

CONSTANTS GraphModules,
          MayDepend,     \* pairs that add_dependency may be called with
          KeyLists,      \* orders in which a HashMap may hand out its keys
          Declarations   \* for each module the lists of Dependencies that it may declare

\* What the version required is to the module that is found, or no requirement at all.
Versions == {"fits", "differs", "garbled"}
Dependencies == [on : GraphModules, required : BOOLEAN, version : Versions]

ASSUME DependencyGraphAssumption ==
    /\ IsFiniteSet(GraphModules)
    /\ MayDepend \subseteq GraphModules \X GraphModules
    /\ KeyLists \subseteq SetToSeqs(GraphModules)
    /\ Declarations \in [GraphModules -> SUBSET Seq(Dependencies)]

VARIABLES edges, reverseEdges,
          declares,      \* the metadata
          found          \* modules that the resolver's lookup finds

graphVars == <<edges, reverseEdges>>
lookupVars == <<declares, found>>
dependencyVars == <<edges, reverseEdges, declares, found>>

\* A loop over q: a step is a function of pairs, of what there is so far and the next element.
Along(step, a, q) == FoldLeft(LAMBDA b, d : step[<<b, d>>], a, q)

\* retain and filter.
Keeping(S) ==
    [x \in Seq(GraphModules) \X GraphModules |-> IF x[2] \in S THEN Append(x[1], x[2]) ELSE x[1]]
Only(s, S) == Along(Keeping(S), <<>>, s)

Without(s, m) == Only(s, GraphModules \ {m})
With(s, m) == IF Contains(s, m) THEN s ELSE Append(s, m)
Ensure(f, ms) == [m \in DOMAIN f \cup ms |-> IF m \in DOMAIN f THEN f[m] ELSE <<>>]

DependencyInit ==
    /\ edges = [m \in {} |-> <<>>] /\ reverseEdges = [m \in {} |-> <<>>]
    /\ declares = [m \in GraphModules |-> <<>>]
    /\ found = {}

AddModule(m) ==
    /\ edges' = Ensure(edges, {m})
    /\ reverseEdges' = Ensure(reverseEdges, {m})
    /\ UNCHANGED lookupVars

AddDependency(m, d) ==
    /\ edges' = [Ensure(edges, {m, d}) EXCEPT ![m] = With(@, d)]
    /\ reverseEdges' = [Ensure(reverseEdges, {m, d}) EXCEPT ![d] = With(@, m)]
    /\ UNCHANGED lookupVars

RemoveDependency(m, d) ==
    /\ edges' = [x \in DOMAIN edges |-> IF x = m THEN Without(edges[x], d) ELSE edges[x]]
    /\ reverseEdges' = [x \in DOMAIN reverseEdges |->
                           IF x = d THEN Without(reverseEdges[x], m) ELSE reverseEdges[x]]
    /\ UNCHANGED lookupVars

RemoveModule(m) ==
    /\ m \in DOMAIN edges
    /\ edges' = [x \in DOMAIN edges \ {m} |->
                    IF Contains(reverseEdges[m], x) THEN Without(edges[x], m) ELSE edges[x]]
    /\ reverseEdges' = [x \in DOMAIN reverseEdges \ {m} |->
                           IF Contains(edges[m], x) THEN Without(reverseEdges[x], m)
                           ELSE reverseEdges[x]]
    /\ UNCHANGED lookupVars

ClearGraph ==
    /\ edges' = [m \in {} |-> <<>>] /\ reverseEdges' = [m \in {} |-> <<>>]
    /\ UNCHANGED lookupVars

\* What the registry does to the lookup.
Find(m) ==
    /\ m \notin found
    /\ found' = found \cup {m}
    /\ \E ds \in Declarations[m] : declares' = [declares EXCEPT ![m] = ds]
    /\ UNCHANGED graphVars
Lose(m) ==
    /\ m \in found
    /\ found' = found \ {m} /\ declares' = [declares EXCEPT ![m] = <<>>]
    /\ UNCHANGED graphVars

DependencyNext ==
    \/ \E m \in GraphModules : AddModule(m) \/ RemoveModule(m)
    \/ \E x \in MayDepend : AddDependency(x[1], x[2]) \/ RemoveDependency(x[1], x[2])
    \/ ClearGraph
    \/ \E m \in GraphModules : Find(m) \/ Lose(m)

DependencySpec == DependencyInit /\ [][DependencyNext]_dependencyVars

--------------------------------------------------------------------------------
(* The walks of the graph.                                                 *)
Deps(m) == IF m \in DOMAIN edges THEN edges[m] ELSE <<>>
KeyOrders == {Only(keys, DOMAIN edges) : keys \in KeyLists}

Depth == Cardinality(GraphModules) + 1

\* collect_dependencies: what it has gathered and seen is a.
Collectors == [result : Seq(GraphModules), visited : SUBSET GraphModules]
Collect(below, m, a) ==
    IF m \in a.visited THEN a
    ELSE Along(below, [a EXCEPT !.visited = @ \cup {m}], Deps(m))

\* The body of its loop, where a dependency is noted after its own.
Noted(a, d) == [a EXCEPT !.result = With(@, d)]
Collecting[n \in Nat] ==
    [x \in Collectors \X GraphModules |->
        IF n = 0 THEN x[1] ELSE Noted(Collect(Collecting[n - 1], x[2], x[1]), x[2])]
AllDependencies(m) == Collect(Collecting[Depth], m, [result |-> <<>>, visited |-> {}]).result

\* find_cycle_util, and has_cycle_util, which asks only whether there is one.
\* A module that was visited and left has no cycle below it.
Walkers == [visited : SUBSET GraphModules, path : Seq(GraphModules), cycle : Seq(GraphModules)]
Closes(m, a) == Contains(a.path, m)
CyclePath(m, path) == Append(SubSeq(path, SelectInSeq(path, LAMBDA x : x = m), Len(path)), m)
Walked(below, m, a) ==
    IF a.cycle # <<>> \/ (m \in a.visited /\ ~Closes(m, a)) THEN a
    ELSE IF Closes(m, a) THEN [a EXCEPT !.cycle = CyclePath(m, a.path)]
    ELSE LET b == Along(below, [a EXCEPT !.visited = @ \cup {m}, !.path = Append(@, m)], Deps(m))
         IN IF b.cycle # <<>> THEN b ELSE [b EXCEPT !.path = a.path]
Walking[n \in Nat] ==
    [x \in Walkers \X GraphModules |-> IF n = 0 THEN x[1] ELSE Walked(Walking[n - 1], x[2], x[1])]
FindCycle(keys) == Along(Walking[Depth], [visited |-> {}, path |-> <<>>, cycle |-> <<>>], keys).cycle
HasCycle(keys) == FindCycle(keys) # <<>>

\* Mutant: a module counts those that depend on it.
WaitsForDependents(m) == Len(reverseEdges[m])

WaitsFor(m) == Len(edges[m])

\* Kahn's loop: the queue, how many dependencies each waits for, and what has been put out.
KahnStart(keys) ==
    [queue |-> Only(keys, {m \in DOMAIN edges : WaitsFor(m) = 0}),
     degree |-> [m \in DOMAIN edges |-> WaitsFor(m)], result |-> <<>>]
KahnRound(k) ==
    LET m == Head(k.queue)
        less == [x \in DOMAIN edges |->
                    IF Contains(reverseEdges[m], x) THEN k.degree[x] - 1 ELSE k.degree[x]]
    IN  [queue |-> Tail(k.queue) \o Only(reverseEdges[m], {x \in DOMAIN edges : less[x] = 0}),
         degree |-> less, result |-> Append(k.result, m)]

\* The number of rounds is one more than would do, as too long an order is none either.
KahnOrder(keys) ==
    LET kahn[n \in Nat] == IF n = 0 THEN KahnStart(keys)
                           ELSE IF kahn[n - 1].queue = <<>> THEN kahn[n - 1]
                           ELSE KahnRound(kahn[n - 1])
    IN  kahn[Cardinality(DOMAIN edges) + 1].result

\* topological_sort: the HashMap of degrees has an order of its own.
LoadOrder(keys, others) ==
    [order |-> KahnOrder(others),
     failed |-> HasCycle(keys) \/ Len(KahnOrder(others)) # Cardinality(DOMAIN edges)]
UnloadOrder(keys, others) == [LoadOrder(keys, others) EXCEPT !.order = Reverse(@)]

--------------------------------------------------------------------------------
(* The resolver.                                                           *)
\* Mutant: a requirement that cannot be read is met.
RefusesDiffering(d) == d.on \notin found \/ d.version = "differs"

Refuses(d) == d.on \notin found \/ d.version # "fits"

Skips(d) == ~d.required /\ d.on \notin found

\* resolve_recursive: what it has resolved and visited, what it is visiting, and whether
\* it has given up.
Resolvers == [resolved : Seq(GraphModules), visited : SUBSET GraphModules,
              visiting : SUBSET GraphModules, failed : BOOLEAN]
ResolveFrom(below, m, a) ==
    IF m \in a.visited THEN a
    ELSE IF m \in a.visiting \/ m \notin found THEN [a EXCEPT !.failed = TRUE]
    ELSE LET b == Along(below, [a EXCEPT !.visiting = @ \cup {m}], declares[m])
         IN  IF b.failed THEN b
             ELSE [b EXCEPT !.visiting = @ \ {m}, !.visited = @ \cup {m},
                            !.resolved = Append(@, m)]

\* The body of its loop over what a module declares.
Considered(below, d, a) ==
    IF a.failed \/ Skips(d) THEN a
    ELSE IF Refuses(d) THEN [a EXCEPT !.failed = TRUE]
    ELSE ResolveFrom(below, d.on, a)
Resolving[n \in Nat] ==
    [x \in Resolvers \X Dependencies |->
        IF n = 0 THEN x[1] ELSE Considered(Resolving[n - 1], x[2], x[1])]
Resolve(m) ==
    ResolveFrom(Resolving[Depth], m,
                [resolved |-> <<>>, visited |-> {}, visiting |-> {}, failed |-> FALSE])

\* Only a module that two of the others want is looked at.
Conflicting(ms) ==
    {d \in found :
        LET wants == UNION {{<<m, i>> : i \in {j \in DOMAIN declares[m] : declares[m][j].on = d}} : m \in ms}
        IN Cardinality(wants) > 1 /\ \E w \in wants : declares[w[1]][w[2]].version = "differs"}

\* The edges of build_dependency_graph for the modules listed: others that they depend on
\* become nodes, and what these depend on does not.
Built(ms) == {e \in ms \X found : \E i \in DOMAIN declares[e[1]] : declares[e[1]][i].on = e[2]}

--------------------------------------------------------------------------------
(* What the algorithms are for, said without them.                         *)
Edge == {e \in (DOMAIN edges) \X (DOMAIN edges) : Contains(edges[e[1]], e[2])}

\* What can be reached over one or more edges: what is in every set that holds the ends of
\* the edges that leave m or the set.
Reached(rel, m) ==
    {d \in GraphModules : \A C \in SUBSET GraphModules :
        (\A e \in rel : e[1] \in C \cup {m} => e[2] \in C) => d \in C}
Cyclic == \E m \in DOMAIN edges : m \in Reached(Edge, m)

Before(s, x, y) == \E i, j \in DOMAIN s : i < j /\ s[i] = x /\ s[j] = y

\* Both directions hold the same edges, each once, between modules that the graph has.
EdgesMirror ==
    /\ DOMAIN edges = DOMAIN reverseEdges
    /\ \A m \in DOMAIN edges :
          /\ IsInjective(edges[m]) /\ IsInjective(reverseEdges[m])
          /\ \A d \in GraphModules :
                Contains(edges[m], d) <=> d \in DOMAIN edges /\ Contains(reverseEdges[d], m)

\* Whatever the order of the keys, a cycle is found exactly when there is one, and what is
\* found is one: a way along edges that comes back to where it began.
CyclesFound ==
    \A keys \in KeyOrders :
        LET cycle == FindCycle(keys) IN
        /\ HasCycle(keys) <=> Cyclic
        /\ HasCycle(keys) =>
              /\ Len(cycle) > 1 /\ cycle[1] = Last(cycle)
              /\ \A i \in 1..Len(cycle) - 1 : <<cycle[i], cycle[i + 1]>> \in Edge

\* Without a cycle, the load order has every module once and after its dependencies; with
\* one there is none.  Modules are unloaded the other way round.
LoadOrderRespectsEdges ==
    \A keys, others \in KeyOrders :
        LET load == LoadOrder(keys, others)
            unload == UnloadOrder(keys, others)
        IN  /\ load.failed <=> Cyclic
            /\ ~Cyclic =>
                  /\ IsInjective(load.order) /\ ToSet(load.order) = DOMAIN edges
                  /\ ~unload.failed
                  /\ \A e \in Edge : Before(load.order, e[2], e[1]) /\ Before(unload.order, e[1], e[2])

\* A module's dependencies are all that can be reached from it, each once and, without a
\* cycle, after its own.
DependenciesCollected ==
    \A m \in DOMAIN edges :
        LET all == AllDependencies(m) IN
        /\ IsInjective(all) /\ ToSet(all) = Reached(Edge, m)
        /\ ~Cyclic => \A e \in Edge :
                          (e[1] \in ToSet(all)) => Before(all, e[2], e[1])

Declared == {e \in found \X GraphModules :
                \E i \in DOMAIN declares[e[1]] :
                    declares[e[1]][i].on = e[2] /\ ~Skips(declares[e[1]][i])}
Needed(m) == {m} \cup Reached(Declared, m)

\* A module is resolved exactly when everything that it needs, what is optional and there
\* included, is there in a fitting version and without a cycle; and then as the list of that
\* in an order in which it can be loaded.
ResolvesWhatIsNeeded ==
    \A m \in found :
        LET r == Resolve(m) IN
        /\ ~r.failed <=>
              /\ Needed(m) \subseteq found
              /\ \A x \in Needed(m) : /\ x \notin Reached(Declared, x)
                                      /\ \A i \in DOMAIN declares[x] :
                                            Skips(declares[x][i]) \/ declares[x][i].version = "fits"
        /\ ~r.failed =>
              /\ IsInjective(r.resolved) /\ ToSet(r.resolved) = Needed(m)
              /\ \A e \in Declared : e[1] \in Needed(m) => Before(r.resolved, e[2], e[1])

\* Modules that can each be resolved have no conflict between them; and a graph built of all
\* that they need has the order in which each was resolved.
ResolvedModulesAgree ==
    \A ms \in SUBSET found :
        (\A m \in ms : ~Resolve(m).failed) =>
            /\ Conflicting(ms) = {}
            /\ \A m \in ms : \A e \in Built(Needed(m)) : Before(Resolve(m).resolved, e[2], e[1])

\* The two maps and every walk over them agree with what they are for.
WalksAgree == EdgesMirror /\ CyclesFound /\ LoadOrderRespectsEdges /\ DependenciesCollected

\* So does what the resolver makes of the declarations.
ResolutionHolds == ResolvesWhatIsNeeded /\ ResolvedModulesAgree
================================================================================
