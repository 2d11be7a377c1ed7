------------------------------ MODULE RouteTable ------------------------------
(***************************************************************************)
(* The route table of src/router/route_table.rs.  The exact, regex and     *)
(* prefix routes and the default route each have a lock of their own, and  *)
(* the LRU cache of resolved actions has another.  A registration changes  *)
(* its table and invalidates under that table's write lock, so it is one   *)
(* action; find_route() reads the cache, then one table after the other,   *)
(* and fills the cache after the last lock is released;                    *)
(* remove_module_routes() empties one table after the other and            *)
(* invalidates at the end.                                                 *)
(***************************************************************************)
EXTENDS Naturals, FiniteSets

CONSTANTS Actions,        \* the actions requests carry
          FastActions,    \* those with a fast-path prefix ("foundation.")
          Modules,
          Routes,         \* the RouteEntry values that may be registered
          ModuleOf,       \* module_id
          KindOf,         \* the table the entry goes to
          Covers,         \* the actions its pattern matches
          Priority,
          Enabled,        \* the entries whose enabled flag is set
          Finders,        \* tasks in find_route
          CacheCapacity,
          None            \* Option::None; the action of an idle finder

Kinds == {"custom", "exact", "prefix", "default"}

ASSUME RouteAssumption ==
    /\ IsFiniteSet(Actions) /\ IsFiniteSet(Routes)
    /\ FastActions \subseteq Actions
    /\ ModuleOf \in [Routes -> Modules]
    /\ KindOf \in [Routes -> Kinds]
    /\ Covers \in [Routes -> SUBSET Actions]
    /\ Priority \in [Routes -> Nat]
    /\ Enabled \subseteq Routes
    /\ CacheCapacity \in Nat \ {0}
    /\ None \notin Routes \cup Actions

VARIABLES registered,   \* action_routes, custom_routes and prefix_routes
          earlier,      \* the routes that were registered when this one was
          default,      \* default_route
          cache,        \* the route cached for each action
          removal,      \* progress of remove_module_routes, per module
          fpc, faction, found,      \* progress of each find_route
          overtaken,    \* lookups during which a table has changed
          suspect,      \* actions filled by an overtaken lookup, or with a default since replaced
          steady        \* the routes registered ever since a lookup began

tableVars == <<registered, earlier, default>>
finderVars == <<fpc, faction, found>>
vars == <<tableVars, cache, removal, finderVars, overtaken, suspect, steady>>

OfKind(k) == {r \in Routes : KindOf[r] = k}

\* RouteEntry::matches, over one table.
Hits(k, a) == {r \in registered : KindOf[r] = k /\ r \in Enabled /\ a \in Covers[r]}

\* push and a stable sort: higher priority first, then older first.
Precedes(r, s) ==
    \/ Priority[r] > Priority[s]
    \/ Priority[r] = Priority[s] /\ r \in earlier[s]

\* Mutant: the most recent of the best entries.
LatestOf(S) ==
    CHOOSE r \in S : \A s \in S \ {r} :
        \/ Priority[r] > Priority[s]
        \/ Priority[r] = Priority[s] /\ s \in earlier[r]

FirstOf(S) == CHOOSE r \in S : \A s \in S \ {r} : Precedes(r, s)

\* The order in which the tables are searched; the fast path goes before
\* the regex routes.
Order(a) == IF a \in FastActions THEN <<"exact", "prefix", "custom">>
                                 ELSE <<"custom", "exact", "prefix">>

\* What an undisturbed lookup of a finds.
Resolve(a) ==
    IF Hits(Order(a)[1], a) # {} THEN FirstOf(Hits(Order(a)[1], a))
    ELSE IF Hits(Order(a)[2], a) # {} THEN FirstOf(Hits(Order(a)[2], a))
    ELSE IF Hits(Order(a)[3], a) # {} THEN FirstOf(Hits(Order(a)[3], a))
    ELSE default

Init ==
    /\ registered = {} /\ default = None
    /\ earlier = [r \in Routes |-> {}]
    /\ cache = [a \in Actions |-> None]
    /\ removal = [m \in Modules |-> "none"]
    /\ fpc = [f \in Finders |-> "idle"]
    /\ faction = [f \in Finders |-> None]
    /\ found = [f \in Finders |-> None]
    /\ overtaken = {} /\ suspect = {}
    /\ steady = [f \in Finders |-> {}]

-------------------------------------------------------------------------------
(* Registration *)

Forget(actions) == cache' = [a \in Actions |-> IF a \in actions THEN None ELSE cache[a]]

Searching == {f \in Finders : fpc[f] # "idle"}
Overtake == overtaken' = overtaken \cup Searching

Add(r) ==
    /\ r \notin registered
    /\ registered' = registered \cup {r}
    /\ earlier' = [earlier EXCEPT ![r] = registered]
    /\ Overtake
    /\ UNCHANGED <<default, removal, finderVars, suspect, steady>>

\* An exact route covers the one action it is registered for.
RegisterActionRoute(r) == KindOf[r] = "exact" /\ Add(r) /\ Forget(Covers[r])

\* A pattern that does not compile is refused and changes nothing.
RegisterCustomRoute(r) == KindOf[r] = "custom" /\ Add(r) /\ Forget(Actions)

\* Mutant: nothing is invalidated.
RegisterPrefixOnly(r) == KindOf[r] = "prefix" /\ Add(r) /\ UNCHANGED cache

RegisterPrefixRoute(r) == KindOf[r] = "prefix" /\ Add(r) /\ Forget(Covers[r])

\* The cache keeps what it has.
SetDefaultRoute(r) ==
    /\ KindOf[r] = "default"
    /\ r # default
    /\ default' = r
    /\ suspect' = suspect \cup {a \in Actions : default # None /\ cache[a] = default}
    /\ Overtake
    /\ UNCHANGED <<registered, earlier, cache, removal, finderVars, steady>>

\* Router code never calls it; the API offers it.
ClearCache ==
    /\ \E a \in Actions : cache[a] # None
    /\ Forget(Actions)
    /\ UNCHANGED <<tableVars, removal, finderVars, overtaken, suspect, steady>>

-------------------------------------------------------------------------------
(* find_route *)

\* The cache misses (a hit returns at once), and the search begins.
FindRoute(f, a) ==
    /\ fpc[f] = "idle"
    /\ cache[a] = None
    /\ fpc' = [fpc EXCEPT ![f] = IF a \in FastActions THEN "fast_exact" ELSE "custom"]
    /\ faction' = [faction EXCEPT ![f] = a]
    /\ overtaken' = overtaken \ {f}
    /\ steady' = [steady EXCEPT ![f] = registered]
    /\ UNCHANGED <<tableVars, cache, removal, found, suspect>>

\* One table is read under its lock.
Scan(f, here, kind, next) ==
    /\ fpc[f] = here
    /\ LET hits == Hits(kind, faction[f])
       IN  IF hits # {}
           THEN /\ found' = [found EXCEPT ![f] = FirstOf(hits)]
                /\ fpc' = [fpc EXCEPT ![f] = "found"]
           ELSE fpc' = [fpc EXCEPT ![f] = next] /\ UNCHANGED found
    /\ UNCHANGED <<tableVars, cache, removal, faction, overtaken, suspect, steady>>

\* try_fast_path
FastExact(f) == Scan(f, "fast_exact", "exact", "fast_prefix")
FastPrefix(f) == Scan(f, "fast_prefix", "prefix", "custom")

\* find_route_internal
FindCustom(f) == Scan(f, "custom", "custom", "exact")
FindExact(f) == Scan(f, "exact", "exact", "prefix")
FindPrefix(f) == Scan(f, "prefix", "prefix", "default")

\* Returned whether or not it is enabled.
FindDefault(f) ==
    /\ fpc[f] = "default"
    /\ found' = [found EXCEPT ![f] = default]
    /\ fpc' = [fpc EXCEPT ![f] = "found"]
    /\ UNCHANGED <<tableVars, cache, removal, faction, overtaken, suspect, steady>>

Cached == {a \in Actions : cache[a] # None}

\* RouteCache::put: a full cache gives up its least recently used entry,
\* which may be any of the others.
Put(a, r) ==
    IF a \in Cached \/ Cardinality(Cached) < CacheCapacity
    THEN cache' = [cache EXCEPT ![a] = r]
    ELSE \E b \in Cached : cache' = [cache EXCEPT ![a] = r, ![b] = None]

\* The result is cached, unless there is none, and returned.
Fill(f) ==
    /\ fpc[f] = "found"
    /\ fpc' = [fpc EXCEPT ![f] = "idle"]
    /\ faction' = [faction EXCEPT ![f] = None]
    /\ found' = [found EXCEPT ![f] = None]
    /\ overtaken' = overtaken \ {f}
    /\ steady' = [steady EXCEPT ![f] = {}]
    /\ IF found[f] = None
       THEN UNCHANGED <<cache, suspect>>
       ELSE /\ Put(faction[f], found[f])
            /\ suspect' = IF f \in overtaken THEN suspect \cup {faction[f]}
                                             ELSE suspect \ {faction[f]}
    /\ UNCHANGED <<tableVars, removal>>

-------------------------------------------------------------------------------
(* remove_module_routes *)

RemoveFrom(m, here, kind, next) ==
    /\ removal[m] = here
    /\ removal' = [removal EXCEPT ![m] = next]
    /\ LET gone == {r \in registered : KindOf[r] = kind /\ ModuleOf[r] = m}
       IN  /\ registered' = registered \ gone
           /\ earlier' = [r \in Routes |-> IF r \in gone THEN {} ELSE earlier[r] \ gone]
           /\ steady' = [f \in Finders |-> steady[f] \ gone]
    /\ Overtake
    /\ UNCHANGED <<default, cache, finderVars, suspect>>

RemoveExact(m) == RemoveFrom(m, "none", "exact", "custom")
RemoveCustom(m) == RemoveFrom(m, "custom", "custom", "prefix")
RemovePrefix(m) == RemoveFrom(m, "prefix", "prefix", "default")

RemoveDefault(m) ==
    /\ removal[m] = "default"
    /\ removal' = [removal EXCEPT ![m] = "cache"]
    /\ default' = IF default # None /\ ModuleOf[default] = m THEN None ELSE default
    /\ Overtake
    /\ UNCHANGED <<registered, earlier, cache, finderVars, suspect, steady>>

InvalidateModule(m) ==
    /\ removal[m] = "cache"
    /\ removal' = [removal EXCEPT ![m] = "none"]
    /\ Forget({a \in Cached : ModuleOf[cache[a]] = m})
    /\ UNCHANGED <<tableVars, finderVars, overtaken, suspect, steady>>

-------------------------------------------------------------------------------
Register(r) ==
    \/ RegisterActionRoute(r) \/ RegisterCustomRoute(r)
    \/ RegisterPrefixRoute(r) \/ SetDefaultRoute(r)

Search(f) ==
    \/ FastExact(f) \/ FastPrefix(f) \/ FindCustom(f) \/ FindExact(f)
    \/ FindPrefix(f) \/ FindDefault(f) \/ Fill(f)

RemoveModuleRoutes(m) ==
    \/ RemoveExact(m) \/ RemoveCustom(m) \/ RemovePrefix(m)
    \/ RemoveDefault(m) \/ InvalidateModule(m)

Next ==
    \/ \E r \in Routes : Register(r)
    \/ \E f \in Finders : (\E a \in Actions : FindRoute(f, a)) \/ Search(f)
    \/ \E m \in Modules : RemoveModuleRoutes(m)
    \/ ClearCache

Spec == Init /\ [][Next]_vars

-------------------------------------------------------------------------------
(* What must hold *)

\* Every variable keeps its type; the cache keeps to its capacity.
TypeOK ==
    /\ registered \subseteq Routes \ OfKind("default")
    /\ earlier \in [Routes -> SUBSET Routes]
    /\ default \in OfKind("default") \cup {None}
    /\ cache \in [Actions -> Routes \cup {None}]
    /\ Cardinality(Cached) <= CacheCapacity
    /\ removal \in [Modules -> {"none", "custom", "prefix", "default", "cache"}]
    /\ fpc \in [Finders -> {"idle", "fast_exact", "fast_prefix", "custom",
                            "exact", "prefix", "default", "found"}]
    /\ faction \in [Finders -> Actions \cup {None}]
    /\ found \in [Finders -> Routes \cup {None}]
    /\ overtaken \subseteq Finders /\ suspect \subseteq Actions
    /\ steady \in [Finders -> SUBSET Routes]

\* What each registration and removal invalidates is enough: a cached route
\* is the one find_route would find now.  The exceptions: its module is just
\* being removed, the entry was put by a lookup that a change of the table
\* overtook, or it is a default route that has been replaced.
CacheCoherent ==
    \A a \in Cached \ suspect :
        \/ cache[a] = Resolve(a)
        \/ removal[ModuleOf[cache[a]]] # "none"

Rank(k, a) == CHOOSE i \in 1..3 : Order(a)[i] = k

\* Although the tables are read one by one while others change them, a
\* search never passes over a route that was registered all along: not for
\* nothing, the default, or one that ranks below it (by age only among
\* routes that have both been there all along).
SteadyRouteWins ==
    \A f \in {g \in Finders : fpc[g] = "found"} :
        \A r \in steady[f] \cap Enabled :
            LET a == faction[f]
                s == found[f]
            IN  a \in Covers[r] =>
                    /\ s \notin OfKind("default") \cup {None}
                    /\ Rank(KindOf[s], a) <= Rank(KindOf[r], a)
                    /\ KindOf[s] = KindOf[r] => Priority[s] >= Priority[r]
                    /\ KindOf[s] = KindOf[r] /\ s \in steady[f] \ {r} => Precedes(s, r)

-------------------------------------------------------------------------------
(* What the source says and the code does not do *)

\* FR-003 and FR-027, "remove the route rules when a module is unloaded":
\* with no lookup and no removal under way, what is cached is registered.
RemovedIsForgotten ==
    (Searching = {} /\ \A m \in Modules : removal[m] = "none") =>
        \A a \in Cached : cache[a] \in registered \cup {default}
===============================================================================
