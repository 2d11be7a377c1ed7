----------------------------- MODULE ModuleManager -----------------------------
(***************************************************************************)
(* The module manager of src/module/manager.rs with the registry, the      *)
(* loader, the dependency graph and the routes it keeps in step, none of   *)
(* which shares a lock with another: tasks that load, unload, start, stop, *)
(* restart, hot-install and hot-uninstall modules, each call cut where it  *)
(* releases a lock.  The hooks of src/module/lifecycle.rs change nothing   *)
(* here.  A module's actions are one route, and the registry's two maps,   *)
(* which are read and written under locks of their own, are one.           *)
(***************************************************************************)
EXTENDS Naturals, FiniteSets

CONSTANTS Modules,
          Deps,     \* [Modules -> SUBSET Modules], the metadata's dependencies
          Present,  \* those found when the core starts
          Failing,  \* those whose runtime may fail to load or unload them
          Tasks,    \* callers
          Nothing   \* no module

\* initialize() refuses to go on with a cycle.
ManagerAssumption ==
    /\ IsFiniteSet(Modules)
    /\ Deps \in [Modules -> SUBSET Modules]
    /\ Present \subseteq Modules /\ Failing \subseteq Modules /\ Nothing \notin Modules
    /\ \E rank \in [Modules -> 0..Cardinality(Modules)] :
          \A m \in Modules : \A d \in Deps[m] : rank[d] < rank[m]

ASSUME ManagerAssumption

VARIABLES state,         \* the registry: each module's ModuleState, or "absent"
          graph,         \* dependency_graph: pairs of a module and a dependency
          loaderState,   \* the loader's states, "none" if it has none
          instances,     \* the loader's instances
          dependents,    \* the loader's dependents: of a dependency, a module
          routes,        \* modules whose actions have their routes
          pc,            \* where each call is
          call,          \* what it does to which target, and the module it is at:
                         \* target, or a dependency to load first
          todo,          \* the dependencies to load, or dependents to ask
          raced          \* modules that two calls have dealt with at once

dataVars == <<state, graph, loaderState, instances, dependents, routes>>
loaderVars == <<loaderState, instances, dependents>>
vars == <<dataVars, pc, call, todo, raced>>

ModuleStates == {"Registered", "Loading", "Loaded", "Starting", "Running", "Stopping",
                 "Stopped", "Unloading", "Unloaded", "Error"}
CanLoad(s) == s \in {"Registered", "Unloaded"}
CanUnload(s) == s \in {"Loaded", "Stopped", "Error"}

Registered(m) == state[m] # "absent"

\* What is reached from m over the edges of E: get_all_dependencies.
Reached(E, m) ==
    {d \in Modules : \A C \in SUBSET Modules :
        (\A e \in E : e[1] \in C \cup {m} => e[2] \in C) => d \in C}

Edges(M) == {e \in M \X Modules : e[2] \in Deps[e[1]]}

NoCall == [op |-> "none", target |-> Nothing, at |-> Nothing]
op(t) == call[t].op
target(t) == call[t].target
at(t) == call[t].at

First == [load |-> "check", unload |-> "allow", start |-> "start", stop |-> "stop",
          restart |-> "stop", install |-> "register", uninstall |-> "inspect"]

Init ==
    /\ state = [m \in Modules |-> IF m \in Present THEN "Registered" ELSE "absent"]
    /\ graph = Edges(Present)
    /\ loaderState = [m \in Modules |-> "none"]
    /\ instances = {} /\ dependents = {} /\ routes = {}
    /\ pc = [t \in Tasks |-> "idle"]
    /\ call = [t \in Tasks |-> NoCall]
    /\ todo = [t \in Tasks |-> {}]
    /\ raced = {}

Busy == {t \in Tasks : pc[t] # "idle"}

\* The modules a call may change.
Touches(o, m) == {m} \cup IF o \in {"load", "install"} THEN Reached(Edges(Modules), m) ELSE {}

-------------------------------------------------------------------------------
(* Every step of a call in progress *)

\* The call is at place l and the step leads it to place k.
Step(t, l, k) == pc[t] = l /\ pc' = [pc EXCEPT ![t] = k] /\ UNCHANGED raced

Go(t, l, k) ==
    /\ Step(t, l, k)
    /\ IF k = "idle" THEN /\ call' = [call EXCEPT ![t] = NoCall]
                         /\ todo' = [todo EXCEPT ![t] = {}]
                     ELSE UNCHANGED <<call, todo>>

\* The registry's set_state.
SetState(t, l, s, k) ==
    /\ Go(t, l, k)
    /\ Registered(at(t))
    /\ state' = [state EXCEPT ![at(t)] = s]
    /\ UNCHANGED <<graph, loaderVars, routes>>

SetLoaderState(t, l, s, k) ==
    /\ Go(t, l, k)
    /\ loaderState' = [loaderState EXCEPT ![at(t)] = s]
    /\ UNCHANGED <<state, graph, instances, dependents, routes>>

Call(t, o, m) ==
    /\ pc[t] = "idle"
    /\ pc' = [pc EXCEPT ![t] = First[o]]
    /\ call' = [call EXCEPT ![t] = [op |-> o, target |-> m, at |-> m]]
    /\ UNCHANGED todo
    /\ raced' = raced \cup (Touches(o, m) \cap UNION {Touches(op(u), target(u)) : u \in Busy})
    /\ UNCHANGED dataVars

\* set_state, set_error and get_module of what is not, or no longer, registered.
NotFound(t) ==
    /\ pc[t] \in {"loading", "info", "loaded", "failed", "unloading", "unloaded",
                  "start", "starting", "stop", "stopping"}
    /\ ~Registered(at(t))
    /\ Go(t, pc[t], "idle")
    /\ UNCHANGED dataVars

SetError(t) == SetState(t, "failed", "Error", "idle")

-------------------------------------------------------------------------------
(* load_module() *)

CheckLoad(t) ==
    /\ Go(t, "check", IF CanLoad(state[at(t)]) THEN "resolve" ELSE "idle")
    /\ UNCHANGED dataVars

Resolve(t) ==
    /\ Step(t, "resolve", "next")
    /\ todo' = [todo EXCEPT ![t] = Reached(graph, target(t))]
    /\ UNCHANGED <<call, dataVars>>

\* Dependencies first, in depth-first order.  One that is not registered,
\* or may not be loaded in its state, is passed over.
NextDependency(t) ==
    /\ pc[t] = "next"
    /\ \E d \in todo[t] :
          /\ Deps[d] \cap todo[t] = {}
          /\ todo' = [todo EXCEPT ![t] = @ \ {d}]
          /\ \/ /\ CanLoad(state[d])
                /\ call' = [call EXCEPT ![t].at = d]
                /\ Step(t, "next", "loading")
             \/ ~CanLoad(state[d]) /\ Step(t, "next", "next") /\ UNCHANGED call
    /\ UNCHANGED dataVars

LastTarget(t) ==
    /\ todo[t] = {}
    /\ Step(t, "next", "loading")
    /\ call' = [call EXCEPT ![t].at = target(t)]
    /\ UNCHANGED <<todo, dataVars>>

(* load_single_module(), of what the call is at *)

SetLoading(t) == SetState(t, "loading", "Loading", "info")

GetInfo(t) == Go(t, "info", "admit") /\ Registered(at(t)) /\ UNCHANGED dataVars

LoaderAdmits(t) ==
    /\ Go(t, "admit", "begin")
    /\ loaderState[at(t)] \notin {"Loading", "Loaded"}
    /\ UNCHANGED dataVars

LoaderRefuses(t) ==
    /\ Go(t, "admit", "failed")
    /\ loaderState[at(t)] \in {"Loading", "Loaded"}
    /\ UNCHANGED dataVars

LoaderBegins(t) == SetLoaderState(t, "begin", "Loading", "code")

LoadCode(t) ==
    /\ Go(t, "code", "record")
    /\ instances' = instances \cup {at(t)}
    /\ UNCHANGED <<state, graph, loaderState, dependents, routes>>

LoadCodeFails(t) == at(t) \in Failing /\ SetLoaderState(t, "code", "Error", "failed")

RecordDependencies(t) ==
    /\ Go(t, "record", "finish")
    /\ dependents' = dependents \cup (Deps[at(t)] \X {at(t)})
    /\ UNCHANGED <<state, graph, loaderState, instances, routes>>

LoaderFinishes(t) == SetLoaderState(t, "finish", "Loaded", "loaded")

SetLoaded(t) == SetState(t, "loaded", "Loaded", "routes")

AfterRoutes(t) ==
    IF at(t) # target(t) THEN "next" ELSE IF op(t) = "install" THEN "start" ELSE "idle"

\* Mutant: the routes are those of the module that was asked for.
RegisterTargetRoutes(t) ==
    /\ Go(t, "routes", AfterRoutes(t))
    /\ routes' = routes \cup {target(t)}
    /\ UNCHANGED <<state, graph, loaderVars>>

RegisterRoutes(t) ==
    /\ Go(t, "routes", AfterRoutes(t))
    /\ routes' = routes \cup {at(t)}
    /\ UNCHANGED <<state, graph, loaderVars>>

LoadStep(t) ==
    \/ CheckLoad(t) \/ Resolve(t) \/ NextDependency(t) \/ LastTarget(t)
    \/ SetLoading(t) \/ GetInfo(t) \/ LoaderAdmits(t) \/ LoaderRefuses(t) \/ LoaderBegins(t)
    \/ LoadCode(t) \/ LoadCodeFails(t) \/ RecordDependencies(t) \/ LoaderFinishes(t)
    \/ SetLoaded(t) \/ RegisterRoutes(t)

-------------------------------------------------------------------------------
(* unload_module() *)

CheckUnload(t) ==
    /\ Go(t, "allow", IF CanUnload(state[at(t)]) THEN "dependents" ELSE "idle")
    /\ UNCHANGED dataVars

FindDependents(t) ==
    /\ Step(t, "dependents", "ask")
    /\ todo' = [todo EXCEPT ![t] = {m \in Modules : <<m, target(t)>> \in graph}]
    /\ UNCHANGED <<call, dataVars>>

AskDependent(t) ==
    \E m \in todo[t] :
       /\ \/ state[m] \in {"Running", "Loaded"} /\ Go(t, "ask", "idle")
          \/ /\ state[m] \notin {"Running", "Loaded"}
             /\ Step(t, "ask", "ask")
             /\ todo' = [todo EXCEPT ![t] = @ \ {m}]
             /\ UNCHANGED call
       /\ UNCHANGED dataVars

AllAsked(t) ==
    /\ todo[t] = {}
    /\ Go(t, "ask", "unloading")
    /\ UNCHANGED dataVars

SetUnloading(t) == SetState(t, "unloading", "Unloading", "permit")

LoaderChecks(t) ==
    /\ Go(t, "permit", IF CanUnload(loaderState[at(t)]) THEN "needed" ELSE "failed")
    /\ UNCHANGED dataVars

\* Mutant: the loader leaves dependents to the manager.
LoaderNeverAsks(t) == Go(t, "needed", "dismiss") /\ UNCHANGED dataVars

LoaderAsks(t) ==
    /\ Go(t, "needed", IF \E m \in Modules : <<at(t), m>> \in dependents THEN "failed"
                                                                         ELSE "dismiss")
    /\ UNCHANGED dataVars

LoaderDismisses(t) == SetLoaderState(t, "dismiss", "Unloading", "unloadCode")

UnloadCode(t) ==
    /\ Go(t, "unloadCode", "forget")
    /\ instances' = instances \ {at(t)}
    /\ UNCHANGED <<state, graph, loaderState, dependents, routes>>

\* Mutant: an error of the runtime is passed over.
UnloadAllTheSame(t) ==
    at(t) \in Failing /\ SetLoaderState(t, "unloadCode", "Unloaded", "unroute")

UnloadCodeFails(t) == at(t) \in Failing /\ SetLoaderState(t, "unloadCode", "Error", "failed")

\* Mutant: only the module's own dependents are removed.
RemoveDependents(t) ==
    /\ Go(t, "forget", "dismissed")
    /\ dependents' = dependents \ ({at(t)} \X Modules)
    /\ UNCHANGED <<state, graph, loaderState, instances, routes>>

RemoveDependencies(t) ==
    /\ Go(t, "forget", "dismissed")
    /\ dependents' = {p \in dependents : at(t) \notin {p[1], p[2]}}
    /\ UNCHANGED <<state, graph, loaderState, instances, routes>>

LoaderUnloaded(t) == SetLoaderState(t, "dismissed", "Unloaded", "unroute")

RemoveRoutes(t) ==
    /\ Go(t, "unroute", "unloaded")
    /\ routes' = routes \ {at(t)}
    /\ UNCHANGED <<state, graph, loaderVars>>

SetUnloaded(t) ==
    SetState(t, "unloaded", "Unloaded", IF op(t) = "uninstall" THEN "release" ELSE "idle")

UnloadStep(t) ==
    \/ CheckUnload(t) \/ FindDependents(t) \/ AskDependent(t) \/ AllAsked(t) \/ SetUnloading(t)
    \/ LoaderChecks(t) \/ LoaderAsks(t) \/ LoaderDismisses(t)
    \/ UnloadCode(t) \/ UnloadCodeFails(t) \/ RemoveDependencies(t) \/ LoaderUnloaded(t)
    \/ RemoveRoutes(t) \/ SetUnloaded(t)

-------------------------------------------------------------------------------
(* start_module(), stop_module() and restart_module(): whatever the state *)

SetStarting(t) == SetState(t, "start", "Starting", "starting")
SetRunning(t) == SetState(t, "starting", "Running", "idle")
SetStopping(t) == SetState(t, "stop", "Stopping", "stopping")
SetStopped(t) ==
    SetState(t, "stopping", "Stopped",
             CASE op(t) = "restart" -> "start"
               [] op(t) = "uninstall" -> "allow"
               [] OTHER -> "idle")

RunStep(t) == SetStarting(t) \/ SetRunning(t) \/ SetStopping(t) \/ SetStopped(t)

-------------------------------------------------------------------------------
(* hot_install() and hot_uninstall() *)

\* The registry's register() looks first, and inserts later.
CheckId(t) ==
    /\ Go(t, "register", IF Registered(at(t)) THEN "idle" ELSE "insert")
    /\ UNCHANGED dataVars

Insert(t) ==
    /\ Go(t, "insert", "list")
    /\ state' = [state EXCEPT ![at(t)] = "Registered"]
    /\ UNCHANGED <<graph, loaderVars, routes>>

ListModules(t) ==
    /\ Step(t, "list", "build")
    /\ todo' = [todo EXCEPT ![t] = {m \in Modules : Registered(m)}]
    /\ UNCHANGED <<call, dataVars>>

BuildGraph(t) ==
    /\ Step(t, "build", "check")
    /\ graph' = Edges(todo[t])
    /\ todo' = [todo EXCEPT ![t] = {}]
    /\ UNCHANGED <<call, state, loaderVars, routes>>

Inspect(t) ==
    /\ Go(t, "inspect", IF state[at(t)] = "Running" THEN "stop" ELSE "allow")
    /\ UNCHANGED dataVars

CheckUnregister(t) ==
    /\ Go(t, "release", IF state[at(t)] \in {"absent", "Running"} THEN "idle" ELSE "remove")
    /\ UNCHANGED dataVars

Unregister(t) ==
    /\ Go(t, "remove", "prune")
    /\ state' = [state EXCEPT ![at(t)] = "absent"]
    /\ UNCHANGED <<graph, loaderVars, routes>>

PruneGraph(t) ==
    /\ Go(t, "prune", "idle")
    /\ graph' = {e \in graph : at(t) \notin {e[1], e[2]}}
    /\ UNCHANGED <<state, loaderVars, routes>>

InstallStep(t) ==
    \/ CheckId(t) \/ Insert(t) \/ ListModules(t) \/ BuildGraph(t)
    \/ Inspect(t) \/ CheckUnregister(t) \/ Unregister(t) \/ PruneGraph(t)

-------------------------------------------------------------------------------
Next ==
    \/ \E t \in Tasks, o \in DOMAIN First, m \in Modules : Call(t, o, m)
    \/ \E t \in Tasks : NotFound(t) \/ SetError(t)
    \/ \E t \in Tasks : LoadStep(t) \/ UnloadStep(t) \/ RunStep(t) \/ InstallStep(t)

Spec == Init /\ [][Next]_vars

-------------------------------------------------------------------------------
(* What must hold *)

LoaderStates == {"none", "Loading", "Loaded", "Unloading", "Unloaded", "Error"}

Places == {"idle", "failed", "start", "starting", "stop", "stopping",
           "check", "resolve", "next", "loading", "info", "admit", "begin", "code", "record",
           "finish", "loaded", "routes",
           "allow", "dependents", "ask", "unloading", "permit", "needed", "dismiss",
           "unloadCode", "forget", "dismissed", "unroute", "unloaded",
           "register", "insert", "list", "build", "inspect", "release", "remove", "prune"}

\* Every variable keeps its type, and no module is among its dependencies.
TypeOK ==
    /\ state \in [Modules -> ModuleStates \cup {"absent"}]
    /\ graph \subseteq Modules \X Modules
    /\ loaderState \in [Modules -> LoaderStates]
    /\ instances \subseteq Modules
    /\ dependents \subseteq Modules \X Modules
    /\ routes \subseteq Modules
    /\ pc \in [Tasks -> Places]
    /\ call \in [Tasks -> {NoCall} \cup [op : DOMAIN First, target : Modules, at : Modules]]
    /\ \A t \in Tasks : pc[t] = "idle" <=> call[t] = NoCall
    /\ todo \in [Tasks -> SUBSET Modules]
    /\ \A t \in Tasks : pc[t] = "next" => target(t) \notin todo[t]
    /\ raced \subseteq Modules

\* No call is dealing with m, and no two ever did at the same time.
Settled(m) == m \notin raced /\ \A t \in Busy : m \notin Touches(op(t), target(t))

\* The registry tells the truth about a module, whatever calls have been
\* made, have failed half-way, or were about other modules meanwhile:
\* Loaded means that it can be called, the states from which it can be
\* loaded that nothing is left of it.
RegistryTruthful ==
    \A m \in Modules : Settled(m) =>
        /\ state[m] = "Loaded" => m \in instances /\ loaderState[m] = "Loaded"
        /\ state[m] \in {"absent", "Registered", "Unloaded"} =>
               m \notin instances \cup routes /\ loaderState[m] \in {"none", "Unloaded", "Error"}

\* A module has its routes exactly as long as it has an instance, even
\* after loads and unloads that failed.
RoutesFollowInstances ==
    \A m \in Modules : Settled(m) => (m \in routes <=> m \in instances)

\* The loader's record of who depends on whom lists the loaded modules.
DependentsTracked ==
    \A m, d \in Modules : Settled(m) /\ Settled(d) =>
        (<<d, m>> \in dependents <=> m \in instances /\ d \in Deps[m])

\* No module is unloaded while another that depends on it is loaded,
\* whatever the registry's states say of that one.
NotUnloadedUnderDependents ==
    [][\A d \in instances \ (instances' \cup raced) :
          \A m \in instances \ raced : d \notin Deps[m]]_vars
===============================================================================
