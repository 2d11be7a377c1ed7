---------------------------- MODULE ModuleRegistry ----------------------------
(***************************************************************************)
(* The module registry of src/module/registry.rs: two maps, modules and    *)
(* states, each behind its own RwLock.  Tasks register modules (one, or    *)
(* all that scan() finds), unregister them, set their states and clear     *)
(* everything.  A writer takes both locks, one after the other;            *)
(* set_state and set_error take them in the opposite order.                *)
(***************************************************************************)
EXTENDS FairRwLock, FiniteSets

CONSTANTS Ids,            \* module ids
          Paths,          \* directories with a module.yaml
          IdOf,           \* [Paths -> Ids], what each file says
          Broken,         \* those whose file cannot be parsed
          SettableStates, \* states that callers set
          RegistryTasks,  \* callers
          Absent          \* no entry

Infos == [path : Paths, state : SettableStates \cup {"Registered"}]

ASSUME RegistryAssumption ==
    /\ IsFiniteSet(RegistryTasks)
    /\ IdOf \in [Paths -> Ids]
    /\ Broken \subseteq Paths
    /\ Absent \notin SettableStates \cup {"Registered"}
    /\ Absent \notin Infos

VARIABLES modules,    \* id -> ModuleInfo: its path and its state
          states,     \* id -> ModuleState
          lock,       \* the two RwLocks
          rpc,        \* where each call is
          request,    \* what it does: operation, id, path or state
          todo,       \* the directories that a scan has still to look at
          overtaken   \* calls whose module has changed since they looked

registryVars == <<modules, states, lock, rpc, request, todo, overtaken>>

Locks == {"modules", "states"}
NoRequest == [op |-> "none", id |-> Absent, arg |-> Absent]

RegistryInit ==
    /\ modules = [i \in Ids |-> Absent]
    /\ states = [i \in Ids |-> Absent]
    /\ lock = [l \in Locks |-> Unlocked]
    /\ rpc = [t \in RegistryTasks |-> "idle"]
    /\ request = [t \in RegistryTasks |-> NoRequest]
    /\ todo = [t \in RegistryTasks |-> {}]
    /\ overtaken = [t \in RegistryTasks |-> FALSE]

mapVars == <<modules, states, overtaken>>

Goes(t, place) == rpc' = [rpc EXCEPT ![t] = place]
Asks(t, l, kind) == lock' = [lock EXCEPT ![l] = Ask(@, t, kind)]

\* Mutant: clear() takes the locks as set_state() does.
FirstLockOfClear(op) == IF op \in {"set", "clear"} THEN "states" ELSE "modules"

\* The order in which a writer takes the two locks.
FirstLock(op) == IF op = "set" THEN "states" ELSE "modules"
First(t) == FirstLock(request[t].op)
Second(t) == IF First(t) = "modules" THEN "states" ELSE "modules"

--------------------------------------------------------------------------------
\* Calls.  register() and register_with_metadata() are a scan of one directory.
Scan(t, P) ==
    /\ rpc[t] = "idle"
    /\ Goes(t, "entry")
    /\ todo' = [todo EXCEPT ![t] = P]
    /\ UNCHANGED <<mapVars, lock, request>>

Register(t) == \E p \in Paths : Scan(t, {p})

NextEntry(t, p) ==
    /\ rpc[t] = "entry" /\ p \in todo[t]
    /\ todo' = [todo EXCEPT ![t] = @ \ {p}]
    /\ request' = [request EXCEPT ![t] = [op |-> "register", id |-> IdOf[p], arg |-> p]]
    /\ \/ p \in Broken /\ UNCHANGED <<rpc, lock>>
       \/ p \notin Broken /\ Goes(t, "check") /\ Asks(t, "modules", "read")
    /\ UNCHANGED mapVars

ScanEnds(t) ==
    /\ rpc[t] = "entry" /\ todo[t] = {}
    /\ Goes(t, "idle")
    /\ request' = [request EXCEPT ![t] = NoRequest]
    /\ UNCHANGED <<mapVars, lock, todo>>

Unregister(t, i) ==
    /\ rpc[t] = "idle"
    /\ Goes(t, "check")
    /\ request' = [request EXCEPT ![t] = [op |-> "unregister", id |-> i, arg |-> Absent]]
    /\ Asks(t, "states", "read")
    /\ UNCHANGED <<mapVars, todo>>

\* set_state(), and set_error() with the state Error.
SetState(t, i, s) ==
    /\ rpc[t] = "idle"
    /\ Goes(t, "first")
    /\ request' = [request EXCEPT ![t] = [op |-> "set", id |-> i, arg |-> s]]
    /\ Asks(t, FirstLock("set"), "write")
    /\ UNCHANGED <<mapVars, todo>>

Clear(t) ==
    /\ rpc[t] = "idle"
    /\ Goes(t, "first")
    /\ request' = [request EXCEPT ![t] = [op |-> "clear", id |-> Absent, arg |-> Absent]]
    /\ Asks(t, FirstLock("clear"), "write")
    /\ UNCHANGED <<mapVars, todo>>

\* Every function that only reads looks at one map.
Look(t, l) ==
    /\ rpc[t] = "idle"
    /\ Goes(t, "look")
    /\ request' = [request EXCEPT ![t] = [op |-> "look", id |-> Absent, arg |-> l]]
    /\ Asks(t, l, "read")
    /\ UNCHANGED <<mapVars, todo>>

--------------------------------------------------------------------------------
\* Steps.
EndCall(t) == Goes(t, "idle") /\ request' = [request EXCEPT ![t] = NoRequest]

Looked(t) ==
    /\ rpc[t] = "look" /\ MayEnter(lock[request[t].arg], t)
    /\ lock' = [lock EXCEPT ![request[t].arg] = Pass(@)]
    /\ EndCall(t)
    /\ UNCHANGED <<mapVars, todo>>

\* The duplicate check reads under a lock that it gives back.
CheckDuplicate(t) ==
    /\ rpc[t] = "check" /\ request[t].op = "register"
    /\ MayEnter(lock["modules"], t)
    /\ overtaken' = [overtaken EXCEPT ![t] = FALSE]
    /\ \/ /\ modules[request[t].id] # Absent
          /\ lock' = [lock EXCEPT !["modules"] = Pass(@)]
          /\ Goes(t, "entry")
       \/ /\ modules[request[t].id] = Absent
          /\ lock' = [lock EXCEPT !["modules"] = Ask(Pass(@), t, "write")]
          /\ Goes(t, "first")
    /\ UNCHANGED <<modules, states, request, todo>>

\* Mutant: a running module may be unregistered.
MayUnregisterAny(i) == states[i] # Absent

MayUnregister(i) == states[i] \notin {Absent, "Running"}

CheckUnregister(t) ==
    /\ rpc[t] = "check" /\ request[t].op = "unregister"
    /\ MayEnter(lock["states"], t)
    /\ overtaken' = [overtaken EXCEPT ![t] = FALSE]
    /\ \/ /\ ~MayUnregister(request[t].id)
          /\ lock' = [lock EXCEPT !["states"] = Pass(@)]
          /\ EndCall(t)
       \/ /\ MayUnregister(request[t].id)
          /\ lock' = [lock EXCEPT !["states"] = Pass(@),
                                  !["modules"] = Ask(@, t, "write")]
          /\ Goes(t, "first") /\ UNCHANGED request
    /\ UNCHANGED <<modules, states, todo>>

EnterFirst(t) ==
    /\ rpc[t] = "first" /\ MayEnter(lock[First(t)], t)
    /\ lock' = [lock EXCEPT ![First(t)] = Enter(@), ![Second(t)] = Ask(@, t, "write")]
    /\ Goes(t, "second")
    /\ UNCHANGED <<mapVars, request, todo>>

EnterSecond(t) ==
    /\ rpc[t] = "second" /\ MayEnter(lock[Second(t)], t)
    /\ lock' = [lock EXCEPT ![Second(t)] = Enter(@)]
    /\ Goes(t, "both")
    /\ UNCHANGED <<mapVars, request, todo>>

Unlock(t) == lock' = [l \in Locks |-> Leave(lock[l], t, "write")]

\* Another call for one of these ids can no longer rely on what it saw.
Overtakes(t, I) ==
    overtaken' = [u \in RegistryTasks |-> overtaken[u] \/ (u # t /\ request[u].id \in I)]

InsertModule(t) ==
    /\ rpc[t] = "both" /\ request[t].op = "register"
    /\ modules' = [modules EXCEPT ![request[t].id] =
                      [path |-> request[t].arg, state |-> "Registered"]]
    /\ Goes(t, "half")
    /\ Overtakes(t, {request[t].id})
    /\ UNCHANGED <<states, lock, request, todo>>

InsertState(t) ==
    /\ rpc[t] = "half" /\ request[t].op = "register"
    /\ states' = [states EXCEPT ![request[t].id] = "Registered"]
    /\ Goes(t, "entry")
    /\ Unlock(t)
    /\ UNCHANGED <<modules, request, todo, overtaken>>

EraseModule(t) ==
    /\ rpc[t] = "both" /\ request[t].op = "unregister"
    /\ modules' = [modules EXCEPT ![request[t].id] = Absent]
    /\ Goes(t, "half")
    /\ Overtakes(t, {request[t].id})
    /\ UNCHANGED <<states, lock, request, todo>>

RemoveState(t) ==
    /\ rpc[t] = "half" /\ request[t].op = "unregister"
    /\ states' = [states EXCEPT ![request[t].id] = Absent]
    /\ EndCall(t)
    /\ Unlock(t)
    /\ UNCHANGED <<modules, todo, overtaken>>

ClearModules(t) ==
    /\ rpc[t] = "both" /\ request[t].op = "clear"
    /\ modules' = [i \in Ids |-> Absent]
    /\ Goes(t, "half")
    /\ Overtakes(t, Ids)
    /\ UNCHANGED <<states, lock, request, todo>>

ClearStates(t) ==
    /\ rpc[t] = "half" /\ request[t].op = "clear"
    /\ states' = [i \in Ids |-> Absent]
    /\ EndCall(t)
    /\ Unlock(t)
    /\ UNCHANGED <<modules, todo, overtaken>>

SetNotFound(t) ==
    /\ rpc[t] = "both" /\ request[t].op = "set" /\ states[request[t].id] = Absent
    /\ EndCall(t)
    /\ Unlock(t)
    /\ UNCHANGED <<mapVars, todo>>

\* Mutant: set_state() enters a module that is not there.
WriteAnyState(t) ==
    /\ rpc[t] = "both" /\ request[t].op = "set"
    /\ states' = [states EXCEPT ![request[t].id] = request[t].arg]
    /\ Goes(t, "half")
    /\ Overtakes(t, {request[t].id})
    /\ UNCHANGED <<modules, lock, request, todo>>

WriteState(t) ==
    /\ rpc[t] = "both" /\ request[t].op = "set" /\ states[request[t].id] # Absent
    /\ states' = [states EXCEPT ![request[t].id] = request[t].arg]
    /\ Goes(t, "half")
    /\ Overtakes(t, {request[t].id})
    /\ UNCHANGED <<modules, lock, request, todo>>

WriteInfo(t) ==
    /\ rpc[t] = "half" /\ request[t].op = "set"
    /\ \/ /\ modules[request[t].id] # Absent
          /\ modules' = [modules EXCEPT ![request[t].id].state = request[t].arg]
       \/ modules[request[t].id] = Absent /\ UNCHANGED modules
    /\ EndCall(t)
    /\ Unlock(t)
    /\ UNCHANGED <<states, todo, overtaken>>

RegistryCall(t) ==
    \/ Register(t) \/ Scan(t, Paths) \/ Clear(t)
    \/ \E i \in Ids : Unregister(t, i) \/ \E s \in SettableStates : SetState(t, i, s)
    \/ \E l \in Locks : Look(t, l)

RegistryStep(t) ==
    \/ (\E p \in Paths : NextEntry(t, p)) \/ ScanEnds(t) \/ Looked(t)
    \/ CheckDuplicate(t) \/ CheckUnregister(t) \/ EnterFirst(t) \/ EnterSecond(t)
    \/ InsertModule(t) \/ InsertState(t) \/ EraseModule(t) \/ RemoveState(t)
    \/ ClearModules(t) \/ ClearStates(t) \/ SetNotFound(t) \/ WriteState(t) \/ WriteInfo(t)

RegistryNext == \E t \in RegistryTasks : RegistryCall(t) \/ RegistryStep(t)

\* A task that was polled is polled again; nobody has to call anything.
RegistryFairness == \A t \in RegistryTasks : WF_registryVars(RegistryStep(t))

RegistrySpec == RegistryInit /\ [][RegistryNext]_registryVars

--------------------------------------------------------------------------------
RegistryPlaces == {"idle", "entry", "look", "check", "first", "second", "both", "half"}
Requests == [op : {"none", "register", "unregister", "set", "clear", "look"},
             id : Ids \cup {Absent}, arg : Paths \cup SettableStates \cup Locks \cup {Absent}]

RegistryTypeOK ==
    /\ modules \in [Ids -> Infos \cup {Absent}]
    /\ states \in [Ids -> SettableStates \cup {"Registered", Absent}]
    /\ DOMAIN lock = Locks
    /\ \A l \in Locks : \A h \in lock[l].held :
           h[2] = "write" /\ rpc[h[1]] \in {"second", "both", "half"}
    /\ rpc \in [RegistryTasks -> RegistryPlaces]
    /\ request \in [RegistryTasks -> Requests]
    /\ todo \in [RegistryTasks -> SUBSET Paths]
    /\ overtaken \in [RegistryTasks -> BOOLEAN]

\* Both maps hold the same modules in the same states (registry.rs keeps the second for
\* fast access) whenever somebody could read one of them: unless a writer holds both locks.
MapsAgree ==
    (\E l \in Locks : ~WriteHeld(lock[l])) =>
        \A i \in Ids : IF modules[i] = Absent THEN states[i] = Absent
                       ELSE states[i] = modules[i].state

\* What register() and unregister() saw before they gave the lock back still holds when
\* they write, unless another call changed that module in between: no registration is
\* replaced, and no running or missing module removed.
ChecksHoldUnlessOvertaken ==
    [][\A t \in RegistryTasks :
        (rpc[t] = "both" /\ rpc'[t] = "half" /\ ~overtaken[t]) =>
            /\ request[t].op = "register" => modules[request[t].id] = Absent
            /\ request[t].op = "unregister" => states[request[t].id] \notin {Absent, "Running"}
      ]_registryVars

\* A writer of each order holds its first lock and waits for the other's.
Crossed ==
    \E t, u \in RegistryTasks :
        /\ rpc[t] = "second" /\ request[t].op = "set"
        /\ rpc[u] = "second" /\ request[u].op # "set"

\* Every call returns, except that set_state() or set_error() and one of register(),
\* unregister() and clear() can block each other, and then all: the order of the two locks
\* is broken there and nowhere else.
ReturnsUnlessCrossed ==
    \A t \in RegistryTasks : (rpc[t] # "idle") ~> (rpc[t] = "idle" \/ Crossed)

\* The registry's maps, with the types.
RegistryHolds == RegistryTypeOK /\ MapsAgree
===============================================================================
