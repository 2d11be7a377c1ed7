------------------------- MODULE ModuleManagerProofs -------------------------
(***************************************************************************)
(* Theorems about ModuleManager, for any modules, dependencies and number  *)
(* of tasks.  About modules that no two calls have dealt with at once:     *)
(* registry, loader and routes agree (Inv), the loader's record of         *)
(* dependents is right, and none goes while another needs it (DepInv).     *)
(***************************************************************************)
EXTENDS ModuleManager, Integers, TLAPS

-------------------------------------------------------------------------------
(* What is reached over the dependencies *)

AllEdges == Edges(Modules)

\* Fewer edges reach less.
LEMMA ReachedMonotone ==
    ASSUME NEW m \in Modules, NEW E \in SUBSET AllEdges
    PROVE  Reached(E, m) \subseteq Reached(AllEdges, m)
  BY DEF Reached

\* Nothing depends on itself.
LEMMA NoneReachesItself ==
    ASSUME NEW m \in Modules
    PROVE  m \notin Reached(AllEdges, m)
<1>1. PICK rank \in [Modules -> 0..Cardinality(Modules)] :
         \A x \in Modules : \A d \in Deps[x] : rank[d] < rank[x]
  BY ManagerAssumption DEF ManagerAssumption
<1>2. \A x \in Modules : rank[x] \in Int
  OBVIOUS
<1>3. \A x \in Modules : Deps[x] \subseteq Modules
  BY ManagerAssumption DEF ManagerAssumption
<1> DEFINE Below == {x \in Modules : rank[x] < rank[m]}
<1>4. \A e \in AllEdges : e[1] \in Below \cup {m} => e[2] \in Below
  <2> SUFFICES ASSUME NEW x \in Below \cup {m}, NEW d \in Modules, d \in Deps[x]
               PROVE  d \in Below
    BY DEF AllEdges, Edges
  <2>1. rank[d] < rank[x]
    BY <1>1
  <2>2. rank[x] < rank[m] \/ x = m
    OBVIOUS
  <2>3. rank[d] \in Int /\ rank[x] \in Int /\ rank[m] \in Int
    BY <1>2
  <2> QED
    BY <2>1, <2>2, <2>3
<1>5. m \notin Below
  BY <1>2
<1> QED
  BY <1>4, <1>5 DEF Reached

-------------------------------------------------------------------------------
(* The inductive invariant *)

\* What the loader and the routes look like between two steps that change them.
Rested(m) ==
    /\ loaderState[m] \notin {"Loading", "Unloading"}
    /\ m \in routes <=> m \in instances
    /\ loaderState[m] = "Loaded" => m \in instances
    /\ loaderState[m] \in {"none", "Unloaded"} => m \notin instances

\* What a module looks like when no call is at it.
Quiet(m) ==
    /\ Rested(m)
    /\ state[m] = "Loaded" => loaderState[m] = "Loaded"
    /\ state[m] \in {"absent", "Registered", "Unloaded"} => m \notin instances

Entering == {"check", "register", "insert", "list", "build"}
Resolved == {"next", "loading", "info", "admit", "begin", "code", "record",
             "finish", "loaded", "routes"}
QuietPlaces == Entering \cup
    {"resolve", "next", "loading", "allow", "dependents", "ask", "unloading", "start", "stop",
     "inspect", "release", "remove", "prune"}
RestedPlaces == {"starting", "stopping", "info", "admit", "begin", "failed",
                 "permit", "needed", "dismiss"}
RegisteredPlaces == RestedPlaces \cup
    {"loading", "code", "record", "finish", "loaded", "routes",
     "unloadCode", "forget", "dismissed", "unroute", "unloaded"}

\* What it looks like when a call at it has come to place p.
Agrees(m, p) ==
    /\ p \in QuietPlaces => Quiet(m)
    /\ p \in RestedPlaces => Rested(m)
    /\ p \in RegisteredPlaces => Registered(m)
    /\ p = "insert" => ~Registered(m)
    /\ p \in {"release", "remove"} => state[m] = "Unloaded"
    /\ p \in {"code", "record", "finish"} => loaderState[m] = "Loading"
    /\ p \in {"unloadCode", "forget", "dismissed"} => loaderState[m] = "Unloading"
    /\ p \in {"code", "unloadCode"} => (m \in routes <=> m \in instances)
    /\ p \in {"record", "finish", "loaded", "routes"} => m \in instances
    /\ p \in {"loaded", "routes"} => loaderState[m] = "Loaded"
    /\ p = "routes" => state[m] = "Loaded"
    /\ p \in {"forget", "dismissed", "unroute", "unloaded"} => m \notin instances
    /\ p \in {"unroute", "unloaded"} => loaderState[m] = "Unloaded"
    /\ p = "unloaded" => m \notin routes

After(m, p) == IF p = "idle" THEN Quiet(m) ELSE Agrees(m, p)

\* A call is at what it may change, and loads only what its target needs.
CallInv ==
    /\ graph \subseteq AllEdges
    /\ \A t \in Busy : at(t) \in Touches(op(t), target(t))
    /\ \A t \in Tasks : pc[t] \in Entering => at(t) = target(t)
    /\ \A t \in Tasks : pc[t] \in Entering \cup {"resolve"} \cup Resolved
                           => op(t) \in {"load", "install"}
    /\ \A t \in Tasks : pc[t] = "resolve" => at(t) = target(t)
    /\ \A t \in Tasks : pc[t] \in Resolved => todo[t] \subseteq Reached(AllEdges, target(t))

\* Only one call deals with a module that was never raced for.
RaceInv ==
    \A m \in Modules \ raced : \A t, u \in Busy :
        m \in Touches(op(t), target(t)) /\ m \in Touches(op(u), target(u)) => t = u

\* A module that was never raced for is as its call left it.
AgreeInv ==
    \A m \in Modules \ raced :
        /\ (\A t \in Busy : at(t) # m) => Quiet(m)
        /\ \A t \in Busy : at(t) = m => Agrees(m, pc[t])
        /\ \A t \in Busy :
              target(t) = m /\ pc[t] \in Resolved \cup {"resolve"} => Registered(m)

Inv == TypeOK /\ CallInv /\ RaceInv /\ AgreeInv

-------------------------------------------------------------------------------
(* A step of a call *)

DataOK ==
    /\ state \in [Modules -> ModuleStates \cup {"absent"}]
    /\ graph \subseteq AllEdges
    /\ loaderState \in [Modules -> LoaderStates]
    /\ instances \subseteq Modules
    /\ dependents \subseteq Modules \X Modules
    /\ routes \subseteq Modules

\* Task t goes from place l to place k, and stays at the module it is at.
Moves(t, l, k) ==
    /\ Step(t, l, k)
    /\ call' = IF k = "idle" THEN [call EXCEPT ![t] = NoCall] ELSE call
    /\ todo' \in [Tasks -> SUBSET Modules]
    /\ \A u \in Tasks \ {t} : todo'[u] = todo[u]
    /\ k \in Resolved => todo'[t] \subseteq Reached(AllEdges, target(t))

\* Nothing is changed but what belongs to a.
Keeps(a) ==
    \A m \in Modules \ {a} :
        /\ state'[m] = state[m] /\ loaderState'[m] = loaderState[m]
        /\ m \in instances' <=> m \in instances
        /\ m \in routes' <=> m \in routes

\* A load is entered from its beginning.
Flows(l, k) ==
    /\ k \in Entering => l \in Entering
    /\ k = "resolve" => l = "check"
    /\ k \in Resolved => l \in Resolved \cup {"resolve"}

LEMMA CallType ==
    ASSUME TypeOK, NEW t \in Tasks, pc[t] # "idle"
    PROVE  /\ op(t) \in DOMAIN First /\ target(t) \in Modules /\ at(t) \in Modules
           /\ call[t] = [op |-> op(t), target |-> target(t), at |-> at(t)]
  BY DEF TypeOK, op, target, at

LEMMA MovesCalls ==
    ASSUME Inv, NEW t \in Tasks, NEW l \in Places \ {"idle"}, NEW k \in Places,
           Moves(t, l, k)
    PROVE  /\ t \in Busy /\ Busy' = IF k = "idle" THEN Busy \ {t} ELSE Busy
           /\ pc'[t] = k
           /\ \A u \in Tasks \ {t} : pc'[u] = pc[u]
           /\ \A u \in Tasks : u # t \/ k # "idle" =>
                 op(u)' = op(u) /\ target(u)' = target(u) /\ at(u)' = at(u) /\ call'[u] = call[u]
<1>1. pc \in [Tasks -> Places] /\ pc[t] = l /\ pc' = [pc EXCEPT ![t] = k]
  BY DEF Inv, TypeOK, Moves, Step
<1>2. Busy' = {u \in Tasks : pc'[u] # "idle"}
  BY DEF Busy
<1>4. \A u \in Tasks : u # t \/ k # "idle" => call'[u] = call[u]
  BY DEF Inv, TypeOK, Moves
<1>5. \A u \in Tasks : u # t \/ k # "idle" =>
         op(u)' = op(u) /\ target(u)' = target(u) /\ at(u)' = at(u) /\ call'[u] = call[u]
  BY <1>4 DEF op, target, at
<1> QED
  BY <1>1, <1>2, <1>5 DEF Busy

\* A step of a call at a keeps the invariant if it leaves a as its next place
\* has it, and the rest alone.
LEMMA MovesInv ==
    ASSUME Inv, NEW t \in Tasks, NEW l \in Places \ {"idle"}, NEW k \in Places,
           NEW a \in Modules, a = at(t),
           Moves(t, l, k), Flows(l, k), DataOK', Keeps(a),
           a \notin raced => After(a, k)',
           target(t) \notin raced /\ k \in Resolved \cup {"resolve"} => Registered(target(t))'
    PROVE  Inv'
<1>1. /\ t \in Busy /\ Busy' = IF k = "idle" THEN Busy \ {t} ELSE Busy
      /\ pc'[t] = k /\ pc[t] = l
      /\ \A u \in Tasks \ {t} : pc'[u] = pc[u]
      /\ \A u \in Tasks : u # t \/ k # "idle" =>
            op(u)' = op(u) /\ target(u)' = target(u) /\ at(u)' = at(u) /\ call'[u] = call[u]
  BY MovesCalls DEF Moves, Step
<1>2. raced' = raced /\ raced \subseteq Modules
  BY DEF Moves, Step, Inv, TypeOK
<1>3. /\ op(t) \in DOMAIN First /\ target(t) \in Modules
      /\ call[t] = [op |-> op(t), target |-> target(t), at |-> a]
  BY <1>1, CallType DEF Inv, Busy
<1>4. TypeOK'
  <2>1. pc' \in [Tasks -> Places]
    BY DEF Inv, TypeOK, Moves, Step
  <2>2. /\ call' \in [Tasks -> {NoCall} \cup [op : DOMAIN First, target : Modules, at : Modules]]
        /\ \A u \in Tasks : pc'[u] = "idle" <=> call'[u] = NoCall
    <3>1. CASE k = "idle"
      BY <1>1, <3>1 DEF Inv, TypeOK, Moves
    <3>2. CASE k # "idle"
      BY <1>1, <3>2 DEF Inv, TypeOK, Moves
    <3> QED
      BY <3>1, <3>2
  <2>3. ASSUME NEW u \in Tasks, pc'[u] = "next"
        PROVE  target(u)' \notin todo'[u]
    <3>1. CASE u # t
      BY <1>1, <2>3, <3>1 DEF Inv, TypeOK, Moves
    <3>2. CASE u = t
      <4>1. k = "next" /\ target(t)' = target(t)
        BY <1>1, <2>3, <3>2
      <4>2. todo'[t] \subseteq Reached(AllEdges, target(t))
        BY <4>1 DEF Moves, Resolved
      <4> QED
        BY <1>3, <3>2, <4>1, <4>2, NoneReachesItself
    <3> QED
      BY <3>1, <3>2
  <2>4. graph' \subseteq Modules \X Modules
    BY DEF DataOK, AllEdges, Edges
  <2>5. todo' \in [Tasks -> SUBSET Modules]
    BY DEF Moves
  <2> QED
    BY <1>2, <2>1, <2>2, <2>3, <2>4, <2>5 DEF TypeOK, DataOK
<1>5. CallInv'
  <2>1. \A u \in Busy' : at(u)' \in Touches(op(u)', target(u)')
    BY <1>1 DEF Inv, CallInv, Touches, Busy
  <2> QED
    BY <1>1, <2>1 DEF Inv, CallInv, Busy, Moves, Flows, Resolved, Entering, DataOK, AllEdges
<1>6. RaceInv'
  BY <1>1, <1>2 DEF Inv, RaceInv, Busy
<1>7. AgreeInv'
  <2> SUFFICES ASSUME NEW m \in Modules, m \notin raced
               PROVE  /\ (\A u \in Busy' : at(u)' # m) => Quiet(m)'
                      /\ \A u \in Busy' : at(u)' = m => Agrees(m, pc[u])'
                      /\ \A u \in Busy' : target(u)' = m /\ pc'[u] \in Resolved \cup {"resolve"}
                                         => Registered(m)'
    BY <1>2 DEF AgreeInv
  <2>1. \A u \in Busy' : u \in Busy /\ at(u)' = at(u) /\ target(u)' = target(u)
    BY <1>1 DEF Busy
  <2>2. CASE m # a
    <3>1. /\ Quiet(m)' <=> Quiet(m)
          /\ Registered(m)' <=> Registered(m)
      BY <2>2 DEF Keeps, Quiet, Rested, Registered
    <3>2. ASSUME NEW u \in Busy', at(u)' = m
          PROVE  Agrees(m, pc[u])'
      <4>1. u # t /\ u \in Busy /\ at(u) = m /\ pc'[u] = pc[u]
        BY <1>1, <2>1, <2>2, <3>2 DEF Busy
      <4>2. Agrees(m, pc[u])
        BY <4>1 DEF Inv, AgreeInv
      <4> QED
        BY <2>2, <4>1, <4>2, <3>1 DEF Keeps, Agrees, Rested, Registered
    <3>3. (\A u \in Busy' : at(u)' # m) => Quiet(m)'
      <4>1. \A u \in Busy : at(u) = m => u \in Busy' /\ at(u)' = m
        BY <1>1, <2>2 DEF Busy
      <4> QED
        BY <3>1, <4>1 DEF Inv, AgreeInv
    <3>4. ASSUME NEW u \in Busy', target(u)' = m, pc'[u] \in Resolved \cup {"resolve"}
          PROVE  Registered(m)'
      <4>1. CASE u = t
        BY <1>1, <2>1, <3>4, <4>1
      <4>2. CASE u # t
        BY <1>1, <2>1, <3>1, <3>4, <4>2 DEF Inv, AgreeInv, Busy
      <4> QED
        BY <4>1, <4>2
    <3> QED
      BY <3>2, <3>3, <3>4
  <2>3. CASE m = a
    <3>1. ASSUME NEW u \in Busy', at(u)' = a \/ target(u)' = a
          PROVE  u = t
      <4>1. u \in Busy /\ (at(u) = a \/ target(u) = a)
        BY <2>1, <3>1
      <4>2. a \in Touches(op(u), target(u))
        BY <4>1 DEF Inv, CallInv, Touches
      <4>3. a \in Touches(op(t), target(t))
        BY <1>1 DEF Inv, CallInv
      <4> QED
        BY <1>1, <2>3, <4>1, <4>2, <4>3 DEF Inv, RaceInv
    <3>2. After(a, k)'
      BY <2>3
    <3>3. CASE k = "idle"
      BY <1>1, <2>3, <3>1, <3>2, <3>3 DEF After
    <3>4. CASE k # "idle"
      <4>1. t \in Busy' /\ at(t)' = a /\ target(t)' = target(t) /\ pc'[t] = k
        BY <1>1, <3>4
      <4>2. Agrees(a, pc[t])'
        BY <4>1, <3>2, <3>4 DEF After
      <4> QED
        BY <2>3, <3>1, <4>1, <4>2
    <3> QED
      BY <3>3, <3>4
  <2> QED
    BY <2>2, <2>3
<1> QED
  BY <1>4, <1>5, <1>6, <1>7 DEF Inv

\* What the invariant says of a call at place l.
LEMMA AtPlace ==
    ASSUME Inv, NEW t \in Tasks, NEW l \in Places \ {"idle"}, pc[t] = l
    PROVE  /\ t \in Busy /\ at(t) \in Modules /\ target(t) \in Modules
           /\ at(t) \notin raced => Agrees(at(t), l)
           /\ target(t) \notin raced /\ l \in Resolved \cup {"resolve"} => Registered(target(t))
<1>1. t \in Busy
  BY DEF Busy
<1>2. at(t) \in Modules /\ target(t) \in Modules
  BY CallType DEF Inv
<1> QED
  BY <1>1, <1>2 DEF Inv, AgreeInv

LEMMA GoMoves ==
    ASSUME Inv, NEW t \in Tasks, NEW l \in Places \ {"idle"}, NEW k \in Places,
           Go(t, l, k), k \in Resolved => l \in Resolved
    PROVE  Moves(t, l, k)
<1>1. /\ Step(t, l, k)
      /\ call' = IF k = "idle" THEN [call EXCEPT ![t] = NoCall] ELSE call
      /\ todo' = IF k = "idle" THEN [todo EXCEPT ![t] = {}] ELSE todo
  BY DEF Go
<1>2. /\ todo' \in [Tasks -> SUBSET Modules]
      /\ \A u \in Tasks \ {t} : todo'[u] = todo[u]
  BY <1>1 DEF Inv, TypeOK
<1>3. k \in Resolved => todo'[t] \subseteq Reached(AllEdges, target(t))
  BY <1>1 DEF Inv, CallInv, Step, Resolved
<1> QED
  BY <1>1, <1>2, <1>3 DEF Moves

\* A step that changes no data.
LEMMA ReadInv ==
    ASSUME Inv, NEW t \in Tasks, NEW l \in Places \ {"idle"}, NEW k \in Places,
           Moves(t, l, k), UNCHANGED dataVars, Flows(l, k),
           NEW a \in Modules, a = at(t),
           a \notin raced /\ Agrees(a, l) => After(a, k),
           k = "resolve" => Registered(a)
    PROVE  Inv'
<1>1. /\ state' = state /\ graph' = graph /\ loaderState' = loaderState
      /\ instances' = instances /\ dependents' = dependents /\ routes' = routes
  BY DEF dataVars
<1>2. DataOK' /\ Keeps(a)
  BY <1>1 DEF Inv, TypeOK, CallInv, DataOK, Keeps
<1>3. pc[t] = l
  BY DEF Moves, Step
<1>4. a \notin raced => After(a, k)'
  BY <1>1, <1>3, AtPlace DEF After, Agrees, Quiet, Rested, Registered
<1>5. target(t) \notin raced /\ k \in Resolved \cup {"resolve"} => Registered(target(t))'
  <2> SUFFICES ASSUME target(t) \notin raced, k \in Resolved \cup {"resolve"}
               PROVE  state[target(t)] # "absent"
    BY <1>1 DEF Registered, target, Moves, Resolved
  <2>1. CASE k = "resolve"
    BY <1>3, <2>1 DEF Flows, Inv, CallInv, Entering, Registered, Resolved
  <2>2. CASE k \in Resolved
    BY <1>3, <2>2, AtPlace DEF Flows, Registered
  <2> QED
    BY <2>1, <2>2
<1> QED
  BY <1>2, <1>4, <1>5, MovesInv

\* The registry's set_state.
LEMMA SetStateInv ==
    ASSUME Inv, NEW t \in Tasks, NEW l \in Places \ {"idle"}, NEW k \in Places,
           NEW s \in ModuleStates, SetState(t, l, s, k), Flows(l, k), k # "resolve",
           k \in Resolved => l \in Resolved,
           NEW a \in Modules, a = at(t),
           a \notin raced /\ Agrees(a, l) => After(a, k)'
    PROVE  Inv'
<1>1. Moves(t, l, k) /\ pc[t] = l
  BY GoMoves DEF SetState, Go, Step
<1>2. /\ state' = [state EXCEPT ![a] = s] /\ graph' = graph /\ loaderState' = loaderState
      /\ instances' = instances /\ dependents' = dependents /\ routes' = routes
  BY DEF SetState, loaderVars
<1>3. DataOK' /\ Keeps(a)
  BY <1>2 DEF Inv, TypeOK, CallInv, DataOK, Keeps
<1>4. a \notin raced => After(a, k)'
  BY <1>1, AtPlace
<1>5. target(t) \notin raced /\ k \in Resolved \cup {"resolve"} => Registered(target(t))'
  <2> SUFFICES ASSUME target(t) \notin raced, k \in Resolved
               PROVE  state'[target(t)] # "absent"
    BY <1>1 DEF Registered, target, Moves, Resolved
  <2>1. Registered(target(t)) /\ target(t) \in Modules
    BY <1>1, AtPlace
  <2> QED
    BY <1>2, <2>1 DEF Registered, Inv, TypeOK, ModuleStates
<1> QED
  BY <1>1, <1>3, <1>4, <1>5, MovesInv

\* A step of the loader or of the route table: the registry is unchanged.
LEMMA LoaderInv ==
    ASSUME Inv, NEW t \in Tasks, NEW l \in Places \ {"idle"}, NEW k \in Places,
           Go(t, l, k), Flows(l, k), k # "resolve",
           k \in Resolved => l \in Resolved,
           NEW a \in Modules, a = at(t), state' = state, graph' = graph, DataOK', Keeps(a),
           a \notin raced /\ Agrees(a, l) => After(a, k)'
    PROVE  Inv'
<1>1. Moves(t, l, k) /\ pc[t] = l
  BY GoMoves DEF Go, Step
<1>2. a \notin raced => After(a, k)'
  BY <1>1, AtPlace
<1>3. target(t) \notin raced /\ k \in Resolved \cup {"resolve"} => Registered(target(t))'
  <2> SUFFICES ASSUME target(t) \notin raced, k \in Resolved
               PROVE  state'[target(t)] # "absent"
    BY <1>1 DEF Registered, target, Moves, Resolved
  <2> QED
    BY <1>1, AtPlace DEF Registered
<1> QED
  BY <1>1, <1>2, <1>3, MovesInv

LEMMA ReadGo ==
    ASSUME Inv, NEW t \in Tasks, NEW l \in Places \ {"idle"}, NEW k \in Places,
           Go(t, l, k), UNCHANGED dataVars, Flows(l, k),
           k \in Resolved => l \in Resolved,
           Agrees(at(t), l) => After(at(t), k),
           k = "resolve" => Registered(at(t))
    PROVE  Inv'
<1>1. Moves(t, l, k) /\ at(t) \in Modules
  BY GoMoves, AtPlace DEF Go, Step
<1> QED
  BY <1>1, ReadInv

\* A step of the loader's set_state.
LEMMA SetLoaderStateInv ==
    ASSUME Inv, NEW t \in Tasks, NEW l \in Places \ {"idle"}, NEW k \in Places,
           NEW s \in LoaderStates, SetLoaderState(t, l, s, k), Flows(l, k), k # "resolve",
           k \in Resolved => l \in Resolved,
           NEW a \in Modules, a = at(t), Agrees(a, l) => After(a, k)'
    PROVE  Inv'
<1>1. Go(t, l, k) /\ state' = state /\ graph' = graph
  BY DEF SetLoaderState
<1>2. DataOK' /\ Keeps(a)
  BY DEF SetLoaderState, Inv, TypeOK, CallInv, DataOK, Keeps
<1> QED
  BY <1>1, <1>2, LoaderInv

\* A load goes to the next module it has to load.
LEMMA MoveAtInv ==
    ASSUME Inv, NEW t \in Tasks, NEW b \in Modules, Step(t, "next", "loading"),
           call' = [call EXCEPT ![t].at = b],
           todo' \in [Tasks -> SUBSET Modules], todo'[t] \subseteq todo[t],
           \A u \in Tasks \ {t} : todo'[u] = todo[u],
           UNCHANGED dataVars,
           b \in Touches(op(t), target(t)), b \notin raced => Registered(b)
    PROVE  Inv'
<1>1. /\ pc' = [pc EXCEPT ![t] = "loading"] /\ pc[t] = "next" /\ raced' = raced
      /\ state' = state /\ graph' = graph /\ loaderState' = loaderState
      /\ instances' = instances /\ dependents' = dependents /\ routes' = routes
  BY DEF Step, dataVars
<1>2. /\ t \in Busy /\ Busy' = Busy
      /\ pc'[t] = "loading" /\ \A u \in Tasks \ {t} : pc'[u] = pc[u]
  BY <1>1 DEF Busy, Inv, TypeOK
<1>3. /\ op(t) \in DOMAIN First /\ target(t) \in Modules /\ at(t) \in Modules
      /\ call[t] = [op |-> op(t), target |-> target(t), at |-> at(t)]
  BY <1>1, CallType DEF Inv
<1>4. /\ call' \in [Tasks -> {NoCall} \cup [op : DOMAIN First, target : Modules, at : Modules]]
      /\ call'[t] = [op |-> op(t), target |-> target(t), at |-> b]
      /\ \A u \in Tasks \ {t} : call'[u] = call[u]
  BY <1>3 DEF Inv, TypeOK
<1>5. /\ op(t)' = op(t) /\ target(t)' = target(t) /\ at(t)' = b
      /\ \A u \in Tasks \ {t} : op(u)' = op(u) /\ target(u)' = target(u) /\ at(u)' = at(u)
  BY <1>4 DEF op, target, at
<1>6. TypeOK'
  <2>1. \A u \in Tasks : pc'[u] = "idle" <=> call'[u] = NoCall
    <3>1. target(t) # Nothing
      BY <1>3, ManagerAssumption DEF ManagerAssumption
    <3> QED
      BY <1>2, <1>4, <3>1 DEF Inv, TypeOK, NoCall
  <2>2. \A u \in Tasks : pc'[u] = "next" => target(u)' \notin todo'[u]
    BY <1>2, <1>5 DEF Inv, TypeOK
  <2>3. pc' \in [Tasks -> Places]
    BY <1>1 DEF Inv, TypeOK, Places
  <2> QED
    BY <1>1, <1>4, <2>1, <2>2, <2>3 DEF Inv, TypeOK
<1>7. CallInv'
  <2>1. \A u \in Busy' : at(u)' \in Touches(op(u)', target(u)')
    BY <1>2, <1>5 DEF Inv, CallInv, Touches, Busy
  <2> QED
    BY <1>1, <1>2, <1>5, <2>1 DEF Inv, CallInv, Resolved, Entering, AllEdges
<1>8. RaceInv'
  BY <1>1, <1>2, <1>5 DEF Inv, RaceInv, Busy
<1>9. AgreeInv'
  <2> SUFFICES ASSUME NEW m \in Modules, m \notin raced
               PROVE  /\ (\A u \in Busy : at(u)' # m) => Quiet(m)
                      /\ \A u \in Busy \ {t} : at(u) = m => Agrees(m, pc[u])
                      /\ b = m => Agrees(m, "loading")
                      /\ \A u \in Busy : target(u) = m /\ pc'[u] \in Resolved \cup {"resolve"}
                                         => Registered(m)
    <3>1. \A x : /\ Quiet(x)' <=> Quiet(x)
                 /\ Registered(x)' <=> Registered(x)
                 /\ \A p : Agrees(x, p)' <=> Agrees(x, p)
      BY <1>1 DEF Agrees, Quiet, Rested, Registered
    <3> QED
      BY <1>1, <1>2, <1>5, <3>1 DEF AgreeInv, Busy
  <2>1. at(t) = m => Quiet(m)
    BY <1>1, <1>2 DEF Inv, AgreeInv, Agrees, QuietPlaces
  <2>2. (\A u \in Busy : at(u)' # m) => Quiet(m)
    BY <1>5, <2>1 DEF Inv, AgreeInv, Busy
  <2>3. \A u \in Busy \ {t} : at(u) = m => Agrees(m, pc[u])
    BY DEF Inv, AgreeInv
  <2>4. b = m => Agrees(m, "loading")
    <3>1. \A u \in Busy \ {t} : b = m => at(u) # m
      BY <1>2 DEF Inv, CallInv, RaceInv
    <3>2. b = m => Quiet(m)
      BY <2>1, <3>1 DEF Inv, AgreeInv
    <3> QED
      BY <3>2 DEF Agrees, QuietPlaces, RestedPlaces, RegisteredPlaces
  <2>5. \A u \in Busy : target(u) = m /\ pc'[u] \in Resolved \cup {"resolve"} => Registered(m)
    BY <1>1, <1>2 DEF Inv, AgreeInv, Busy, Resolved
  <2> QED
    BY <2>2, <2>3, <2>4, <2>5
<1> QED
  BY <1>6, <1>7, <1>8, <1>9 DEF Inv

LEMMA LoadInv ==
    ASSUME Inv, NEW t \in Tasks, LoadStep(t)
    PROVE  Inv'
<1> USE DEF Places, Flows, Entering, Resolved, After, Agrees,
            QuietPlaces, RestedPlaces, RegisteredPlaces
<1>1. CASE CheckLoad(t)
  <2> DEFINE k == IF CanLoad(state[at(t)]) THEN "resolve" ELSE "idle"
  <2>1. Go(t, "check", k) /\ UNCHANGED dataVars
    BY <1>1 DEF CheckLoad
  <2>2. k = "resolve" => Registered(at(t))
    BY DEF CanLoad, Registered
  <2> QED
    BY <2>1, <2>2, ReadGo
<1>2. CASE Resolve(t)
  <2>1. pc[t] = "resolve" /\ target(t) \in Modules
    BY <1>2, AtPlace DEF Resolve, Step
  <2>2. Moves(t, "resolve", "next")
    <3>1. todo' = [todo EXCEPT ![t] = Reached(graph, target(t))]
      BY <1>2 DEF Resolve
    <3>2. Reached(graph, target(t)) \subseteq Reached(AllEdges, target(t))
      BY <2>1, ReachedMonotone DEF Inv, CallInv
    <3>3. Reached(graph, target(t)) \subseteq Modules
      BY DEF Reached
    <3> QED
      BY <1>2, <3>1, <3>2, <3>3 DEF Resolve, Moves, Inv, TypeOK
  <2> QED
    BY <1>2, <2>1, <2>2, AtPlace, ReadInv DEF Resolve
<1>3. CASE NextDependency(t)
  <2>1. PICK d \in todo[t] :
          /\ todo' = [todo EXCEPT ![t] = @ \ {d}]
          /\ \/ /\ CanLoad(state[d])
                /\ call' = [call EXCEPT ![t].at = d]
                /\ Step(t, "next", "loading")
             \/ ~CanLoad(state[d]) /\ Step(t, "next", "next") /\ UNCHANGED call
    BY <1>3 DEF NextDependency
  <2>2. /\ UNCHANGED dataVars /\ pc[t] = "next" /\ at(t) \in Modules /\ target(t) \in Modules
    BY <1>3, AtPlace DEF NextDependency
  <2>3. /\ todo' \in [Tasks -> SUBSET Modules] /\ todo'[t] \subseteq todo[t]
        /\ \A u \in Tasks \ {t} : todo'[u] = todo[u]
        /\ todo[t] \subseteq Reached(AllEdges, target(t)) /\ d \in Modules
    BY <2>1, <2>2 DEF Inv, TypeOK, CallInv
  <2>4. CASE CanLoad(state[d])
    <3>1. d \in Touches(op(t), target(t))
      BY <2>2, <2>3 DEF Touches, AllEdges, Inv, CallInv
    <3>2. Registered(d)
      BY <2>4 DEF CanLoad, Registered
    <3> QED
      BY <2>1, <2>2, <2>3, <2>4, <3>1, <3>2, MoveAtInv
  <2>5. CASE ~CanLoad(state[d])
    <3>1. Moves(t, "next", "next")
      BY <2>1, <2>3, <2>5 DEF Moves
    <3> QED
      BY <2>2, <3>1, AtPlace, ReadInv
  <2> QED
    BY <2>4, <2>5
<1>4. CASE LastTarget(t)
  <2>1. pc[t] = "next" /\ target(t) \in Modules
    BY <1>4, AtPlace DEF LastTarget, Step
  <2>2. target(t) \in Touches(op(t), target(t))
    BY DEF Touches
  <2>3. target(t) \notin raced => Registered(target(t))
    BY <2>1, AtPlace
  <2>4. todo' \in [Tasks -> SUBSET Modules] /\ todo' = todo
    BY <1>4 DEF LastTarget, Inv, TypeOK
  <2> QED
    BY <1>4, <2>1, <2>2, <2>3, <2>4, MoveAtInv DEF LastTarget
<1>5. CASE SetLoading(t)
  <2>1. SetState(t, "loading", "Loading", "info") /\ at(t) \in Modules
    BY <1>5, AtPlace DEF SetLoading, SetState, Go, Step
  <2>2. Agrees(at(t), "loading") => \A a : a = at(t) => After(a, "info")'
    BY <2>1 DEF SetState, loaderVars, Quiet, Rested, Registered, Inv, TypeOK
  <2> QED
    BY <2>1, <2>2, SetStateInv DEF ModuleStates
<1>6. CASE GetInfo(t)
  <2>1. Go(t, "info", "admit") /\ UNCHANGED dataVars
    BY <1>6 DEF GetInfo
  <2> QED
    BY <2>1, ReadGo
<1>7. CASE LoaderAdmits(t)
  <2>1. Go(t, "admit", "begin") /\ UNCHANGED dataVars
    BY <1>7 DEF LoaderAdmits
  <2> QED
    BY <2>1, ReadGo
<1>8. CASE LoaderRefuses(t)
  <2>1. Go(t, "admit", "failed") /\ UNCHANGED dataVars
    BY <1>8 DEF LoaderRefuses
  <2> QED
    BY <2>1, ReadGo
<1>9. CASE LoaderBegins(t)
  <2>1. SetLoaderState(t, "begin", "Loading", "code") /\ at(t) \in Modules
    BY <1>9, AtPlace DEF LoaderBegins, SetLoaderState, Go, Step
  <2>2. Agrees(at(t), "begin") => \A a : a = at(t) => After(a, "code")'
    BY <2>1 DEF SetLoaderState, Rested, Registered, Inv, TypeOK
  <2> QED
    BY <2>1, <2>2, SetLoaderStateInv DEF LoaderStates
<1>10. CASE LoadCode(t)
  <2>1. Go(t, "code", "record") /\ at(t) \in Modules
    BY <1>10, AtPlace DEF LoadCode, Go, Step
  <2>2. DataOK' /\ Keeps(at(t)) /\ state' = state /\ graph' = graph
    BY <1>10, <2>1 DEF LoadCode, loaderVars, DataOK, Keeps, Inv, TypeOK, CallInv
  <2>3. Agrees(at(t), "code") => \A a : a = at(t) => After(a, "record")'
    BY <1>10, <2>1 DEF LoadCode, loaderVars, Quiet, Rested, Registered
  <2> QED
    BY <2>1, <2>2, <2>3, LoaderInv
<1>11. CASE LoadCodeFails(t)
  <2>1. SetLoaderState(t, "code", "Error", "failed") /\ at(t) \in Modules
    BY <1>11, AtPlace DEF LoadCodeFails, SetLoaderState, Go, Step
  <2>2. Agrees(at(t), "code") => \A a : a = at(t) => After(a, "failed")'
    BY <2>1 DEF SetLoaderState, Quiet, Rested, Registered, Inv, TypeOK
  <2> QED
    BY <2>1, <2>2, SetLoaderStateInv DEF LoaderStates
<1>12. CASE RecordDependencies(t)
  <2>1. Go(t, "record", "finish") /\ at(t) \in Modules
    BY <1>12, AtPlace DEF RecordDependencies, Go, Step
  <2>2. DataOK' /\ Keeps(at(t)) /\ state' = state /\ graph' = graph
    BY <1>12, <2>1, ManagerAssumption DEF RecordDependencies, loaderVars, DataOK, Keeps,
                                              Inv, TypeOK, CallInv, ManagerAssumption
  <2>3. Agrees(at(t), "record") => \A a : a = at(t) => After(a, "finish")'
    BY <1>12, <2>1 DEF RecordDependencies, loaderVars, Quiet, Rested, Registered
  <2> QED
    BY <2>1, <2>2, <2>3, LoaderInv
<1>13. CASE LoaderFinishes(t)
  <2>1. SetLoaderState(t, "finish", "Loaded", "loaded") /\ at(t) \in Modules
    BY <1>13, AtPlace DEF LoaderFinishes, SetLoaderState, Go, Step
  <2>2. Agrees(at(t), "finish") => \A a : a = at(t) => After(a, "loaded")'
    BY <2>1 DEF SetLoaderState, Quiet, Rested, Registered, Inv, TypeOK
  <2> QED
    BY <2>1, <2>2, SetLoaderStateInv DEF LoaderStates
<1>14. CASE SetLoaded(t)
  <2>1. SetState(t, "loaded", "Loaded", "routes") /\ at(t) \in Modules
    BY <1>14, AtPlace DEF SetLoaded, SetState, Go, Step
  <2>2. Agrees(at(t), "loaded") => \A a : a = at(t) => After(a, "routes")'
    BY <2>1 DEF SetState, loaderVars, Quiet, Rested, Registered, Inv, TypeOK
  <2> QED
    BY <2>1, <2>2, SetStateInv DEF ModuleStates
<1>15. CASE RegisterRoutes(t)
  <2>1. PICK k \in {"next", "start", "idle"} : k = AfterRoutes(t)
    BY DEF AfterRoutes
  <2>2. Go(t, "routes", k) /\ at(t) \in Modules
    BY <1>15, <2>1, AtPlace DEF RegisterRoutes, Go, Step
  <2>3. DataOK' /\ Keeps(at(t)) /\ state' = state /\ graph' = graph
    BY <1>15, <2>2 DEF RegisterRoutes, loaderVars, DataOK, Keeps, Inv, TypeOK, CallInv
  <2>4. Agrees(at(t), "routes") => \A a : a = at(t) => After(a, k)'
    BY <1>15, <2>2 DEF RegisterRoutes, loaderVars, Quiet, Rested, Registered
  <2> QED
    BY <2>2, <2>3, <2>4, LoaderInv
<1> QED
  BY <1>1, <1>2, <1>3, <1>4, <1>5, <1>6, <1>7, <1>8, <1>9, <1>10, <1>11, <1>12, <1>13,
     <1>14, <1>15 DEF LoadStep

LEMMA UnloadInv ==
    ASSUME Inv, NEW t \in Tasks, UnloadStep(t)
    PROVE  Inv'
<1> USE DEF Places, Flows, Entering, Resolved, After, Agrees,
            QuietPlaces, RestedPlaces, RegisteredPlaces
<1>1. CASE CheckUnload(t)
  <2> DEFINE k == IF CanUnload(state[at(t)]) THEN "dependents" ELSE "idle"
  <2>1. Go(t, "allow", k) /\ UNCHANGED dataVars
    BY <1>1 DEF CheckUnload
  <2> QED
    BY <2>1, ReadGo
<1>2. CASE FindDependents(t)
  <2>1. Moves(t, "dependents", "ask") /\ at(t) \in Modules
    BY <1>2, AtPlace DEF FindDependents, Step, Moves, Inv, TypeOK
  <2> QED
    BY <1>2, <2>1, ReadInv DEF FindDependents
<1>3. CASE AskDependent(t)
  <2>1. at(t) \in Modules
    BY <1>3, AtPlace DEF AskDependent, Step, Go
  <2>2. CASE Go(t, "ask", "idle")
    BY <1>3, <2>2, ReadGo DEF AskDependent
  <2>3. CASE ~Go(t, "ask", "idle")
    <3>1. Moves(t, "ask", "ask")
      BY <1>3, <2>3 DEF AskDependent, Moves, Inv, TypeOK
    <3> QED
      BY <1>3, <2>1, <3>1, ReadInv DEF AskDependent
  <2> QED
    BY <2>2, <2>3
<1>4. CASE AllAsked(t)
  <2>1. Go(t, "ask", "unloading") /\ UNCHANGED dataVars
    BY <1>4 DEF AllAsked
  <2> QED
    BY <2>1, ReadGo
<1>5. CASE SetUnloading(t)
  <2>1. SetState(t, "unloading", "Unloading", "permit") /\ at(t) \in Modules
    BY <1>5, AtPlace DEF SetUnloading, SetState, Go, Step
  <2>2. Agrees(at(t), "unloading") => \A a : a = at(t) => After(a, "permit")'
    BY <2>1 DEF SetState, loaderVars, Quiet, Rested, Registered, Inv, TypeOK
  <2> QED
    BY <2>1, <2>2, SetStateInv DEF ModuleStates
<1>6. CASE LoaderChecks(t)
  <2> DEFINE k == IF CanUnload(loaderState[at(t)]) THEN "needed" ELSE "failed"
  <2>1. Go(t, "permit", k) /\ UNCHANGED dataVars
    BY <1>6 DEF LoaderChecks
  <2> QED
    BY <2>1, ReadGo
<1>7. CASE LoaderAsks(t)
  <2> DEFINE k == IF \E m \in Modules : <<at(t), m>> \in dependents THEN "failed" ELSE "dismiss"
  <2>1. Go(t, "needed", k) /\ UNCHANGED dataVars
    BY <1>7 DEF LoaderAsks
  <2>2. k \in {"failed", "dismiss"}
    OBVIOUS
  <2> HIDE DEF k
  <2> QED
    BY <2>1, <2>2, ReadGo
<1>8. CASE LoaderDismisses(t)
  <2>1. SetLoaderState(t, "dismiss", "Unloading", "unloadCode") /\ at(t) \in Modules
    BY <1>8, AtPlace DEF LoaderDismisses, SetLoaderState, Go, Step
  <2>2. Agrees(at(t), "dismiss") => \A a : a = at(t) => After(a, "unloadCode")'
    BY <2>1 DEF SetLoaderState, Quiet, Rested, Registered, Inv, TypeOK
  <2> QED
    BY <2>1, <2>2, SetLoaderStateInv DEF LoaderStates
<1>9. CASE UnloadCode(t)
  <2>1. Go(t, "unloadCode", "forget") /\ at(t) \in Modules
    BY <1>9, AtPlace DEF UnloadCode, Go, Step
  <2>2. DataOK' /\ Keeps(at(t)) /\ state' = state /\ graph' = graph
    BY <1>9, <2>1 DEF UnloadCode, loaderVars, DataOK, Keeps, Inv, TypeOK, CallInv
  <2>3. Agrees(at(t), "unloadCode") => \A a : a = at(t) => After(a, "forget")'
    BY <1>9, <2>1 DEF UnloadCode, loaderVars, Quiet, Rested, Registered
  <2> QED
    BY <2>1, <2>2, <2>3, LoaderInv
<1>10. CASE UnloadCodeFails(t)
  <2>1. SetLoaderState(t, "unloadCode", "Error", "failed") /\ at(t) \in Modules
    BY <1>10, AtPlace DEF UnloadCodeFails, SetLoaderState, Go, Step
  <2>2. Agrees(at(t), "unloadCode") => \A a : a = at(t) => After(a, "failed")'
    BY <2>1 DEF SetLoaderState, Quiet, Rested, Registered, Inv, TypeOK
  <2> QED
    BY <2>1, <2>2, SetLoaderStateInv DEF LoaderStates
<1>11. CASE RemoveDependencies(t)
  <2>1. Go(t, "forget", "dismissed") /\ at(t) \in Modules
    BY <1>11, AtPlace DEF RemoveDependencies, Go, Step
  <2>2. DataOK' /\ Keeps(at(t)) /\ state' = state /\ graph' = graph
    BY <1>11, <2>1 DEF RemoveDependencies, loaderVars, DataOK, Keeps, Inv, TypeOK, CallInv
  <2>3. Agrees(at(t), "forget") => \A a : a = at(t) => After(a, "dismissed")'
    BY <1>11, <2>1 DEF RemoveDependencies, loaderVars, Quiet, Rested, Registered
  <2> QED
    BY <2>1, <2>2, <2>3, LoaderInv
<1>12. CASE LoaderUnloaded(t)
  <2>1. SetLoaderState(t, "dismissed", "Unloaded", "unroute") /\ at(t) \in Modules
    BY <1>12, AtPlace DEF LoaderUnloaded, SetLoaderState, Go, Step
  <2>2. Agrees(at(t), "dismissed") => \A a : a = at(t) => After(a, "unroute")'
    BY <2>1 DEF SetLoaderState, Quiet, Rested, Registered, Inv, TypeOK
  <2> QED
    BY <2>1, <2>2, SetLoaderStateInv DEF LoaderStates
<1>13. CASE RemoveRoutes(t)
  <2>1. Go(t, "unroute", "unloaded") /\ at(t) \in Modules
    BY <1>13, AtPlace DEF RemoveRoutes, Go, Step
  <2>2. DataOK' /\ Keeps(at(t)) /\ state' = state /\ graph' = graph
    BY <1>13, <2>1 DEF RemoveRoutes, loaderVars, DataOK, Keeps, Inv, TypeOK, CallInv
  <2>3. Agrees(at(t), "unroute") => \A a : a = at(t) => After(a, "unloaded")'
    BY <1>13, <2>1 DEF RemoveRoutes, loaderVars, Quiet, Rested, Registered
  <2> QED
    BY <2>1, <2>2, <2>3, LoaderInv
<1>14. CASE SetUnloaded(t)
  <2>1. PICK k \in {"release", "idle"} :
          k = IF op(t) = "uninstall" THEN "release" ELSE "idle"
    OBVIOUS
  <2>2. SetState(t, "unloaded", "Unloaded", k) /\ at(t) \in Modules
    BY <1>14, <2>1, AtPlace DEF SetUnloaded, SetState, Go, Step
  <2>3. Agrees(at(t), "unloaded") => \A a : a = at(t) => After(a, k)'
    BY <2>2 DEF SetState, loaderVars, Quiet, Rested, Registered, Inv, TypeOK
  <2> QED
    BY <2>2, <2>3, SetStateInv DEF ModuleStates
<1> QED
  BY <1>1, <1>2, <1>3, <1>4, <1>5, <1>6, <1>7, <1>8, <1>9, <1>10, <1>11, <1>12,
     <1>13, <1>14 DEF UnloadStep

LEMMA RunInv ==
    ASSUME Inv, NEW t \in Tasks, RunStep(t)
    PROVE  Inv'
<1> USE DEF Places, Flows, Entering, Resolved, After, Agrees,
            QuietPlaces, RestedPlaces, RegisteredPlaces
<1>1. CASE SetStarting(t)
  <2>1. SetState(t, "start", "Starting", "starting") /\ at(t) \in Modules
    BY <1>1, AtPlace DEF SetStarting, SetState, Go, Step
  <2>2. Agrees(at(t), "start") => \A a : a = at(t) => After(a, "starting")'
    BY <2>1 DEF SetState, loaderVars, Quiet, Rested, Registered, Inv, TypeOK
  <2> QED
    BY <2>1, <2>2, SetStateInv DEF ModuleStates
<1>2. CASE SetRunning(t)
  <2>1. SetState(t, "starting", "Running", "idle") /\ at(t) \in Modules
    BY <1>2, AtPlace DEF SetRunning, SetState, Go, Step
  <2>2. Agrees(at(t), "starting") => \A a : a = at(t) => After(a, "idle")'
    BY <2>1 DEF SetState, loaderVars, Quiet, Rested, Registered, Inv, TypeOK
  <2> QED
    BY <2>1, <2>2, SetStateInv DEF ModuleStates
<1>3. CASE SetStopping(t)
  <2>1. SetState(t, "stop", "Stopping", "stopping") /\ at(t) \in Modules
    BY <1>3, AtPlace DEF SetStopping, SetState, Go, Step
  <2>2. Agrees(at(t), "stop") => \A a : a = at(t) => After(a, "stopping")'
    BY <2>1 DEF SetState, loaderVars, Quiet, Rested, Registered, Inv, TypeOK
  <2> QED
    BY <2>1, <2>2, SetStateInv DEF ModuleStates
<1>4. CASE SetStopped(t)
  <2>1. PICK k \in {"start", "allow", "idle"} :
          k = CASE op(t) = "restart" -> "start"
                [] op(t) = "uninstall" -> "allow"
                [] OTHER -> "idle"
    OBVIOUS
  <2>2. SetState(t, "stopping", "Stopped", k) /\ at(t) \in Modules
    BY <1>4, <2>1, AtPlace DEF SetStopped, SetState, Go, Step
  <2>3. Agrees(at(t), "stopping") => \A a : a = at(t) => After(a, k)'
    BY <2>2 DEF SetState, loaderVars, Quiet, Rested, Registered, Inv, TypeOK
  <2> QED
    BY <2>2, <2>3, SetStateInv DEF ModuleStates
<1> QED
  BY <1>1, <1>2, <1>3, <1>4 DEF RunStep

LEMMA InstallInv ==
    ASSUME Inv, NEW t \in Tasks, InstallStep(t)
    PROVE  Inv'
<1> USE DEF Places, Flows, Entering, Resolved, After, Agrees,
            QuietPlaces, RestedPlaces, RegisteredPlaces
<1>1. CASE CheckId(t)
  <2> DEFINE k == IF Registered(at(t)) THEN "idle" ELSE "insert"
  <2>1. Go(t, "register", k) /\ UNCHANGED dataVars
    BY <1>1 DEF CheckId
  <2> QED
    BY <2>1, ReadGo
<1>2. CASE Insert(t)
  <2>1. Go(t, "insert", "list") /\ at(t) \in Modules
    BY <1>2, AtPlace DEF Insert, Go, Step
  <2>2. Moves(t, "insert", "list")
    BY <2>1, GoMoves
  <2>3. DataOK' /\ Keeps(at(t))
    BY <1>2, <2>1 DEF Insert, loaderVars, DataOK, Keeps, Inv, TypeOK, CallInv, ModuleStates
  <2>4. Agrees(at(t), "insert") => \A a : a = at(t) => After(a, "list")'
    BY <1>2, <2>1 DEF Insert, loaderVars, Quiet, Rested, Registered, Inv, TypeOK
  <2>5. at(t) \notin raced => Agrees(at(t), "insert")
    BY <2>1, AtPlace DEF Go, Step
  <2> QED
    BY <2>1, <2>2, <2>3, <2>4, <2>5, MovesInv
<1>3. CASE ListModules(t)
  <2>1. Moves(t, "list", "build") /\ at(t) \in Modules
    BY <1>3, AtPlace DEF ListModules, Step, Moves, Inv, TypeOK
  <2> QED
    BY <1>3, <2>1, ReadInv DEF ListModules
<1>4. CASE BuildGraph(t)
  <2>1. Moves(t, "build", "check") /\ at(t) \in Modules /\ pc[t] = "build"
    BY <1>4, AtPlace DEF BuildGraph, Step, Moves, Inv, TypeOK
  <2>2. /\ state' = state /\ loaderState' = loaderState /\ instances' = instances
        /\ dependents' = dependents /\ routes' = routes /\ graph' = Edges(todo[t])
    BY <1>4 DEF BuildGraph, loaderVars
  <2>3. graph' \subseteq AllEdges
    BY <2>2 DEF Edges, AllEdges, Inv, TypeOK
  <2>4. DataOK' /\ Keeps(at(t))
    BY <2>2, <2>3 DEF DataOK, Keeps, Inv, TypeOK
  <2>5. at(t) \notin raced => \A a : a = at(t) => After(a, "check")'
    <3>1. at(t) \notin raced => Quiet(at(t))
      BY <2>1, AtPlace
    <3> QED
      BY <2>2, <3>1 DEF Quiet, Rested
  <2> QED
    BY <2>1, <2>4, <2>5, MovesInv
<1>5. CASE Inspect(t)
  <2> DEFINE k == IF state[at(t)] = "Running" THEN "stop" ELSE "allow"
  <2>1. Go(t, "inspect", k) /\ UNCHANGED dataVars
    BY <1>5 DEF Inspect
  <2> QED
    BY <2>1, ReadGo
<1>6. CASE CheckUnregister(t)
  <2> DEFINE k == IF state[at(t)] \in {"absent", "Running"} THEN "idle" ELSE "remove"
  <2>1. Go(t, "release", k) /\ UNCHANGED dataVars
    BY <1>6 DEF CheckUnregister
  <2> QED
    BY <2>1, ReadGo
<1>7. CASE Unregister(t)
  <2>1. Go(t, "remove", "prune") /\ at(t) \in Modules
    BY <1>7, AtPlace DEF Unregister, Go, Step
  <2>2. Moves(t, "remove", "prune")
    BY <2>1, GoMoves
  <2>3. DataOK' /\ Keeps(at(t))
    BY <1>7, <2>1 DEF Unregister, loaderVars, DataOK, Keeps, Inv, TypeOK, CallInv
  <2>4. Agrees(at(t), "remove") => \A a : a = at(t) => After(a, "prune")'
    BY <1>7, <2>1 DEF Unregister, loaderVars, Quiet, Rested, Registered, Inv, TypeOK
  <2>5. at(t) \notin raced => Agrees(at(t), "remove")
    BY <2>1, AtPlace DEF Go, Step
  <2> QED
    BY <2>1, <2>2, <2>3, <2>4, <2>5, MovesInv
<1>8. CASE PruneGraph(t)
  <2>1. Go(t, "prune", "idle") /\ at(t) \in Modules
    BY <1>8, AtPlace DEF PruneGraph, Go, Step
  <2>2. Moves(t, "prune", "idle")
    BY <2>1, GoMoves
  <2>3. /\ state' = state /\ loaderState' = loaderState /\ instances' = instances
        /\ dependents' = dependents /\ routes' = routes /\ graph' \subseteq graph
    BY <1>8 DEF PruneGraph, loaderVars
  <2>4. DataOK' /\ Keeps(at(t))
    BY <2>3 DEF DataOK, Keeps, Inv, TypeOK, CallInv
  <2>5. at(t) \notin raced => \A a : a = at(t) => After(a, "idle")'
    <3>1. at(t) \notin raced => Quiet(at(t))
      BY <2>1, AtPlace DEF Go, Step
    <3> QED
      BY <2>3, <3>1 DEF Quiet, Rested
  <2> QED
    BY <2>1, <2>2, <2>4, <2>5, MovesInv
<1> QED
  BY <1>1, <1>2, <1>3, <1>4, <1>5, <1>6, <1>7, <1>8 DEF InstallStep

\* set_state, set_error and get_module of what is gone.
LEMMA NotFoundInv ==
    ASSUME Inv, NEW t \in Tasks, NotFound(t)
    PROVE  Inv'
<1>1. PICK l \in {"loading", "info", "loaded", "failed", "unloading", "unloaded",
                  "start", "starting", "stop", "stopping"} : pc[t] = l
  BY DEF NotFound
<1>2. Go(t, l, "idle") /\ UNCHANGED dataVars /\ ~Registered(at(t))
  BY <1>1 DEF NotFound
<1>3. Agrees(at(t), l) => After(at(t), "idle")
  BY <1>2 DEF Agrees, After, QuietPlaces, RestedPlaces, RegisteredPlaces
<1> QED
  BY <1>1, <1>2, <1>3, ReadGo DEF Places, Flows, Entering, Resolved

LEMMA SetErrorInv ==
    ASSUME Inv, NEW t \in Tasks, SetError(t)
    PROVE  Inv'
<1>1. SetState(t, "failed", "Error", "idle") /\ at(t) \in Modules
  BY AtPlace DEF SetError, SetState, Go, Step, Places
<1>2. Agrees(at(t), "failed") => \A a : a = at(t) => After(a, "idle")'
  BY <1>1 DEF SetState, loaderVars, Quiet, Rested, Registered, Inv, TypeOK, After, Agrees,
              RestedPlaces
<1> QED
  BY <1>1, <1>2, SetStateInv DEF ModuleStates, Places, Flows, Entering, Resolved

\* A call begins: what it may change while another call may change it too is
\* raced for, and the rest is quiet.
LEMMA CallStepInv ==
    ASSUME Inv, NEW t \in Tasks, NEW o \in DOMAIN First, NEW m \in Modules, Call(t, o, m)
    PROVE  Inv'
<1>1. /\ pc[t] = "idle" /\ pc' = [pc EXCEPT ![t] = First[o]]
      /\ call' = [call EXCEPT ![t] = [op |-> o, target |-> m, at |-> m]] /\ todo' = todo
      /\ raced' = raced \cup
            (Touches(o, m) \cap UNION {Touches(op(u), target(u)) : u \in Busy})
      /\ state' = state /\ graph' = graph /\ loaderState' = loaderState
      /\ instances' = instances /\ dependents' = dependents /\ routes' = routes
  BY DEF Call, dataVars
<1>2. First[o] \in Places \ {"idle", "next"}
  BY DEF First, Places
<1>3. /\ t \notin Busy /\ Busy' = Busy \cup {t} /\ pc'[t] = First[o]
      /\ \A u \in Tasks \ {t} : pc'[u] = pc[u] /\ call'[u] = call[u]
      /\ call'[t] = [op |-> o, target |-> m, at |-> m]
  BY <1>1, <1>2 DEF Busy, Inv, TypeOK
<1>4. /\ op(t)' = o /\ target(t)' = m /\ at(t)' = m
      /\ \A u \in Tasks \ {t} : op(u)' = op(u) /\ target(u)' = target(u) /\ at(u)' = at(u)
  BY <1>3 DEF op, target, at
<1>5. \A p, x : Touches(p, x)' = Touches(p, x)
  OBVIOUS
<1>6. TypeOK'
  <2>1. m # Nothing
    BY ManagerAssumption DEF ManagerAssumption
  <2>2. raced' \subseteq Modules
    BY <1>1 DEF Touches, Reached, Inv, TypeOK
  <2>3. /\ call' \in [Tasks -> {NoCall} \cup [op : DOMAIN First, target : Modules, at : Modules]]
        /\ \A u \in Tasks : pc'[u] = "idle" <=> call'[u] = NoCall
    BY <1>1, <1>2, <1>3, <2>1 DEF Inv, TypeOK, NoCall
  <2>4. \A u \in Tasks : pc'[u] = "next" => target(u)' \notin todo'[u]
    BY <1>1, <1>2, <1>3, <1>4 DEF Inv, TypeOK
  <2>5. pc' \in [Tasks -> Places]
    BY <1>1, <1>2 DEF Inv, TypeOK
  <2> QED
    BY <1>1, <2>2, <2>3, <2>4, <2>5 DEF Inv, TypeOK
<1>7. CallInv'
  <2>1. m \in Touches(o, m)
    BY DEF Touches
  <2>2. First[o] \in Entering => o \in {"load", "install"}
    BY DEF First, Entering
  <2>3. First[o] \notin Resolved \cup {"resolve"}
    BY DEF First, Resolved
  <2>4. \A u \in Busy' : at(u)' \in Touches(op(u)', target(u)')
    BY <1>3, <1>4, <2>1 DEF Inv, CallInv, Busy
  <2> QED
    BY <1>1, <1>3, <1>4, <2>2, <2>3, <2>4 DEF Inv, CallInv, AllEdges
<1>8. RaceInv'
  <2> SUFFICES ASSUME NEW x \in Modules \ raced', NEW u \in Busy', NEW v \in Busy',
                      x \in Touches(op(u)', target(u)'), x \in Touches(op(v)', target(v)')
               PROVE  u = v
    BY <1>5 DEF RaceInv
  <2>1. x \notin raced
    BY <1>1
  <2>2. CASE u # t /\ v # t
    BY <1>3, <1>4, <2>1, <2>2 DEF Inv, RaceInv, Busy
  <2>3. \A w \in Busy : ~(x \in Touches(o, m) /\ x \in Touches(op(w), target(w)))
    BY <1>1
  <2>4. CASE u = t \/ v = t
    BY <1>3, <1>4, <2>3, <2>4 DEF Busy
  <2> QED
    BY <2>2, <2>4
<1>9. AgreeInv'
  <2> SUFFICES ASSUME NEW x \in Modules, x \notin raced'
               PROVE  /\ (\A u \in Busy' : at(u)' # x) => Quiet(x)
                      /\ \A u \in Busy' : at(u)' = x => Agrees(x, pc'[u])
                      /\ \A u \in Busy' : target(u)' = x /\ pc'[u] \in Resolved \cup {"resolve"}
                                         => Registered(x)
    <3>1. \A y : /\ Quiet(y)' <=> Quiet(y)
                 /\ Registered(y)' <=> Registered(y)
                 /\ \A p : Agrees(y, p)' <=> Agrees(y, p)
      BY <1>1 DEF Agrees, Quiet, Rested, Registered
    <3> QED
      BY <3>1 DEF AgreeInv
  <2>1. x \notin raced
    BY <1>1
  <2>2. x = m => \A u \in Busy : at(u) # m
    BY <1>1 DEF Touches, Inv, CallInv
  <2>3. First[o] \in QuietPlaces \ (Resolved \cup RestedPlaces \cup RegisteredPlaces \cup
             {"resolve", "insert", "release", "remove"})
    BY DEF First, QuietPlaces, Resolved, RestedPlaces, RegisteredPlaces, Entering
  <2>4. (\A u \in Busy : at(u) # x) => Quiet(x)
    BY <2>1 DEF Inv, AgreeInv
  <2>5. (\A u \in Busy' : at(u)' # x) => Quiet(x)
    BY <1>3, <1>4, <2>4 DEF Busy
  <2>6. ASSUME NEW u \in Busy', at(u)' = x
        PROVE  Agrees(x, pc'[u])
    <3>1. CASE u = t
      <4>1. Quiet(x)
        BY <1>4, <2>2, <2>4, <2>6, <3>1
      <4> QED
        BY <1>3, <2>3, <3>1, <4>1 DEF Agrees, First
    <3>2. CASE u # t
      BY <1>3, <1>4, <2>1, <2>6, <3>2 DEF Inv, AgreeInv, Busy
    <3> QED
      BY <3>1, <3>2
  <2>7. \A u \in Busy' : target(u)' = x /\ pc'[u] \in Resolved \cup {"resolve"} => Registered(x)
    BY <1>3, <1>4, <2>1, <2>3 DEF Inv, AgreeInv, Busy
  <2> QED
    BY <2>5, <2>6, <2>7
<1> QED
  BY <1>6, <1>7, <1>8, <1>9 DEF Inv

-------------------------------------------------------------------------------
(* The invariant of the specification *)

LEMMA InitInv == Init => Inv
<1> SUFFICES ASSUME Init
             PROVE  Inv
  OBVIOUS
<1>1. graph \subseteq AllEdges
  BY ManagerAssumption DEF ManagerAssumption, Init, Edges, AllEdges
<1>2. TypeOK
  BY ManagerAssumption, <1>1
     DEF ManagerAssumption, Init, TypeOK, ModuleStates, LoaderStates, Places, AllEdges, Edges
<1>3. Busy = {}
  BY DEF Init, Busy
<1>4. CallInv /\ RaceInv
  BY <1>1, <1>3 DEF Init, CallInv, RaceInv, Entering, Resolved
<1>5. AgreeInv
  BY <1>3 DEF Init, AgreeInv, Quiet, Rested
<1> QED
  BY <1>2, <1>4, <1>5 DEF Inv

LEMMA NextInv == Inv /\ [Next]_vars => Inv'
<1> SUFFICES ASSUME Inv, [Next]_vars
             PROVE  Inv'
  OBVIOUS
<1>1. CASE UNCHANGED vars
  <2>1. /\ state' = state /\ graph' = graph /\ loaderState' = loaderState
        /\ instances' = instances /\ dependents' = dependents /\ routes' = routes
        /\ pc' = pc /\ call' = call /\ todo' = todo /\ raced' = raced
    BY <1>1 DEF vars, dataVars
  <2>2. TypeOK' /\ CallInv' /\ RaceInv'
    BY <2>1 DEF Inv, TypeOK, CallInv, RaceInv, Busy, Touches, op, target, at
  <2>3. AgreeInv'
    BY <2>1 DEF Inv, AgreeInv, Agrees, Quiet, Rested, Registered, Busy, target, at
  <2> QED
    BY <2>2, <2>3 DEF Inv
<1>2. ASSUME NEW t \in Tasks, NEW o \in DOMAIN First, NEW m \in Modules, Call(t, o, m)
      PROVE  Inv'
  BY <1>2, CallStepInv
<1>3. ASSUME NEW t \in Tasks, NotFound(t) \/ SetError(t)
      PROVE  Inv'
  BY <1>3, NotFoundInv, SetErrorInv
<1>4. ASSUME NEW t \in Tasks, LoadStep(t) \/ UnloadStep(t) \/ RunStep(t) \/ InstallStep(t)
      PROVE  Inv'
  BY <1>4, LoadInv, UnloadInv, RunInv, InstallInv
<1> QED
  BY <1>1, <1>2, <1>3, <1>4 DEF Next

LEMMA SpecInv == Spec => []Inv
  BY InitInv, NextInv, PTL DEF Spec

\* The manager's variables keep their types, and no module is loaded as its
\* own dependency: load_module, unload_module and the calls made of them.
THEOREM TypeCorrect == Spec => []TypeOK
  BY SpecInv, PTL DEF Inv

LEMMA InvTruthful == Inv => RegistryTruthful /\ RoutesFollowInstances
<1> SUFFICES ASSUME Inv, NEW m \in Modules, Settled(m)
             PROVE  Quiet(m) /\ loaderState[m] \in LoaderStates
  BY DEF RegistryTruthful, RoutesFollowInstances, Quiet, Rested, LoaderStates
<1>1. \A t \in Busy : at(t) # m
  BY DEF Inv, CallInv, Settled
<1> QED
  BY <1>1 DEF Inv, AgreeInv, Settled, TypeOK

\* A module that no call is dealing with, and for which no two calls ever
\* competed, is as the registry says: Loaded with the loader too, or not there
\* at all, after any loads and unloads, failed ones included.
THEOREM RegistryAlwaysTruthful == Spec => []RegistryTruthful
  BY SpecInv, InvTruthful, PTL

\* Such a module has its routes exactly as long as it has an instance.
THEOREM RoutesAlwaysFollow == Spec => []RoutesFollowInstances
  BY SpecInv, InvTruthful, PTL

-------------------------------------------------------------------------------
(* The loader's record of who depends on whom *)

\* Places of an unload that the loader has let pass.
Asked == {"dismiss", "unloadCode", "forget"}

\* Only dependencies are recorded.
RecordedInv == \A p \in dependents : p[1] \in Deps[p[2]]

\* What the loader has let go has no dependents, and gets none.
AskedInv ==
    \A t \in Busy : pc[t] \in Asked /\ at(t) \notin raced =>
        \A m \in Modules : <<at(t), m>> \notin dependents

\* Between LoadCode and RecordDependencies, and between UnloadCode and
\* RemoveDependencies, the record is not yet what the instances are.
TrackedInv ==
    \A m, d \in Modules \ raced :
        (\A t \in Busy : at(t) = m => pc[t] \notin {"record", "forget"}) =>
            (<<d, m>> \in dependents <=> m \in instances /\ d \in Deps[m])

DepInv == RecordedInv /\ AskedInv /\ TrackedInv

\* A call at m, which is loading it, deals with all that m depends on.
LEMMA LoadTouches ==
    ASSUME Inv, NEW t \in Tasks, pc[t] \in Resolved, NEW d \in Modules, d \in Deps[at(t)]
    PROVE  d \in Touches(op(t), target(t))
<1>1. t \in Busy /\ at(t) \in Modules /\ op(t) \in {"load", "install"}
  BY CallType DEF Inv, CallInv, Busy, Resolved
<1>2. at(t) = target(t) \/ at(t) \in Reached(AllEdges, target(t))
  BY <1>1 DEF Inv, CallInv, Touches, AllEdges
<1>3. <<at(t), d>> \in AllEdges
  BY <1>1 DEF AllEdges, Edges
<1>4. d \in Reached(AllEdges, target(t))
  BY <1>2, <1>3 DEF Reached
<1> QED
  BY <1>1, <1>4 DEF Touches, AllEdges

\* t takes a step that changes neither the record nor the instances.
Plain(t) ==
    /\ \A u \in Tasks \ {t} : pc'[u] = pc[u] /\ call'[u] = call[u]
    /\ raced \subseteq raced'
    /\ dependents' = dependents /\ instances' = instances
    /\ pc[t] \notin {"record", "forget"}
    /\ pc'[t] \in Asked => pc[t] \in Asked /\ call'[t] = call[t]

LEMMA PlainDep ==
    ASSUME Inv, DepInv, NEW t \in Tasks, Plain(t)
    PROVE  DepInv'
<1>1. \A u \in Tasks \ {t} : pc'[u] = pc[u] /\ at(u)' = at(u) /\ (u \in Busy' <=> u \in Busy)
  BY DEF Plain, at, Busy
<1>2. RecordedInv'
  BY DEF Plain, DepInv, RecordedInv
<1>3. AskedInv'
  <2> SUFFICES ASSUME NEW u \in Busy', pc'[u] \in Asked, at(u)' \notin raced', NEW m \in Modules
               PROVE  <<at(u)', m>> \notin dependents
    BY DEF AskedInv, Plain
  <2>1. u \in Busy /\ pc[u] \in Asked /\ at(u)' = at(u)
    BY <1>1 DEF Plain, at, Busy, Asked
  <2> QED
    BY <2>1 DEF DepInv, AskedInv, Plain
<1>4. TrackedInv'
  <2> SUFFICES ASSUME NEW m \in Modules \ raced', NEW d \in Modules \ raced',
                      \A u \in Busy' : at(u)' = m => pc'[u] \notin {"record", "forget"}
               PROVE  <<d, m>> \in dependents <=> m \in instances /\ d \in Deps[m]
    BY DEF TrackedInv, Plain
  <2>1. \A u \in Busy : at(u) = m => pc[u] \notin {"record", "forget"}
    BY <1>1 DEF Plain, Busy
  <2> QED
    BY <2>1 DEF DepInv, TrackedInv, Plain
<1> QED
  BY <1>2, <1>3, <1>4 DEF DepInv

LEMMA LoadStepPlain ==
    ASSUME TypeOK, NEW t \in Tasks, LoadStep(t),
           ~LoadCode(t), ~RecordDependencies(t)
    PROVE  Plain(t)
<1> USE DEF TypeOK, Go, Step, Plain, Asked, dataVars, loaderVars
<1>1. CASE CheckLoad(t)
  BY <1>1 DEF CheckLoad
<1>2. CASE Resolve(t)
  BY <1>2 DEF Resolve
<1>3. CASE NextDependency(t)
  BY <1>3 DEF NextDependency
<1>4. CASE LastTarget(t)
  BY <1>4 DEF LastTarget
<1>5. CASE SetLoading(t)
  BY <1>5 DEF SetLoading, SetState
<1>6. CASE GetInfo(t)
  BY <1>6 DEF GetInfo
<1>7. CASE LoaderAdmits(t)
  BY <1>7 DEF LoaderAdmits
<1>8. CASE LoaderRefuses(t)
  BY <1>8 DEF LoaderRefuses
<1>9. CASE LoaderBegins(t)
  BY <1>9 DEF LoaderBegins, SetLoaderState
<1>10. CASE LoadCodeFails(t)
  BY <1>10 DEF LoadCodeFails, SetLoaderState
<1>11. CASE LoaderFinishes(t)
  BY <1>11 DEF LoaderFinishes, SetLoaderState
<1>12. CASE SetLoaded(t)
  BY <1>12 DEF SetLoaded, SetState
<1>13. CASE RegisterRoutes(t)
  BY <1>13 DEF RegisterRoutes, AfterRoutes
<1> QED
  BY <1>1, <1>2, <1>3, <1>4, <1>5, <1>6, <1>7, <1>8, <1>9, <1>10, <1>11, <1>12,
     <1>13 DEF LoadStep

LEMMA UnloadStepPlain ==
    ASSUME TypeOK, NEW t \in Tasks, UnloadStep(t),
           ~LoaderAsks(t), ~UnloadCode(t), ~RemoveDependencies(t)
    PROVE  Plain(t)
<1> USE DEF TypeOK, Go, Step, Plain, Asked, dataVars, loaderVars
<1>1. CASE CheckUnload(t)
  BY <1>1 DEF CheckUnload
<1>2. CASE FindDependents(t)
  BY <1>2 DEF FindDependents
<1>3. CASE AskDependent(t)
  BY <1>3 DEF AskDependent
<1>4. CASE AllAsked(t)
  BY <1>4 DEF AllAsked
<1>5. CASE SetUnloading(t)
  BY <1>5 DEF SetUnloading, SetState
<1>6. CASE LoaderChecks(t)
  BY <1>6 DEF LoaderChecks
<1>7. CASE LoaderDismisses(t)
  BY <1>7 DEF LoaderDismisses, SetLoaderState
<1>8. CASE UnloadCodeFails(t)
  BY <1>8 DEF UnloadCodeFails, SetLoaderState
<1>9. CASE LoaderUnloaded(t)
  BY <1>9 DEF LoaderUnloaded, SetLoaderState
<1>10. CASE RemoveRoutes(t)
  BY <1>10 DEF RemoveRoutes
<1>11. CASE SetUnloaded(t)
  BY <1>11 DEF SetUnloaded, SetState
<1> QED
  BY <1>1, <1>2, <1>3, <1>4, <1>5, <1>6, <1>7, <1>8, <1>9, <1>10, <1>11 DEF
     UnloadStep

LEMMA RunStepPlain ==
    ASSUME TypeOK, NEW t \in Tasks, RunStep(t)
    PROVE  Plain(t)
<1> USE DEF TypeOK, Go, Step, Plain, Asked, dataVars, loaderVars
<1>1. CASE SetStarting(t)
  BY <1>1 DEF SetStarting, SetState
<1>2. CASE SetRunning(t)
  BY <1>2 DEF SetRunning, SetState
<1>3. CASE SetStopping(t)
  BY <1>3 DEF SetStopping, SetState
<1>4. CASE SetStopped(t)
  BY <1>4 DEF SetStopped, SetState
<1> QED
  BY <1>1, <1>2, <1>3, <1>4 DEF RunStep

LEMMA InstallStepPlain ==
    ASSUME TypeOK, NEW t \in Tasks, InstallStep(t)
    PROVE  Plain(t)
<1> USE DEF TypeOK, Go, Step, Plain, Asked, dataVars, loaderVars
<1>1. CASE CheckId(t)
  BY <1>1 DEF CheckId
<1>2. CASE Insert(t)
  BY <1>2 DEF Insert
<1>3. CASE ListModules(t)
  BY <1>3 DEF ListModules
<1>4. CASE BuildGraph(t)
  BY <1>4 DEF BuildGraph
<1>5. CASE Inspect(t)
  BY <1>5 DEF Inspect
<1>6. CASE CheckUnregister(t)
  BY <1>6 DEF CheckUnregister
<1>7. CASE Unregister(t)
  BY <1>7 DEF Unregister
<1>8. CASE PruneGraph(t)
  BY <1>8 DEF PruneGraph
<1> QED
  BY <1>1, <1>2, <1>3, <1>4, <1>5, <1>6, <1>7, <1>8 DEF InstallStep

LEMMA OtherPlain ==
    ASSUME TypeOK, NEW t \in Tasks,
           \/ NotFound(t) \/ SetError(t)
           \/ \E o \in DOMAIN First, m \in Modules : Call(t, o, m)
    PROVE  Plain(t)
<1> USE DEF TypeOK, Step, Plain, Asked, dataVars, loaderVars
<1>1. CASE NotFound(t)
  BY <1>1 DEF NotFound, Go
<1>2. CASE SetError(t)
  BY <1>2 DEF SetError, SetState, Go
<1>3. ASSUME NEW o \in DOMAIN First, NEW m \in Modules, Call(t, o, m)
      PROVE  Plain(t)
  BY <1>3 DEF Call, First
<1> QED
  BY <1>1, <1>2, <1>3

\* The other steps.
LEMMA AskedDep ==
    ASSUME Inv, DepInv, NEW t \in Tasks,
           LoaderAsks(t) \/ LoadCode(t) \/ RecordDependencies(t)
           \/ UnloadCode(t) \/ RemoveDependencies(t)
    PROVE  DepInv'
<1> DEFINE a == at(t)
<1>1. PICK l \in {"needed", "code", "record", "unloadCode", "forget"},
           k \in {"failed", "dismiss", "record", "finish", "forget", "dismissed"} : Go(t, l, k)
  BY DEF LoaderAsks, LoadCode, RecordDependencies, UnloadCode, RemoveDependencies
<1>2. /\ pc[t] = l /\ pc'[t] = k /\ raced' = raced /\ call' = call
      /\ \A u \in Tasks \ {t} : pc'[u] = pc[u]
  BY <1>1 DEF Go, Step, Inv, TypeOK
<1>3. Busy' = Busy /\ t \in Busy /\ \A u \in Busy : u \in Tasks /\ at(u)' = at(u)
  BY <1>2 DEF Busy, at
<1>4. a \in Modules /\ (a \notin raced => Agrees(a, l))
  BY <1>2, AtPlace DEF Places
<1>5. \A u \in Busy : a \notin raced /\ a \in Touches(op(u), target(u)) => u = t
  BY <1>3, <1>4 DEF Inv, CallInv, RaceInv
<1>6. \A u \in Busy : a \notin raced /\ at(u) = a => u = t
  BY <1>5 DEF Inv, CallInv
<1>7. CASE LoaderAsks(t)
  <2>1. /\ dependents' = dependents /\ instances' = instances
        /\ l = "needed" /\ k \in {"failed", "dismiss"}
    BY <1>2, <1>7 DEF LoaderAsks, Go, Step, dataVars, Inv, TypeOK
  <2>2. AskedInv'
    <3>1. k = "dismiss" => \A m \in Modules : <<a, m>> \notin dependents
      BY <1>2, <1>7 DEF LoaderAsks, Go, Step, Inv, TypeOK
    <3>2. ASSUME NEW u \in Busy, pc'[u] \in Asked, at(u) \notin raced
          PROVE  \A m \in Modules : <<at(u), m>> \notin dependents
      <4>1. CASE u = t
        BY <1>2, <2>1, <3>1, <3>2, <4>1 DEF Asked
      <4>2. CASE u # t
        BY <1>2, <1>3, <3>2, <4>2 DEF DepInv, AskedInv
      <4> QED
        BY <4>1, <4>2
    <3> QED
      BY <1>2, <1>3, <2>1, <3>2 DEF AskedInv
  <2>3. TrackedInv'
    BY <1>2, <1>3, <2>1 DEF DepInv, TrackedInv, Busy
  <2> QED
    BY <2>1, <2>2, <2>3 DEF DepInv, RecordedInv
<1>8. CASE LoadCode(t)
  <2>1. dependents' = dependents /\ instances' = instances \cup {a} /\ l = "code" /\ k = "record"
    BY <1>2, <1>8 DEF LoadCode, Go, Step, Inv, TypeOK
  <2>2. AskedInv'
    BY <1>2, <1>3, <2>1 DEF DepInv, AskedInv, Asked, Busy
  <2>3. TrackedInv'
    BY <1>2, <1>3, <2>1 DEF DepInv, TrackedInv, Busy
  <2> QED
    BY <2>1, <2>2, <2>3 DEF DepInv, RecordedInv
<1>9. CASE RecordDependencies(t)
  <2>1. /\ dependents' = dependents \cup (Deps[a] \X {a}) /\ instances' = instances
        /\ l = "record" /\ k = "finish"
    BY <1>2, <1>9 DEF RecordDependencies, Go, Step, Inv, TypeOK
  <2>2. Deps[a] \subseteq Modules
    BY <1>4, ManagerAssumption DEF ManagerAssumption
  <2>3. RecordedInv'
    BY <2>1 DEF DepInv, RecordedInv
  <2>4. AskedInv'
    <3> SUFFICES ASSUME NEW u \in Busy, pc'[u] \in Asked, at(u) \notin raced, NEW m \in Modules
                 PROVE  <<at(u), m>> \notin dependents'
      BY <1>2, <1>3 DEF AskedInv
    <3>1. u # t /\ pc[u] \in Asked
      BY <1>2, <2>1 DEF Asked, Busy
    <3>2. at(u) \in Modules /\ at(u) \in Touches(op(u), target(u))
      BY <3>1, CallType DEF Inv, CallInv, Busy
    <3>3. at(u) \notin Deps[a]
      <4>1. at(u) \in Deps[a] => at(u) \in Touches(op(t), target(t))
        BY <1>2, <2>1, <3>2, LoadTouches DEF Resolved
      <4> QED
        BY <1>3, <3>1, <3>2, <4>1 DEF Inv, RaceInv
    <3> QED
      BY <2>1, <3>1, <3>3 DEF DepInv, AskedInv
  <2>5. TrackedInv'
    <3> SUFFICES ASSUME NEW m \in Modules \ raced, NEW d \in Modules \ raced,
                        \A u \in Busy : at(u) = m => pc'[u] \notin {"record", "forget"}
                 PROVE  <<d, m>> \in dependents' <=> m \in instances /\ d \in Deps[m]
      BY <1>2, <1>3, <2>1 DEF TrackedInv
    <3>1. CASE m = a
      <4>1. m \in instances
        BY <1>4, <2>1, <3>1 DEF Agrees
      <4> QED
        BY <2>1, <2>3, <3>1, <4>1 DEF RecordedInv
    <3>2. CASE m # a
      <4>1. \A u \in Busy : at(u) = m => pc[u] \notin {"record", "forget"}
        BY <1>2, <3>2 DEF Busy
      <4> QED
        BY <2>1, <3>2, <4>1 DEF DepInv, TrackedInv
    <3> QED
      BY <3>1, <3>2
  <2> QED
    BY <2>3, <2>4, <2>5 DEF DepInv
<1>10. CASE UnloadCode(t)
  <2>1. /\ dependents' = dependents /\ instances' = instances \ {a}
        /\ l = "unloadCode" /\ k = "forget"
    BY <1>2, <1>10 DEF UnloadCode, Go, Step, Inv, TypeOK
  <2>2. AskedInv'
    BY <1>2, <1>3, <2>1 DEF DepInv, AskedInv, Asked, Busy
  <2>3. TrackedInv'
    BY <1>2, <1>3, <2>1 DEF DepInv, TrackedInv, Busy
  <2> QED
    BY <2>1, <2>2, <2>3 DEF DepInv, RecordedInv
<1>11. CASE RemoveDependencies(t)
  <2>1. /\ dependents' = {p \in dependents : a \notin {p[1], p[2]}} /\ instances' = instances
        /\ l = "forget" /\ k = "dismissed"
    BY <1>2, <1>11 DEF RemoveDependencies, Go, Step, Inv, TypeOK
  <2>2. RecordedInv'
    BY <2>1 DEF DepInv, RecordedInv
  <2>3. AskedInv'
    BY <1>2, <1>3, <2>1 DEF DepInv, AskedInv, Asked, Busy
  <2>4. TrackedInv'
    <3> SUFFICES ASSUME NEW m \in Modules \ raced, NEW d \in Modules \ raced,
                        \A u \in Busy : at(u) = m => pc'[u] \notin {"record", "forget"}
                 PROVE  <<d, m>> \in dependents' <=> m \in instances /\ d \in Deps[m]
      BY <1>2, <1>3, <2>1 DEF TrackedInv
    <3>1. CASE m = a
      <4>1. m \notin instances
        BY <1>4, <2>1, <3>1 DEF Agrees
      <4> QED
        BY <2>1, <3>1, <4>1
    <3>2. CASE m # a
      <4>1. \A u \in Busy : at(u) = m => pc[u] \notin {"record", "forget"}
        BY <1>2, <3>2 DEF Busy
      <4>2. <<d, m>> \in dependents <=> m \in instances /\ d \in Deps[m]
        BY <4>1 DEF DepInv, TrackedInv
      <4>3. d = a => <<d, m>> \notin dependents
        BY <1>2, <1>3, <2>1 DEF DepInv, AskedInv, Asked
      <4> QED
        BY <2>1, <3>2, <4>2, <4>3
    <3> QED
      BY <3>1, <3>2
  <2> QED
    BY <2>2, <2>3, <2>4 DEF DepInv
<1> QED
  BY <1>7, <1>8, <1>9, <1>10, <1>11

LEMMA InitDep == Init => DepInv
  BY DEF Init, DepInv, RecordedInv, AskedInv, TrackedInv, Busy

LEMMA NextDep == Inv /\ DepInv /\ [Next]_vars => DepInv'
<1> SUFFICES ASSUME Inv, DepInv, [Next]_vars
             PROVE  DepInv'
  OBVIOUS
<1>1. CASE UNCHANGED vars
  BY <1>1 DEF DepInv, RecordedInv, AskedInv, TrackedInv, Busy, at, vars, dataVars
<1>2. ASSUME NEW t \in Tasks,
             \/ NotFound(t) \/ SetError(t)
             \/ \E o \in DOMAIN First, m \in Modules : Call(t, o, m)
      PROVE  DepInv'
  BY <1>2, OtherPlain, PlainDep DEF Inv
<1>3. ASSUME NEW t \in Tasks, LoadStep(t)
      PROVE  DepInv'
  BY <1>3, LoadStepPlain, PlainDep, AskedDep DEF Inv
<1>4. ASSUME NEW t \in Tasks, UnloadStep(t)
      PROVE  DepInv'
  BY <1>4, UnloadStepPlain, PlainDep, AskedDep DEF Inv
<1>5. ASSUME NEW t \in Tasks, RunStep(t) \/ InstallStep(t)
      PROVE  DepInv'
  BY <1>5, RunStepPlain, InstallStepPlain, PlainDep DEF Inv
<1> QED
  BY <1>1, <1>2, <1>3, <1>4, <1>5 DEF Next

LEMMA SpecDep == Spec => [](Inv /\ DepInv)
  BY InitInv, NextInv, InitDep, NextDep, PTL DEF Spec

\* The loader's record of dependents lists just the loaded modules, as far as
\* no call is dealing with them and no two ever competed for them.
THEOREM DependentsAlwaysTracked == Spec => []DependentsTracked
<1>1. Inv /\ DepInv => DependentsTracked
  <2> SUFFICES ASSUME Inv, DepInv, NEW m \in Modules, NEW d \in Modules, Settled(m), Settled(d)
               PROVE  <<d, m>> \in dependents <=> m \in instances /\ d \in Deps[m]
    BY DEF DependentsTracked
  <2>1. \A t \in Busy : at(t) # m
    BY DEF Inv, CallInv, Settled
  <2> QED
    BY <2>1 DEF DepInv, TrackedInv, Settled
<1> QED
  BY <1>1, SpecDep, PTL

LEMMA OnlyUnloadCodeRemoves ==
    ASSUME Inv, [Next]_vars, NEW d \in instances \ instances'
    PROVE  \E t \in Tasks : UnloadCode(t) /\ at(t) = d
<1>1. ~UNCHANGED vars
  BY DEF vars, dataVars
<1>2. ASSUME NEW t \in Tasks, Plain(t)
      PROVE  FALSE
  BY <1>2 DEF Plain
<1>3. PICK t \in Tasks : LoadStep(t) \/ UnloadStep(t)
  BY <1>1, <1>2, OtherPlain, RunStepPlain, InstallStepPlain DEF Next, Inv
<1>4. ~LoadStep(t)
  <2>1. ~LoadCode(t)
    BY DEF LoadCode
  <2>2. ~RecordDependencies(t)
    BY DEF RecordDependencies
  <2> QED
    BY <1>2, <2>1, <2>2, LoadStepPlain DEF Inv
<1>5. UnloadStep(t)
  BY <1>3, <1>4
<1>6. ~LoaderAsks(t) /\ ~RemoveDependencies(t)
  BY DEF LoaderAsks, RemoveDependencies, dataVars
<1>7. UnloadCode(t)
  BY <1>2, <1>5, <1>6, UnloadStepPlain DEF Inv
<1> QED
  BY <1>7 DEF UnloadCode

\* No module goes while another that needs it is loaded, unless two calls
\* competed for one of them: the loader's question, asked under a lock of its
\* own some steps before, still has the same answer when the code goes.
THEOREM NeverUnloadedUnderDependents == Spec => NotUnloadedUnderDependents
<1>1. ASSUME Inv, DepInv, [Next]_vars
      PROVE  [\A d \in instances \ (instances' \cup raced) :
                 \A m \in instances \ raced : d \notin Deps[m]]_vars
  <2> SUFFICES ASSUME NEW d \in instances \ (instances' \cup raced),
                      NEW m \in instances \ raced, d \in Deps[m]
               PROVE  FALSE
    OBVIOUS
  <2>1. PICK t \in Tasks : UnloadCode(t) /\ at(t) = d
    BY <1>1, OnlyUnloadCodeRemoves
  <2>2. pc[t] = "unloadCode" /\ t \in Busy /\ d \in Modules /\ m \in Modules
    BY <1>1, <2>1 DEF UnloadCode, Go, Step, Busy, Inv, TypeOK
  <2>3. <<d, m>> \notin dependents
    BY <1>1, <2>1, <2>2 DEF DepInv, AskedInv, Asked
  <2>4. PICK u \in Busy : at(u) = m /\ pc[u] \in {"record", "forget"}
    BY <1>1, <2>2, <2>3 DEF DepInv, TrackedInv
  <2>5. pc[u] = "record"
    BY <1>1, <2>2, <2>4 DEF Inv, AgreeInv, Agrees
  <2>6. d \in Touches(op(u), target(u)) /\ d \in Touches(op(t), target(t))
    BY <1>1, <2>1, <2>2, <2>4, <2>5, LoadTouches DEF Resolved, Busy, Inv, CallInv
  <2> QED
    BY <1>1, <2>2, <2>5, <2>6 DEF Inv, RaceInv
<1> QED
  BY <1>1, SpecDep, PTL DEF Spec, NotUnloadedUnderDependents
===============================================================================
