------------------------------- MODULE HostProofs ------------------------------
(***************************************************************************)
(* The safety of the host: of Core, for any number of calls and modules;   *)
(* of IpcServer, for any number of clients, administrators and starts; and *)
(* of IpcSession, for any requests and however the timers fire.            *)
(***************************************************************************)
EXTENDS Core, IpcServer, IpcSession, Integers, FiniteSetTheorems, SequenceTheorems, TLAPS

--------------------------------------------------------------------------------
(***************************************************************************)
(* The core.  What start() and shutdown() have done by each of their       *)
(* awaits is said by Stages; with it, what the properties say of a core at *)
(* rest is inductive.                                                      *)
(***************************************************************************)
\* Where start() and shutdown() are tells the state, and no call shares the core
\* with them.
Stages ==
    /\ exclusive \in {"router", "initialize", "announce"} => coreState = "Initialized"
    /\ exclusive \in {"modules", "stop"} => coreState = "ShuttingDown"
    /\ coreState = "Running" => exclusive = "none"
    /\ \A r \in RouteCalls : route[r] = "routing" => exclusive = "none" /\ coreState = "Running"

\* What has become of the router by then.
RouterStages ==
    /\ exclusive = "router" /\ ~cutShort /\ ~outside => ~routerRuns
    /\ exclusive \in {"initialize", "announce"} /\ ~outside => routerRuns
    /\ coreState = "Running" /\ ~outside => routerRuns

StatesHold == CoreTypeOK /\ Stages
RouterHolds == RouterStages /\ StateTellsRouter

LEMMA InitHolds == CoreInit => StatesHold /\ RouterHolds /\ MetricsCountRoutes
<1> SUFFICES ASSUME CoreInit
             PROVE  StatesHold /\ RouterHolds /\ MetricsCountRoutes
  OBVIOUS
<1>1. StatesHold
  BY DEF CoreInit, StatesHold, CoreTypeOK, CoreStates, Stages, Programs
<1>2. RouterHolds
  BY DEF CoreInit, RouterHolds, RouterStages, StateTellsRouter
<1>3. MetricsCountRoutes
  <2>1. {r \in RouteCalls : route[r] = "answered"} = {}
    BY DEF CoreInit
  <2> QED
    BY <2>1, FS_EmptySet DEF CoreInit, MetricsCountRoutes
<1> QED
  BY <1>1, <1>2, <1>3

\* The states, the stages and the calls, step by step.
LEMMA StatesStep == StatesHold /\ [CoreNext]_coreVars => StatesHold'
<1> SUFFICES ASSUME StatesHold, [CoreNext]_coreVars
             PROVE  StatesHold'
  OBVIOUS
<1> USE DEF StatesHold, CoreTypeOK, Stages, CoreStates, Programs
<1>1. CASE StartCore
  BY <1>1 DEF StartCore, Quiet, CoreCanStart, Proceeds, useVars
<1>2. CASE StartCoreRefused
  BY <1>2 DEF StartCoreRefused, coreVars, useVars
<1>3. CASE ShutdownCore
  BY <1>3 DEF ShutdownCore, Quiet, CoreCanShutdown, Proceeds, useVars
<1>4. CASE ShutdownIdle
  BY <1>4 DEF ShutdownIdle, Quiet, CoreCanShutdown, ReturnsToMain, useVars
<1>5. CASE StartRouter
  BY <1>5 DEF StartRouter, Proceeds, ReturnsToMain, useVars
<1>6. CASE InitializeFails
  BY <1>6 DEF InitializeFails, Proceeds, ReturnsToMain, useVars
<1>7. CASE InitializeModules
  BY <1>7 DEF InitializeModules, useVars
<1>8. CASE AnnounceStart
  BY <1>8 DEF AnnounceStart, Proceeds, ReturnsToMain, useVars
<1>9. CASE StopModules
  BY <1>9 DEF StopModules, Proceeds, useVars
<1>10. CASE StopRouter
  BY <1>10 DEF StopRouter, Proceeds, ReturnsToMain, useVars
<1>11. CASE DropCall
  BY <1>11 DEF DropCall, Proceeds, useVars
<1>12. ASSUME NEW r \in RouteCalls, RouteCall(r)
       PROVE  StatesHold'
  BY <1>12 DEF RouteCall, MayUse
<1>13. ASSUME NEW r \in RouteCalls, RouteDropped(r)
       PROVE  StatesHold'
  BY <1>13 DEF RouteDropped
<1>14. ASSUME NEW r \in RouteCalls, NEW s \in BOOLEAN, RouteAnswer(r, s)
       PROVE  StatesHold'
  BY <1>14 DEF RouteAnswer
<1>15. CASE OutsideStartStop
  BY <1>15 DEF OutsideStartStop, useVars
<1>16. ASSUME NEW from, NEW to \in Programs \cup {"share", "serving", "interrupted", "ask", "close", "exited"},
              MainMoves(from, to)
       PROVE  StatesHold'
  BY <1>16 DEF MainMoves, useVars
<1>17. CASE ServeIpc \/ IpcFails \/ CtrlC \/ DropCore \/ Asked
  BY <1>17, <1>16 DEF ServeIpc, IpcFails, CtrlC, DropCore, Asked
<1>18. CASE UNCHANGED coreVars
  BY <1>18 DEF coreVars, useVars
<1> QED
  BY <1>1, <1>2, <1>3, <1>4, <1>5, <1>6, <1>7, <1>8, <1>9, <1>10, <1>11, <1>12, <1>13, <1>14,
     <1>15, <1>17, <1>18 DEF CoreNext, ExclusiveStep

\* The router, step by step.
LEMMA RouterStep == StatesHold /\ RouterHolds /\ [CoreNext]_coreVars => RouterHolds'
<1> SUFFICES ASSUME StatesHold, RouterHolds, [CoreNext]_coreVars
             PROVE  RouterHolds'
  OBVIOUS
<1> USE DEF StatesHold, CoreTypeOK, Stages, RouterHolds, RouterStages, StateTellsRouter
<1>1. CASE StartCore
  BY <1>1 DEF StartCore, Quiet, CoreCanStart, Proceeds
<1>2. CASE StartCoreRefused
  BY <1>2 DEF StartCoreRefused, coreVars
<1>3. CASE ShutdownCore
  BY <1>3 DEF ShutdownCore, CoreCanShutdown, Proceeds
<1>4. CASE ShutdownIdle
  BY <1>4 DEF ShutdownIdle
<1>5. CASE StartRouter
  BY <1>5 DEF StartRouter, Proceeds
<1>6. CASE InitializeFails
  BY <1>6 DEF InitializeFails, Proceeds
<1>7. CASE InitializeModules
  BY <1>7 DEF InitializeModules
<1>8. CASE AnnounceStart
  BY <1>8 DEF AnnounceStart, Proceeds
<1>9. CASE StopModules
  BY <1>9 DEF StopModules, Proceeds
<1>10. CASE StopRouter
  BY <1>10 DEF StopRouter, Proceeds
<1>11. CASE DropCall
  BY <1>11 DEF DropCall, Proceeds
<1>12. ASSUME NEW r \in RouteCalls,
              RouteCall(r) \/ RouteDropped(r) \/ RouteAnswer(r, TRUE) \/ RouteAnswer(r, FALSE)
       PROVE  RouterHolds'
  BY <1>12 DEF RouteCall, RouteDropped, RouteAnswer
<1>13. CASE OutsideStartStop
  BY <1>13 DEF OutsideStartStop
<1>14. CASE ServeIpc \/ IpcFails \/ CtrlC \/ DropCore \/ Asked
  BY <1>14 DEF ServeIpc, IpcFails, CtrlC, DropCore, Asked, MainMoves
<1>15. CASE UNCHANGED coreVars
  BY <1>15 DEF coreVars
<1> QED
  BY <1>1, <1>2, <1>3, <1>4, <1>5, <1>6, <1>7, <1>8, <1>9, <1>10, <1>11, <1>12, <1>13, <1>14,
     <1>15 DEF CoreNext, ExclusiveStep

\* One call's answer adds it to those that are answered, and no other step does.
LEMMA MetricsStep == StatesHold /\ MetricsCountRoutes /\ [CoreNext]_coreVars => MetricsCountRoutes'
<1> SUFFICES ASSUME StatesHold, MetricsCountRoutes, [CoreNext]_coreVars
             PROVE  MetricsCountRoutes'
  OBVIOUS
<1> DEFINE FromTheRouter == {r \in RouteCalls : route[r] = "answered"}
<1>1. ASSUME NEW r \in RouteCalls, NEW s \in BOOLEAN, RouteAnswer(r, s)
      PROVE  MetricsCountRoutes'
  <2>1. /\ FromTheRouter' = FromTheRouter \cup {r}
        /\ r \notin FromTheRouter
    BY <1>1 DEF RouteAnswer, StatesHold, CoreTypeOK
  <2>2. IsFiniteSet(FromTheRouter)
    BY CoreAssumption, FS_Subset DEF CoreAssumption
  <2>3. Cardinality(FromTheRouter') = Cardinality(FromTheRouter) + 1
    BY <2>1, <2>2, FS_AddElement
  <2>4. /\ recorded'.total = recorded.total + 1
        /\ recorded'.total = recorded'.ok + recorded'.failed
    BY <1>1 DEF RouteAnswer, StatesHold, CoreTypeOK, MetricsCountRoutes
  <2> QED
    BY <2>3, <2>4 DEF MetricsCountRoutes
<1>2. ASSUME NEW r \in RouteCalls, RouteCall(r) \/ RouteDropped(r)
      PROVE  MetricsCountRoutes'
  <2>1. /\ recorded' = recorded
        /\ route \in [RouteCalls -> {"idle", "routing", "answered", "refused", "dropped"}]
        /\ route[r] # "answered"
        /\ \E x \in {"routing", "refused", "dropped"} : route' = [route EXCEPT ![r] = x]
    BY <1>2 DEF RouteCall, RouteDropped, StatesHold, CoreTypeOK
  <2>2. FromTheRouter' = FromTheRouter
    BY <2>1
  <2> QED
    BY <2>1, <2>2 DEF MetricsCountRoutes
<1>3. CASE UNCHANGED useVars
  BY <1>3 DEF useVars, MetricsCountRoutes
<1>4. CASE \/ StartCore \/ StartCoreRefused \/ ShutdownCore \/ ShutdownIdle \/ ExclusiveStep
           \/ DropCall \/ OutsideStartStop
           \/ ServeIpc \/ IpcFails \/ CtrlC \/ DropCore \/ Asked \/ UNCHANGED coreVars
  <2>1. UNCHANGED useVars
    BY <1>4 DEF StartCore, StartCoreRefused, ShutdownCore, ShutdownIdle, ExclusiveStep, StartRouter,
                InitializeFails, InitializeModules, AnnounceStart, StopModules, StopRouter, DropCall,
                OutsideStartStop, ServeIpc, IpcFails, CtrlC, DropCore, Asked, MainMoves, Proceeds,
                coreVars, useVars
  <2> QED
    BY <2>1, <1>3
<1> QED
  BY <1>1, <1>2, <1>4 DEF CoreNext

--------------------------------------------------------------------------------
\* The core's variables keep their kinds, and only a core that was running has a time
\* of start.
THEOREM CoreTypeCorrect == CoreSpec => []CoreTypeOK
<1>1. CoreInit => StatesHold
  BY InitHolds
<1>2. StatesHold => CoreTypeOK
  BY DEF StatesHold
<1> QED
  BY <1>1, <1>2, StatesStep, PTL DEF CoreSpec

\* Of every core, however many calls share it: the state tells whether the router runs,
\* and a call that was let through finds it running, but for calls cut short and for what
\* is done to the router past the core.
THEOREM CoreKnowsItsRouter == CoreSpec => []CoreAndRouterAgree
<1>1. CoreInit => StatesHold /\ RouterHolds
  BY InitHolds
<1>2. StatesHold /\ RouterHolds => CoreAndRouterAgree
  BY DEF CoreAndRouterAgree, StatesHold, Stages, RouterHolds, RouterStages, RoutesFindRouter
<1> QED
  BY <1>1, <1>2, StatesStep, RouterStep, PTL DEF CoreSpec

\* The metrics count every answered call once, as a success or as a failure.
THEOREM RoutesAreCounted == CoreSpec => []MetricsCountRoutes
<1>1. CoreInit => StatesHold /\ MetricsCountRoutes
  BY InitHolds
<1> QED
  BY <1>1, StatesStep, MetricsStep, PTL DEF CoreSpec

--------------------------------------------------------------------------------
(***************************************************************************)
(* The server.  A loop that has admitted a connection is about to count    *)
(* it: AdmitInv bounds both together.  Then what the flag says of the      *)
(* listener and of the loops.                                              *)
(***************************************************************************)
\* The connection that a loop deals with is its own, and as far as the loop has brought it.
PlaceInv ==
    /\ \A g \in Loops :
          /\ loop[g] \in {"accepted", "admitted"} => peer[serving[g]] = "accepted"
          /\ loop[g] = "record" => peer[serving[g]] = "counted"
    /\ \A g, h \in Loops :
          (/\ loop[g] \in {"accepted", "admitted", "record"}
           /\ loop[h] \in {"accepted", "admitted", "record"}
           /\ serving[g] = serving[h]) => g = h

Begun == {g \in Loops : loop[g] # "none"}
Admitted == {g \in Loops : loop[g] = "admitted"}
Connections == {p \in Peers : peer[p] \in {"counted", "served"}}

\* Each loop but one may admit past the limit.
AdmitInv ==
    active + Cardinality(Admitted)
        <= MaxConnections + (IF Cardinality(Begun) > 1 THEN Cardinality(Begun) - 1 ELSE 0)

ServerInv == IpcServerTypeOK /\ PlaceInv /\ AdmitInv /\ StatsSettle

LEMMA SetsFinite ==
    /\ IsFiniteSet(Loops) /\ IsFiniteSet(Peers)
    /\ IsFiniteSet(Begun) /\ IsFiniteSet(Admitted) /\ IsFiniteSet(Connections)
    /\ Cardinality(Begun) \in Nat /\ Cardinality(Admitted) \in Nat
    /\ Cardinality(Connections) \in Nat
<1>1. IsFiniteSet(Loops) /\ IsFiniteSet(Peers)
  BY IpcServerAssumption, FS_Interval DEF IpcServerAssumption, Loops
<1>2. Begun \subseteq Loops /\ Admitted \subseteq Loops /\ Connections \subseteq Peers
  BY DEF Begun, Admitted, Connections
<1>3. IsFiniteSet(Begun) /\ IsFiniteSet(Admitted) /\ IsFiniteSet(Connections)
  BY <1>1, <1>2, FS_Subset
<1> QED
  BY <1>1, <1>3, FS_CardinalityType

\* The same after a step, and what a member more or less does to the numbers.
LEMMA BegunGrows ==
    ASSUME NEW g \in Loops
    PROVE  Cardinality(Begun \cup {g}) >= Cardinality(Begun)
           /\ Cardinality(Begun \cup {g}) \in Nat
<1>1. g \in Begun => Begun \cup {g} = Begun
  OBVIOUS
<1>2. g \notin Begun => Cardinality(Begun \cup {g}) = Cardinality(Begun) + 1
  BY SetsFinite, FS_AddElement
<1> QED
  BY <1>1, <1>2, SetsFinite

LEMMA AdmittedBounds ==
    ASSUME NEW g \in Loops
    PROVE  /\ g \notin Admitted => Cardinality(Admitted \cup {g}) = Cardinality(Admitted) + 1
           /\ g \in Admitted => /\ Cardinality(Admitted \ {g}) = Cardinality(Admitted) - 1
                                /\ Cardinality(Admitted) >= 1
           /\ g \in Begun => Cardinality(Admitted \cup {g}) <= Cardinality(Begun)
<1>1. g \notin Admitted => Cardinality(Admitted \cup {g}) = Cardinality(Admitted) + 1
  BY SetsFinite, FS_AddElement
<1>2. ASSUME g \in Admitted
      PROVE  Cardinality(Admitted \ {g}) = Cardinality(Admitted) - 1 /\ Cardinality(Admitted) >= 1
  <2>1. IsFiniteSet(Admitted \ {g}) /\ Cardinality(Admitted \ {g}) = Cardinality(Admitted) - 1
    BY <1>2, SetsFinite, FS_RemoveElement
  <2>2. Cardinality(Admitted \ {g}) \in Nat
    BY <2>1, FS_CardinalityType
  <2> QED
    BY <2>1, <2>2, SetsFinite
<1>3. ASSUME g \in Begun
      PROVE  Cardinality(Admitted \cup {g}) <= Cardinality(Begun)
  <2>1. Admitted \cup {g} \subseteq Begun
    BY <1>3 DEF Admitted, Begun
  <2> QED
    BY <2>1, SetsFinite, FS_Subset
<1> QED
  BY <1>1, <1>2, <1>3

LEMMA ConnectionsCount ==
    ASSUME NEW p \in Peers
    PROVE  /\ p \notin Connections => Cardinality(Connections \cup {p}) = Cardinality(Connections) + 1
           /\ p \in Connections => /\ Cardinality(Connections \ {p}) = Cardinality(Connections) - 1
                                   /\ Cardinality(Connections) >= 1
<1>1. p \notin Connections => Cardinality(Connections \cup {p}) = Cardinality(Connections) + 1
  BY SetsFinite, FS_AddElement
<1>2. ASSUME p \in Connections
      PROVE  /\ Cardinality(Connections \ {p}) = Cardinality(Connections) - 1
             /\ Cardinality(Connections) >= 1
  <2>1. IsFiniteSet(Connections \ {p}) /\ Cardinality(Connections \ {p}) = Cardinality(Connections) - 1
    BY <1>2, SetsFinite, FS_RemoveElement
  <2>2. Cardinality(Connections \ {p}) \in Nat
    BY <2>1, FS_CardinalityType
  <2> QED
    BY <2>1, <2>2, SetsFinite
<1> QED
  BY <1>1, <1>2

-------------------------------------------------------------------------------
(* The initial state *)

LEMMA InitServerInv == IpcServerInit => ServerInv
<1> SUFFICES ASSUME IpcServerInit PROVE ServerInv
  OBVIOUS
<1>1. IpcServerTypeOK
  <2>1. running \in BOOLEAN /\ spoiled \in BOOLEAN
    BY DEF IpcServerInit
  <2> QED
    BY <2>1 DEF IpcServerInit, IpcServerTypeOK
<1>2. PlaceInv
  BY DEF IpcServerInit, PlaceInv
<1>3. Begun = {} /\ Admitted = {} /\ Connections = {}
  BY DEF IpcServerInit, Begun, Admitted, Connections
<1>4. AdmitInv
  BY <1>3, FS_EmptySet, IpcServerAssumption DEF IpcServerAssumption, AdmitInv, IpcServerInit
<1>5. StatsSettle
  BY <1>3, FS_EmptySet DEF StatsSettle, Connections, IpcServerInit
<1> QED
  BY <1>1, <1>2, <1>4, <1>5 DEF ServerInv

-------------------------------------------------------------------------------
(* Types and places *)

LEMMA ActiveCountsConnections ==
    ASSUME ServerInv
    PROVE  active \in Nat /\ active = Cardinality(Connections)
  BY DEF ServerInv, IpcServerTypeOK, StatsSettle, Connections

LEMMA NextServerTypeOK == ServerInv /\ [IpcServerNext]_ipcServerVars => IpcServerTypeOK'
<1> SUFFICES ASSUME ServerInv, [IpcServerNext]_ipcServerVars
             PROVE  IpcServerTypeOK'
  OBVIOUS
<1> USE DEF ServerInv, IpcServerTypeOK, loopVars, peerVars, Alive, Admin
<1>1. ASSUME NEW k \in Admins, StartRefused(k) \/ StopIdle(k) PROVE IpcServerTypeOK'
  BY <1>1 DEF StartRefused, StopIdle, ipcServerVars
<1>2. ASSUME NEW k \in Admins, Start(k) PROVE IpcServerTypeOK'
  <2>1. spoiled' \in BOOLEAN
    BY <1>2 DEF Start
  <2> QED
    BY <1>2, <2>1 DEF Start
<1>3. ASSUME NEW k \in Admins, Stop(k) PROVE IpcServerTypeOK'
  <2>1. spoiled' \in BOOLEAN
    BY <1>3 DEF Stop
  <2> QED
    BY <1>3, <2>1 DEF Stop
<1>4. ASSUME NEW k \in Admins, BindFails(k) PROVE IpcServerTypeOK'
  BY <1>4 DEF BindFails
<1>5. ASSUME NEW k \in Admins, Bind(k) PROVE IpcServerTypeOK'
  <2>1. PICK g \in Loops : /\ loop[g] = "none"
                           /\ loop' = [loop EXCEPT ![g] = "listening"] /\ socketFile' = g
    BY <1>5 DEF Bind
  <2> QED
    BY <1>5, <2>1 DEF Bind
<1>6. ASSUME NEW k \in Admins, Send(k) PROVE IpcServerTypeOK'
  BY <1>6 DEF Send
<1>7. ASSUME NEW g \in Loops, Turn(g) \/ Spawn(g) PROVE IpcServerTypeOK'
  BY <1>7 DEF Turn, Spawn, NoPeer
<1>8. ASSUME NEW g \in Loops, Admit(g) \/ AddActive(g) \/ AcceptFails(g) \/ ReceiveShutdown(g)
      PROVE  IpcServerTypeOK'
  BY <1>8 DEF Admit, AddActive, AcceptFails, ReceiveShutdown
<1>9. ASSUME NEW g \in Loops, LookAtFlag(g) PROVE IpcServerTypeOK'
  BY <1>9 DEF LookAtFlag
<1>10. ASSUME NEW g \in Loops, EndLoop(g) PROVE IpcServerTypeOK'
  BY <1>10 DEF EndLoop
<1>11. ASSUME NEW g \in Loops, NEW p \in Peers, Accept(g, p) PROVE IpcServerTypeOK'
  BY <1>11 DEF Accept
<1>12. ASSUME NEW p \in Peers, Connect(p) PROVE IpcServerTypeOK'
  BY <1>12 DEF Connect
<1>13. ASSUME NEW p \in Peers, SessionEnds(p) PROVE IpcServerTypeOK'
  <2>1. p \in Connections
    BY <1>13 DEF SessionEnds, Connections
  <2>2. active \in Nat /\ active = Cardinality(Connections) /\ Cardinality(Connections) >= 1
    <3>1. active \in Nat /\ active = Cardinality(Connections)
      BY ActiveCountsConnections
    <3>2. Cardinality(Connections) >= 1
      BY <2>1, ConnectionsCount
    <3> QED
      BY <3>1, <3>2
  <2>3. active - 1 \in Nat
    BY <2>2
  <2> QED
    BY <1>13, <2>3 DEF SessionEnds
<1>14. ASSUME NEW p \in Peers, RecordEnd(p) PROVE IpcServerTypeOK'
  BY <1>14 DEF RecordEnd
<1>15. CASE UNCHANGED ipcServerVars
  BY <1>15 DEF ipcServerVars
<1> QED
  BY <1>1, <1>2, <1>3, <1>4, <1>5, <1>6, <1>7, <1>8, <1>9, <1>10, <1>11, <1>12, <1>13,
     <1>14, <1>15
  DEF IpcServerNext, AdminStep, LoopStep

LEMMA NextPlaceInv == ServerInv /\ [IpcServerNext]_ipcServerVars => PlaceInv'
<1> SUFFICES ASSUME ServerInv, [IpcServerNext]_ipcServerVars
             PROVE  PlaceInv'
  OBVIOUS
<1> USE DEF ServerInv, IpcServerTypeOK, PlaceInv, loopVars, peerVars
<1>1. ASSUME NEW k \in Admins, StartRefused(k) \/ StopIdle(k) PROVE PlaceInv'
  BY <1>1 DEF StartRefused, StopIdle, ipcServerVars
<1>2. ASSUME NEW k \in Admins, Start(k) \/ Stop(k) \/ BindFails(k) \/ Send(k) PROVE PlaceInv'
  BY <1>2 DEF Start, Stop, BindFails, Send
<1>3. ASSUME NEW k \in Admins, Bind(k) PROVE PlaceInv'
  <2>1. PICK g \in Loops : loop' = [loop EXCEPT ![g] = "listening"]
    BY <1>3 DEF Bind
  <2> QED
    BY <1>3, <2>1 DEF Bind
<1>4. ASSUME NEW g \in Loops, Turn(g) \/ Spawn(g) PROVE PlaceInv'
  BY <1>4 DEF Turn, Spawn
<1>5. ASSUME NEW g \in Loops, AddActive(g) PROVE PlaceInv'
  BY <1>5 DEF AddActive
<1>6. ASSUME NEW g \in Loops, Admit(g) \/ AcceptFails(g) \/ ReceiveShutdown(g) \/ LookAtFlag(g)
      PROVE  PlaceInv'
  BY <1>6 DEF Admit, AcceptFails, ReceiveShutdown, LookAtFlag
<1>7. ASSUME NEW g \in Loops, EndLoop(g) PROVE PlaceInv'
  BY <1>7 DEF EndLoop
<1>8. ASSUME NEW g \in Loops, NEW p \in Peers, Accept(g, p) PROVE PlaceInv'
  BY <1>8 DEF Accept
<1>9. ASSUME NEW p \in Peers, Connect(p) \/ SessionEnds(p) \/ RecordEnd(p) PROVE PlaceInv'
  BY <1>9 DEF Connect, SessionEnds, RecordEnd
<1>10. CASE UNCHANGED ipcServerVars
  BY <1>10 DEF ipcServerVars
<1> QED
  BY <1>1, <1>2, <1>3, <1>4, <1>5, <1>6, <1>7, <1>8, <1>9, <1>10
  DEF IpcServerNext, AdminStep, LoopStep

-------------------------------------------------------------------------------
(* What each step does to the three sets and to the two counts *)

\* A step that is none of the five that count.
CountsKept ==
    /\ Begun' = Begun /\ Admitted' = Admitted /\ Connections' = Connections
    /\ active' = active
    /\ stats'.active = stats.active
    /\ \A g \in Loops : loop[g] = "record" => loop'[g] = "record"
    /\ \A p \in Peers : peer[p] = "uncounted" => peer'[p] = "uncounted"

LEMMA QuietSteps ==
    ASSUME ServerInv,
           \/ \E k \in Admins : \/ StartRefused(k) \/ Start(k) \/ StopIdle(k) \/ Stop(k)
                                \/ BindFails(k) \/ Send(k)
           \/ \E g \in Loops : \/ Turn(g) \/ LookAtFlag(g) \/ EndLoop(g) \/ AcceptFails(g)
                               \/ ReceiveShutdown(g) \/ \E p \in Peers : Accept(g, p)
           \/ \E p \in Peers : Connect(p)
           \/ UNCHANGED ipcServerVars
    PROVE  CountsKept
<1> USE DEF ServerInv, IpcServerTypeOK, PlaceInv, loopVars, peerVars,
            CountsKept, Begun, Admitted, Connections
<1>1. ASSUME NEW k \in Admins, StartRefused(k) \/ StopIdle(k) \/ UNCHANGED ipcServerVars
      PROVE  CountsKept
  BY <1>1 DEF StartRefused, StopIdle, ipcServerVars
<1>2. ASSUME NEW k \in Admins, Start(k) \/ Stop(k) \/ BindFails(k) \/ Send(k) PROVE CountsKept
  BY <1>2 DEF Start, Stop, BindFails, Send
<1>3. ASSUME NEW g \in Loops, Turn(g) PROVE CountsKept
  BY <1>3 DEF Turn
<1>4. ASSUME NEW g \in Loops, LookAtFlag(g) \/ AcceptFails(g) \/ ReceiveShutdown(g)
      PROVE  CountsKept
  BY <1>4 DEF LookAtFlag, AcceptFails, ReceiveShutdown
<1>5. ASSUME NEW g \in Loops, EndLoop(g) PROVE CountsKept
  BY <1>5 DEF EndLoop
<1>6. ASSUME NEW g \in Loops, NEW p \in Peers, Accept(g, p) PROVE CountsKept
  BY <1>6 DEF Accept
<1>7. ASSUME NEW p \in Peers, Connect(p) PROVE CountsKept
  BY <1>7 DEF Connect
<1>8. CASE UNCHANGED ipcServerVars
  BY <1>8 DEF ipcServerVars
<1> QED
  BY <1>1, <1>2, <1>3, <1>4, <1>5, <1>6, <1>7, <1>8

LEMMA BindCounts ==
    ASSUME ServerInv, NEW k \in Admins, Bind(k)
    PROVE  /\ \E g \in Loops : Begun' = Begun \cup {g}
           /\ Admitted' = Admitted /\ Connections' = Connections
           /\ active' = active /\ stats' = stats /\ peer' = peer
           /\ \A g \in Loops : loop[g] = "record" => loop'[g] = "record"
<1>1. PICK g \in Loops : loop[g] = "none" /\ loop' = [loop EXCEPT ![g] = "listening"]
  BY DEF Bind
<1>2. Begun' = Begun \cup {g} /\ Admitted' = Admitted
  BY <1>1 DEF ServerInv, IpcServerTypeOK, Begun, Admitted
<1> QED
  BY <1>1, <1>2 DEF Bind, peerVars, ServerInv, IpcServerTypeOK, Connections

LEMMA AdmitCounts ==
    ASSUME ServerInv, NEW g \in Loops, Admit(g)
    PROVE  /\ g \in Begun /\ Begun' = Begun
           /\ Admitted' = Admitted \cup {g} /\ Connections' = Connections
           /\ active' = active /\ active < MaxConnections
           /\ stats' = stats /\ peer' = peer
           /\ \A h \in Loops : loop[h] = "record" => loop'[h] = "record"
<1>1. active < MaxConnections
  BY IpcServerAssumption DEF IpcServerAssumption, Admit, LimitReached, ServerInv, IpcServerTypeOK
<1> QED
  BY <1>1 DEF Admit, peerVars, ServerInv, IpcServerTypeOK, Begun, Admitted, Connections

LEMMA AddActiveCounts ==
    ASSUME ServerInv, NEW g \in Loops, AddActive(g)
    PROVE  /\ Begun' = Begun
           /\ g \in Admitted /\ Admitted' = Admitted \ {g}
           /\ \E p \in Peers : p \notin Connections /\ Connections' = Connections \cup {p}
           /\ active' = active + 1
           /\ loop'[g] = "record"
<1>1. serving[g] \in Peers /\ peer[serving[g]] = "accepted"
  BY DEF AddActive, ServerInv, IpcServerTypeOK, PlaceInv
<1>2. serving[g] \notin Connections /\ Connections' = Connections \cup {serving[g]}
  BY <1>1 DEF AddActive, ServerInv, IpcServerTypeOK, Connections
<1>3. Begun' = Begun /\ g \in Admitted /\ Admitted' = Admitted \ {g} /\ loop'[g] = "record"
  BY DEF AddActive, ServerInv, IpcServerTypeOK, Begun, Admitted
<1> QED
  BY <1>1, <1>2, <1>3 DEF AddActive

LEMMA SpawnCounts ==
    ASSUME ServerInv, NEW g \in Loops, Spawn(g)
    PROVE  /\ Begun' = Begun /\ Admitted' = Admitted /\ Connections' = Connections
           /\ active' = active /\ stats'.active = active
<1>1. serving[g] \in Peers /\ peer[serving[g]] = "counted"
  BY DEF Spawn, ServerInv, IpcServerTypeOK, PlaceInv
<1>2. Connections' = Connections
  BY <1>1 DEF Spawn, ServerInv, IpcServerTypeOK, Connections
<1> QED
  BY <1>2 DEF Spawn, ServerInv, IpcServerTypeOK, Begun, Admitted

LEMMA SessionEndsCounts ==
    ASSUME ServerInv, NEW p \in Peers, SessionEnds(p)
    PROVE  /\ Begun' = Begun /\ Admitted' = Admitted
           /\ p \in Connections /\ Connections' = Connections \ {p}
           /\ active' = active - 1
           /\ peer'[p] = "uncounted"
  BY DEF SessionEnds, loopVars, ServerInv, IpcServerTypeOK, Begun, Admitted, Connections

LEMMA RecordEndCounts ==
    ASSUME ServerInv, NEW p \in Peers, RecordEnd(p)
    PROVE  /\ Begun' = Begun /\ Admitted' = Admitted /\ Connections' = Connections
           /\ active' = active /\ stats'.active = active
  BY DEF RecordEnd, loopVars, ServerInv, IpcServerTypeOK, Begun, Admitted, Connections

-------------------------------------------------------------------------------
(* The limit and the numbers *)

LEMMA NextAdmitInv == ServerInv /\ [IpcServerNext]_ipcServerVars => AdmitInv'
<1> SUFFICES ASSUME ServerInv, [IpcServerNext]_ipcServerVars
             PROVE  AdmitInv'
  OBVIOUS
<1> DEFINE Past(n) == MaxConnections + (IF n > 1 THEN n - 1 ELSE 0)
<1>0. /\ active \in Nat /\ MaxConnections \in Nat
      /\ Cardinality(Begun) \in Nat /\ Cardinality(Admitted) \in Nat
      /\ active + Cardinality(Admitted) <= Past(Cardinality(Begun))
  BY ActiveCountsConnections, SetsFinite, IpcServerAssumption
  DEF IpcServerAssumption, ServerInv, AdmitInv
<1>1. SUFFICES active' + Cardinality(Admitted') <= Past(Cardinality(Begun'))
  BY DEF AdmitInv
<1>2. CASE CountsKept
  BY <1>0, <1>2 DEF CountsKept
<1>3. ASSUME NEW k \in Admins, Bind(k)
      PROVE  active' + Cardinality(Admitted') <= Past(Cardinality(Begun'))
  <2>1. PICK g \in Loops : Begun' = Begun \cup {g}
    BY <1>3, BindCounts
  <2>2. Cardinality(Begun') >= Cardinality(Begun) /\ Cardinality(Begun') \in Nat
    BY <2>1, BegunGrows
  <2>3. active' = active /\ Cardinality(Admitted') = Cardinality(Admitted)
    BY <1>3, BindCounts
  <2> QED
    BY <2>2, <2>3, <1>0
<1>4. ASSUME NEW g \in Loops, Admit(g)
      PROVE  active' + Cardinality(Admitted') <= Past(Cardinality(Begun'))
  <2>1. active' = active /\ active < MaxConnections /\ Cardinality(Begun') = Cardinality(Begun)
    BY <1>4, AdmitCounts
  <2>2. Cardinality(Admitted') <= Cardinality(Begun)
    BY <1>4, AdmitCounts, AdmittedBounds
  <2>3. Cardinality(Admitted') \in Nat
    <3>1. Admitted' \subseteq Begun
      BY <1>4, AdmitCounts DEF Admitted, Begun
    <3> QED
      BY <3>1, SetsFinite, FS_Subset, FS_CardinalityType
  <2> QED
    BY <2>1, <2>2, <2>3, <1>0
<1>5. ASSUME NEW g \in Loops, AddActive(g)
      PROVE  active' + Cardinality(Admitted') <= Past(Cardinality(Begun'))
  <2>1. /\ active' = active + 1
        /\ Cardinality(Admitted') = Cardinality(Admitted) - 1
        /\ Cardinality(Begun') = Cardinality(Begun)
    BY <1>5, AddActiveCounts, AdmittedBounds
  <2> QED
    BY <2>1, <1>0
<1>6. ASSUME NEW g \in Loops, Spawn(g)
      PROVE  active' + Cardinality(Admitted') <= Past(Cardinality(Begun'))
  BY <1>6, <1>0, SpawnCounts
<1>7. ASSUME NEW p \in Peers, SessionEnds(p)
      PROVE  active' + Cardinality(Admitted') <= Past(Cardinality(Begun'))
  BY <1>7, <1>0, SessionEndsCounts
<1>8. ASSUME NEW p \in Peers, RecordEnd(p)
      PROVE  active' + Cardinality(Admitted') <= Past(Cardinality(Begun'))
  BY <1>8, <1>0, RecordEndCounts
<1> HIDE DEF Past
<1> QED
  BY <1>2, <1>3, <1>4, <1>5, <1>6, <1>7, <1>8, QuietSteps
  DEF IpcServerNext, AdminStep, LoopStep

LEMMA NextStatsSettle == ServerInv /\ [IpcServerNext]_ipcServerVars => StatsSettle'
<1> SUFFICES ASSUME ServerInv, [IpcServerNext]_ipcServerVars
             PROVE  StatsSettle'
  OBVIOUS
<1> DEFINE Settled == (\A g \in Loops : loop[g] # "record") /\ (\A p \in Peers : peer[p] # "uncounted")
<1>0. /\ active \in Nat /\ active = Cardinality(Connections)
      /\ Settled => stats.active = active
  BY ActiveCountsConnections DEF ServerInv, StatsSettle
<1>1. SUFFICES active' = Cardinality(Connections') /\ (Settled' => stats'.active = active')
  BY DEF StatsSettle, Connections
<1>2. CASE CountsKept
  <2>1. Settled' => Settled
    BY <1>2 DEF CountsKept
  <2> QED
    BY <1>0, <1>2, <2>1 DEF CountsKept
<1>3. ASSUME NEW k \in Admins, Bind(k)
      PROVE  active' = Cardinality(Connections') /\ (Settled' => stats'.active = active')
  <2>1. Settled' => Settled
    BY <1>3, BindCounts
  <2> QED
    BY <1>0, <1>3, <2>1, BindCounts
<1>4. ASSUME NEW g \in Loops, Admit(g)
      PROVE  active' = Cardinality(Connections') /\ (Settled' => stats'.active = active')
  <2>1. Settled' => Settled
    BY <1>4, AdmitCounts
  <2> QED
    BY <1>0, <1>4, <2>1, AdmitCounts
<1>5. ASSUME NEW g \in Loops, AddActive(g)
      PROVE  active' = Cardinality(Connections') /\ (Settled' => stats'.active = active')
  <2>1. ~ Settled'
    BY <1>5, AddActiveCounts
  <2>2. PICK p \in Peers : p \notin Connections /\ Connections' = Connections \cup {p}
    BY <1>5, AddActiveCounts
  <2>3. Cardinality(Connections') = Cardinality(Connections) + 1 /\ active' = active + 1
    BY <1>5, <2>2, AddActiveCounts, ConnectionsCount
  <2> HIDE DEF Settled
  <2> QED
    BY <2>1, <2>3, <1>0
<1>6. ASSUME NEW g \in Loops, Spawn(g)
      PROVE  active' = Cardinality(Connections') /\ (Settled' => stats'.active = active')
  BY <1>6, <1>0, SpawnCounts
<1>7. ASSUME NEW p \in Peers, SessionEnds(p)
      PROVE  active' = Cardinality(Connections') /\ (Settled' => stats'.active = active')
  <2>1. ~ Settled'
    BY <1>7, SessionEndsCounts
  <2>2. Cardinality(Connections') = Cardinality(Connections) - 1 /\ active' = active - 1
    BY <1>7, SessionEndsCounts, ConnectionsCount
  <2> HIDE DEF Settled
  <2> QED
    BY <2>1, <2>2, <1>0
<1>8. ASSUME NEW p \in Peers, RecordEnd(p)
      PROVE  active' = Cardinality(Connections') /\ (Settled' => stats'.active = active')
  BY <1>8, <1>0, RecordEndCounts
<1> HIDE DEF Settled
<1> QED
  BY <1>2, <1>3, <1>4, <1>5, <1>6, <1>7, <1>8, QuietSteps
  DEF IpcServerNext, AdminStep, LoopStep

LEMMA NextServerInv == ServerInv /\ [IpcServerNext]_ipcServerVars => ServerInv'
<1> SUFFICES ASSUME ServerInv, [IpcServerNext]_ipcServerVars
             PROVE  ServerInv'
  OBVIOUS
<1> QED
  BY NextServerTypeOK, NextPlaceInv, NextAdmitInv, NextStatsSettle DEF ServerInv

LEMMA ServerInvImplies == ServerInv => ConnectionsCounted
<1> SUFFICES ASSUME ServerInv PROVE ConnectionsBounded
  BY DEF ServerInv, ConnectionsCounted
<1>1. /\ active \in Nat /\ MaxConnections \in Nat
      /\ Cardinality(Begun) \in Nat /\ Cardinality(Admitted) \in Nat
  BY ActiveCountsConnections, SetsFinite, IpcServerAssumption DEF IpcServerAssumption
<1>2. active <= MaxConnections + (IF Cardinality(Begun) > 1 THEN Cardinality(Begun) - 1 ELSE 0)
  BY <1>1 DEF ServerInv, AdmitInv
<1> QED
  BY <1>2 DEF ConnectionsBounded, Begun

\* However many clients connect and however the starts, stops and loops interleave, no more
\* connections are served than max_connections and one for each further loop, and the
\* counter and the statistics agree with the connections whenever nobody is between them.
THEOREM ServerConnectionsCounted == IpcServerSpec => []ConnectionsCounted
<1>1. IpcServerInit => ServerInv
  BY InitServerInv
<1>2. ServerInv /\ [IpcServerNext]_ipcServerVars => ServerInv'
  BY NextServerInv
<1>3. ServerInv => ConnectionsCounted
  BY ServerInvImplies
<1> QED
  BY <1>1, <1>2, <1>3, PTL DEF IpcServerSpec

-------------------------------------------------------------------------------
(* The flag and the listener *)

AllIdle == \A k \in Admins : apc[k] = "idle"

\* Until starts, stops and loops meet, one administrator is at work at a time: the one that
\* binds finds no loop alive, and a server that runs has one loop, which the path names.
FlagInv ==
    ~spoiled =>
        /\ \A j, k \in Admins : apc[j] # "idle" /\ apc[k] # "idle" => j = k
        /\ \A k \in Admins : apc[k] = "bind" => running /\ \A g \in Loops : ~Alive(g)
        /\ \A k \in Admins : apc[k] = "send" => ~running
        /\ AllIdle /\ running =>
              /\ socketFile \in Loops /\ Alive(socketFile) /\ socketFile \notin told
              /\ loop[socketFile] # "cleanup"
              /\ \A g \in Loops : Alive(g) => g = socketFile
        /\ AllIdle /\ ~running =>
              \A g \in Loops : Alive(g) => (g \in told \/ loop[g] = "cleanup")

LEMMA InitFlagInv == IpcServerInit => FlagInv
  BY DEF IpcServerInit, FlagInv, Alive

LEMMA NextFlagInv ==
    IpcServerTypeOK /\ FlagInv /\ [IpcServerNext]_ipcServerVars => FlagInv'
<1> SUFFICES ASSUME IpcServerTypeOK, FlagInv, [IpcServerNext]_ipcServerVars
             PROVE  FlagInv'
  OBVIOUS
<1> USE DEF IpcServerTypeOK, FlagInv, AllIdle, Alive, Admin, loopVars, peerVars
<1>1. ASSUME NEW k \in Admins, StartRefused(k) \/ StopIdle(k) PROVE FlagInv'
  BY <1>1 DEF StartRefused, StopIdle, ipcServerVars
<1>2. ASSUME NEW k \in Admins, Start(k) PROVE FlagInv'
  BY <1>2 DEF Start, Interferes, Others
<1>3. ASSUME NEW k \in Admins, BindFails(k) PROVE FlagInv'
  BY <1>3 DEF BindFails
<1>4. ASSUME NEW k \in Admins, Bind(k) PROVE FlagInv'
  <2>1. PICK g \in Loops : /\ loop[g] = "none"
                           /\ loop' = [loop EXCEPT ![g] = "listening"] /\ socketFile' = g
    BY <1>4 DEF Bind
  <2> QED
    BY <1>4, <2>1 DEF Bind
<1>5. ASSUME NEW k \in Admins, Stop(k) PROVE FlagInv'
  BY <1>5 DEF Stop, Interferes, Others
<1>6. ASSUME NEW k \in Admins, Send(k) PROVE FlagInv'
  BY <1>6 DEF Send
<1>7. ASSUME NEW g \in Loops, Turn(g) \/ Admit(g) \/ AddActive(g) \/ Spawn(g) \/ AcceptFails(g)
      PROVE  FlagInv'
  BY <1>7 DEF Turn, Admit, AddActive, Spawn, AcceptFails
<1>8. ASSUME NEW g \in Loops, LookAtFlag(g) PROVE FlagInv'
  BY <1>8 DEF LookAtFlag
<1>9. ASSUME NEW g \in Loops, ReceiveShutdown(g) PROVE FlagInv'
  BY <1>9 DEF ReceiveShutdown
<1>10. ASSUME NEW g \in Loops, EndLoop(g) PROVE FlagInv'
  BY <1>10 DEF EndLoop
<1>11. ASSUME NEW g \in Loops, NEW p \in Peers, Accept(g, p) PROVE FlagInv'
  BY <1>11 DEF Accept
<1>12. ASSUME NEW p \in Peers, Connect(p) \/ SessionEnds(p) \/ RecordEnd(p) PROVE FlagInv'
  BY <1>12 DEF Connect, SessionEnds, RecordEnd
<1>13. CASE UNCHANGED ipcServerVars
  BY <1>13 DEF ipcServerVars
<1> QED
  BY <1>1, <1>2, <1>3, <1>4, <1>5, <1>6, <1>7, <1>8, <1>9, <1>10, <1>11, <1>12, <1>13
  DEF IpcServerNext, AdminStep, LoopStep

\* Unless a bind failed, or starts, stops and the loop of an earlier start met: when no
\* administrator is at work, a server that runs is reached under its path by a loop that
\* goes on, and one that was stopped has told every loop to end.
THEOREM ServerFlagTellsTheTruth == IpcServerSpec => []FlagTellsTheTruth
<1>1. IpcServerInit => ServerInv /\ FlagInv
  BY InitServerInv, InitFlagInv
<1>2. ServerInv /\ FlagInv /\ [IpcServerNext]_ipcServerVars => (ServerInv /\ FlagInv)'
  BY NextServerInv, NextFlagInv DEF ServerInv
<1>3. FlagInv => FlagTellsTheTruth
  BY DEF FlagInv, AllIdle, FlagTellsTheTruth, Loops
<1> QED
  BY <1>1, <1>2, <1>3, PTL DEF IpcServerSpec

--------------------------------------------------------------------------------
(***************************************************************************)
(* One connection.  A part's place in what was sent, or written, tells     *)
(* what it is: places are counted from 1, and of the two parts of line j   *)
(* the second has the place 2 * j.  Pipeline says how far the server has   *)
(* read and answered, and how far the client has read the answers.         *)
(***************************************************************************)
\* Requests for which send_request has returned.
Returned == IF waiting THEN sent - 1 ELSE sent

TimedOut == {q \in RequestNumbers : answer[q].kind = "timeout"}

\* What the response to request j may be about.
Responses(j) ==
    {x \in {j, Unknown} : (x = j => handled[j] = 1) /\ (x = Unknown => cut > 0)}

\* The parts of q, which come after so many others, are of lines about what each may be.
Stream(q, read, may) ==
    \A i \in 1..Len(q) : \A j \in DOMAIN may :
        /\ read + i = 2 * j - 1 => \E x \in may[j] : q[i] = <<x, "begin">>
        /\ read + i = 2 * j => \E x \in may[j] : q[i] = <<x, "end">>

Requests == [j \in RequestNumbers |-> {j}]
Answers == [j \in RequestNumbers |-> Responses(j)]

\* The server has read the whole of d lines, and a part of another perhaps.
ServerAt(d, read) ==
    /\ server.place = "reading" =>
          \/ serverLine = <<>> /\ read = 2 * d
          \/ serverLine = <<>> /\ read = 2 * d + 1 /\ cut > 0
          \/ serverLine = <<<<d + 1, "begin">>>> /\ read = 2 * d + 1
    /\ server.place \in {"line", "handling", "writing"} => d > 0 /\ read = 2 * d
    /\ server.place = "line" =>
          \/ serverLine = Line(d)
          \/ serverLine = <<<<d, "end">>>> /\ cut > 0
    /\ server.place \in {"handling", "writing", "closed"} => serverLine = <<>>
    /\ server.place = "handling" => server.about = d
    /\ server.place = "writing" => server.about \in Responses(d)

\* Of the lines that were read all but the last have been dealt with.
HandledSoFar(d) ==
    \A q \in RequestNumbers :
        /\ handled[q] \in {0, 1}
        /\ q > d \/ (q = d /\ server.place \in {"line", "handling"}) => handled[q] = 0

\* After its disconnect the client sends nothing, and the server goes only then.
LastWords ==
    connected =>
        /\ \A q \in 1..sent : KindOf[q] = "disconnect" => q = sent /\ waiting
        /\ ~ServerOpen => waiting /\ KindOf[sent] = "disconnect"

\* Responses that have been written.
Written(d) == IF server.place \in {"line", "handling", "writing"} THEN d - 1 ELSE d

\* The client has read the whole of k responses, and a part of another perhaps.
ClientAt(k, read) ==
    \/ clientLine = <<>> /\ read = 2 * k
    \/ clientLine = <<>> /\ read = 2 * k + 1 /\ TimedOut # {}
    \/ read = 2 * k + 1 /\ \E x \in Responses(k + 1) : clientLine = <<<<x, "begin">>>>

\* The requests that are under way, and the responses.
ServerSide(d) ==
    /\ d \in 0..sent /\ ServerAt(d, 2 * sent - Len(toServer)) /\ HandledSoFar(d)
    /\ Stream(toServer, 2 * sent - Len(toServer), Requests)
ClientSide(d, k) ==
    connected =>
        /\ k \in 0..Written(d)
        /\ ClientAt(k, 2 * Written(d) - Len(toClient))
        /\ Stream(toClient, 2 * Written(d) - Len(toClient), Answers)
        /\ k = Returned - Cardinality(TimedOut)
Pipeline(d, k) == ServerSide(d) /\ ClientSide(d, k)

\* What has been answered so far.
AnswersSoFar ==
    \A r \in RequestNumbers :
        /\ r > Returned => answer[r] = Outcome("none")
        /\ answer[r].about \in RequestNumbers =>
              answer[r].about = r - TimeoutsBefore(r) /\ handled[answer[r].about] = 1
        /\ answer[r] = Answered(Unknown) => cut > 0
        /\ answer[r].kind = "garbled" => TimeoutsBefore(r) > 0

SessionInv ==
    /\ IpcSessionTypeOK /\ CountsAddUp /\ LastWords /\ AnswersSoFar
    /\ \E d, k \in 0..sent : Pipeline(d, k)

--------------------------------------------------------------------------------
(* Parts under way.                                                        *)
LEMMA StreamTail ==
    ASSUME NEW X, NEW q \in Seq(X), q # <<>>, NEW read \in Int, NEW may,
           DOMAIN may \subseteq Int, Stream(q, read, may)
    PROVE  /\ Stream(Tail(q), read + 1, may)
           /\ Head(q) \in X /\ Tail(q) \in Seq(X) /\ Len(Tail(q)) = Len(q) - 1 /\ Len(q) \in Nat \ {0}
           /\ \A j \in DOMAIN may :
                 /\ read = 2 * j - 2 => \E x \in may[j] : Head(q) = <<x, "begin">>
                 /\ read = 2 * j - 1 => \E x \in may[j] : Head(q) = <<x, "end">>
<1>1. /\ Head(q) \in X /\ Head(q) = q[1] /\ Tail(q) \in Seq(X) /\ Len(Tail(q)) = Len(q) - 1
      /\ Len(q) \in Nat \ {0} /\ \A i \in 1..Len(Tail(q)) : Tail(q)[i] = q[i + 1]
  OBVIOUS
<1>2. ASSUME NEW i \in 1..Len(Tail(q)), NEW j \in DOMAIN may
      PROVE  /\ (read + 1) + i = 2 * j - 1 => \E x \in may[j] : Tail(q)[i] = <<x, "begin">>
             /\ (read + 1) + i = 2 * j => \E x \in may[j] : Tail(q)[i] = <<x, "end">>
  <2>1. i + 1 \in 1..Len(q) /\ Tail(q)[i] = q[i + 1] /\ (read + 1) + i = read + (i + 1)
    BY <1>1
  <2> QED
    BY <2>1 DEF Stream
<1>3. ASSUME NEW j \in DOMAIN may
      PROVE  /\ read = 2 * j - 2 => \E x \in may[j] : Head(q) = <<x, "begin">>
             /\ read = 2 * j - 1 => \E x \in may[j] : Head(q) = <<x, "end">>
  <2>1. 1 \in 1..Len(q)
    BY <1>1
  <2>2. /\ read + 1 = 2 * j - 1 => \E x \in may[j] : Head(q) = <<x, "begin">>
        /\ read + 1 = 2 * j => \E x \in may[j] : Head(q) = <<x, "end">>
    BY <1>1, <2>1 DEF Stream
  <2>3. j \in Int
    OBVIOUS
  <2> QED
    BY <2>2, <2>3
<1> QED
  BY <1>1, <1>2, <1>3 DEF Stream

LEMMA Places ==
    ASSUME NEW l \in Nat, NEW read \in Int, NEW m \in Int, read + l = 2 * m - 2,
           NEW i \in 1..(l + 2), NEW j \in Int
    PROVE  /\ i \in 1..l \/ i = l + 1 \/ i = l + 2
           /\ i = l + 1 => read + i # 2 * j /\ (read + i = 2 * j - 1 => j = m)
           /\ i = l + 2 => read + i # 2 * j - 1 /\ (read + i = 2 * j => j = m)
OBVIOUS

LEMMA StreamMore ==
    ASSUME NEW X, NEW q \in Seq(X), NEW read \in Int, NEW may, DOMAIN may \subseteq Int,
           Stream(q, read, may),
           NEW m \in DOMAIN may, read + Len(q) = 2 * m - 2,
           NEW x \in may[m], <<x, "begin">> \in X, <<x, "end">> \in X
    PROVE  /\ Stream(q \o Line(x), read, may)
           /\ q \o Line(x) \in Seq(X) /\ Len(q \o Line(x)) = Len(q) + 2
<1> DEFINE more == Line(x)
<1>1. more \in Seq(X) /\ Len(more) = 2 /\ more[1] = <<x, "begin">> /\ more[2] = <<x, "end">>
  BY DEF Line
<1>2. Len(q) \in Nat /\ m \in Int
  OBVIOUS
<1> HIDE DEF more
<1>3. /\ q \o more \in Seq(X) /\ Len(q \o more) = Len(q) + 2
      /\ \A i \in 1..Len(q) : (q \o more)[i] = q[i]
      /\ (q \o more)[Len(q) + 1] = <<x, "begin">> /\ (q \o more)[Len(q) + 2] = <<x, "end">>
  <2>1. /\ q \o more \in Seq(X) /\ Len(q \o more) = Len(q) + Len(more)
        /\ \A i \in 1..(Len(q) + Len(more)) : (q \o more)[i] = IF i <= Len(q) THEN q[i] ELSE more[i - Len(q)]
    BY <1>1, ConcatProperties
  <2>2. Len(q) + 1 \in 1..(Len(q) + Len(more)) /\ Len(q) + 2 \in 1..(Len(q) + Len(more))
        /\ ~ (Len(q) + 1 <= Len(q)) /\ ~ (Len(q) + 2 <= Len(q))
        /\ (Len(q) + 1) - Len(q) = 1 /\ (Len(q) + 2) - Len(q) = 2
    BY <1>1, <1>2
  <2>3. \A i \in 1..Len(q) : i \in 1..(Len(q) + Len(more)) /\ i <= Len(q)
    BY <1>1, <1>2
  <2> QED
    BY <1>1, <2>1, <2>2, <2>3
<1> DEFINE l == Len(q)
<1>6. l \in Nat /\ Len(q \o more) = l + 2 /\ read + l = 2 * m - 2
      /\ (q \o more)[l + 1] = <<x, "begin">> /\ (q \o more)[l + 2] = <<x, "end">>
      /\ \A i \in 1..l : (q \o more)[i] = q[i]
  BY <1>2, <1>3
<1>7. \A i \in 1..l : \A j \in DOMAIN may :
        /\ read + i = 2 * j - 1 => \E y \in may[j] : q[i] = <<y, "begin">>
        /\ read + i = 2 * j => \E y \in may[j] : q[i] = <<y, "end">>
  BY DEF Stream
<1> HIDE DEF l
<1>4. ASSUME NEW i \in 1..Len(q \o more), NEW j \in DOMAIN may
      PROVE  /\ read + i = 2 * j - 1 => \E y \in may[j] : (q \o more)[i] = <<y, "begin">>
             /\ read + i = 2 * j => \E y \in may[j] : (q \o more)[i] = <<y, "end">>
  <2>1. j \in Int /\ i \in 1..(l + 2)
    BY <1>6
  <2>2. /\ i \in 1..l \/ i = l + 1 \/ i = l + 2
        /\ i = l + 1 => read + i # 2 * j /\ (read + i = 2 * j - 1 => j = m)
        /\ i = l + 2 => read + i # 2 * j - 1 /\ (read + i = 2 * j => j = m)
    <3>1. l \in Nat /\ read \in Int /\ m \in Int /\ read + l = 2 * m - 2
      BY <1>2, <1>6
    <3> QED
      BY ONLY <2>1, <3>1, Places
  <2>3. CASE i \in 1..l
    BY <1>6, <1>7, <2>3
  <2>4. CASE i = l + 1
    BY <1>6, <2>2, <2>4
  <2>5. CASE i = l + 2
    BY <1>6, <2>2, <2>5
  <2> QED
    BY <2>2, <2>3, <2>4, <2>5
<1>5. Stream(q \o more, read, may)
  BY <1>4 DEF Stream
<1> QED
  BY <1>3, <1>5 DEF more

LEMMA StreamMay ==
    ASSUME NEW q, NEW read, NEW may, NEW more, Stream(q, read, may),
           DOMAIN more = DOMAIN may, \A j \in DOMAIN may : may[j] \subseteq more[j]
    PROVE  Stream(q, read, more)
BY DEF Stream

--------------------------------------------------------------------------------
LEMMA Numbers ==
    /\ RequestNumbers \subseteq Nat \ {0} /\ Unknown \notin RequestNumbers /\ IsFiniteSet(RequestNumbers)
    /\ \A r \in RequestNumbers : 1..r \subseteq RequestNumbers
    /\ \A x \in {Unknown} \cup RequestNumbers : <<x, "begin">> \in Parts /\ <<x, "end">> \in Parts
    /\ DOMAIN Requests = RequestNumbers /\ DOMAIN Answers = RequestNumbers
    /\ \A j \in RequestNumbers : Requests[j] = {j} /\ Answers[j] = Responses(j)
<1>1. /\ IsFiniteSet(RequestNumbers) /\ RequestNumbers = 1..Cardinality(RequestNumbers)
  BY IpcSessionAssumption DEF IpcSessionAssumption
<1>2. Cardinality(RequestNumbers) \in Nat
  BY <1>1, FS_CardinalityType
<1> DEFINE n == Cardinality(RequestNumbers)
<1>3. n \in Nat /\ RequestNumbers = 1..n
  BY <1>1, <1>2
<1> HIDE DEF n
<1>4. RequestNumbers \subseteq Nat \ {0} /\ Unknown \notin RequestNumbers
  BY <1>3 DEF Unknown
<1>5. \A r \in RequestNumbers : 1..r \subseteq RequestNumbers
  BY <1>3
<1> QED
  BY <1>1, <1>4, <1>5 DEF Parts, Requests, Answers

\* The variables and their bounds, at any time.
LEMMA Sizes ==
    ASSUME IpcSessionTypeOK
    PROVE  /\ sent \in Nat /\ 1..sent \subseteq RequestNumbers
           /\ (sent # 0 => sent \in RequestNumbers)
           /\ Len(toServer) \in Nat /\ Len(toClient) \in Nat
           /\ Returned \in Int /\ (waiting => Returned = sent - 1) /\ (~ waiting => Returned = sent)
           /\ TimedOut \subseteq RequestNumbers /\ IsFiniteSet(TimedOut) /\ Cardinality(TimedOut) \in Nat
<1>1. sent \in Nat /\ 1..sent \subseteq RequestNumbers /\ (sent # 0 => sent \in RequestNumbers)
  BY Numbers DEF IpcSessionTypeOK
<1>2. Len(toServer) \in Nat /\ Len(toClient) \in Nat /\ waiting \in BOOLEAN
  BY DEF IpcSessionTypeOK
<1>3. TimedOut \subseteq RequestNumbers
  BY DEF TimedOut
<1>4. IsFiniteSet(TimedOut) /\ Cardinality(TimedOut) \in Nat
  BY <1>3, Numbers, FS_Subset, FS_CardinalityType
<1> QED
  BY <1>1, <1>2, <1>3, <1>4 DEF Returned

\* What may be answered stays so.
LEMMA ResponsesStay ==
    ASSUME \A q \in RequestNumbers : handled[q] = 1 => handled'[q] = 1,
           cut > 0 => cut' > 0, NEW j \in RequestNumbers
    PROVE  Responses(j) \subseteq Responses(j)'
BY Numbers DEF Responses

LEMMA ResponsesAre ==
    ASSUME NEW j \in RequestNumbers, NEW x \in Responses(j)
    PROVE  x \in {Unknown} \cup RequestNumbers
BY DEF Responses

LEMMA SessionInit == IpcSessionInit => SessionInv
<1> SUFFICES ASSUME IpcSessionInit PROVE SessionInv
  OBVIOUS
<1>1. IpcSessionTypeOK
  <2>1. answer \in [RequestNumbers -> Outcomes]
    BY DEF IpcSessionInit, Outcome, Outcomes
  <2>2. <<>> \in Seq(Parts) /\ Len(<<>>) = 0
    OBVIOUS
  <2>3. server \in [place : {"reading", "line", "handling", "writing", "closed"},
                      about : {Unknown} \cup RequestNumbers]
    BY DEF IpcSessionInit, AtPlace
  <2>4. handled \in [RequestNumbers -> Nat] /\ counts \in [total : Nat, ok : Nat, failed : Nat]
    BY DEF IpcSessionInit
  <2>5. clientLine = <<>> /\ serverLine = <<>> /\ toServer = <<>> /\ toClient = <<>>
    BY DEF IpcSessionInit
  <2>6. Len(clientLine) <= 1 /\ Len(serverLine) <= 2
    BY <2>2, <2>5
  <2> QED
    BY <2>1, <2>2, <2>3, <2>4, <2>5, <2>6 DEF IpcSessionInit, IpcSessionTypeOK
<1>2. CountsAddUp /\ LastWords
  BY DEF IpcSessionInit, CountsAddUp, LastWords, ServerOpen, AtPlace
<1>3. TimedOut = {}
  BY DEF IpcSessionInit, TimedOut, Outcome
<1>4. AnswersSoFar
  BY Numbers DEF IpcSessionInit, AnswersSoFar, Outcome, Answered
<1>5. Pipeline(0, 0)
  <2>1. Len(toServer) = 0 /\ Len(toClient) = 0 /\ sent = 0
    BY DEF IpcSessionInit
  <2>2. Stream(toServer, 0, Requests) /\ Stream(toClient, 0, Answers)
    <3>1. 1..Len(toServer) = {} /\ 1..Len(toClient) = {}
      BY <2>1
    <3> QED
      BY <3>1 DEF Stream
  <2>6. Written(0) = 0
    <3>1. server.place = "reading"
      BY DEF IpcSessionInit, AtPlace
    <3> QED
      BY <3>1 DEF Written
  <2>3. 2 * sent - Len(toServer) = 0 /\ Written(0) = 0 /\ 2 * Written(0) - Len(toClient) = 0
    BY ONLY <2>1, <2>6
  <2>4. ServerAt(0, 0) /\ ClientAt(0, 0) /\ HandledSoFar(0)
    BY DEF IpcSessionInit, ServerAt, ClientAt, AtPlace, HandledSoFar
  <2>5. Cardinality(TimedOut) = 0 /\ Returned = 0
    BY <1>3, FS_EmptySet DEF Returned, IpcSessionInit
  <2> QED
    BY <2>1, <2>2, <2>3, <2>4, <2>5 DEF Pipeline, ServerSide, ClientSide
<1>6. 0 \in 0..sent
  BY DEF IpcSessionInit
<1> QED
  BY <1>1, <1>2, <1>4, <1>5, <1>6 DEF SessionInv

LEMMA PartLines ==
    ASSUME NEW a, NEW b
    PROVE  /\ Append(<<>>, a) = <<a>> /\ Append(<<a>>, b) = <<a, b>>
           /\ Ends(<<a>>) <=> a[2] = "end"
           /\ Ends(<<a, b>>) <=> b[2] = "end"
           /\ ~ Parses(<<a>>)
           /\ Parses(<<a, b>>) <=> a[2] = "begin"
<1> DEFINE X == {a, b}
<1>0. <<>> \in Seq(X) /\ <<a>> \in Seq(X) /\ <<a, b>> \in Seq(X) /\ a \in X /\ b \in X
      /\ Len(<<>>) = 0 /\ Len(<<a>>) = 1 /\ Len(<<a, b>>) = 2
      /\ <<a>>[1] = a /\ <<a, b>>[1] = a /\ <<a, b>>[2] = b
  OBVIOUS
<1>1. Append(<<>>, a) = <<a>> /\ Append(<<a>>, b) = <<a, b>>
  <2> HIDE DEF X
  <2>1. /\ Append(<<>>, a) \in Seq(X) /\ Len(Append(<<>>, a)) = 1 /\ Append(<<>>, a)[1] = a
        /\ Append(<<a>>, b) \in Seq(X) /\ Len(Append(<<a>>, b)) = 2
        /\ Append(<<a>>, b)[1] = a /\ Append(<<a>>, b)[2] = b
    BY <1>0, AppendProperties
  <2>2. \A i \in 1..1 : i = 1
    OBVIOUS
  <2>3. \A i \in 1..2 : i = 1 \/ i = 2
    OBVIOUS
  <2>4. Append(<<>>, a) = <<a>>
    BY <1>0, <2>1, <2>2, SeqEqual
  <2>5. Append(<<a>>, b) = <<a, b>>
    BY <1>0, <2>1, <2>3, SeqEqual
  <2> QED
    BY <2>4, <2>5
<1>2. Len(<<a>>) = 1 /\ Len(<<a, b>>) = 2 /\ <<a>> # <<>> /\ <<a, b>> # <<>>
      /\ <<a>>[1] = a /\ <<a, b>>[1] = a /\ <<a, b>>[2] = b
  OBVIOUS
<1>3. (Ends(<<a>>) <=> a[2] = "end") /\ (Ends(<<a, b>>) <=> b[2] = "end")
  BY <1>2 DEF Ends, Last
<1>4. ~ Parses(<<a>>) /\ (Parses(<<a, b>>) <=> a[2] = "begin")
  BY <1>2 DEF Parses
<1> QED
  BY <1>1, <1>3, <1>4

\* Where the readers are, of parts and lines.
LEMMA Halves ==
    ASSUME NEW n \in Nat, NEW l \in Nat \ {0}, NEW read, read = 2 * n - l,
           NEW k \in Int, read = 2 * k \/ read = 2 * k + 1
    PROVE  /\ k + 1 <= n /\ read \in Int
           /\ read = 2 * k => read = 2 * (k + 1) - 2 /\ read + 1 = 2 * k + 1
           /\ read = 2 * k + 1 => read = 2 * (k + 1) - 1 /\ read + 1 = 2 * (k + 1)
           /\ read + 1 = 2 * n - (l - 1)
OBVIOUS

\* What the client may have read: the first part of a response, the second of one, or the
\* second of one that it had stopped waiting for.
LEMMA ClientReadsWhat ==
    ASSUME IpcSessionTypeOK, NEW d \in 0..sent, NEW k \in 0..sent, Pipeline(d, k), ClientReads
    PROVE  LET read == 2 * Written(d) - Len(toClient) IN
           /\ waiting /\ connected /\ sent # 0 /\ UNCHANGED <<sent, toServer, serverVars>>
           /\ k + 1 \in RequestNumbers /\ k + 1 <= Written(d)
           /\ toClient' \in Seq(Parts) /\ Len(toClient') = Len(toClient) - 1
           /\ read \in Int /\ Stream(toClient', read + 1, Answers)
           /\ read + 1 = 2 * Written(d) - Len(toClient')
           /\ \E x \in Responses(k + 1) :
                 \/ /\ read = 2 * k /\ clientLine' = <<<<x, "begin">>>>
                    /\ UNCHANGED <<waiting, answer, connected>>
                 \/ read = 2 * k + 1 /\ Returns(Answered(x))
                 \/ read = 2 * k + 1 /\ TimedOut # {} /\ Returns(Outcome("garbled"))
<1> DEFINE read == 2 * Written(d) - Len(toClient)
           line == Append(clientLine, Head(toClient))
<1>1. /\ waiting /\ toClient # <<>> /\ toClient' = Tail(toClient)
      /\ UNCHANGED <<sent, toServer, serverVars>>
  BY DEF ClientReads
<1>2. connected /\ toClient \in Seq(Parts)
  BY <1>1 DEF IpcSessionTypeOK
<1>3. /\ k \in 0..Written(d) /\ ClientAt(k, read) /\ Stream(toClient, read, Answers)
      /\ k = Returned - Cardinality(TimedOut)
  BY <1>2 DEF Pipeline, ServerSide, ClientSide
<1>4. Written(d) \in Int /\ Written(d) <= d /\ d \in Nat /\ sent \in Nat /\ k \in Nat
      /\ Len(toClient) \in Nat
  BY Sizes DEF Written
<1>5. Len(toClient) \in Nat \ {0}
  BY <1>1, <1>2, <1>4
<1>6. Written(d) \in Nat
  BY <1>3, <1>4
<1>7. read = 2 * k \/ read = 2 * k + 1
  BY <1>3 DEF ClientAt
<1>8. /\ k + 1 <= Written(d) /\ read \in Int
      /\ read = 2 * k => read = 2 * (k + 1) - 2 /\ read + 1 = 2 * k + 1
      /\ read = 2 * k + 1 => read = 2 * (k + 1) - 1 /\ read + 1 = 2 * (k + 1)
      /\ read + 1 = 2 * Written(d) - (Len(toClient) - 1)
  <2>1. read = 2 * Written(d) - Len(toClient)
    OBVIOUS
  <2> HIDE DEF read
  <2> QED
    BY ONLY <1>4, <1>5, <1>6, <1>7, <2>1, Halves
<1>9. k + 1 \in RequestNumbers /\ sent # 0
  <2>1. k + 1 \in 1..sent
    BY <1>4, <1>8
  <2> QED
    BY <2>1, Sizes
<1>10. /\ Stream(Tail(toClient), read + 1, Answers)
       /\ Tail(toClient) \in Seq(Parts) /\ Len(Tail(toClient)) = Len(toClient) - 1
       /\ read = 2 * (k + 1) - 2 => \E x \in Responses(k + 1) : Head(toClient) = <<x, "begin">>
       /\ read = 2 * (k + 1) - 1 => \E x \in Responses(k + 1) : Head(toClient) = <<x, "end">>
  <2>1. DOMAIN Answers \subseteq Int /\ k + 1 \in DOMAIN Answers /\ Answers[k + 1] = Responses(k + 1)
    BY <1>9, Numbers
  <2> HIDE DEF read
  <2> QED
    BY <1>1, <1>2, <1>3, <1>8, <2>1, StreamTail
<1>11. CASE clientLine = <<>> /\ read = 2 * k
  <2>1. PICK x \in Responses(k + 1) : Head(toClient) = <<x, "begin">>
    BY <1>8, <1>10, <1>11
  <2> DEFINE b == <<x, "begin">>
  <2>5. b[2] # "end" /\ line = Append(<<>>, b)
    BY <1>11, <2>1
  <2>2. line = <<b>> /\ ~ Ends(line)
    <3> HIDE DEF b, line
    <3> QED
      BY <2>5, PartLines
  <2>3. clientLine' = line /\ UNCHANGED <<waiting, answer, connected>>
    BY <2>2 DEF ClientReads
  <2>4. \E y \in Responses(k + 1) :
            /\ read = 2 * k /\ clientLine' = <<<<y, "begin">>>>
            /\ UNCHANGED <<waiting, answer, connected>>
    BY <1>11, <2>1, <2>2, <2>3
  <2> QED
    BY <1>1, <1>2, <1>8, <1>9, <1>10, <2>4
<1>12. CASE clientLine = <<>> /\ read = 2 * k + 1 /\ TimedOut # {}
  <2>1. PICK x \in Responses(k + 1) : Head(toClient) = <<x, "end">>
    BY <1>8, <1>10, <1>12
  <2> DEFINE b == <<x, "end">>
  <2>4. b[2] = "end" /\ line = Append(<<>>, b)
    BY <1>12, <2>1
  <2>2. Ends(line) /\ ~ Parses(line)
    <3> HIDE DEF b, line
    <3> QED
      BY <2>4, PartLines
  <2>3. Returns(Outcome("garbled"))
    BY <2>2 DEF ClientReads
  <2> QED
    BY <1>1, <1>2, <1>8, <1>9, <1>10, <1>12, <2>1, <2>3
<1>13. CASE read = 2 * k + 1 /\ \E x \in Responses(k + 1) : clientLine = <<<<x, "begin">>>>
  <2>1. PICK y \in Responses(k + 1) : Head(toClient) = <<y, "end">>
    BY <1>8, <1>10, <1>13
  <2>2. PICK x \in Responses(k + 1) : clientLine = <<<<x, "begin">>>>
    BY <1>13
  <2> DEFINE a == <<x, "begin">>
             b == <<y, "end">>
  <2>5. a[1] = x /\ a[2] = "begin" /\ b[2] = "end" /\ line = Append(<<a>>, b)
    BY <2>1, <2>2
  <2> HIDE DEF a, b, line
  <2>6. line = <<a, b>> /\ Ends(line) /\ Parses(line)
    BY <2>5, PartLines
  <2>3. line[1] = a /\ Ends(line) /\ Parses(line)
    BY <2>6
  <2>4. Returns(Answered(x))
    <3>1. line[1][1] = x
      BY <2>3, <2>5
    <3> QED
      BY <2>3, <3>1 DEF ClientReads, line
  <2> QED
    BY <1>1, <1>2, <1>8, <1>9, <1>10, <1>13, <2>2, <2>4
<1> QED
  BY <1>3, <1>11, <1>12, <1>13 DEF ClientAt

\* What the server may have read: the first part of a request, the second of one, or the
\* second of one whose first its timer dropped.
LEMMA ServerReadsWhat ==
    ASSUME IpcSessionTypeOK, NEW d \in 0..sent, NEW k, Pipeline(d, k), ServerReads
    PROVE  LET read == 2 * sent - Len(toServer) IN
           /\ server.place = "reading" /\ d + 1 \in 1..sent
           /\ UNCHANGED <<clientVars, toClient, handled, counts, cut>>
           /\ toServer' \in Seq(Parts) /\ Len(toServer') = Len(toServer) - 1
           /\ read \in Int /\ Stream(toServer', read + 1, Requests)
           /\ read + 1 = 2 * sent - Len(toServer')
           /\ \/ /\ read + 1 = 2 * d + 1
                 /\ serverLine' = <<<<d + 1, "begin">>>> /\ server' = server
              \/ /\ read + 1 = 2 * (d + 1)
                 /\ serverLine' = Line(d + 1) \/ (serverLine' = <<<<d + 1, "end">>>> /\ cut > 0)
                 /\ server' = AtPlace("line", Unknown)
<1> DEFINE read == 2 * sent - Len(toServer)
<1>1. /\ server.place = "reading" /\ toServer # <<>> /\ toServer' = Tail(toServer)
      /\ serverLine' = Append(serverLine, Head(toServer))
      /\ server' = IF Ends(serverLine') THEN AtPlace("line", Unknown) ELSE server
      /\ UNCHANGED <<clientVars, toClient, handled, counts, cut>>
  BY DEF ServerReads
<1>2. toServer \in Seq(Parts)
  BY DEF IpcSessionTypeOK
<1>3. ServerAt(d, read) /\ Stream(toServer, read, Requests)
  BY DEF Pipeline, ServerSide, ClientSide
<1>4. d \in Nat /\ sent \in Nat /\ Len(toServer) \in Nat
  BY Sizes
<1>5. Len(toServer) \in Nat \ {0}
  BY <1>1, <1>2, <1>4
<1>6. \/ serverLine = <<>> /\ read = 2 * d
      \/ serverLine = <<>> /\ read = 2 * d + 1 /\ cut > 0
      \/ serverLine = <<<<d + 1, "begin">>>> /\ read = 2 * d + 1
  BY <1>1, <1>3 DEF ServerAt
<1>7. /\ d + 1 <= sent /\ read \in Int
      /\ read = 2 * d => read = 2 * (d + 1) - 2 /\ read + 1 = 2 * d + 1
      /\ read = 2 * d + 1 => read = 2 * (d + 1) - 1 /\ read + 1 = 2 * (d + 1)
      /\ read + 1 = 2 * sent - (Len(toServer) - 1)
  <2>1. read = 2 * sent - Len(toServer) /\ (read = 2 * d \/ read = 2 * d + 1)
    BY <1>6
  <2> HIDE DEF read
  <2> QED
    BY ONLY <1>4, <1>5, <2>1, Halves
<1>8. d + 1 \in 1..sent /\ d + 1 \in RequestNumbers
  <2>1. d + 1 \in 1..sent
    BY <1>4, <1>7
  <2> QED
    BY <2>1, Sizes
<1>9. /\ Stream(Tail(toServer), read + 1, Requests)
      /\ Tail(toServer) \in Seq(Parts) /\ Len(Tail(toServer)) = Len(toServer) - 1
      /\ read = 2 * (d + 1) - 2 => Head(toServer) = <<d + 1, "begin">>
      /\ read = 2 * (d + 1) - 1 => Head(toServer) = <<d + 1, "end">>
  <2>1. DOMAIN Requests \subseteq Int /\ d + 1 \in DOMAIN Requests /\ Requests[d + 1] = {d + 1}
    BY <1>8, Numbers
  <2>2. /\ Stream(Tail(toServer), read + 1, Requests)
        /\ Tail(toServer) \in Seq(Parts) /\ Len(Tail(toServer)) = Len(toServer) - 1
        /\ read = 2 * (d + 1) - 2 => \E x \in Requests[d + 1] : Head(toServer) = <<x, "begin">>
        /\ read = 2 * (d + 1) - 1 => \E x \in Requests[d + 1] : Head(toServer) = <<x, "end">>
    <3>1. /\ toServer \in Seq(Parts) /\ toServer # <<>> /\ toServer' = Tail(toServer)
          /\ read \in Int /\ Stream(toServer, read, Requests)
      BY <1>1, <1>2, <1>3, <1>7
    <3> HIDE DEF read
    <3>2. PICK q, may : q = toServer /\ may = Requests
      OBVIOUS
    <3>3. /\ q \in Seq(Parts) /\ q # <<>> /\ Stream(q, read, may) /\ DOMAIN may \subseteq Int
          /\ d + 1 \in DOMAIN may
      BY <2>1, <3>1, <3>2
    <3>4. /\ Stream(Tail(q), read + 1, may) /\ Tail(q) \in Seq(Parts) /\ Len(Tail(q)) = Len(q) - 1
          /\ \A j \in DOMAIN may :
                /\ read = 2 * j - 2 => \E x \in may[j] : Head(q) = <<x, "begin">>
                /\ read = 2 * j - 1 => \E x \in may[j] : Head(q) = <<x, "end">>
      BY ONLY <3>1, <3>3, StreamTail
    <3> QED
      BY <2>1, <3>2, <3>3, <3>4
  <2> HIDE DEF read
  <2> QED
    BY <2>1, <2>2
<1>10. CASE serverLine = <<>> /\ read = 2 * d
  <2>1. Head(toServer) = <<d + 1, "begin">>
    BY <1>7, <1>9, <1>10
  <2>2. serverLine' = <<<<d + 1, "begin">>>> /\ ~ Ends(serverLine')
    <3> DEFINE b == <<d + 1, "begin">>
    <3>1. b[2] # "end" /\ serverLine' = Append(<<>>, b)
      BY <1>1, <1>10, <2>1
    <3>2. serverLine' = <<b>> /\ ~ Ends(serverLine')
      <4> HIDE DEF b
      <4> QED
        BY <3>1, PartLines
    <3> QED
      BY <3>2
  <2> QED
    BY <1>1, <1>7, <1>8, <1>9, <1>10, <2>2
<1>11. CASE serverLine = <<>> /\ read = 2 * d + 1 /\ cut > 0
  <2>1. Head(toServer) = <<d + 1, "end">>
    BY <1>7, <1>9, <1>11
  <2>2. serverLine' = <<<<d + 1, "end">>>> /\ Ends(serverLine')
    <3> DEFINE b == <<d + 1, "end">>
    <3>1. b[2] = "end" /\ serverLine' = Append(<<>>, b)
      BY <1>1, <1>11, <2>1
    <3>2. serverLine' = <<b>> /\ Ends(serverLine')
      <4> HIDE DEF b
      <4> QED
        BY <3>1, PartLines
    <3> QED
      BY <3>2
  <2> QED
    BY <1>1, <1>7, <1>8, <1>9, <1>11, <2>2
<1>12. CASE serverLine = <<<<d + 1, "begin">>>> /\ read = 2 * d + 1
  <2>1. Head(toServer) = <<d + 1, "end">>
    BY <1>7, <1>9, <1>12
  <2>2. serverLine' = Line(d + 1) /\ Ends(serverLine')
    <3> DEFINE a == <<d + 1, "begin">>
               b == <<d + 1, "end">>
    <3>1. b[2] = "end" /\ serverLine' = Append(<<a>>, b)
      BY <1>1, <1>12, <2>1
    <3>2. serverLine' = <<a, b>> /\ Ends(serverLine')
      <4> HIDE DEF a, b
      <4> QED
        BY <3>1, PartLines
    <3> QED
      BY <3>2 DEF Line
  <2> QED
    BY <1>1, <1>7, <1>8, <1>9, <1>12, <2>2
<1> QED
  BY <1>6, <1>10, <1>11, <1>12

--------------------------------------------------------------------------------
(* What most steps leave as it was.                                        *)
LEMMA AnswersKept ==
    ASSUME AnswersSoFar, answer' = answer, Returned' = Returned,
           \A q \in RequestNumbers : handled[q] = 1 => handled'[q] = 1, cut > 0 => cut' > 0
    PROVE  AnswersSoFar'
<1>1. \A r : TimeoutsBefore(r)' = TimeoutsBefore(r)
  BY DEF TimeoutsBefore
<1> QED
  BY <1>1 DEF AnswersSoFar

LEMMA ServerSideKept ==
    ASSUME NEW d, ServerSide(d), UNCHANGED <<sent, toServer, serverVars>>
    PROVE  ServerSide(d)'
BY DEF ServerSide, ServerAt, HandledSoFar, Stream, Requests, Responses, serverVars

LEMMA WrittenKept ==
    ASSUME NEW d, server' = server
    PROVE  Written(d)' = Written(d)
BY DEF Written

LEMMA ClientSideKept ==
    ASSUME IpcSessionTypeOK, NEW d \in 0..sent, NEW k, NEW e, ClientSide(d, k),
           UNCHANGED <<answer, clientLine, connected, toClient>>,
           Written(e)' = Written(d), Returned' = Returned,
           \A q \in RequestNumbers : handled[q] = 1 => handled'[q] = 1, cut > 0 => cut' > 0
    PROVE  ClientSide(e, k)'
<1> SUFFICES ASSUME connected' PROVE ClientSide(e, k)'
  BY DEF ClientSide
<1>0. PICK read : read = 2 * Written(d) - Len(toClient)
  OBVIOUS
<1>1. /\ k \in 0..Written(d) /\ ClientAt(k, read) /\ Stream(toClient, read, Answers)
      /\ k = Returned - Cardinality(TimedOut)
  BY <1>0 DEF ClientSide
<1>2. \A j \in RequestNumbers : Responses(j) \subseteq Responses(j)'
  BY ResponsesStay
<1>3. TimedOut' = TimedOut
  BY DEF TimedOut
<1>4. Stream(toClient, read, Answers')
  <2>1. DOMAIN Answers' = DOMAIN Answers /\ \A j \in DOMAIN Answers : Answers[j] \subseteq Answers'[j]
    BY <1>2 DEF Answers
  <2> QED
    BY <1>1, <2>1, StreamMay
<1>5. ClientAt(k, read)'
  <2>1. Written(d) \in Int /\ Written(d) <= sent /\ Len(toClient) \in Nat /\ sent \in Nat
    BY Sizes DEF Written
  <2>2. read = 2 * k + 1 => k + 1 \in RequestNumbers
    <3>1. read = 2 * k + 1 => k + 1 \in 1..sent
      BY <1>0, <1>1, <2>1
    <3> QED
      BY <3>1, Sizes
  <2> QED
    BY <1>1, <1>2, <1>3, <2>2 DEF ClientAt
<1>6. read = 2 * Written(e)' - Len(toClient') /\ k \in 0..Written(e)'
      /\ k = Returned' - Cardinality(TimedOut')
  BY <1>0, <1>1, <1>3
<1>7. Stream(toClient, read, Answers)'
  BY <1>4 DEF Stream
<1> QED
  BY <1>5, <1>6, <1>7 DEF ClientSide

--------------------------------------------------------------------------------
(* The client's steps.                                                     *)
LEMMA TimeoutsSoFar ==
    ASSUME IpcSessionTypeOK, AnswersSoFar, waiting, sent \in RequestNumbers
    PROVE  TimedOut = {q \in RequestNumbers : q < sent /\ answer[q].kind = "timeout"}
<1>1. \A q \in RequestNumbers : q > Returned => answer[q].kind # "timeout"
  BY DEF AnswersSoFar, Outcome
<1>2. Returned = sent - 1 /\ RequestNumbers \subseteq Nat /\ sent \in Nat
  BY Numbers, Sizes
<1>3. \A q \in RequestNumbers : q < sent \/ q > Returned
  BY <1>2
<1> QED
  BY <1>1, <1>3 DEF TimedOut

LEMMA ReturnsStep ==
    ASSUME IpcSessionTypeOK, CountsAddUp, LastWords, AnswersSoFar, waiting, sent \in RequestNumbers,
           NEW o \in Outcomes, Returns(o),
           o.about \in RequestNumbers =>
               o.about = sent - Cardinality(TimedOut) /\ handled[o.about] = 1,
           o = Answered(Unknown) => cut > 0,
           o.kind = "garbled" => TimedOut # {},
           UNCHANGED <<sent, toServer, serverVars>>, toClient' \in Seq(Parts)
    PROVE  /\ IpcSessionTypeOK' /\ CountsAddUp' /\ LastWords' /\ AnswersSoFar' /\ Returned' = sent
           /\ clientLine' = <<>> /\ connected' = (KindOf[sent] # "disconnect")
           /\ o.kind # "timeout" => TimedOut' = TimedOut
           /\ o.kind = "timeout" =>
                 TimedOut' # {} /\ Cardinality(TimedOut') = Cardinality(TimedOut) + 1
<1>1. /\ waiting' = FALSE /\ answer' = [answer EXCEPT ![sent] = o]
      /\ clientLine' = <<>> /\ connected' = (KindOf[sent] # "disconnect")
  BY DEF Returns
<1>2. answer \in [RequestNumbers -> Outcomes]
  BY DEF IpcSessionTypeOK
<1>3. /\ answer' \in [RequestNumbers -> Outcomes] /\ answer'[sent] = o
      /\ \A q \in RequestNumbers : q # sent => answer'[q] = answer[q]
  BY <1>1, <1>2
<1>4. IpcSessionTypeOK'
  <2>1. <<>> \in Seq(Parts) /\ Len(<<>>) <= 1
    OBVIOUS
  <2>2. /\ sent' = sent /\ toServer' = toServer /\ serverLine' = serverLine /\ server' = server
        /\ handled' = handled /\ counts' = counts /\ cut' = cut
    BY DEF serverVars
  <2>3. clientLine' \in Seq(Parts) /\ Len(clientLine') <= 1
    BY <1>1, <2>1
  <2>4. waiting' \in BOOLEAN /\ connected' \in BOOLEAN /\ (waiting' => connected')
    BY <1>1
  <2> QED
    BY <1>3, <2>2, <2>3, <2>4 DEF IpcSessionTypeOK
<1>5. CountsAddUp'
  BY DEF CountsAddUp, serverVars
<1>6. LastWords'
  <2> SUFFICES ASSUME connected'
               PROVE  /\ \A q \in 1..sent' : KindOf[q] # "disconnect"
                      /\ ServerOpen'
    BY DEF LastWords
  <2>1. KindOf[sent] # "disconnect" /\ connected
    BY <1>1 DEF IpcSessionTypeOK
  <2>2. ServerOpen /\ \A q \in 1..sent : KindOf[q] # "disconnect"
    BY <2>1 DEF LastWords
  <2> QED
    BY <2>2 DEF ServerOpen, serverVars
<1>7. Returned' = sent /\ Returned = sent - 1
  BY <1>1 DEF Returned
<1>8. TimedOut = {q \in RequestNumbers : q < sent /\ answer[q].kind = "timeout"}
  BY TimeoutsSoFar
<1>9. RequestNumbers \subseteq Nat \ {0} /\ sent \in Nat /\ Unknown \notin RequestNumbers
  BY Numbers
<1>10. TimeoutsBefore(sent) = Cardinality(TimedOut)
  BY <1>8 DEF TimeoutsBefore
<1>11. \A r \in RequestNumbers : r <= sent => TimeoutsBefore(r)' = TimeoutsBefore(r)
  <2> SUFFICES ASSUME NEW r \in RequestNumbers, r <= sent
               PROVE  {q \in RequestNumbers : q < r /\ answer'[q].kind = "timeout"}
                        = {q \in RequestNumbers : q < r /\ answer[q].kind = "timeout"}
    BY DEF TimeoutsBefore
  <2>1. \A q \in RequestNumbers : q < r => q # sent
    BY <1>9
  <2> QED
    BY <1>3, <2>1
<1>12. AnswersSoFar'
  <2> SUFFICES ASSUME NEW r \in RequestNumbers
               PROVE  /\ r > sent => answer'[r] = Outcome("none")
                      /\ answer'[r].about \in RequestNumbers =>
                            /\ answer'[r].about = r - TimeoutsBefore(r)'
                            /\ handled[answer'[r].about] = 1
                      /\ answer'[r] = Answered(Unknown) => cut > 0
                      /\ answer'[r].kind = "garbled" => TimeoutsBefore(r)' > 0
    BY <1>7 DEF AnswersSoFar, serverVars, Outcome, Answered
  <2>1. CASE r = sent
    <3>1. TimeoutsBefore(r)' = Cardinality(TimedOut)
      BY <1>9, <1>10, <1>11, <2>1
    <3>2. TimedOut # {} => Cardinality(TimedOut) > 0
      BY Sizes, FS_EmptySet
    <3>3. answer'[r] = o /\ ~ (r > sent) /\ sent - Cardinality(TimedOut) = r - TimeoutsBefore(r)'
      BY <1>3, <1>9, <2>1, <3>1
    <3>4. TimedOut # {} => TimeoutsBefore(r)' > 0
      BY <3>1, <3>2
    <3> QED
      BY <3>3, <3>4
  <2>2. CASE r > sent
    <3>1. answer'[r] = Outcome("none")
      <4>1. r > Returned /\ r # sent
        BY <1>7, <1>9, <2>2
      <4> QED
        BY <1>3, <4>1 DEF AnswersSoFar
    <3> QED
      BY <1>9, <3>1 DEF Outcome, Answered
  <2>3. CASE r < sent
    <3>1. TimeoutsBefore(r)' = TimeoutsBefore(r) /\ answer'[r] = answer[r] /\ ~ (r > sent)
      BY <1>3, <1>9, <1>11, <2>3
    <3> QED
      BY <3>1 DEF AnswersSoFar
  <2>4. r = sent \/ r > sent \/ r < sent
    BY <1>9
  <2> QED
    BY <2>1, <2>2, <2>3, <2>4
<1>13. o.kind # "timeout" => TimedOut' = TimedOut
  <2> SUFFICES ASSUME o.kind # "timeout" PROVE TimedOut' = TimedOut
    OBVIOUS
  <2>1. sent \notin TimedOut
    BY <1>8, <1>9
  <2>2. \A q \in RequestNumbers : answer'[q].kind = "timeout" <=> answer[q].kind = "timeout"
    BY <1>3, <2>1 DEF TimedOut
  <2> QED
    BY <2>2 DEF TimedOut
<1>14. o.kind = "timeout" =>
         TimedOut' # {} /\ Cardinality(TimedOut') = Cardinality(TimedOut) + 1
  <2> SUFFICES ASSUME o.kind = "timeout"
               PROVE  TimedOut' # {} /\ Cardinality(TimedOut') = Cardinality(TimedOut) + 1
    OBVIOUS
  <2>1. sent \notin TimedOut
    BY <1>8, <1>9
  <2>2. TimedOut' = TimedOut \cup {sent}
    BY <1>3 DEF TimedOut
  <2>3. IsFiniteSet(TimedOut)
    BY Sizes
  <2> QED
    BY <2>1, <2>2, <2>3, FS_AddElement
<1> QED
  BY <1>1, <1>4, <1>5, <1>6, <1>7, <1>12, <1>13, <1>14

LEMMA SendRequestStep ==
    ASSUME SessionInv, SendRequest
    PROVE  SessionInv'
<1>1. /\ connected /\ waiting = FALSE /\ sent + 1 \in RequestNumbers /\ sent' = sent + 1 /\ waiting' = TRUE
      /\ UNCHANGED <<answer, clientLine, connected, toClient, serverVars>>
  BY DEF SendRequest, SessionInv, IpcSessionTypeOK
<1>2. IpcSessionTypeOK /\ CountsAddUp /\ LastWords /\ AnswersSoFar
  BY DEF SessionInv
<1>3. PICK d \in 0..sent, k \in 0..sent : ServerSide(d) /\ ClientSide(d, k)
  BY DEF SessionInv, Pipeline
<1>4. ServerOpen
  BY <1>1, <1>2 DEF LastWords
<1>5. toServer' = toServer \o Line(sent + 1)
  BY <1>4 DEF SendRequest
<1>6. sent \in Nat /\ Len(toServer) \in Nat /\ toServer \in Seq(Parts)
  BY <1>2, Sizes DEF IpcSessionTypeOK
<1>7. PICK read \in Int : read = 2 * sent - Len(toServer)
  BY <1>6
<1>8. /\ Stream(toServer', read, Requests) /\ toServer' \in Seq(Parts)
      /\ Len(toServer') = Len(toServer) + 2
  <2> DEFINE m == sent + 1
  <2>1. /\ Stream(toServer, read, Requests) /\ DOMAIN Requests \subseteq Int
        /\ m \in DOMAIN Requests /\ m \in Requests[m]
        /\ <<m, "begin">> \in Parts /\ <<m, "end">> \in Parts
    BY <1>1, <1>3, <1>7, Numbers DEF ServerSide
  <2>2. read + Len(toServer) = 2 * m - 2
    BY <1>6, <1>7
  <2>3. toServer' = toServer \o Line(m)
    BY <1>5
  <2> HIDE DEF m
  <2> QED
    BY ONLY <1>6, <1>7, <2>1, <2>2, <2>3, StreamMore
<1>9. read = 2 * sent' - Len(toServer')
  BY <1>1, <1>6, <1>7, <1>8
<1>10. ServerSide(d)'
  <2>1. ServerAt(d, read)' /\ HandledSoFar(d)'
    <3>1. ServerAt(d, read) /\ HandledSoFar(d)
      BY <1>3, <1>7 DEF ServerSide
    <3> QED
      BY <1>1, <3>1 DEF ServerAt, HandledSoFar, Responses, serverVars
  <2>2. Stream(toServer, read, Requests)'
    BY <1>8 DEF Stream, Requests
  <2>3. d \in 0..sent'
    BY <1>1, <1>6
  <2> QED
    BY <1>9, <2>1, <2>2, <2>3 DEF ServerSide
<1>11. Returned' = Returned
  BY <1>1, <1>6 DEF Returned
<1>12. ClientSide(d, k)'
  <2>1. Written(d)' = Written(d)
    BY <1>1, WrittenKept DEF serverVars
  <2> QED
    BY <1>1, <1>2, <1>3, <1>11, <2>1, ClientSideKept DEF serverVars
<1>13. AnswersSoFar' /\ CountsAddUp'
  <2>1. AnswersSoFar'
    BY <1>1, <1>2, <1>11, AnswersKept DEF serverVars
  <2> QED
    BY <1>1, <1>2, <2>1 DEF CountsAddUp, serverVars
<1>14. LastWords'
  <2>1. \A q \in 1..sent' : q # sent' => KindOf[q] # "disconnect"
    <3>1. \A q \in 1..sent' : q # sent' => q \in 1..sent
      BY <1>1, <1>6
    <3> QED
      BY <1>1, <1>2, <3>1 DEF LastWords
  <2> QED
    BY <1>1, <1>4, <2>1 DEF LastWords, ServerOpen, serverVars
<1>15. IpcSessionTypeOK'
  BY <1>1, <1>2, <1>8 DEF IpcSessionTypeOK, serverVars
<1>16. d \in 0..sent' /\ k \in 0..sent'
  BY <1>1, <1>6
<1> QED
  BY <1>10, <1>12, <1>13, <1>14, <1>15, <1>16 DEF SessionInv, Pipeline

LEMMA ClientReadsStep ==
    ASSUME SessionInv, ClientReads
    PROVE  SessionInv'
<1>1. IpcSessionTypeOK /\ CountsAddUp /\ LastWords /\ AnswersSoFar
  BY DEF SessionInv
<1>2. PICK d \in 0..sent, k \in 0..sent : Pipeline(d, k)
  BY DEF SessionInv
<1>3. PICK read : read = 2 * Written(d) - Len(toClient)
  OBVIOUS
<1>4. PICK x \in Responses(k + 1) :
        /\ waiting /\ connected /\ sent # 0 /\ UNCHANGED <<sent, toServer, serverVars>>
        /\ k + 1 \in RequestNumbers /\ k + 1 <= Written(d)
        /\ toClient' \in Seq(Parts) /\ Len(toClient') = Len(toClient) - 1
        /\ read \in Int /\ Stream(toClient', read + 1, Answers)
        /\ read + 1 = 2 * Written(d) - Len(toClient')
        /\ \/ /\ read = 2 * k /\ clientLine' = <<<<x, "begin">>>>
              /\ UNCHANGED <<waiting, answer, connected>>
           \/ read = 2 * k + 1 /\ Returns(Answered(x))
           \/ read = 2 * k + 1 /\ TimedOut # {} /\ Returns(Outcome("garbled"))
  BY <1>1, <1>2, <1>3, ClientReadsWhat
<1>5. ServerSide(d)' /\ Written(d)' = Written(d) /\ d \in 0..sent'
  BY <1>2, <1>4, ServerSideKept, WrittenKept DEF Pipeline, serverVars
<1>6. /\ k \in 0..Written(d) /\ k = Returned - Cardinality(TimedOut)
      /\ ClientAt(k, read)
  BY <1>2, <1>3, <1>4 DEF Pipeline, ClientSide
<1>7. /\ sent \in RequestNumbers /\ sent \in Nat /\ Returned = sent - 1 /\ k \in Nat
      /\ Cardinality(TimedOut) \in Nat /\ Written(d) \in Int /\ Written(d) <= sent
  BY <1>1, <1>4, Sizes DEF Written
<1>8. k + 1 = sent - Cardinality(TimedOut) /\ k + 1 \in 0..Written(d) /\ k + 1 \in 0..sent'
  BY <1>4, <1>6, <1>7
<1>9. Stream(toClient, read + 1, Answers)' /\ read + 1 = 2 * Written(d)' - Len(toClient')
  <2>1. Answers' = Answers
    BY <1>4 DEF Answers, Responses, serverVars
  <2> QED
    BY <1>4, <1>5, <2>1 DEF Stream
<1>10. CASE /\ read = 2 * k /\ clientLine' = <<<<x, "begin">>>>
            /\ UNCHANGED <<waiting, answer, connected>>
  <2>1. Returned' = Returned /\ TimedOut' = TimedOut
    BY <1>4, <1>10 DEF Returned, TimedOut
  <2>2. ClientSide(d, k)'
    <3>1. x \in Responses(k + 1)'
      BY <1>4 DEF Responses, serverVars
    <3>2. ClientAt(k, read + 1)'
      BY <1>10, <3>1 DEF ClientAt
    <3>3. k \in 0..Written(d)' /\ k = Returned' - Cardinality(TimedOut')
      BY <1>5, <1>6, <2>1
    <3> QED
      BY <1>9, <3>2, <3>3 DEF ClientSide
  <2>3. AnswersSoFar' /\ CountsAddUp' /\ LastWords'
    <3>1. AnswersSoFar'
      BY <1>1, <1>4, <1>10, <2>1, AnswersKept DEF serverVars
    <3> QED
      BY <1>1, <1>4, <1>10, <3>1 DEF CountsAddUp, LastWords, ServerOpen, serverVars
  <2>4. IpcSessionTypeOK'
    <3> DEFINE b == <<x, "begin">>
    <3>1. b \in Parts /\ clientLine' = <<b>>
      BY <1>4, <1>10, Numbers, ResponsesAre
    <3>2. clientLine' \in Seq(Parts) /\ Len(clientLine') <= 1
      <4> HIDE DEF b
      <4> QED
        BY <3>1
    <3> QED
      BY <1>1, <1>4, <1>10, <3>2 DEF IpcSessionTypeOK, serverVars
  <2> QED
    BY <1>4, <1>5, <2>2, <2>3, <2>4 DEF SessionInv, Pipeline
<1>11. ASSUME NEW o \in Outcomes, Returns(o), read = 2 * k + 1, o.kind # "timeout",
              o.about \in RequestNumbers => o.about = k + 1 /\ handled[o.about] = 1,
              o = Answered(Unknown) => cut > 0,
              o.kind = "garbled" => TimedOut # {}
       PROVE  SessionInv'
  <2>1. /\ IpcSessionTypeOK' /\ CountsAddUp' /\ LastWords' /\ AnswersSoFar' /\ Returned' = sent
        /\ clientLine' = <<>> /\ TimedOut' = TimedOut
    BY <1>1, <1>4, <1>7, <1>8, <1>11, ReturnsStep
  <2>2. ClientSide(d, k + 1)'
    <3>1. read + 1 = 2 * (k + 1)
      BY <1>7, <1>11
    <3>2. ClientAt(k + 1, read + 1)'
      BY <2>1, <3>1 DEF ClientAt
    <3>3. k + 1 \in 0..Written(d)' /\ k + 1 = Returned' - Cardinality(TimedOut')
      BY <1>5, <1>8, <2>1
    <3> QED
      BY <1>9, <3>2, <3>3 DEF ClientSide
  <2> QED
    BY <1>5, <1>8, <2>1, <2>2 DEF SessionInv, Pipeline
<1>12. CASE read = 2 * k + 1 /\ Returns(Answered(x))
  <2>1. /\ Answered(x) \in Outcomes /\ Answered(x).kind = "answered" /\ Answered(x).about = x
        /\ (Answered(x) = Answered(Unknown) => x = Unknown)
    BY <1>4, ResponsesAre DEF Answered, Outcomes
  <2>2. /\ x \in RequestNumbers => x = k + 1 /\ handled[x] = 1
        /\ x = Unknown => cut > 0
    BY <1>4, Numbers DEF Responses
  <2> QED
    BY <1>11, <1>12, <2>1, <2>2
<1>13. CASE read = 2 * k + 1 /\ TimedOut # {} /\ Returns(Outcome("garbled"))
  <2>1. /\ Outcome("garbled") \in Outcomes /\ Outcome("garbled").kind = "garbled"
        /\ Outcome("garbled").about \notin RequestNumbers /\ Outcome("garbled") # Answered(Unknown)
    BY Numbers DEF Outcome, Outcomes, Answered
  <2> QED
    BY <1>11, <1>13, <2>1
<1> QED
  BY <1>4, <1>10, <1>12, <1>13

LEMMA ClientTimerStep ==
    ASSUME SessionInv, ClientTimer
    PROVE  SessionInv'
<1>1. IpcSessionTypeOK /\ CountsAddUp /\ LastWords /\ AnswersSoFar
  BY DEF SessionInv
<1>2. PICK d \in 0..sent, k \in 0..sent : ServerSide(d) /\ ClientSide(d, k)
  BY DEF SessionInv, Pipeline
<1>3. /\ waiting /\ Returns(Outcome("timeout"))
      /\ UNCHANGED <<sent, toServer, toClient, serverVars>>
  BY DEF ClientTimer
<1>4. connected /\ toClient \in Seq(Parts)
  BY <1>1, <1>3 DEF IpcSessionTypeOK
<1>5. PICK read : read = 2 * Written(d) - Len(toClient)
  OBVIOUS
<1>6. /\ k \in 0..Written(d) /\ k = Returned - Cardinality(TimedOut)
      /\ ClientAt(k, read) /\ Stream(toClient, read, Answers)
  BY <1>2, <1>4, <1>5 DEF ClientSide
<1>7. /\ sent \in Nat /\ Returned = sent - 1 /\ k \in Nat /\ Cardinality(TimedOut) \in Nat
      /\ (sent # 0 => sent \in RequestNumbers)
  BY <1>1, <1>3, Sizes
<1>8. sent \in RequestNumbers
  <2>1. sent # 0
    BY <1>6, <1>7
  <2> QED
    BY <1>7, <2>1
<1>9. /\ IpcSessionTypeOK' /\ CountsAddUp' /\ LastWords' /\ AnswersSoFar' /\ Returned' = sent
      /\ clientLine' = <<>> /\ TimedOut' # {}
      /\ Cardinality(TimedOut') = Cardinality(TimedOut) + 1
  <2> DEFINE o == Outcome("timeout")
  <2>1. /\ o \in Outcomes /\ o.kind = "timeout" /\ o.about \notin RequestNumbers
        /\ o # Answered(Unknown) /\ Returns(o)
    BY <1>3, Numbers DEF Outcome, Outcomes, Answered
  <2> HIDE DEF o
  <2>2. toClient' \in Seq(Parts) /\ UNCHANGED <<sent, toServer, serverVars>>
    BY <1>3, <1>4
  <2> QED
    BY <1>1, <1>3, <1>8, <2>1, <2>2, ReturnsStep
<1>10. ServerSide(d)' /\ Written(d)' = Written(d) /\ d \in 0..sent' /\ k \in 0..sent'
  BY <1>2, <1>3, ServerSideKept, WrittenKept DEF serverVars
<1>11. ClientSide(d, k)'
  <2>1. ClientAt(k, read)'
    BY <1>6, <1>9 DEF ClientAt
  <2>2. Stream(toClient, read, Answers)' /\ read = 2 * Written(d)' - Len(toClient')
    <3>1. Answers' = Answers
      BY <1>3 DEF Answers, Responses, serverVars
    <3> QED
      BY <1>3, <1>5, <1>6, <1>10, <3>1 DEF Stream
  <2>3. k \in 0..Written(d)' /\ k = Returned' - Cardinality(TimedOut')
    BY <1>6, <1>7, <1>9, <1>10
  <2> QED
    BY <2>1, <2>2, <2>3 DEF ClientSide
<1> QED
  BY <1>9, <1>10, <1>11 DEF SessionInv, Pipeline

LEMMA ClientFindsEndStep ==
    ASSUME SessionInv, ClientFindsEnd
    PROVE  SessionInv'
<1>1. IpcSessionTypeOK /\ CountsAddUp /\ LastWords /\ AnswersSoFar
  BY DEF SessionInv
<1>2. PICK d \in 0..sent, k \in 0..sent : ServerSide(d) /\ ClientSide(d, k)
  BY DEF SessionInv, Pipeline
<1>3. /\ waiting /\ ~ ServerOpen /\ Returns(Outcome("ended"))
      /\ UNCHANGED <<sent, toServer, toClient, serverVars>>
  BY DEF ClientFindsEnd
<1>4. connected /\ toClient \in Seq(Parts)
  BY <1>1, <1>3 DEF IpcSessionTypeOK
<1>5. KindOf[sent] = "disconnect"
  BY <1>1, <1>3, <1>4 DEF LastWords
<1>6. /\ sent \in Nat /\ Returned = sent - 1 /\ Cardinality(TimedOut) \in Nat
      /\ (sent # 0 => sent \in RequestNumbers)
  BY <1>1, <1>3, Sizes
<1>7. sent \in RequestNumbers
  <2>1. k \in Nat /\ k = Returned - Cardinality(TimedOut)
    BY <1>2, <1>4 DEF ClientSide
  <2>2. sent # 0
    BY <1>6, <2>1
  <2> QED
    BY <1>6, <2>2
<1>8. /\ IpcSessionTypeOK' /\ CountsAddUp' /\ LastWords' /\ AnswersSoFar'
      /\ connected' = (KindOf[sent] # "disconnect")
  <2> DEFINE o == Outcome("ended")
  <2>1. /\ o \in Outcomes /\ o.kind = "ended" /\ o.about \notin RequestNumbers
        /\ o # Answered(Unknown) /\ Returns(o)
    BY <1>3, Numbers DEF Outcome, Outcomes, Answered
  <2> HIDE DEF o
  <2>2. toClient' \in Seq(Parts) /\ UNCHANGED <<sent, toServer, serverVars>>
    BY <1>3, <1>4
  <2> QED
    BY <1>1, <1>3, <1>7, <2>1, <2>2, ReturnsStep
<1>9. ~ connected'
  BY <1>5, <1>8
<1>10. ServerSide(d)' /\ ClientSide(d, k)' /\ d \in 0..sent' /\ k \in 0..sent'
  BY <1>2, <1>3, <1>9, ServerSideKept DEF ClientSide
<1> QED
  BY <1>8, <1>10 DEF SessionInv, Pipeline

LEMMA HangupStep ==
    ASSUME SessionInv, Hangup
    PROVE  SessionInv'
<1>1. /\ waiting = FALSE /\ connected' = FALSE
      /\ UNCHANGED <<sent, waiting, answer, clientLine, toServer, toClient, serverVars>>
  BY DEF Hangup, SessionInv, IpcSessionTypeOK
<1>2. IpcSessionTypeOK /\ CountsAddUp /\ LastWords /\ AnswersSoFar
  BY DEF SessionInv
<1>3. PICK d \in 0..sent, k \in 0..sent : ServerSide(d) /\ ClientSide(d, k)
  BY DEF SessionInv, Pipeline
<1>4. ServerSide(d)' /\ ClientSide(d, k)' /\ d \in 0..sent' /\ k \in 0..sent'
  BY <1>1, <1>3, ServerSideKept DEF ClientSide
<1>5. IpcSessionTypeOK'
  BY <1>1, <1>2 DEF IpcSessionTypeOK, serverVars
<1>6. CountsAddUp' /\ LastWords'
  BY <1>1, <1>2 DEF CountsAddUp, LastWords, serverVars
<1>7. AnswersSoFar'
  <2>1. Returned' = Returned
    BY <1>1 DEF Returned
  <2> QED
    BY <1>1, <1>2, <2>1, AnswersKept DEF serverVars
<1> QED
  BY <1>4, <1>5, <1>6, <1>7 DEF SessionInv, Pipeline

--------------------------------------------------------------------------------
(* The server's steps.                                                     *)

\* What a step of the server's task leaves as it was while it only reads and handles.
LEMMA ServerOnly ==
    ASSUME SessionInv, UNCHANGED <<clientVars, toClient>>,
           \A q \in RequestNumbers : handled[q] = 1 => handled'[q] = 1, cut > 0 => cut' > 0,
           ~ connected \/ server'.place # "closed" \/ server.place = "closed",
           NEW d \in 0..sent, NEW k \in 0..sent, ClientSide(d, k),
           NEW e \in 0..sent, ServerSide(e)', Written(e)' = Written(d),
           IpcSessionTypeOK', CountsAddUp'
    PROVE  SessionInv'
<1>1. IpcSessionTypeOK /\ LastWords /\ AnswersSoFar
  BY DEF SessionInv
<1>2. Returned' = Returned /\ sent' = sent
  BY DEF Returned, clientVars
<1>3. ClientSide(e, k)'
  BY <1>1, <1>2, ClientSideKept DEF clientVars
<1>4. AnswersSoFar'
  BY <1>1, <1>2, AnswersKept DEF clientVars
<1>5. LastWords'
  BY <1>1 DEF LastWords, ServerOpen, clientVars
<1> QED
  BY <1>2, <1>3, <1>4, <1>5 DEF SessionInv, Pipeline

LEMMA ServerReadsStep ==
    ASSUME SessionInv, ServerReads
    PROVE  SessionInv'
<1>1. IpcSessionTypeOK /\ CountsAddUp
  BY DEF SessionInv
<1>2. PICK d \in 0..sent, k \in 0..sent : Pipeline(d, k)
  BY DEF SessionInv
<1>3. PICK read : read = 2 * sent - Len(toServer)
  OBVIOUS
<1>4. /\ server.place = "reading" /\ d + 1 \in 1..sent
      /\ UNCHANGED <<clientVars, toClient, handled, counts, cut>>
      /\ toServer' \in Seq(Parts) /\ Len(toServer') = Len(toServer) - 1
      /\ read \in Int /\ Stream(toServer', read + 1, Requests)
      /\ read + 1 = 2 * sent - Len(toServer')
      /\ \/ /\ read + 1 = 2 * d + 1
            /\ serverLine' = <<<<d + 1, "begin">>>> /\ server' = server
         \/ /\ read + 1 = 2 * (d + 1)
            /\ serverLine' = Line(d + 1) \/ (serverLine' = <<<<d + 1, "end">>>> /\ cut > 0)
            /\ server' = AtPlace("line", Unknown)
  BY <1>1, <1>2, <1>3, ServerReadsWhat
<1>5. /\ sent' = sent /\ Stream(toServer, read + 1, Requests)'
      /\ read + 1 = 2 * sent' - Len(toServer')
  BY <1>4 DEF clientVars, Stream, Requests
<1>6. HandledSoFar(d) /\ ClientSide(d, k) /\ d \in Nat /\ sent \in Nat /\ d + 1 \in RequestNumbers
  BY <1>1, <1>2, <1>4, Sizes DEF Pipeline, ServerSide
<1>7. CountsAddUp'
  BY <1>1, <1>4 DEF CountsAddUp, AtPlace
<1>8. CASE /\ read + 1 = 2 * d + 1
           /\ serverLine' = <<<<d + 1, "begin">>>> /\ server' = server
  <2>1. ServerAt(d, read + 1)'
    BY <1>4, <1>8 DEF ServerAt
  <2>2. HandledSoFar(d)'
    BY <1>4, <1>6, <1>8 DEF HandledSoFar
  <2>3. ServerSide(d)' /\ Written(d)' = Written(d)
    BY <1>5, <1>8, <2>1, <2>2, WrittenKept DEF ServerSide
  <2>4. IpcSessionTypeOK'
    <3> DEFINE b == <<d + 1, "begin">>
    <3>1. b \in Parts /\ serverLine' = <<b>>
      BY <1>6, <1>8, Numbers
    <3>2. serverLine' \in Seq(Parts) /\ Len(serverLine') <= 2
      <4> HIDE DEF b
      <4> QED
        BY <3>1
    <3> QED
      BY <1>1, <1>4, <1>8, <3>2 DEF IpcSessionTypeOK, clientVars
  <2> QED
    BY <1>4, <1>6, <1>7, <1>8, <2>3, <2>4, ServerOnly
<1>9. CASE /\ read + 1 = 2 * (d + 1)
           /\ serverLine' = Line(d + 1) \/ (serverLine' = <<<<d + 1, "end">>>> /\ cut > 0)
           /\ server' = AtPlace("line", Unknown)
  <2> DEFINE e == d + 1
  <2>0. e \in 0..sent /\ e > 0 /\ e - 1 = d
    BY <1>4, <1>6
  <2>1. ServerAt(e, read + 1)'
    BY <1>4, <1>9, <2>0 DEF ServerAt, AtPlace
  <2>2. HandledSoFar(e)'
    <3> HIDE DEF e
    <3>1. ASSUME NEW q \in RequestNumbers, q > e \/ q = e PROVE q > d
      <4>1. q \in Nat /\ e \in Nat
        BY <2>0, Numbers
      <4> QED
        BY ONLY <1>6, <2>0, <3>1, <4>1
    <3> QED
      BY <1>4, <1>6, <3>1 DEF HandledSoFar
  <2>3. Written(e)' = Written(d)
    <3>1. Written(d) = d /\ Written(e)' = e - 1
      BY <1>4, <1>9 DEF Written, AtPlace
    <3> QED
      BY <2>0, <3>1
  <2>4. ServerSide(e)'
    <3> HIDE DEF e
    <3> QED
      BY <1>5, <2>0, <2>1, <2>2 DEF ServerSide
  <2>5. IpcSessionTypeOK'
    <3> DEFINE a == <<d + 1, "begin">>
               b == <<d + 1, "end">>
    <3>1. a \in Parts /\ b \in Parts /\ (serverLine' = <<a, b>> \/ serverLine' = <<b>>)
      BY <1>6, <1>9, Numbers DEF Line
    <3>2. serverLine' \in Seq(Parts) /\ Len(serverLine') <= 2
      <4> HIDE DEF a, b
      <4>1. <<a, b>> \in Seq(Parts) /\ Len(<<a, b>>) = 2 /\ <<b>> \in Seq(Parts) /\ Len(<<b>>) = 1
        BY <3>1
      <4>2. CASE serverLine' = <<a, b>>
        BY ONLY <4>1, <4>2
      <4>3. CASE serverLine' = <<b>>
        BY ONLY <4>1, <4>3
      <4> QED
        BY <3>1, <4>2, <4>3
    <3>3. server' \in [place : {"reading", "line", "handling", "writing", "closed"},
                       about : {Unknown} \cup RequestNumbers]
      BY <1>9 DEF AtPlace
    <3> QED
      BY <1>1, <1>4, <3>2, <3>3 DEF IpcSessionTypeOK, clientVars
  <2>6. server'.place # "closed"
    BY <1>9 DEF AtPlace
  <2> HIDE DEF e
  <2> QED
    BY <1>4, <1>6, <1>7, <2>0, <2>3, <2>4, <2>5, <2>6, ServerOnly
<1> QED
  BY <1>4, <1>8, <1>9

LEMMA ServerTimerStep ==
    ASSUME SessionInv, ServerTimer
    PROVE  SessionInv'
<1>1. IpcSessionTypeOK /\ CountsAddUp
  BY DEF SessionInv
<1>2. PICK d \in 0..sent, k \in 0..sent : ServerSide(d) /\ ClientSide(d, k)
  BY DEF SessionInv, Pipeline
<1>3. /\ server.place = "reading" /\ serverLine # <<>> /\ serverLine' = <<>> /\ cut' = cut + 1
      /\ UNCHANGED <<clientVars, toServer, toClient, server, handled, counts>>
  BY DEF ServerTimer
<1>4. cut \in Nat /\ cut' \in Nat /\ cut' > 0
  BY <1>1, <1>3 DEF IpcSessionTypeOK
<1>5. PICK read : read = 2 * sent - Len(toServer)
  OBVIOUS
<1>6. ServerAt(d, read)'
  <2>1. ServerAt(d, read)
    BY <1>2, <1>5 DEF ServerSide
  <2>2. read = 2 * d + 1
    BY <1>3, <2>1 DEF ServerAt
  <2> QED
    BY <1>3, <1>4, <2>2 DEF ServerAt
<1>7. ServerSide(d)' /\ Written(d)' = Written(d)
  <2>1. HandledSoFar(d)' /\ Stream(toServer, read, Requests)' /\ read = 2 * sent' - Len(toServer')
    BY <1>2, <1>3, <1>5 DEF ServerSide, HandledSoFar, Stream, Requests, clientVars
  <2>2. d \in 0..sent'
    BY <1>3 DEF clientVars
  <2> QED
    BY <1>3, <1>6, <2>1, <2>2, WrittenKept DEF ServerSide
<1>8. IpcSessionTypeOK' /\ CountsAddUp'
  <2>1. <<>> \in Seq(Parts) /\ Len(<<>>) <= 2
    OBVIOUS
  <2>2. serverLine' \in Seq(Parts) /\ Len(serverLine') <= 2
    BY <1>3, <2>1
  <2> QED
    BY <1>1, <1>3, <1>4, <2>2 DEF IpcSessionTypeOK, CountsAddUp, clientVars
<1> QED
  BY <1>2, <1>3, <1>4, <1>7, <1>8, ServerOnly

LEMMA ServerFindsEndStep ==
    ASSUME SessionInv, ServerFindsEnd
    PROVE  SessionInv'
<1>1. IpcSessionTypeOK /\ CountsAddUp
  BY DEF SessionInv
<1>2. PICK d \in 0..sent, k \in 0..sent : ServerSide(d) /\ ClientSide(d, k)
  BY DEF SessionInv, Pipeline
<1>3. /\ server.place = "reading" /\ toServer = <<>> /\ ~ connected
      /\ server' = IF serverLine = <<>> THEN AtPlace("closed", Unknown) ELSE AtPlace("line", Unknown)
      /\ UNCHANGED <<clientVars, toServer, toClient, serverLine, handled, counts, cut>>
  BY DEF ServerFindsEnd
<1>4. d \in Nat /\ sent \in Nat /\ Len(toServer) = 0
  BY <1>1, <1>3, Sizes
<1>5. PICK read : read = 2 * sent - Len(toServer)
  OBVIOUS
<1>6. read = 2 * sent
  BY <1>4, <1>5
\* All was sent in whole lines: nothing is left of one.
<1>7. serverLine = <<>> /\ server' = AtPlace("closed", Unknown)
  <2>1. ServerAt(d, read)
    BY <1>2, <1>5 DEF ServerSide
  <2>2. read # 2 * d + 1
    BY <1>4, <1>6
  <2>3. serverLine = <<>>
    BY <1>3, <2>1, <2>2 DEF ServerAt
  <2> QED
    BY <1>3, <2>3
<1>8. ServerSide(d)'
  <2>1. ServerAt(d, read)'
    BY <1>3, <1>7 DEF ServerAt, AtPlace
  <2>2. HandledSoFar(d)'
    BY <1>2, <1>3, <1>7 DEF ServerSide, HandledSoFar, AtPlace
  <2>3. Stream(toServer, read, Requests)' /\ read = 2 * sent' - Len(toServer') /\ d \in 0..sent'
    BY <1>2, <1>3, <1>5 DEF ServerSide, Stream, Requests, clientVars
  <2> QED
    BY <2>1, <2>2, <2>3 DEF ServerSide
<1>9. Written(d)' = Written(d)
  BY <1>3, <1>7 DEF Written, AtPlace
<1>10. IpcSessionTypeOK' /\ CountsAddUp'
  BY <1>1, <1>3, <1>7 DEF IpcSessionTypeOK, CountsAddUp, clientVars, AtPlace
<1> QED
  BY <1>2, <1>3, <1>8, <1>9, <1>10, ServerOnly

LEMMA ParseRequestStep ==
    ASSUME SessionInv, ParseRequest
    PROVE  SessionInv'
<1>1. IpcSessionTypeOK /\ CountsAddUp
  BY DEF SessionInv
<1>2. PICK d \in 0..sent, k \in 0..sent : ServerSide(d) /\ ClientSide(d, k)
  BY DEF SessionInv, Pipeline
<1>3. /\ server.place = "line" /\ serverLine' = <<>>
      /\ UNCHANGED <<clientVars, toServer, toClient, handled, cut>>
  BY DEF ParseRequest
<1>4. PICK read : read = 2 * sent - Len(toServer)
  OBVIOUS
<1>5. /\ d > 0 /\ read = 2 * d /\ HandledSoFar(d)
      /\ serverLine = Line(d) \/ (serverLine = <<<<d, "end">>>> /\ cut > 0)
  <2>1. ServerAt(d, read) /\ HandledSoFar(d)
    BY <1>2, <1>4 DEF ServerSide
  <2> QED
    BY <1>3, <2>1 DEF ServerAt
<1>6. d \in RequestNumbers
  <2>1. sent \in Nat /\ 1..sent \subseteq RequestNumbers
    BY <1>1, Sizes
  <2>2. d \in 1..sent
    BY <1>5, <2>1
  <2> QED
    BY <2>1, <2>2
<1>7. /\ Parses(Line(d)) /\ Line(d)[1][1] = d
      /\ ~ Parses(<<<<d, "end">>>>)
  <2> DEFINE a == <<d, "begin">>
             b == <<d, "end">>
  <2>1. a[1] = d /\ a[2] = "begin" /\ Line(d) = <<a, b>>
    BY DEF Line
  <2>2. Parses(<<a, b>>) /\ <<a, b>>[1] = a /\ ~ Parses(<<b>>)
    <3> HIDE DEF b, a
    <3> QED
      BY <2>1, PartLines
  <2> QED
    BY <2>1, <2>2
<1>8. \/ /\ server' = AtPlace("handling", d) /\ counts' = [counts EXCEPT !.total = @ + 1]
      \/ server' = AtPlace("writing", Unknown) /\ cut > 0 /\ counts' = counts
  <2>1. CASE serverLine = Line(d)
    BY <1>7, <2>1 DEF ParseRequest
  <2>2. CASE serverLine = <<<<d, "end">>>> /\ cut > 0
    BY <1>7, <2>2 DEF ParseRequest
  <2> QED
    BY <1>5, <2>1, <2>2
<1>9. Unknown \in Responses(d) \/ ~ cut > 0
  BY <1>6, Numbers DEF Responses
<1>10. ServerAt(d, read)'
  <2>1. Responses(d)' = Responses(d)
    BY <1>3 DEF Responses
  <2> QED
    BY <1>3, <1>5, <1>8, <1>9, <2>1 DEF ServerAt, AtPlace
<1>11. HandledSoFar(d)'
  BY <1>3, <1>5, <1>8 DEF HandledSoFar, AtPlace
<1>12. ServerSide(d)'
  <2>1. Stream(toServer, read, Requests)' /\ read = 2 * sent' - Len(toServer') /\ d \in 0..sent'
    BY <1>2, <1>3, <1>4 DEF ServerSide, Stream, Requests, clientVars
  <2> QED
    BY <1>10, <1>11, <2>1 DEF ServerSide
<1>13. Written(d)' = Written(d) /\ server'.place # "closed"
  BY <1>3, <1>8 DEF Written, AtPlace
<1>14. CountsAddUp'
  <2>1. counts \in [total : Nat, ok : Nat, failed : Nat] /\ counts.total = counts.ok + counts.failed
    BY <1>1, <1>3 DEF IpcSessionTypeOK, CountsAddUp
  <2>2. CASE server' = AtPlace("handling", d) /\ counts' = [counts EXCEPT !.total = @ + 1]
    BY <2>1, <2>2 DEF CountsAddUp, AtPlace
  <2>3. CASE server' = AtPlace("writing", Unknown) /\ counts' = counts
    BY <2>1, <2>3 DEF CountsAddUp, AtPlace
  <2> QED
    BY <1>8, <2>2, <2>3
<1>15. IpcSessionTypeOK'
  <2>1. <<>> \in Seq(Parts) /\ Len(<<>>) <= 2
    OBVIOUS
  <2>2. serverLine' \in Seq(Parts) /\ Len(serverLine') <= 2
    BY <1>3, <2>1
  <2>3. counts' \in [total : Nat, ok : Nat, failed : Nat]
    BY <1>1, <1>8 DEF IpcSessionTypeOK
  <2>4. server' \in [place : {"reading", "line", "handling", "writing", "closed"},
                     about : {Unknown} \cup RequestNumbers]
    BY <1>6, <1>8 DEF AtPlace
  <2> QED
    BY <1>1, <1>3, <2>2, <2>3, <2>4 DEF IpcSessionTypeOK, clientVars
<1> QED
  BY <1>2, <1>3, <1>12, <1>13, <1>14, <1>15, ServerOnly

LEMMA HandleRequestStep ==
    ASSUME SessionInv, NEW success \in BOOLEAN, HandleRequest(success)
    PROVE  SessionInv'
<1>1. IpcSessionTypeOK /\ CountsAddUp
  BY DEF SessionInv
<1>2. PICK d \in 0..sent, k \in 0..sent : ServerSide(d) /\ ClientSide(d, k)
  BY DEF SessionInv, Pipeline
<1>3. PICK read : read = 2 * sent - Len(toServer)
  OBVIOUS
<1>4. /\ server.place = "handling" /\ server.about = d
      /\ d > 0 /\ read = 2 * d /\ HandledSoFar(d) /\ serverLine = <<>>
  <2>1. server.place = "handling"
    BY DEF HandleRequest
  <2>2. ServerAt(d, read) /\ HandledSoFar(d)
    BY <1>2, <1>3 DEF ServerSide
  <2> QED
    BY <2>1, <2>2 DEF ServerAt
<1>5. d \in RequestNumbers
  <2>1. sent \in Nat /\ 1..sent \subseteq RequestNumbers
    BY <1>1, Sizes
  <2>2. d \in 1..sent
    BY <1>4, <2>1
  <2> QED
    BY <2>1, <2>2
<1>6. /\ handled' = [handled EXCEPT ![d] = @ + 1] /\ server' = AtPlace("writing", d)
      /\ counts' = IF success THEN [counts EXCEPT !.ok = @ + 1]
                    ELSE [counts EXCEPT !.failed = @ + 1]
      /\ UNCHANGED <<clientVars, toServer, toClient, serverLine, cut>>
  BY <1>4 DEF HandleRequest
<1>7. handled \in [RequestNumbers -> Nat] /\ handled[d] = 0
  BY <1>1, <1>4, <1>5 DEF IpcSessionTypeOK, HandledSoFar
<1>8. /\ handled' \in [RequestNumbers -> Nat] /\ handled'[d] = 1
      /\ \A q \in RequestNumbers : q # d => handled'[q] = handled[q]
  BY <1>5, <1>6, <1>7
<1>9. \A q \in RequestNumbers : handled[q] = 1 => handled'[q] = 1
  BY <1>7, <1>8
<1>10. ServerAt(d, read)'
  <2>1. d \in Responses(d)'
    BY <1>5, <1>8, Numbers DEF Responses
  <2> QED
    BY <1>4, <1>6, <2>1 DEF ServerAt, AtPlace
<1>11. HandledSoFar(d)'
  <2>1. \A q \in RequestNumbers : q > d => q # d
    BY <1>5, Numbers
  <2> QED
    BY <1>4, <1>6, <1>8, <2>1 DEF HandledSoFar, AtPlace
<1>12. ServerSide(d)'
  <2>1. Stream(toServer, read, Requests)' /\ read = 2 * sent' - Len(toServer') /\ d \in 0..sent'
    BY <1>2, <1>3, <1>6 DEF ServerSide, Stream, Requests, clientVars
  <2> QED
    BY <1>10, <1>11, <2>1 DEF ServerSide
<1>13. Written(d)' = Written(d) /\ server'.place # "closed"
  BY <1>4, <1>6 DEF Written, AtPlace
<1>14. counts' \in [total : Nat, ok : Nat, failed : Nat] /\ CountsAddUp'
  <2>1. /\ counts \in [total : Nat, ok : Nat, failed : Nat]
        /\ counts.total = counts.ok + counts.failed + 1
    BY <1>1, <1>4 DEF IpcSessionTypeOK, CountsAddUp
  <2>2. server'.place # "handling"
    BY <1>6 DEF AtPlace
  <2>3. CASE success
    BY <1>6, <2>1, <2>2, <2>3 DEF CountsAddUp
  <2>4. CASE ~ success
    BY <1>6, <2>1, <2>2, <2>4 DEF CountsAddUp
  <2> QED
    BY <2>3, <2>4
<1>15. IpcSessionTypeOK'
  <2>1. server' \in [place : {"reading", "line", "handling", "writing", "closed"},
                     about : {Unknown} \cup RequestNumbers]
    BY <1>5, <1>6 DEF AtPlace
  <2> QED
    BY <1>1, <1>6, <1>8, <1>14, <2>1 DEF IpcSessionTypeOK, clientVars
<1> QED
  BY <1>2, <1>6, <1>9, <1>12, <1>13, <1>14, <1>15, ServerOnly

LEMMA WriteResponseStep ==
    ASSUME SessionInv, WriteResponse
    PROVE  SessionInv'
<1>1. IpcSessionTypeOK /\ CountsAddUp /\ LastWords /\ AnswersSoFar
  BY DEF SessionInv
<1>2. PICK d \in 0..sent, k \in 0..sent : ServerSide(d) /\ ClientSide(d, k)
  BY DEF SessionInv, Pipeline
<1>3. PICK goesOn \in BOOLEAN :
        /\ Write(goesOn)
        /\ ~ goesOn => server.about # Unknown /\ (~ connected \/ KindOf[server.about] = "disconnect")
  BY DEF WriteResponse
<1>4. PICK read : read = 2 * sent - Len(toServer)
  OBVIOUS
<1>5. /\ server.place = "writing" /\ d > 0 /\ read = 2 * d /\ serverLine = <<>>
      /\ server.about \in Responses(d) /\ HandledSoFar(d)
  <2>1. server.place = "writing"
    BY <1>3 DEF Write
  <2>2. ServerAt(d, read) /\ HandledSoFar(d)
    BY <1>2, <1>4 DEF ServerSide
  <2> QED
    BY <2>1, <2>2 DEF ServerAt
<1>6. /\ toClient' = (IF connected THEN toClient \o Line(server.about) ELSE toClient)
      /\ server' = (IF goesOn THEN AtPlace("reading", Unknown) ELSE AtPlace("closed", Unknown))
      /\ UNCHANGED <<clientVars, toServer, serverLine, handled, counts, cut>>
  BY <1>3 DEF Write
<1>7. d \in RequestNumbers /\ d \in 1..sent /\ d \in Nat
  <2>1. sent \in Nat /\ 1..sent \subseteq RequestNumbers
    BY <1>1, Sizes
  <2>2. d \in 1..sent /\ d \in Nat
    BY <1>5, <2>1
  <2> QED
    BY <2>1, <2>2
<1>8. server'.place \in {"reading", "closed"}
  BY <1>6 DEF AtPlace
<1>9. Written(d) = d - 1 /\ Written(d)' = d
  BY <1>5, <1>8 DEF Written
<1>10. ServerSide(d)'
  <2>1. ServerAt(d, read)'
    BY <1>5, <1>6, <1>8 DEF ServerAt
  <2>2. HandledSoFar(d)'
    BY <1>5, <1>6, <1>8 DEF HandledSoFar
  <2>3. Stream(toServer, read, Requests)' /\ read = 2 * sent' - Len(toServer') /\ d \in 0..sent'
    BY <1>2, <1>4, <1>6 DEF ServerSide, Stream, Requests, clientVars
  <2> QED
    BY <2>1, <2>2, <2>3 DEF ServerSide
<1>11. toClient \in Seq(Parts) /\ Len(toClient) \in Nat
  BY <1>1 DEF IpcSessionTypeOK
<1>12. connected =>
         LET from == 2 * Written(d) - Len(toClient) IN
         /\ Stream(toClient', from, Answers) /\ toClient' \in Seq(Parts)
         /\ from = 2 * Written(d)' - Len(toClient')
  <2> SUFFICES ASSUME connected
               PROVE  LET from == 2 * Written(d) - Len(toClient) IN
                      /\ Stream(toClient', from, Answers) /\ toClient' \in Seq(Parts)
                      /\ from = 2 * Written(d)' - Len(toClient')
    OBVIOUS
  <2>1. PICK from \in Int : from = 2 * Written(d) - Len(toClient)
    BY <1>7, <1>9, <1>11
  <2>2. PICK x : x = server.about
    OBVIOUS
  <2>3. /\ Stream(toClient, from, Answers) /\ DOMAIN Answers \subseteq Int
        /\ d \in DOMAIN Answers /\ x \in Answers[d]
        /\ <<x, "begin">> \in Parts /\ <<x, "end">> \in Parts
    BY <1>2, <1>5, <1>7, <2>1, <2>2, Numbers, ResponsesAre DEF ClientSide
  <2>4. from + Len(toClient) = 2 * d - 2
    BY <1>7, <1>9, <1>11, <2>1
  <2>5. toClient' = toClient \o Line(x)
    BY <1>6, <2>2
  <2>6. Stream(toClient', from, Answers) /\ toClient' \in Seq(Parts) /\ Len(toClient') = Len(toClient) + 2
    <3>1. PICK q, may : q = toClient /\ may = Answers /\ q \in Seq(Parts)
      BY <1>11
    <3>2. /\ Stream(q, from, may) /\ DOMAIN may \subseteq Int /\ d \in DOMAIN may /\ x \in may[d]
          /\ <<x, "begin">> \in Parts /\ <<x, "end">> \in Parts /\ from + Len(q) = 2 * d - 2
      BY <2>3, <2>4, <3>1
    <3>3. /\ Stream(q \o Line(x), from, may)
          /\ q \o Line(x) \in Seq(Parts) /\ Len(q \o Line(x)) = Len(q) + 2
      BY ONLY <2>1, <3>1, <3>2, StreamMore
    <3> QED
      BY <2>5, <3>1, <3>3
  <2>7. from = 2 * Written(d)' - Len(toClient')
    BY <1>7, <1>9, <1>11, <2>1, <2>6
  <2> QED
    BY <2>1, <2>6, <2>7
<1>13. ClientSide(d, k)'
  <2> SUFFICES ASSUME connected' PROVE ClientSide(d, k)'
    BY DEF ClientSide
  <2>1. connected
    BY <1>6 DEF clientVars
  <2>2. PICK from : from = 2 * Written(d) - Len(toClient)
    OBVIOUS
  <2>3. Stream(toClient', from, Answers) /\ from = 2 * Written(d)' - Len(toClient')
    BY <1>12, <2>1, <2>2
  <2>4. k \in 0..Written(d) /\ ClientAt(k, from) /\ k = Returned - Cardinality(TimedOut)
    BY <1>2, <2>1, <2>2 DEF ClientSide
  <2>5. Answers' = Answers /\ \A j : Responses(j)' = Responses(j)
    BY <1>6 DEF Answers, Responses
  <2>6. Stream(toClient, from, Answers)'
    BY <2>3, <2>5 DEF Stream
  <2>7. TimedOut' = TimedOut /\ Returned' = Returned
    BY <1>6 DEF TimedOut, Returned, clientVars
  <2>8. ClientAt(k, from)'
    BY <1>6, <2>4, <2>5, <2>7 DEF ClientAt, clientVars
  <2>9. k \in 0..Written(d)' /\ k = Returned' - Cardinality(TimedOut')
    BY <1>7, <1>9, <2>4, <2>7
  <2> QED
    BY <2>3, <2>6, <2>8, <2>9 DEF ClientSide
\* The server hangs up on a client that listens after its disconnect only, the last request.
<1>14. LastWords'
  <2> SUFFICES ASSUME connected' PROVE LastWords'
    BY DEF LastWords
  <2>1. connected /\ sent' = sent /\ waiting' = waiting
    BY <1>6 DEF clientVars
  <2>2. \A q \in 1..sent : KindOf[q] = "disconnect" => q = sent /\ waiting
    BY <1>1, <2>1 DEF LastWords
  <2>3. ~ goesOn => waiting /\ KindOf[sent] = "disconnect"
    <3> SUFFICES ASSUME ~ goesOn PROVE waiting /\ KindOf[sent] = "disconnect"
      OBVIOUS
    <3>1. server.about # Unknown /\ KindOf[server.about] = "disconnect"
      BY <1>3, <2>1
    <3>2. server.about = d
      BY <1>5, <3>1 DEF Responses
    <3> QED
      BY <1>7, <2>2, <3>1, <3>2
  <2>4. goesOn => ServerOpen'
    BY <1>6 DEF ServerOpen, AtPlace
  <2> QED
    BY <2>1, <2>2, <2>3, <2>4 DEF LastWords
<1>15. AnswersSoFar'
  <2>1. Returned' = Returned
    BY <1>6 DEF Returned, clientVars
  <2> QED
    BY <1>1, <1>6, <2>1, AnswersKept DEF clientVars
<1>16. CountsAddUp'
  BY <1>1, <1>5, <1>6, <1>8 DEF CountsAddUp
<1>17. IpcSessionTypeOK'
  <2>1. toClient' \in Seq(Parts)
    BY <1>6, <1>11, <1>12
  <2>2. server' \in [place : {"reading", "line", "handling", "writing", "closed"},
                     about : {Unknown} \cup RequestNumbers]
    BY <1>6 DEF AtPlace
  <2> QED
    BY <1>1, <1>6, <2>1, <2>2 DEF IpcSessionTypeOK, clientVars
<1>18. sent' = sent
  BY <1>6 DEF clientVars
<1> QED
  BY <1>2, <1>10, <1>13, <1>14, <1>15, <1>16, <1>17, <1>18 DEF SessionInv, Pipeline

LEMMA SessionStep == SessionInv /\ [IpcSessionNext]_ipcSessionVars => SessionInv'
<1> SUFFICES ASSUME SessionInv, [IpcSessionNext]_ipcSessionVars PROVE SessionInv'
  OBVIOUS
<1>1. CASE SendRequest
  BY <1>1, SendRequestStep
<1>2. CASE ClientReads
  BY <1>2, ClientReadsStep
<1>3. CASE ClientTimer
  BY <1>3, ClientTimerStep
<1>4. CASE ClientFindsEnd
  BY <1>4, ClientFindsEndStep
<1>5. CASE Hangup
  BY <1>5, HangupStep
<1>6. CASE ServerTimer
  BY <1>6, ServerTimerStep
<1>7. CASE ServerReads
  BY <1>7, ServerReadsStep
<1>8. CASE ServerFindsEnd
  BY <1>8, ServerFindsEndStep
<1>9. CASE ParseRequest
  BY <1>9, ParseRequestStep
<1>10. CASE WriteResponse
  BY <1>10, WriteResponseStep
<1>11. ASSUME NEW success \in BOOLEAN, HandleRequest(success) PROVE SessionInv'
  BY <1>11, HandleRequestStep
<1>12. CASE UNCHANGED ipcSessionVars
  <2>1. /\ UNCHANGED <<sent, waiting, answer, clientLine, connected, toServer, toClient>>
        /\ UNCHANGED <<serverLine, server, handled, counts, cut>>
    BY <1>12 DEF ipcSessionVars
  <2>2. IpcSessionTypeOK' /\ CountsAddUp' /\ LastWords' /\ AnswersSoFar'
    <3>1. IpcSessionTypeOK' /\ CountsAddUp'
      BY <2>1 DEF SessionInv, IpcSessionTypeOK, CountsAddUp
    <3>2. LastWords'
      BY <2>1 DEF SessionInv, LastWords, ServerOpen
    <3>3. Returned' = Returned
      BY <2>1 DEF Returned
    <3>4. AnswersSoFar'
      BY <2>1, <3>3, AnswersKept DEF SessionInv
    <3> QED
      BY <3>1, <3>2, <3>4
  <2>3. PICK d \in 0..sent, k \in 0..sent : ServerSide(d) /\ ClientSide(d, k)
    BY DEF SessionInv, Pipeline
  <2>4. ServerSide(d)' /\ Written(d)' = Written(d)
    BY <2>1, <2>3, ServerSideKept, WrittenKept DEF serverVars
  <2>5. ClientSide(d, k)'
    <3>1. Returned' = Returned
      BY <2>1 DEF Returned
    <3> QED
      BY <2>1, <2>3, <2>4, <3>1, ClientSideKept DEF SessionInv
  <2> QED
    BY <2>1, <2>2, <2>3, <2>4, <2>5 DEF SessionInv, Pipeline
<1> QED
  BY <1>1, <1>2, <1>3, <1>4, <1>5, <1>6, <1>7, <1>8, <1>9, <1>10, <1>11, <1>12
     DEF IpcSessionNext, ServerStep

LEMMA SessionInvImplies == SessionInv => AnswersInStep
<1> SUFFICES ASSUME SessionInv PROVE AnswersInStep
  OBVIOUS
<1>1. IpcSessionTypeOK /\ CountsAddUp /\ AnswersSoFar
  BY DEF SessionInv
<1>2. AnswersLagByTimeouts
  BY <1>1 DEF AnswersSoFar, AnswersLagByTimeouts
<1>3. HandledOnce
  <2>1. \A q \in RequestNumbers : handled[q] \in {0, 1}
    BY DEF SessionInv, Pipeline, ServerSide, HandledSoFar
  <2>2. \A q \in RequestNumbers : handled[q] <= 1
    BY <2>1
  <2> QED
    BY <1>1, <2>2 DEF HandledOnce, AnswersSoFar
<1> QED
  BY <1>1, <1>2, <1>3 DEF AnswersInStep

\* Whatever the kinds of the requests and however many, and whenever the timers of either end
\* fire: a response answers the request that is as many requests back as the client's timer had
\* fired before, nothing is handled twice, whoever gets an answer about a request may rely on
\* its having been handled, and the statistics count each request once (src/src/api/ipc.rs,
\* send_request and handle_connection_inner).
THEOREM AnswersAlwaysInStep == IpcSessionSpec => []AnswersInStep
<1> QED
  BY SessionInit, SessionStep, SessionInvImplies, PTL DEF IpcSessionSpec
================================================================================
