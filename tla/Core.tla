--------------------------------- MODULE Core ---------------------------------
(***************************************************************************)
(* The ChipsCore of src/api/sdk.rs and the commands of src/main.rs that    *)
(* make one.  start() and shutdown() borrow the core exclusively, so that  *)
(* no call of another task is under way while they run, but they can fail  *)
(* half way, and a program may drop them at an await.  Router and modules  *)
(* are models of their own; here the router runs or not.                   *)
(***************************************************************************)
EXTENDS Naturals, FiniteSets

CONSTANTS RouteCalls, \* calls of route()
          AutoLoad    \* modules that initialize() may load

ASSUME CoreAssumption == IsFiniteSet(RouteCalls)

VARIABLES coreState,
          exclusive,   \* where start() or shutdown() is
          routerRuns,
          autoLoaded,  \* modules loaded
          started,     \* started_at is set
          route,       \* each call of route()
          recorded,    \* what the metrics have counted
          main,        \* where the command is; "library" is any other program
          cutShort,    \* a start() or shutdown() failed or was dropped half way
          outside      \* a holder of the Arc of the router started or stopped it

coreVars == <<coreState, exclusive, routerRuns, autoLoaded, started, route, recorded,
              main, cutShort, outside>>
useVars == <<route, recorded>>

CoreStates == {"Uninitialized", "Initialized", "Running", "ShuttingDown", "Shutdown"}
Programs == {"library", "start", "route"}

\* new() has built every part and started none.
CoreInit ==
    /\ coreState = "Initialized" /\ exclusive = "none"
    /\ routerRuns = FALSE /\ autoLoaded = {} /\ started = FALSE
    /\ route = [r \in RouteCalls |-> "idle"]
    /\ recorded = [total |-> 0, ok |-> 0, failed |-> 0]
    /\ main \in Programs
    /\ cutShort = FALSE /\ outside = FALSE

Quiet == exclusive = "none" /\ \A r \in RouteCalls : route[r] # "routing"
Proceeds(place) == exclusive' = place /\ UNCHANGED <<autoLoaded, useVars, outside>>

\* The command goes on or ends, as the call that it awaits returns.
ReturnsToMain(ok) ==
    main' = IF main = "library" THEN main
            ELSE IF ~ok \/ main = "close" THEN "exited"
            ELSE IF main = "start" THEN "share"
            ELSE IF main = "route" THEN "ask" ELSE main

--------------------------------------------------------------------------------
(* start() and shutdown().                                                 *)
CoreCanStart == coreState = "Initialized"
CoreCanShutdown == coreState = "Running"

StartCore ==
    /\ main \in Programs /\ Quiet /\ CoreCanStart
    /\ Proceeds("router")
    /\ UNCHANGED <<coreState, routerRuns, started, main, cutShort>>

StartCoreRefused ==
    /\ main = "library" /\ Quiet /\ ~CoreCanStart
    /\ UNCHANGED coreVars

\* The router refuses when it runs already.
StartRouter ==
    /\ exclusive = "router"
    /\ routerRuns' = TRUE
    /\ Proceeds(IF routerRuns THEN "none" ELSE "initialize")
    /\ IF routerRuns THEN ReturnsToMain(FALSE) ELSE UNCHANGED main
    /\ UNCHANGED <<coreState, started, cutShort>>

\* A module directory that cannot be read, or a cycle of dependencies.
InitializeFails ==
    /\ exclusive = "initialize"
    /\ cutShort' = TRUE
    /\ Proceeds("none") /\ ReturnsToMain(FALSE)
    /\ UNCHANGED <<coreState, routerRuns, started>>

\* A module that cannot be loaded is only warned of.
InitializeModules ==
    /\ exclusive = "initialize"
    /\ \E ms \in SUBSET AutoLoad : autoLoaded' = ms
    /\ exclusive' = "announce"
    /\ UNCHANGED <<coreState, routerRuns, started, useVars, main, cutShort, outside>>

AnnounceStart ==
    /\ exclusive = "announce"
    /\ coreState' = "Running" /\ started' = TRUE
    /\ Proceeds("none") /\ ReturnsToMain(TRUE)
    /\ UNCHANGED <<routerRuns, cutShort>>

ShutdownCore ==
    /\ main \in {"library", "close"} /\ Quiet /\ CoreCanShutdown
    /\ coreState' = "ShuttingDown"
    /\ Proceeds("modules")
    /\ UNCHANGED <<routerRuns, started, main, cutShort>>

\* Without an error.
ShutdownIdle ==
    /\ main \in {"library", "close"} /\ Quiet /\ ~CoreCanShutdown
    /\ ReturnsToMain(TRUE)
    /\ UNCHANGED <<coreState, exclusive, routerRuns, autoLoaded, started, useVars,
                   cutShort, outside>>

\* Modules that run are stopped: through the core modules are only loaded, and stay so.
StopModules ==
    /\ exclusive = "modules"
    /\ Proceeds("stop")
    /\ UNCHANGED <<coreState, routerRuns, started, main, cutShort>>

\* Mutant: the router is left to itself.
LeaveRouter ==
    /\ exclusive = "stop"
    /\ coreState' = "Shutdown"
    /\ Proceeds("none") /\ ReturnsToMain(TRUE)
    /\ UNCHANGED <<routerRuns, started, cutShort>>

StopRouter ==
    /\ exclusive = "stop"
    /\ routerRuns' = FALSE /\ coreState' = "Shutdown"
    /\ Proceeds("none") /\ ReturnsToMain(TRUE)
    /\ UNCHANGED <<started, cutShort>>

\* The program drops the future, at any of its awaits.
DropCall ==
    /\ main = "library" /\ exclusive # "none"
    /\ cutShort' = TRUE
    /\ Proceeds("none")
    /\ UNCHANGED <<coreState, routerRuns, started, main>>

--------------------------------------------------------------------------------
(* The calls that share the core, and what they reach.                     *)
MayUse == main \in {"library", "serving", "interrupted", "ask"} /\ exclusive = "none"

RouteCall(r) ==
    /\ MayUse /\ route[r] = "idle"
    /\ main = "ask" => \A q \in RouteCalls : route[q] = "idle"
    /\ route' = [route EXCEPT ![r] = IF coreState = "Running" THEN "routing" ELSE "refused"]
    /\ UNCHANGED <<coreState, exclusive, routerRuns, autoLoaded, started, recorded, main,
                   cutShort, outside>>

RouteAnswer(r, success) ==
    /\ route[r] = "routing" /\ main # "exited"
    /\ success => routerRuns
    /\ route' = [route EXCEPT ![r] = "answered"]
    /\ recorded' = [total |-> recorded.total + 1,
                    ok |-> recorded.ok + (IF success THEN 1 ELSE 0),
                    failed |-> recorded.failed + (IF success THEN 0 ELSE 1)]
    /\ UNCHANGED <<coreState, exclusive, routerRuns, autoLoaded, started, main, cutShort,
                   outside>>

\* Nothing is recorded of a call that is dropped.
RouteDropped(r) ==
    /\ route[r] = "routing" /\ main \in {"library", "serving", "interrupted"}
    /\ route' = [route EXCEPT ![r] = "dropped"]
    /\ UNCHANGED <<coreState, exclusive, routerRuns, autoLoaded, started, recorded, main,
                   cutShort, outside>>

\* router() hands out the router itself.
OutsideStartStop ==
    /\ main = "library"
    /\ routerRuns' = ~routerRuns /\ outside' = TRUE
    /\ UNCHANGED <<coreState, exclusive, autoLoaded, started, useVars, main, cutShort>>

--------------------------------------------------------------------------------
(* The commands.  Start shares the core with the IPC server and waits for  *)
(* Ctrl+C; Route asks once.                                                *)
MainMoves(from, to) ==
    /\ main = from /\ main' = to
    /\ UNCHANGED <<coreState, exclusive, routerRuns, autoLoaded, started, useVars,
                   cutShort, outside>>

ServeIpc == MainMoves("share", "serving")
IpcFails == MainMoves("share", "exited")
CtrlC == MainMoves("serving", "interrupted")

\* The server is stopped and the last owner's Arc dropped, at which the core logs a line.
DropCore == MainMoves("interrupted", "exited")

Asked == (\E r \in RouteCalls : route[r] \in {"answered", "refused"}) /\ MainMoves("ask", "close")

ExclusiveStep ==
    \/ StartRouter \/ InitializeFails \/ InitializeModules \/ AnnounceStart
    \/ StopModules \/ StopRouter

CoreNext ==
    \/ StartCore \/ StartCoreRefused \/ ShutdownCore \/ ShutdownIdle \/ ExclusiveStep \/ DropCall
    \/ \E r \in RouteCalls : \/ RouteCall(r) \/ RouteDropped(r)
                             \/ \E s \in BOOLEAN : RouteAnswer(r, s)
    \/ OutsideStartStop
    \/ ServeIpc \/ IpcFails \/ CtrlC \/ DropCore \/ Asked

CoreSpec == CoreInit /\ [][CoreNext]_coreVars

\* Tasks are polled again, and the command goes on to its end.
CoreFairness ==
    /\ WF_coreVars(ExclusiveStep)
    /\ WF_coreVars(main # "library" /\ (StartCore \/ ShutdownCore \/ ShutdownIdle \/ Asked))
    /\ \A r \in RouteCalls : /\ WF_coreVars(main = "ask" /\ RouteCall(r))
                             /\ WF_coreVars(\E s \in BOOLEAN : RouteAnswer(r, s))

--------------------------------------------------------------------------------
\* Types, and a time of start only in a core that was once running: uptime() and health()
\* of a core whose start failed have none.
CoreTypeOK ==
    /\ coreState \in CoreStates
    /\ exclusive \in {"none", "router", "initialize", "announce", "modules", "stop"}
    /\ routerRuns \in BOOLEAN /\ started \in BOOLEAN /\ cutShort \in BOOLEAN /\ outside \in BOOLEAN
    /\ autoLoaded \subseteq AutoLoad
    /\ route \in [RouteCalls -> {"idle", "routing", "answered", "refused", "dropped"}]
    /\ recorded \in [total : Nat, ok : Nat, failed : Nat]
    /\ started => coreState \notin {"Uninitialized", "Initialized"}
    /\ main \in Programs \cup {"share", "serving", "interrupted", "ask", "close", "exited"}

\* The state tells whether the router runs, unless a call was cut short, which leaves the
\* router running in a core that can neither be started nor shut down, or the router was
\* started or stopped past the core.
StateTellsRouter ==
    (exclusive = "none" /\ ~cutShort /\ ~outside) => (routerRuns <=> coreState = "Running")

\* A call of route() that found the core running still has a running router when it gets
\* there.
RoutesFindRouter ==
    \A r \in RouteCalls : (route[r] = "routing" /\ ~outside) => routerRuns

\* The metrics count every call that the core let through and that was not dropped, once.
MetricsCountRoutes ==
    /\ recorded.total = Cardinality({r \in RouteCalls : route[r] = "answered"})
    /\ recorded.total = recorded.ok + recorded.failed

\* The route command ends, and shuts down the core that it started before it does.
RouteCommandEnds == (main = "route") ~> (main = "exited" /\ (started => coreState = "Shutdown"))

\* What the core says of its router, and what its callers may conclude from it.
CoreAndRouterAgree == StateTellsRouter /\ RoutesFindRouter
===============================================================================
