--------------------------- MODULE LifecycleManager ---------------------------
(***************************************************************************)
(* The lifecycle manager of src/module/lifecycle.rs: the states of modules *)
(* behind one RwLock and a cache of their health.  Callers register,       *)
(* start, stop and restart modules, set their states and check the health  *)
(* of one or of all.  A call reads the state under a lock that it gives    *)
(* back, and writes under another; only health_check_all keeps its lock,   *)
(* and each check that it makes asks for the same lock again.              *)
(***************************************************************************)
EXTENDS FairRwLock, FiniteSets

CONSTANTS Names,    \* module ids
          Puts,     \* states that callers set
          Callers

LifecycleStates == {"Registered", "Loading", "Loaded", "Starting", "Running", "Stopping",
                    "Stopped", "Unloading", "Unloaded", "Error"}
Verdicts == {"healthy", "degraded", "unhealthy"}

ASSUME LifecycleAssumption ==
    /\ IsFiniteSet(Callers)
    /\ Puts \subseteq LifecycleStates

VARIABLES status,     \* states: each module's state, "absent" if it has none
          health,     \* health_cache: the last verdict, "none" before the first
          statesLock, \* the RwLock of states
          lpc,        \* where each call is
          job,        \* what it does to which module
          unchecked,  \* the modules that health_check_all has still to check
          report,     \* what it has found
          disturbed   \* calls whose module has changed since they looked

lifecycleVars == <<status, health, statesLock, lpc, job, unchecked, report, disturbed>>

NoJob == [op |-> "none", name |-> "none", arg |-> "none"]
EmptyReport == [n \in Names |-> "none"]

LifecycleInit ==
    /\ status = [n \in Names |-> "absent"]
    /\ health = [n \in Names |-> "none"]
    /\ statesLock = Unlocked
    /\ lpc = [t \in Callers |-> "idle"]
    /\ job = [t \in Callers |-> NoJob]
    /\ unchecked = [t \in Callers |-> {}]
    /\ report = [t \in Callers |-> EmptyReport]
    /\ disturbed = [t \in Callers |-> FALSE]

checkVars == <<health, unchecked, report>>

At(t, place) == lpc' = [lpc EXCEPT ![t] = place]
Job(t, op, n, arg) == job' = [job EXCEPT ![t] = [op |-> op, name |-> n, arg |-> arg]]
Over(t) == At(t, "idle") /\ job' = [job EXCEPT ![t] = NoJob]
\* In and out of the lock, and to the end of its queue again.
PassAndAsk(t, kind) == statesLock' = Ask(Pass(statesLock), t, kind)
JustPass == statesLock' = Pass(statesLock)

--------------------------------------------------------------------------------
\* Calls.
Begin(t, op, n, arg, place, kind) ==
    /\ lpc[t] = "idle"
    /\ At(t, place)
    /\ Job(t, op, n, arg)
    /\ statesLock' = Ask(statesLock, t, kind)
    /\ UNCHANGED <<status, checkVars, disturbed>>

StartModule(t, n) == Begin(t, "start", n, "none", "look", "read")
StopModule(t, n) == Begin(t, "stop", n, "none", "look", "read")
RestartModule(t, n) == Begin(t, "restart", n, "none", "exists", "read")
\* register_module() sets the state Registered.
PutState(t, n, s) == Begin(t, "put", n, s, "put", "write")
RegisterModule(t, n) == PutState(t, n, "Registered")
HealthCheck(t, n) == Begin(t, "check", n, "none", "probe", "read")
HealthCheckAll(t) == Begin(t, "checkAll", "none", "none", "all", "all")

--------------------------------------------------------------------------------
\* Starting and stopping.
\* Mutant: a module in error may be started.
CanStartAnew(s) == s \in {"Loaded", "Stopped", "Error"}

CanStart(s) == s \in {"Loaded", "Stopped"}
CanStop(s) == s = "Running"

\* restart_module() stops a running module, and starts it in any case.
Stops(t) == job[t].op = "stop" \/ (job[t].op = "restart" /\ job[t].arg = "stop")
Allowed(t) == IF Stops(t) THEN CanStop(status[job[t].name]) ELSE CanStart(status[job[t].name])
Transient(t) == IF Stops(t) THEN "Stopping" ELSE "Starting"
Final(t) == IF Stops(t) THEN "Stopped" ELSE "Running"
ThenStarts(t) == Stops(t) /\ job[t].op = "restart"

Exists(t) ==
    /\ lpc[t] = "exists" /\ MayEnter(statesLock, t)
    /\ \/ /\ status[job[t].name] = "absent"
          /\ JustPass /\ Over(t)
       \/ /\ status[job[t].name] # "absent"
          /\ PassAndAsk(t, "read") /\ At(t, "look")
          /\ Job(t, "restart", job[t].name,
                 IF status[job[t].name] = "Running" THEN "stop" ELSE "start")
    /\ UNCHANGED <<status, checkVars, disturbed>>

\* Refused, or found where it is to go already.
LookUp(t) ==
    /\ lpc[t] = "look" /\ MayEnter(statesLock, t)
    /\ disturbed' = [disturbed EXCEPT ![t] = FALSE]
    /\ \/ Allowed(t) /\ PassAndAsk(t, "write") /\ At(t, "begin") /\ UNCHANGED job
       \/ /\ ~Allowed(t) /\ status[job[t].name] = "Stopped" /\ ThenStarts(t)
          /\ PassAndAsk(t, "read") /\ Job(t, "restart", job[t].name, "start") /\ UNCHANGED lpc
       \/ /\ ~Allowed(t) /\ ~(status[job[t].name] = "Stopped" /\ ThenStarts(t))
          /\ JustPass /\ Over(t)
    /\ UNCHANGED <<status, checkVars>>

Writes(t, s) ==
    /\ MayEnter(statesLock, t)
    /\ status' = [status EXCEPT ![job[t].name] = s]
    /\ disturbed' = [u \in Callers |-> disturbed[u] \/ (u # t /\ job[u].name = job[t].name)]

EnterTransient(t) ==
    /\ lpc[t] = "begin" /\ Writes(t, Transient(t))
    /\ At(t, "hook") /\ JustPass
    /\ UNCHANGED <<job, checkVars>>

\* onStart or onStop: whatever the module answers, the caller gets Ok.
CallHook(t) ==
    /\ lpc[t] = "hook"
    /\ At(t, "finish")
    /\ statesLock' = Ask(statesLock, t, "write")
    /\ UNCHANGED <<status, job, checkVars, disturbed>>

EnterFinal(t) ==
    /\ lpc[t] = "finish" /\ Writes(t, Final(t))
    /\ \/ ~ThenStarts(t) /\ Over(t) /\ JustPass
       \/ /\ ThenStarts(t)
          /\ At(t, "look") /\ Job(t, "restart", job[t].name, "start")
          /\ PassAndAsk(t, "read")
    /\ UNCHANGED checkVars

Put(t) ==
    /\ lpc[t] = "put" /\ Writes(t, job[t].arg)
    /\ Over(t) /\ JustPass
    /\ UNCHANGED checkVars

--------------------------------------------------------------------------------
\* Health.
\* Mutant: the ids are copied and the lock is given back.
CopyIds(t) ==
    /\ lpc[t] = "all" /\ MayEnter(statesLock, t)
    /\ JustPass
    /\ unchecked' = [unchecked EXCEPT ![t] = {n \in Names : status[n] # "absent"}]
    /\ At(t, "next")
    /\ UNCHANGED <<status, health, job, report, disturbed>>

EnterAll(t) ==
    /\ lpc[t] = "all" /\ MayEnter(statesLock, t)
    /\ statesLock' = Enter(statesLock)
    /\ unchecked' = [unchecked EXCEPT ![t] = {n \in Names : status[n] # "absent"}]
    /\ At(t, "next")
    /\ UNCHANGED <<status, health, job, report, disturbed>>

CheckNext(t, n) ==
    /\ lpc[t] = "next" /\ n \in unchecked[t]
    /\ unchecked' = [unchecked EXCEPT ![t] = @ \ {n}]
    /\ Job(t, "checkAll", n, "none")
    /\ statesLock' = Ask(statesLock, t, "read")
    /\ At(t, "probe")
    /\ UNCHANGED <<status, health, report, disturbed>>

AllChecked(t) ==
    /\ lpc[t] = "next" /\ unchecked[t] = {}
    /\ statesLock' = Leave(statesLock, t, "all")
    /\ report' = [report EXCEPT ![t] = EmptyReport]
    /\ Over(t)
    /\ UNCHANGED <<status, health, unchecked, disturbed>>

\* A module that does not run is judged by its state, one that runs is asked.
Judged(s) == IF s = "Error" THEN "unhealthy" ELSE "degraded"

Probe(t) ==
    /\ lpc[t] = "probe" /\ MayEnter(statesLock, t)
    /\ JustPass
    /\ LET s == status[job[t].name] IN
       \/ s = "absent" /\ Over(t)
       \/ s = "Running" /\ At(t, "ask") /\ UNCHANGED job
       \/ /\ s \notin {"absent", "Running"}
          /\ At(t, "cache") /\ Job(t, job[t].op, job[t].name, Judged(s))
    /\ UNCHANGED <<status, checkVars, disturbed>>

AskModule(t, verdict) ==
    /\ lpc[t] = "ask"
    /\ At(t, "cache") /\ Job(t, job[t].op, job[t].name, verdict)
    /\ UNCHANGED <<status, statesLock, checkVars, disturbed>>

CacheVerdict(t) ==
    /\ lpc[t] = "cache"
    /\ health' = [health EXCEPT ![job[t].name] = job[t].arg]
    /\ \/ job[t].op = "check" /\ Over(t) /\ UNCHANGED report
       \/ /\ job[t].op = "checkAll"
          /\ report' = [report EXCEPT ![t][job[t].name] = job[t].arg]
          /\ At(t, "next") /\ Job(t, "checkAll", "none", "none")
    /\ UNCHANGED <<status, statesLock, unchecked, disturbed>>

--------------------------------------------------------------------------------
LifecycleCall(t) ==
    \/ HealthCheckAll(t)
    \/ \E n \in Names :
          \/ StartModule(t, n) \/ StopModule(t, n) \/ RestartModule(t, n)
          \/ RegisterModule(t, n) \/ HealthCheck(t, n)
          \/ \E s \in Puts : PutState(t, n, s)

LifecycleStep(t) ==
    \/ Exists(t) \/ LookUp(t) \/ EnterTransient(t) \/ CallHook(t) \/ EnterFinal(t) \/ Put(t)
    \/ EnterAll(t) \/ AllChecked(t) \/ Probe(t) \/ CacheVerdict(t)
    \/ (\E n \in Names : CheckNext(t, n)) \/ (\E v \in Verdicts : AskModule(t, v))

LifecycleNext == \E t \in Callers : LifecycleCall(t) \/ LifecycleStep(t)

LifecycleSpec == LifecycleInit /\ [][LifecycleNext]_lifecycleVars

\* A task that was polled is polled again, and a module's hook returns.
LifecycleFairness == \A t \in Callers : WF_lifecycleVars(LifecycleStep(t))

LifecyclePlaces == {"idle", "exists", "look", "begin", "hook", "finish", "put",
                    "all", "next", "probe", "ask", "cache"}
Jobs == [op : {"none", "start", "stop", "restart", "put", "check", "checkAll"},
         name : Names \cup {"none"},
         arg : LifecycleStates \cup Verdicts \cup {"none", "start", "stop"}]

\* Besides the types: nobody keeps the lock between two steps but health_check_all.
LifecycleTypeOK ==
    /\ status \in [Names -> LifecycleStates \cup {"absent"}]
    /\ health \in [Names -> Verdicts \cup {"none"}]
    /\ lpc \in [Callers -> LifecyclePlaces]
    /\ job \in [Callers -> Jobs]
    /\ unchecked \in [Callers -> SUBSET Names]
    /\ report \in [Callers -> [Names -> Verdicts \cup {"none"}]]
    /\ disturbed \in [Callers -> BOOLEAN]
    /\ \A h \in statesLock.held : h[2] = "all" /\ job[h[1]].op = "checkAll"

\* What health_check_all has found so far is true of the states as they are now, since it
\* keeps its lock: one report never mixes states of different times.
ReportIsOneState ==
    \A t \in Callers, n \in Names :
        report[t][n] # "none" =>
            /\ status[n] # "absent"
            /\ status[n] # "Running" => report[t][n] = Judged(status[n])

\* A call moves its module along the documented states (lifecycle.rs: from Loaded or
\* Stopped to Running, from Running to Stopped) unless another call changed the state
\* after this one had looked.
DocumentedMoves ==
    {<<"Loaded", "Starting">>, <<"Stopped", "Starting">>, <<"Starting", "Running">>,
     <<"Running", "Stopping">>, <<"Stopping", "Stopped">>}

MovesAsDocumentedUnlessDisturbed ==
    [][\A t \in Callers, n \in Names :
        (lpc[t] \in {"begin", "finish"} /\ lpc'[t] # lpc[t] /\ job[t].name = n /\ ~disturbed[t])
            => <<status[n], status'[n]>> \in DocumentedMoves
      ]_lifecycleVars

\* health_check_all asks for a lock that it holds, behind a writer that waits for it.
Reentered ==
    \E t \in Callers :
        /\ <<t, "all">> \in statesLock.held
        /\ statesLock.queue # <<>> /\ Head(statesLock.queue)[2] = "write"
        /\ \E i \in DOMAIN statesLock.queue : statesLock.queue[i] = <<t, "read">>

\* Every call returns, except that health_check_all can block itself behind a writer, and
\* then everybody.
ReturnsUnlessReentered ==
    \A t \in Callers : (lpc[t] # "idle") ~> (lpc[t] = "idle" \/ Reentered)

\* The reports of the health checks, with the types.
LifecycleHolds == LifecycleTypeOK /\ ReportIsOneState
===============================================================================
