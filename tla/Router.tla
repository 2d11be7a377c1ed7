-------------------------------- MODULE Router --------------------------------
(***************************************************************************)
(* The router of src/router/router.rs: callers of route(), the worker      *)
(* tasks that serve them, tasks that start() and stop() the pool, and the  *)
(* handler registry.  Priorities are the subject of RequestQueue: here the *)
(* queue is a set of requests and workers take any of them.  The worker    *)
(* list and the handler map sit behind RwLocks; a step between two awaits  *)
(* is one action, unless another thread can act inside it.                 *)
(***************************************************************************)
EXTENDS Naturals, FiniteSets

CONSTANTS Requests,     \* each is routed by one caller
          Modules,
          ModuleOf,     \* [Requests -> Modules]: whose route a request takes
          Panicking,    \* modules whose handler may panic
          Workers,      \* names for worker tasks, reused once a task is over
          Controllers,  \* tasks calling start() and stop()
          WorkerCount,  \* worker_count
          MaxConcurrent,\* max_concurrent
          QueueSize,    \* queue_size
          MaxStarts,    \* bound on calls of start()
          Nobody        \* no controller, module, request

ASSUME RouterAssumption ==
    /\ ModuleOf \in [Requests -> Modules]
    /\ Panicking \subseteq Modules
    /\ IsFiniteSet(Requests) /\ IsFiniteSet(Workers)
    /\ WorkerCount \in Nat \ {0} /\ MaxConcurrent \in Nat \ {0}
    /\ QueueSize \in Nat /\ MaxStarts \in Nat
    /\ Cardinality(Workers) >= WorkerCount * MaxStarts
    /\ Nobody \notin Controllers \cup Modules \cup Requests

VARIABLES running,              \* the AtomicBool
          workersLock,          \* controller holding workers.write()
          handles,              \* the JoinHandles in workers
          abandoned,            \* live workers whose handle stop() dropped
          ctl, starts,          \* progress of start() and stop(); calls so far
          wpc, item, result,    \* progress of each worker
          permits,              \* free permits of the limiter
          handlers, routes,     \* modules with a handler, with a route
          removing,             \* module being unregistered, under handlers.write()
          queued,               \* requests in the queue
          cpc, answer, sent,    \* progress of each caller; what it returned; the oneshot
          executed, total, crashed  \* handler calls; total_requests; panics

poolVars == <<running, workersLock, handles, ctl, starts>>
workVars == <<wpc, item, result, abandoned>>
registryVars == <<handlers, routes, removing>>
callVars == <<cpc, answer>>
countVars == <<executed, total, crashed>>
vars == <<poolVars, workVars, permits, registryVars, queued, callVars, sent, countVars>>

Init ==
    /\ running = FALSE /\ workersLock = Nobody /\ handles = {} /\ abandoned = {}
    /\ ctl = [k \in Controllers |-> "idle"] /\ starts = 0
    /\ wpc = [w \in Workers |-> "off"]
    /\ item = [w \in Workers |-> Nobody]
    /\ result = [w \in Workers |-> "none"]
    /\ permits = MaxConcurrent
    /\ handlers = {} /\ routes = {} /\ removing = Nobody
    /\ queued = {}
    /\ cpc = [r \in Requests |-> "idle"]
    /\ answer = [r \in Requests |-> "none"]
    /\ sent = [r \in Requests |-> "none"]
    /\ executed = [r \in Requests |-> 0] /\ total = 0 /\ crashed = 0

-------------------------------------------------------------------------------
(* start() and stop().  Called in the state they ask for they change       *)
(* nothing: start() returns an error, stop() returns Ok.                   *)

StartSwap(k) ==
    /\ ctl[k] = "idle"
    /\ ~running
    /\ starts < MaxStarts
    /\ running' = TRUE
    /\ starts' = starts + 1
    /\ ctl' = [ctl EXCEPT ![k] = "starting"]
    /\ UNCHANGED <<workersLock, handles, workVars, permits, registryVars, queued, callVars, sent, countVars>>

Unused == {w \in Workers \ handles : wpc[w] = "off"}

\* Under workers.write(); running is not looked at again.
SpawnWorkers(k) ==
    /\ ctl[k] = "starting"
    /\ workersLock = Nobody
    /\ \E new \in SUBSET Unused :
          /\ Cardinality(new) = WorkerCount
          /\ handles' = handles \cup new
          /\ wpc' = [w \in Workers |-> IF w \in new THEN "top" ELSE wpc[w]]
    /\ ctl' = [ctl EXCEPT ![k] = "idle"]
    /\ UNCHANGED <<running, workersLock, starts, item, result, abandoned, permits,
                   registryVars, queued, callVars, sent, countVars>>

StopSwap(k) ==
    /\ ctl[k] = "idle"
    /\ running
    /\ running' = FALSE
    /\ ctl' = [ctl EXCEPT ![k] = "stopping"]
    /\ UNCHANGED <<workersLock, handles, starts, workVars, permits, registryVars,
                   queued, callVars, sent, countVars>>

StopLock(k) ==
    /\ ctl[k] = "stopping"
    /\ workersLock = Nobody
    /\ workersLock' = k
    /\ ctl' = [ctl EXCEPT ![k] = "joining"]
    /\ UNCHANGED <<running, handles, starts, workVars, permits, registryVars,
                   queued, callVars, sent, countVars>>

\* Mutant: stop() drops a handle without waiting for the task.
DropHandle(k) ==
    /\ ctl[k] = "joining"
    /\ \E w \in handles : handles' = handles \ {w}
    /\ UNCHANGED <<running, workersLock, ctl, starts, workVars, permits, registryVars,
                   queued, callVars, sent, countVars>>

JoinWorker(k) ==
    /\ ctl[k] = "joining"
    /\ \E w \in handles : wpc[w] = "off" /\ handles' = handles \ {w}
    /\ UNCHANGED <<running, workersLock, ctl, starts, workVars, permits, registryVars,
                   queued, callVars, sent, countVars>>

\* Five seconds are over: the handle is dropped, the task runs on.
AbandonWorker(k) ==
    /\ ctl[k] = "joining"
    /\ \E w \in handles :
          /\ wpc[w] # "off"
          /\ handles' = handles \ {w}
          /\ abandoned' = abandoned \cup {w}
    /\ UNCHANGED <<running, workersLock, ctl, starts, wpc, item, result, permits, registryVars,
                   queued, callVars, sent, countVars>>

StopReturn(k) ==
    /\ ctl[k] = "joining"
    /\ handles = {}
    /\ workersLock' = Nobody
    /\ ctl' = [ctl EXCEPT ![k] = "idle"]
    /\ UNCHANGED <<running, handles, starts, workVars, permits, registryVars,
                   queued, callVars, sent, countVars>>

-------------------------------------------------------------------------------
(* The worker's loop and process_item *)

Goto(w, place) == wpc' = [wpc EXCEPT ![w] = place]

\* Mutant: the worker loops forever.
LoopForever(w) ==
    /\ wpc[w] = "top"
    /\ Goto(w, "dequeuing")
    /\ UNCHANGED <<poolVars, item, result, abandoned, permits, registryVars, queued, callVars, sent, countVars>>

CheckRunning(w) ==
    /\ wpc[w] = "top"
    /\ Goto(w, IF running THEN "dequeuing" ELSE "off")
    /\ abandoned' = IF running THEN abandoned ELSE abandoned \ {w}
    /\ UNCHANGED <<poolVars, item, result, permits, registryVars, queued, callVars, sent, countVars>>

\* Mutant: the entry stays in the queue.
PeekItem(w) ==
    /\ wpc[w] = "dequeuing"
    /\ \E r \in queued : item' = [item EXCEPT ![w] = r]
    /\ Goto(w, "holding")
    /\ UNCHANGED <<poolVars, result, abandoned, permits, registryVars, queued, callVars, sent, countVars>>

Dequeue(w) ==
    /\ wpc[w] = "dequeuing"
    /\ \E r \in queued : item' = [item EXCEPT ![w] = r] /\ queued' = queued \ {r}
    /\ Goto(w, "holding")
    /\ UNCHANGED <<poolVars, result, abandoned, permits, registryVars, callVars, sent, countVars>>

\* Mutant: break where the loop continues.
BreakOnTimer(w) ==
    /\ wpc[w] = "dequeuing"
    /\ Goto(w, "off")
    /\ abandoned' = abandoned \ {w}
    /\ UNCHANGED <<poolVars, item, result, permits, registryVars, queued, callVars, sent, countVars>>

\* The 100 ms timer: look at running again.
DequeueExpires(w) ==
    /\ wpc[w] = "dequeuing"
    /\ Goto(w, "top")
    /\ UNCHANGED <<poolVars, item, result, abandoned, permits, registryVars, queued, callVars, sent, countVars>>

AcquirePermit(w) ==
    /\ wpc[w] = "holding"
    /\ permits > 0
    /\ permits' = permits - 1
    /\ Goto(w, "permitted")
    /\ UNCHANGED <<poolVars, item, result, abandoned, registryVars, queued, callVars, sent, countVars>>

\* The handler is cloned under handlers.read(), released before the call.
LookUpHandler(w) ==
    /\ wpc[w] = "permitted"
    /\ removing = Nobody
    /\ IF ModuleOf[item[w]] \in handlers
       THEN Goto(w, "calling") /\ UNCHANGED result
       ELSE Goto(w, "answering") /\ result' = [result EXCEPT ![w] = "no_module"]
    /\ UNCHANGED <<poolVars, item, abandoned, permits, registryVars, queued, callVars, sent, countVars>>

CallHandler(w) ==
    /\ wpc[w] = "calling"
    /\ executed' = [executed EXCEPT ![item[w]] = @ + 1]
    /\ Goto(w, "handling")
    /\ UNCHANGED <<poolVars, item, result, abandoned, permits, registryVars, queued, callVars, sent, total, crashed>>

\* The handler returns, or with_timeout drops it.
HandlerEnds(w, outcome) ==
    /\ wpc[w] = "handling"
    /\ result' = [result EXCEPT ![w] = outcome]
    /\ Goto(w, "answering")
    /\ UNCHANGED <<poolVars, item, abandoned, permits, registryVars, queued, callVars, sent, countVars>>

\* A panic unwinds the worker: the permit and the oneshot's sender are
\* dropped and the task is over.
HandlerPanics(w) ==
    /\ wpc[w] = "handling"
    /\ ModuleOf[item[w]] \in Panicking
    /\ permits' = permits + 1
    /\ sent' = [sent EXCEPT ![item[w]] = "closed"]
    /\ item' = [item EXCEPT ![w] = Nobody]
    /\ Goto(w, "off")
    /\ abandoned' = abandoned \ {w}
    /\ crashed' = crashed + 1
    /\ UNCHANGED <<poolVars, result, registryVars, queued, callVars, executed, total>>

\* Whether the caller is still there makes no difference to the worker.
SendResponse(w) ==
    /\ wpc[w] = "answering"
    /\ sent' = [sent EXCEPT ![item[w]] = result[w]]
    /\ Goto(w, "recording")
    /\ UNCHANGED <<poolVars, item, result, abandoned, permits, registryVars, queued, callVars, countVars>>

\* Mutant: the permit is not given back.
RecordKeepingPermit(w) ==
    /\ wpc[w] = "recording"
    /\ total' = total + 1
    /\ item' = [item EXCEPT ![w] = Nobody]
    /\ result' = [result EXCEPT ![w] = "none"]
    /\ Goto(w, "top")
    /\ UNCHANGED <<poolVars, abandoned, permits, registryVars, queued, callVars, sent, executed, crashed>>

\* stats.record (RouterStats has its detail), then the permit is dropped.
RecordAndLoop(w) ==
    /\ wpc[w] = "recording"
    /\ total' = total + 1
    /\ permits' = permits + 1
    /\ item' = [item EXCEPT ![w] = Nobody]
    /\ result' = [result EXCEPT ![w] = "none"]
    /\ Goto(w, "top")
    /\ UNCHANGED <<poolVars, abandoned, registryVars, queued, callVars, sent, executed, crashed>>

-------------------------------------------------------------------------------
(* route() *)

Return(r, what) ==
    /\ cpc' = [cpc EXCEPT ![r] = "done"]
    /\ answer' = [answer EXCEPT ![r] = what]

\* The running check, the validation (the request may be ill-formed) and
\* the route lookup.
CallRoute(r) ==
    /\ cpc[r] = "idle"
    /\ \/ ~running /\ Return(r, "not_running")
       \/ running /\ Return(r, "invalid")
       \/ running /\ ModuleOf[r] \notin routes /\ Return(r, "no_route")
       \/ /\ running /\ ModuleOf[r] \in routes
          /\ cpc' = [cpc EXCEPT ![r] = "entering"] /\ UNCHANGED answer
    /\ UNCHANGED <<poolVars, workVars, permits, registryVars, queued, sent, countVars>>

Admitted(r) ==
    /\ cpc[r] = "entering"
    /\ Cardinality(queued) < QueueSize
    /\ cpc' = [cpc EXCEPT ![r] = "admitted"]
    /\ UNCHANGED <<poolVars, workVars, permits, registryVars, queued, answer, sent, countVars>>

\* Mutant: the capacity is checked after the entry has been pushed.
RefusedButPushed(r) ==
    /\ cpc[r] = "entering"
    /\ Cardinality(queued) >= QueueSize
    /\ Return(r, "queue_full")
    /\ queued' = queued \cup {r}
    /\ UNCHANGED <<poolVars, workVars, permits, registryVars, sent, countVars>>

\* RequestQueue!RefusalExplained: the queue is full, or an entry of another
\* call has been taken before that call counted it.
Refused(r) ==
    /\ cpc[r] = "entering"
    /\ \/ Cardinality(queued) >= QueueSize
       \/ \E s \in Requests \ {r} : cpc[s] = "pushed" /\ s \notin queued
    /\ Return(r, "queue_full")
    /\ UNCHANGED <<poolVars, workVars, permits, registryVars, queued, sent, countVars>>

PushItem(r) ==
    /\ cpc[r] = "admitted"
    /\ queued' = queued \cup {r}
    /\ cpc' = [cpc EXCEPT ![r] = "pushed"]
    /\ UNCHANGED <<poolVars, workVars, permits, registryVars, answer, sent, countVars>>

EnqueueReturns(r) ==
    /\ cpc[r] = "pushed"
    /\ cpc' = [cpc EXCEPT ![r] = "awaiting"]
    /\ UNCHANGED <<poolVars, workVars, permits, registryVars, queued, answer, sent, countVars>>

ReceiveResponse(r) ==
    /\ cpc[r] = "awaiting"
    /\ sent[r] # "none"
    /\ Return(r, sent[r])
    /\ UNCHANGED <<poolVars, workVars, permits, registryVars, queued, sent, countVars>>

\* The request's deadline; its entry stays where it is.
RouteExpires(r) ==
    /\ cpc[r] = "awaiting"
    /\ sent[r] = "none"
    /\ Return(r, "timeout")
    /\ UNCHANGED <<poolVars, workVars, permits, registryVars, queued, sent, countVars>>

-------------------------------------------------------------------------------
(* The handler registry *)

RegisterHandler(m) ==
    /\ removing = Nobody
    /\ handlers' = handlers \cup {m}
    /\ UNCHANGED <<poolVars, workVars, permits, routes, removing, queued, callVars, sent, countVars>>

RegisterRoute(m) ==
    /\ routes' = routes \cup {m}
    /\ UNCHANGED <<poolVars, workVars, permits, handlers, removing, queued, callVars, sent, countVars>>

\* The write lock is kept while the routes are removed.
UnregisterHandler(m) ==
    /\ removing = Nobody
    /\ handlers' = handlers \ {m}
    /\ removing' = m
    /\ UNCHANGED <<poolVars, workVars, permits, routes, queued, callVars, sent, countVars>>

RemoveRoutes ==
    /\ removing # Nobody
    /\ routes' = routes \ {removing}
    /\ removing' = Nobody
    /\ UNCHANGED <<poolVars, workVars, permits, handlers, queued, callVars, sent, countVars>>

-------------------------------------------------------------------------------
StopStep(k) == StopLock(k) \/ JoinWorker(k) \/ AbandonWorker(k) \/ StopReturn(k)

HandlerStep(w) == HandlerEnds(w, "ok") \/ HandlerEnds(w, "timeout") \/ HandlerPanics(w)

WorkerStep(w) ==
    \/ CheckRunning(w) \/ Dequeue(w) \/ DequeueExpires(w) \/ AcquirePermit(w)
    \/ LookUpHandler(w) \/ CallHandler(w) \/ HandlerStep(w)
    \/ SendResponse(w) \/ RecordAndLoop(w)

RouteStep(r) ==
    \/ Admitted(r) \/ Refused(r) \/ PushItem(r) \/ EnqueueReturns(r)
    \/ ReceiveResponse(r) \/ RouteExpires(r)

Next ==
    \/ \E k \in Controllers : StartSwap(k) \/ SpawnWorkers(k) \/ StopSwap(k) \/ StopStep(k)
    \/ \E w \in Workers : WorkerStep(w)
    \/ \E r \in Requests : CallRoute(r) \/ RouteStep(r)
    \/ \E m \in Modules : RegisterHandler(m) \/ RegisterRoute(m) \/ UnregisterHandler(m)
    \/ RemoveRoutes

Spec == Init /\ [][Next]_vars

\* Tasks that can run do run, and a timer fires unless it is forestalled.
\* An RwLock serves its waiters in order, so a worker gets to read the
\* handler map although modules come and go for ever; that some worker
\* gets a queued request is RequestQueue!EveryAcceptedIsTaken.  Nobody has
\* to call route(), start() or stop().
Fairness ==
    /\ \A k \in Controllers : WF_vars(SpawnWorkers(k) \/ StopStep(k))
    /\ SF_vars(\E w \in Workers : Dequeue(w))
    /\ SF_vars(\E w \in Workers : LookUpHandler(w))
    /\ \A w \in Workers : WF_vars(WorkerStep(w))
    /\ \A r \in Requests : WF_vars(RouteStep(r))
    /\ WF_vars(RemoveRoutes)

FairSpec == Spec /\ Fairness

-------------------------------------------------------------------------------
(* What must hold *)

Answers == {"ok", "timeout", "no_module", "closed"}
Refusals == {"not_running", "invalid", "no_route", "queue_full"}
Permitted == {"permitted", "calling", "handling", "answering", "recording"}
Busy == {w \in Workers : wpc[w] \in Permitted \cup {"holding"}}
Entered == {r \in Requests : cpc[r] \in {"pushed", "awaiting"} \/ answer[r] \in Answers}

\* Every variable keeps its type; permits never exceed max_concurrent.
TypeOK ==
    /\ running \in BOOLEAN /\ starts \in 0..MaxStarts
    /\ workersLock \in Controllers \cup {Nobody}
    /\ ctl \in [Controllers -> {"idle", "starting", "stopping", "joining"}]
    /\ handles \subseteq Workers /\ abandoned \subseteq Workers
    /\ wpc \in [Workers -> {"off", "top", "dequeuing", "holding"} \cup Permitted]
    /\ item \in [Workers -> Requests \cup {Nobody}]
    /\ result \in [Workers -> {"none"} \cup Answers]
    /\ permits \in 0..MaxConcurrent
    /\ handlers \subseteq Modules /\ routes \subseteq Modules
    /\ removing \in Modules \cup {Nobody}
    /\ queued \subseteq Requests
    /\ cpc \in [Requests -> {"idle", "entering", "admitted", "pushed", "awaiting", "done"}]
    /\ answer \in [Requests -> {"none"} \cup Answers \cup Refusals]
    /\ sent \in [Requests -> {"none"} \cup Answers]
    /\ executed \in [Requests -> Nat] /\ total \in Nat /\ crashed \in Nat

\* spawn_worker's permits: one is held by each worker between acquire and
\* the end of its loop body, whatever restarts and panics come between.
PermitsConserved ==
    permits + Cardinality({w \in Workers : wpc[w] \in Permitted}) = MaxConcurrent

\* Each request that entered the queue is there, with one worker, or was
\* recorded once; stopping the router or abandoning a worker loses none.
RequestsConserved ==
    Cardinality(Entered) = Cardinality(queued) + Cardinality(Busy) + total + crashed

\* What route() returns agrees with what was done: a refused request is
\* never handled or kept, an answered one was handled exactly once, and
\* none is handled twice.
AnswersExplained ==
    \A r \in Requests :
        /\ executed[r] <= 1
        /\ answer[r] = "ok" => executed[r] = 1
        /\ answer[r] = "no_module" => executed[r] = 0
        /\ answer[r] \in Refusals =>
              executed[r] = 0 /\ r \notin queued /\ \A w \in Workers : item[w] # r

\* stop() joins the workers: when the router does not run and nobody is
\* starting or stopping it, only a worker abandoned by stop()'s timeout
\* still has a request or waits for one.
StoppedMeansIdle ==
    ~running /\ (\A k \in Controllers : ctl[k] = "idle") =>
        \A w \in Workers \ abandoned : wpc[w] \in {"off", "top"}

\* However starts and stops interleave (start() spawns after the swap, and
\* stop() may get the lock between), a queued request leaves the queue
\* unless the router is stopped.
RunningServes == \A r \in Requests : r \in queued ~> (r \notin queued \/ ~running)

\* After the last stop() every worker ends, abandoned ones included.
StopsForGood == <>[](~running) => <>[](\A w \in Workers : wpc[w] = "off")
===============================================================================
