----------------------------- MODULE RouterProofs -----------------------------
(***************************************************************************)
(* Theorems about Router, for any number of requests, modules, workers and *)
(* controllers: permits and requests are conserved through restarts,       *)
(* panics and timeouts, answers agree with what was done, and a stopped    *)
(* router is idle.                                                         *)
(***************************************************************************)
EXTENDS Router, FiniteSetTheorems, TLAPS

-------------------------------------------------------------------------------
(* Types and permits *)

Holders == {w \in Workers : wpc[w] \in Permitted}

\* permits stays in its range because of PermitsConserved.
PermitInv == TypeOK /\ PermitsConserved

LEMMA HolderCount ==
    /\ IsFiniteSet(Holders) /\ Cardinality(Holders) \in Nat
    /\ \A w \in Holders : Cardinality(Holders) >= 1
                          /\ Cardinality(Holders \ {w}) = Cardinality(Holders) - 1
    /\ \A w \in Workers \ Holders : Cardinality(Holders \cup {w}) = Cardinality(Holders) + 1
<1>1. IsFiniteSet(Holders) /\ Cardinality(Holders) \in Nat
  BY RouterAssumption, FS_Subset, FS_CardinalityType DEF RouterAssumption, Holders
<1>2. ASSUME NEW w \in Holders
      PROVE  Cardinality(Holders) >= 1 /\ Cardinality(Holders \ {w}) = Cardinality(Holders) - 1
  <2>1. IsFiniteSet(Holders \ {w}) /\ Cardinality(Holders \ {w}) = Cardinality(Holders) - 1
    BY <1>1, FS_RemoveElement
  <2>2. Cardinality(Holders \ {w}) \in Nat
    BY <2>1, FS_CardinalityType
  <2> QED
    BY <2>1, <2>2, <1>1
<1>3. ASSUME NEW w \in Workers \ Holders
      PROVE  Cardinality(Holders \cup {w}) = Cardinality(Holders) + 1
  BY <1>1, FS_AddElement
<1> QED
  BY <1>1, <1>2, <1>3

\* A worker that holds a permit can give it back.
LEMMA PermitRange ==
    ASSUME PermitInv
    PROVE  /\ permits + Cardinality(Holders) = MaxConcurrent
           /\ permits \in 0..MaxConcurrent
           /\ \A w \in Holders : permits + 1 \in 0..MaxConcurrent
<1>1. permits + Cardinality(Holders) = MaxConcurrent /\ permits \in 0..MaxConcurrent
  BY DEF PermitInv, PermitsConserved, TypeOK, Holders
<1>2. MaxConcurrent \in Nat
  BY RouterAssumption DEF RouterAssumption
<1>3. ASSUME NEW w \in Holders
      PROVE  permits + 1 \in 0..MaxConcurrent
  <2>1. Cardinality(Holders) \in Nat /\ Cardinality(Holders) >= 1
    BY HolderCount
  <2> QED
    BY <1>1, <1>2, <2>1
<1> QED
  BY <1>1, <1>3

LEMMA InitPermitInv == Init => PermitInv
<1> SUFFICES ASSUME Init PROVE PermitInv
  OBVIOUS
<1>1. TypeOK
  <2>1. running \in BOOLEAN
    BY DEF Init
  <2>2. /\ executed \in [Requests -> Nat] /\ total \in Nat /\ crashed \in Nat
        /\ permits \in 0..MaxConcurrent /\ starts \in 0..MaxStarts
    BY RouterAssumption DEF RouterAssumption, Init
  <2> QED
    BY <2>1, <2>2 DEF Init, TypeOK
<1>2. {w \in Workers : wpc[w] \in Permitted} = {}
  BY DEF Init, Permitted
<1>3. PermitsConserved
  BY <1>2, FS_EmptySet, RouterAssumption DEF RouterAssumption, PermitsConserved, Init
<1> QED
  BY <1>1, <1>3 DEF PermitInv

\* What a step of the worker pool, the registry or a caller keeps.
LEMMA NextTypeOK == PermitInv /\ [Next]_vars => TypeOK'
<1> SUFFICES ASSUME PermitInv, [Next]_vars
             PROVE  TypeOK'
  OBVIOUS
<1> USE DEF PermitInv, TypeOK, poolVars, workVars, registryVars, callVars, countVars, Goto, Return
<1>1. ASSUME NEW k \in Controllers, StartSwap(k) PROVE TypeOK'
  BY <1>1, RouterAssumption DEF RouterAssumption, StartSwap
<1>2. ASSUME NEW k \in Controllers, SpawnWorkers(k) PROVE TypeOK'
  <2>1. PICK new \in SUBSET Unused :
           /\ handles' = handles \cup new
           /\ wpc' = [w \in Workers |-> IF w \in new THEN "top" ELSE wpc[w]]
    BY <1>2 DEF SpawnWorkers
  <2>2. handles' \subseteq Workers
    BY <2>1 DEF Unused
  <2>3. wpc' \in [Workers -> {"off", "top", "dequeuing", "holding"} \cup Permitted]
    BY <2>1
  <2> QED
    BY <1>2, <2>2, <2>3 DEF SpawnWorkers
<1>3. ASSUME NEW k \in Controllers, StopSwap(k) PROVE TypeOK'
  BY <1>3 DEF StopSwap
<1>4. ASSUME NEW k \in Controllers, StopStep(k) PROVE TypeOK'
  BY <1>4 DEF StopStep, StopLock, JoinWorker, AbandonWorker, StopReturn
<1>5. ASSUME NEW w \in Workers, CheckRunning(w) PROVE TypeOK'
  BY <1>5 DEF CheckRunning
<1>6. ASSUME NEW w \in Workers, Dequeue(w) PROVE TypeOK'
  BY <1>6 DEF Dequeue
<1>7. ASSUME NEW w \in Workers, DequeueExpires(w) PROVE TypeOK'
  BY <1>7 DEF DequeueExpires
<1>8. ASSUME NEW w \in Workers, AcquirePermit(w) PROVE TypeOK'
  <2>1. permits - 1 \in 0..MaxConcurrent
    BY <1>8, PermitRange, RouterAssumption DEF RouterAssumption, AcquirePermit
  <2> QED
    BY <1>8, <2>1 DEF AcquirePermit, Permitted
<1>9. ASSUME NEW w \in Workers, LookUpHandler(w) PROVE TypeOK'
  BY <1>9 DEF LookUpHandler, Permitted, Answers
<1>10. ASSUME NEW w \in Workers, CallHandler(w) PROVE TypeOK'
  <2>1. executed' = [executed EXCEPT ![item[w]] = executed[item[w]] + 1]
    BY <1>10 DEF CallHandler
  <2>2. item[w] \in Requests => executed[item[w]] + 1 \in Nat
    OBVIOUS
  <2>3. executed' \in [Requests -> Nat]
    BY <2>1, <2>2
  <2> QED
    BY <1>10, <2>3 DEF CallHandler, Permitted
<1>11. ASSUME NEW w \in Workers, HandlerEnds(w, "ok") \/ HandlerEnds(w, "timeout") PROVE TypeOK'
  BY <1>11 DEF HandlerEnds, Permitted, Answers
<1>12. ASSUME NEW w \in Workers, HandlerPanics(w) PROVE TypeOK'
  <2>1. w \in Holders
    BY <1>12 DEF HandlerPanics, Holders, Permitted
  <2>2. permits' \in 0..MaxConcurrent
    BY <1>12, <2>1, PermitRange DEF HandlerPanics
  <2> QED
    <3>1. /\ item' \in [Workers -> Requests \cup {Nobody}]
          /\ sent' \in [Requests -> {"none"} \cup Answers]
          /\ wpc' \in [Workers -> {"off", "top", "dequeuing", "holding"} \cup Permitted]
      BY <1>12 DEF HandlerPanics, Answers
    <3>2. abandoned' \subseteq Workers /\ crashed' \in Nat
      BY <1>12 DEF HandlerPanics
    <3> QED
      BY <1>12, <2>2, <3>1, <3>2 DEF HandlerPanics
<1>13. ASSUME NEW w \in Workers, SendResponse(w) PROVE TypeOK'
  BY <1>13 DEF SendResponse, Permitted
<1>14. ASSUME NEW w \in Workers, RecordAndLoop(w) PROVE TypeOK'
  <2>1. w \in Holders
    BY <1>14 DEF RecordAndLoop, Holders, Permitted
  <2>2. permits' \in 0..MaxConcurrent
    BY <1>14, <2>1, PermitRange DEF RecordAndLoop
  <2> QED
    BY <1>14, <2>2 DEF RecordAndLoop
<1>15. ASSUME NEW r \in Requests, CallRoute(r) PROVE TypeOK'
  BY <1>15 DEF CallRoute, Refusals
<1>16. ASSUME NEW r \in Requests, RouteStep(r) PROVE TypeOK'
  BY <1>16 DEF RouteStep, Admitted, Refused, PushItem, EnqueueReturns,
               ReceiveResponse, RouteExpires, Refusals, Answers
<1>17. ASSUME NEW m \in Modules, RegisterHandler(m) \/ RegisterRoute(m) \/ UnregisterHandler(m)
       PROVE  TypeOK'
  BY <1>17 DEF RegisterHandler, RegisterRoute, UnregisterHandler
<1>18. CASE RemoveRoutes
  BY <1>18 DEF RemoveRoutes
<1>19. CASE UNCHANGED vars
  BY <1>19 DEF vars
<1> QED
  BY <1>1, <1>2, <1>3, <1>4, <1>5, <1>6, <1>7, <1>8, <1>9, <1>10, <1>11, <1>12, <1>13,
     <1>14, <1>15, <1>16, <1>17, <1>18, <1>19
  DEF Next, WorkerStep, HandlerStep

LEMMA NextPermits == PermitInv /\ [Next]_vars => PermitsConserved'
<1> SUFFICES ASSUME PermitInv, [Next]_vars
             PROVE  PermitsConserved'
  OBVIOUS
<1> USE DEF workVars
<1>0. MaxConcurrent \in Nat /\ permits \in Nat /\ Cardinality(Holders) \in Nat
      /\ permits + Cardinality(Holders) = MaxConcurrent
  BY PermitRange, HolderCount, RouterAssumption DEF RouterAssumption
<1>1. SUFFICES permits' + Cardinality(Holders') = MaxConcurrent
  BY DEF PermitsConserved, Holders
<1>2. ASSUME permits' = permits, Holders' = Holders
      PROVE  permits' + Cardinality(Holders') = MaxConcurrent
  BY <1>0, <1>2
<1>3. ASSUME NEW w \in Holders, permits' = permits + 1, Holders' = Holders \ {w}
      PROVE  permits' + Cardinality(Holders') = MaxConcurrent
  <2>1. Cardinality(Holders') = Cardinality(Holders) - 1
    BY <1>3, HolderCount
  <2> QED
    BY <2>1, <1>3, <1>0
<1>4. ASSUME NEW k \in Controllers, StartSwap(k) \/ StopSwap(k) \/ StopStep(k)
      PROVE  Holders' = Holders /\ permits' = permits
  BY <1>4 DEF StartSwap, StopSwap, StopStep, StopLock, JoinWorker, AbandonWorker, StopReturn, Holders
<1>5. ASSUME NEW k \in Controllers, SpawnWorkers(k)
      PROVE  Holders' = Holders /\ permits' = permits
  <2>1. PICK new \in SUBSET Unused : wpc' = [w \in Workers |-> IF w \in new THEN "top" ELSE wpc[w]]
    BY <1>5 DEF SpawnWorkers
  <2>2. \A w \in Workers : w \in new => wpc[w] = "off"
    BY DEF Unused
  <2>3. \A w \in Workers : wpc'[w] \in Permitted <=> wpc[w] \in Permitted
    BY <2>1, <2>2 DEF Permitted
  <2> QED
    BY <2>3, <1>5 DEF Holders, SpawnWorkers
<1>6. ASSUME NEW w \in Workers, CheckRunning(w) \/ Dequeue(w) \/ DequeueExpires(w)
      PROVE  Holders' = Holders /\ permits' = permits
  BY <1>6 DEF CheckRunning, Dequeue, DequeueExpires, Goto, Holders, Permitted, PermitInv, TypeOK
<1>7. ASSUME NEW w \in Workers, LookUpHandler(w) \/ CallHandler(w) \/ SendResponse(w)
                                 \/ HandlerEnds(w, "ok") \/ HandlerEnds(w, "timeout")
      PROVE  Holders' = Holders /\ permits' = permits
  BY <1>7 DEF LookUpHandler, CallHandler, SendResponse, HandlerEnds, Goto, Holders,
              Permitted, PermitInv, TypeOK
<1>8. ASSUME NEW w \in Workers, AcquirePermit(w)
      PROVE  permits' + Cardinality(Holders') = MaxConcurrent
  <2>1. w \in Workers \ Holders /\ Holders' = Holders \cup {w}
    BY <1>8 DEF AcquirePermit, Goto, Holders, Permitted, PermitInv, TypeOK
  <2>2. Cardinality(Holders') = Cardinality(Holders) + 1
    BY <2>1, HolderCount
  <2>3. permits' = permits - 1
    BY <1>8 DEF AcquirePermit
  <2> QED
    BY <2>2, <2>3, <1>0
<1>9. ASSUME NEW w \in Workers, HandlerPanics(w) \/ RecordAndLoop(w)
      PROVE  w \in Holders /\ Holders' = Holders \ {w} /\ permits' = permits + 1
  BY <1>9 DEF HandlerPanics, RecordAndLoop, Goto, Holders, Permitted, PermitInv, TypeOK
<1>10. ASSUME NEW r \in Requests, CallRoute(r) \/ RouteStep(r)
       PROVE  Holders' = Holders /\ permits' = permits
  BY <1>10 DEF CallRoute, RouteStep, Admitted, Refused, PushItem, EnqueueReturns,
               ReceiveResponse, RouteExpires, Holders
<1>11. ASSUME NEW m \in Modules, RegisterHandler(m) \/ RegisterRoute(m) \/ UnregisterHandler(m)
       PROVE  Holders' = Holders /\ permits' = permits
  BY <1>11 DEF RegisterHandler, RegisterRoute, UnregisterHandler, Holders
<1>12. CASE RemoveRoutes \/ UNCHANGED vars
  <2>1. Holders' = Holders /\ permits' = permits
    BY <1>12 DEF RemoveRoutes, vars, Holders
  <2> QED
    BY <2>1, <1>2
<1> QED
  BY <1>2, <1>3, <1>4, <1>5, <1>6, <1>7, <1>8, <1>9, <1>10, <1>11, <1>12
  DEF Next, WorkerStep, HandlerStep

LEMMA PermitInvCorrect == Spec => []PermitInv
<1>1. PermitInv /\ [Next]_vars => PermitInv'
  BY NextTypeOK, NextPermits DEF PermitInv
<1> QED
  BY InitPermitInv, <1>1, PTL DEF Spec

\* Every variable of the router keeps its type; the limiter's free permits
\* stay between 0 and max_concurrent.
THEOREM TypeCorrect == Spec => []TypeOK
<1>1. PermitInv => TypeOK
  BY DEF PermitInv
<1> QED
  BY PermitInvCorrect, <1>1, PTL

\* The permits taken in spawn_worker all come back: after a response, a
\* handler's timeout or a panic, whatever starts and stops come between.
THEOREM PermitsAlwaysConserved == Spec => []PermitsConserved
<1>1. PermitInv => PermitsConserved
  BY DEF PermitInv
<1> QED
  BY PermitInvCorrect, <1>1, PTL

-------------------------------------------------------------------------------
(* Where a request is, and what its answer says *)

Untouched(r) == executed[r] = 0 /\ sent[r] = "none" /\ \A w \in Workers : item[w] # r

Consistent(what, times) ==
    /\ times \in 0..1
    /\ what = "ok" => times = 1
    /\ what = "no_module" => times = 0

\* A worker has a request from dequeue to the end of its loop, and no other
\* worker has it.
ItemInv ==
    /\ \A w \in Workers : item[w] # Nobody <=> wpc[w] \in Permitted \cup {"holding"}
    /\ \A v, w \in Workers : item[v] = item[w] /\ item[v] # Nobody => v = w

\* Before it is pushed, when it is refused and while it is queued nothing has
\* been done for a request.
QueueInv ==
    \A r \in Requests :
        /\ cpc[r] \in {"idle", "entering", "admitted"} \/ answer[r] \in Refusals
               => r \notin queued /\ Untouched(r)
        /\ r \in queued => Untouched(r)
        /\ answer[r] # "none" => cpc[r] = "done"

\* What a worker has done for the request it holds.
WorkInv ==
    \A w \in Workers : item[w] # Nobody =>
        /\ wpc[w] \in {"holding", "permitted", "calling"} => executed[item[w]] = 0
        /\ wpc[w] = "handling" => executed[item[w]] = 1
        /\ wpc[w] = "answering" => result[w] \in Answers /\ Consistent(result[w], executed[item[w]])
        /\ wpc[w] # "recording" => sent[item[w]] = "none"

SentInv ==
    \A r \in Requests :
        /\ executed[r] <= 1
        /\ sent[r] # "none" => Consistent(sent[r], executed[r])
        /\ answer[r] \in {"ok", "no_module"} => sent[r] = answer[r]

AnswerInv == TypeOK /\ ItemInv /\ QueueInv /\ WorkInv /\ SentInv

LEMMA InitAnswerInv == Init => AnswerInv
<1> SUFFICES ASSUME Init PROVE AnswerInv
  OBVIOUS
<1>1. TypeOK
  BY InitPermitInv DEF PermitInv
<1>2. ItemInv /\ WorkInv
  BY DEF Init, ItemInv, WorkInv, Permitted
<1>3. QueueInv
  BY RouterAssumption DEF RouterAssumption, Init, QueueInv, Untouched, Refusals
<1>4. SentInv
  BY DEF Init, SentInv
<1> QED
  BY <1>1, <1>2, <1>3, <1>4 DEF AnswerInv

LEMMA NextAnswerInv == AnswerInv /\ TypeOK' /\ [Next]_vars => AnswerInv'
<1> SUFFICES ASSUME AnswerInv, TypeOK', [Next]_vars
             PROVE  AnswerInv'
  OBVIOUS
<1> USE RouterAssumption DEF RouterAssumption, AnswerInv, workVars, callVars, countVars
<1>1. ASSUME NEW k \in Controllers, StartSwap(k) \/ StopSwap(k) \/ StopStep(k)
      PROVE  AnswerInv'
  BY <1>1 DEF StartSwap, StopSwap, StopStep, StopLock, JoinWorker, AbandonWorker, StopReturn,
              ItemInv, QueueInv, WorkInv, SentInv, Untouched
<1>2. ASSUME NEW k \in Controllers, SpawnWorkers(k)
      PROVE  AnswerInv'
  <2>1. PICK new \in SUBSET Unused : wpc' = [w \in Workers |-> IF w \in new THEN "top" ELSE wpc[w]]
    BY <1>2 DEF SpawnWorkers
  <2>2. \A w \in Workers : wpc'[w] = wpc[w] \/ (wpc[w] = "off" /\ wpc'[w] = "top")
    BY <2>1 DEF Unused
  <2>3. UNCHANGED <<item, result, queued, cpc, answer, sent, executed>>
    BY <1>2 DEF SpawnWorkers
  <2>4. ItemInv'
    BY <2>2, <2>3 DEF ItemInv, Permitted
  <2>5. WorkInv'
    BY <2>2, <2>3 DEF WorkInv
  <2> QED
    BY <2>3, <2>4, <2>5 DEF QueueInv, SentInv, Untouched
<1>3. ASSUME NEW w \in Workers, CheckRunning(w) \/ DequeueExpires(w) \/ AcquirePermit(w)
      PROVE  AnswerInv'
  <2>1. /\ UNCHANGED <<item, result, queued, cpc, answer, sent, executed>>
        /\ \A v \in Workers \ {w} : wpc'[v] = wpc[v]
        /\ \/ wpc[w] \notin Permitted \cup {"holding"} /\ wpc'[w] \notin Permitted \cup {"holding"}
           \/ wpc[w] = "holding" /\ wpc'[w] = "permitted"
    BY <1>3 DEF CheckRunning, DequeueExpires, AcquirePermit, Goto, Permitted, TypeOK
  <2>2. ItemInv'
    BY <2>1 DEF ItemInv, Permitted
  <2>3. WorkInv'
    BY <2>1 DEF WorkInv, ItemInv, Permitted
  <2> QED
    BY <2>1, <2>2, <2>3 DEF QueueInv, SentInv, Untouched
<1>4. ASSUME NEW w \in Workers, Dequeue(w)
      PROVE  AnswerInv'
  <2>1. PICK r \in queued : item' = [item EXCEPT ![w] = r] /\ queued' = queued \ {r}
    BY <1>4 DEF Dequeue
  <2>2. /\ UNCHANGED <<result, cpc, answer, sent, executed>>
        /\ \A v \in Workers \ {w} : wpc'[v] = wpc[v] /\ item'[v] = item[v]
        /\ wpc[w] = "dequeuing" /\ wpc'[w] = "holding" /\ item'[w] = r
        /\ r \in Requests /\ r # Nobody /\ Untouched(r)
    BY <1>4, <2>1 DEF Dequeue, Goto, TypeOK, QueueInv
  <2>3. ItemInv'
    BY <2>2 DEF ItemInv, Permitted, Untouched
  <2>4. WorkInv'
    BY <2>2 DEF WorkInv, Untouched
  <2>5. QueueInv'
    BY <2>1, <2>2 DEF QueueInv, Untouched
  <2> QED
    BY <2>2, <2>3, <2>4, <2>5 DEF SentInv
<1>5. ASSUME NEW w \in Workers, LookUpHandler(w)
      PROVE  AnswerInv'
  <2>1. /\ UNCHANGED <<item, queued, cpc, answer, sent, executed>>
        /\ \A v \in Workers \ {w} : wpc'[v] = wpc[v] /\ result'[v] = result[v]
        /\ wpc[w] = "permitted"
        /\ \/ wpc'[w] = "calling"
           \/ wpc'[w] = "answering" /\ result'[w] = "no_module"
    BY <1>5 DEF LookUpHandler, Goto, TypeOK
  <2>2. ItemInv'
    BY <2>1 DEF ItemInv, Permitted
  <2>3. WorkInv'
    BY <2>1 DEF WorkInv, Consistent, Answers
  <2> QED
    BY <2>1, <2>2, <2>3 DEF QueueInv, SentInv, Untouched
<1>6. ASSUME NEW w \in Workers, CallHandler(w)
      PROVE  AnswerInv'
  <2>1. /\ UNCHANGED <<item, result, queued, cpc, answer, sent>>
        /\ \A v \in Workers \ {w} : wpc'[v] = wpc[v]
        /\ wpc[w] = "calling" /\ wpc'[w] = "handling"
        /\ executed' = [executed EXCEPT ![item[w]] = executed[item[w]] + 1]
    BY <1>6 DEF CallHandler, Goto, TypeOK
  <2>2. PICK r \in Requests : r = item[w]
    BY <2>1 DEF ItemInv, Permitted, TypeOK
  <2>3. executed[r] = 0 /\ sent[r] = "none" /\ executed'[r] = 1
        /\ \A q \in Requests \ {r} : executed'[q] = executed[q]
    BY <2>1, <2>2 DEF WorkInv, TypeOK
  <2>4. ItemInv'
    BY <2>1 DEF ItemInv, Permitted
  <2>5. WorkInv'
    BY <2>1, <2>2, <2>3 DEF WorkInv, ItemInv, TypeOK
  <2>6. QueueInv'
    BY <2>1, <2>2, <2>3 DEF QueueInv, Untouched
  <2>7. SentInv'
    BY <2>1, <2>3 DEF SentInv
  <2> QED
    BY <2>4, <2>5, <2>6, <2>7
<1>7. ASSUME NEW w \in Workers, NEW what \in {"ok", "timeout"}, HandlerEnds(w, what)
      PROVE  AnswerInv'
  <2>1. /\ UNCHANGED <<item, queued, cpc, answer, sent, executed>>
        /\ \A v \in Workers \ {w} : wpc'[v] = wpc[v] /\ result'[v] = result[v]
        /\ wpc[w] = "handling" /\ wpc'[w] = "answering" /\ result'[w] = what
    BY <1>7 DEF HandlerEnds, Goto, TypeOK
  <2>2. ItemInv'
    BY <2>1 DEF ItemInv, Permitted
  <2>3. WorkInv'
    BY <2>1 DEF WorkInv, Consistent, Answers
  <2> QED
    BY <2>1, <2>2, <2>3 DEF QueueInv, SentInv, Untouched
<1>8. ASSUME NEW w \in Workers, HandlerPanics(w) \/ SendResponse(w)
      PROVE  AnswerInv'
  <2>1. PICK r \in Requests : r = item[w]
    BY <1>8 DEF HandlerPanics, SendResponse, ItemInv, Permitted, TypeOK
  <2>2. PICK what \in Answers : sent' = [sent EXCEPT ![r] = what] /\ Consistent(what, executed[r])
    <3>1. CASE HandlerPanics(w)
      BY <3>1, <2>1 DEF HandlerPanics, Answers, WorkInv, Consistent
    <3>2. CASE SendResponse(w)
      BY <3>2, <2>1 DEF SendResponse, WorkInv
    <3> QED
      BY <1>8, <3>1, <3>2
  <2>3. /\ UNCHANGED <<result, queued, cpc, answer, executed>>
        /\ \A v \in Workers \ {w} : wpc'[v] = wpc[v] /\ item'[v] = item[v]
        /\ \/ wpc'[w] = "off" /\ item'[w] = Nobody
           \/ wpc'[w] = "recording" /\ item'[w] = item[w]
        /\ wpc[w] \in Permitted
    BY <1>8 DEF HandlerPanics, SendResponse, Goto, Permitted, TypeOK
  <2>4. sent'[r] = what /\ \A q \in Requests \ {r} : sent'[q] = sent[q]
    BY <2>2 DEF TypeOK
  <2>5. ItemInv'
    BY <2>3 DEF ItemInv, Permitted
  <2>6. WorkInv'
    BY <2>1, <2>3, <2>4 DEF WorkInv, ItemInv, TypeOK
  <2>7. r \notin queued /\ ~(cpc[r] \in {"idle", "entering", "admitted"}) /\ answer[r] \notin Refusals
    BY <2>1 DEF QueueInv, Untouched
  <2>8. QueueInv'
    BY <2>1, <2>3, <2>4, <2>7 DEF QueueInv, Untouched
  <2>9. sent[r] = "none" /\ what # "none"
    BY <1>8, <2>1 DEF HandlerPanics, SendResponse, WorkInv, Answers
  <2>10. SentInv'
    BY <2>2, <2>3, <2>4, <2>9 DEF SentInv
  <2> QED
    BY <2>5, <2>6, <2>8, <2>10
<1>9. ASSUME NEW w \in Workers, RecordAndLoop(w)
      PROVE  AnswerInv'
  <2>1. /\ UNCHANGED <<queued, cpc, answer, sent, executed>>
        /\ \A v \in Workers \ {w} : wpc'[v] = wpc[v] /\ item'[v] = item[v] /\ result'[v] = result[v]
        /\ wpc'[w] = "top" /\ item'[w] = Nobody
    BY <1>9 DEF RecordAndLoop, Goto, TypeOK
  <2>2. ItemInv'
    BY <2>1 DEF ItemInv, Permitted
  <2>3. WorkInv'
    BY <2>1 DEF WorkInv
  <2> QED
    BY <2>1, <2>2, <2>3 DEF QueueInv, SentInv, Untouched
<1>10. ASSUME NEW r \in Requests, CallRoute(r) \/ RouteStep(r)
       PROVE  AnswerInv'
  <2>1. UNCHANGED <<wpc, item, result, sent, executed>>
    BY <1>10 DEF CallRoute, RouteStep, Admitted, Refused, PushItem, EnqueueReturns,
                 ReceiveResponse, RouteExpires
  <2>2. ItemInv' /\ WorkInv'
    BY <2>1 DEF ItemInv, WorkInv
  <2>3. \A q \in Requests \ {r} :
           /\ cpc'[q] = cpc[q] /\ answer'[q] = answer[q]
           /\ q \in queued' <=> q \in queued
    BY <1>10 DEF CallRoute, RouteStep, Admitted, Refused, PushItem, EnqueueReturns,
                 ReceiveResponse, RouteExpires, Return, TypeOK
  <2>4. \/ /\ cpc[r] \in {"idle", "entering"} /\ queued' = queued
           /\ \/ cpc'[r] = "done" /\ answer'[r] \in Refusals
              \/ cpc'[r] \in {"entering", "admitted"} /\ answer' = answer
        \/ /\ cpc[r] = "admitted" /\ cpc'[r] = "pushed" /\ answer' = answer
           /\ queued' = queued \cup {r}
        \/ /\ cpc[r] = "pushed" /\ cpc'[r] = "awaiting" /\ answer' = answer
           /\ queued' = queued
        \/ /\ cpc[r] = "awaiting" /\ cpc'[r] = "done" /\ queued' = queued
           /\ answer'[r] = "timeout" \/ (answer'[r] = sent[r] /\ sent[r] # "none")
    BY <1>10 DEF CallRoute, RouteStep, Admitted, Refused, PushItem, EnqueueReturns,
                 ReceiveResponse, RouteExpires, Return, TypeOK, Refusals
  <2>5. QueueInv'
    <3>1. sent[r] # "none" => sent[r] \notin Refusals
      BY DEF TypeOK, Answers, Refusals
    <3>2. "timeout" \notin Refusals /\ "none" \notin Refusals
      BY DEF Refusals
    <3>3. \A q \in Requests : Untouched(q)' <=> Untouched(q)
      BY <2>1 DEF Untouched
    <3>4. \A q \in Requests \ {r} :
             /\ cpc'[q] \in {"idle", "entering", "admitted"} \/ answer'[q] \in Refusals
                    => q \notin queued' /\ Untouched(q)
             /\ q \in queued' => Untouched(q)
             /\ answer'[q] # "none" => cpc'[q] = "done"
      BY <2>3 DEF QueueInv
    <3>5. cpc[r] # "done" => answer[r] = "none"
      BY DEF QueueInv
    <3>6. /\ cpc'[r] \in {"idle", "entering", "admitted"} \/ answer'[r] \in Refusals
                 => r \notin queued' /\ Untouched(r)
          /\ r \in queued' => Untouched(r)
          /\ answer'[r] # "none" => cpc'[r] = "done"
      BY <2>4, <3>1, <3>2, <3>5 DEF QueueInv
    <3> QED
      BY <3>3, <3>4, <3>6 DEF QueueInv
  <2>6. SentInv'
    <3>1. answer'[r] \in {"ok", "no_module"} => answer'[r] = sent[r] \/ answer' = answer
      BY <2>4 DEF Refusals
    <3> QED
      BY <2>1, <2>3, <3>1 DEF SentInv
  <2> QED
    BY <2>2, <2>5, <2>6
<1>11. ASSUME NEW m \in Modules, RegisterHandler(m) \/ RegisterRoute(m) \/ UnregisterHandler(m)
       PROVE  AnswerInv'
  BY <1>11 DEF RegisterHandler, RegisterRoute, UnregisterHandler,
               ItemInv, QueueInv, WorkInv, SentInv, Untouched
<1>12. CASE RemoveRoutes \/ UNCHANGED vars
  BY <1>12 DEF RemoveRoutes, vars, ItemInv, QueueInv, WorkInv, SentInv, Untouched
<1> QED
  BY <1>1, <1>2, <1>3, <1>4, <1>5, <1>6, <1>7, <1>8, <1>9, <1>10, <1>11, <1>12
  DEF Next, WorkerStep, HandlerStep

LEMMA AnswerInvCorrect == Spec => []AnswerInv
<1>1. TypeOK' /\ AnswerInv /\ [Next]_vars => AnswerInv'
  BY NextAnswerInv
<1> QED
  BY InitAnswerInv, <1>1, TypeCorrect, PTL DEF Spec

\* route() returns what became of the request: it is handled at most once,
\* and not at all when the caller is told that it was refused or had no
\* module, whatever stops, restarts, panics and timeouts come between.
THEOREM AnswersAlwaysExplained == Spec => []AnswersExplained
<1>1. AnswerInv => AnswersExplained
  <2> SUFFICES ASSUME AnswerInv, NEW r \in Requests
               PROVE  /\ executed[r] <= 1
                      /\ answer[r] = "ok" => executed[r] = 1
                      /\ answer[r] = "no_module" => executed[r] = 0
                      /\ answer[r] \in Refusals =>
                            executed[r] = 0 /\ r \notin queued /\ \A w \in Workers : item[w] # r
    BY DEF AnswersExplained
  <2>1. answer[r] \in {"ok", "no_module"} => Consistent(answer[r], executed[r])
    BY DEF AnswerInv, SentInv
  <2> QED
    BY <2>1 DEF AnswerInv, SentInv, QueueInv, Untouched, Consistent
<1> QED
  BY AnswerInvCorrect, <1>1, PTL

-------------------------------------------------------------------------------
(* A stopped router is idle *)

\* Every live worker is in the list or was abandoned; while the router is
\* stopped and no stop() is at work, the others are not past the check of
\* running.
IdleInv ==
    /\ TypeOK
    /\ \A w \in Workers \ (handles \cup abandoned) : wpc[w] = "off"
    /\ ~running /\ (\A k \in Controllers : ctl[k] \notin {"stopping", "joining"}) =>
          \A w \in Workers \ abandoned : wpc[w] \in {"off", "top"}

LEMMA NextIdleInv == IdleInv /\ TypeOK' /\ [Next]_vars => IdleInv'
<1> SUFFICES ASSUME IdleInv, TypeOK', [Next]_vars
             PROVE  IdleInv'
  OBVIOUS
<1> USE DEF IdleInv, poolVars, workVars
<1>1. ASSUME NEW k \in Controllers, StartSwap(k)
      PROVE  IdleInv'
  BY <1>1 DEF StartSwap
<1>2. ASSUME NEW k \in Controllers, SpawnWorkers(k)
      PROVE  IdleInv'
  <2>1. PICK new \in SUBSET Unused :
           /\ handles' = handles \cup new
           /\ wpc' = [w \in Workers |-> IF w \in new THEN "top" ELSE wpc[w]]
    BY <1>2 DEF SpawnWorkers
  <2>2. running' = running /\ abandoned' = abandoned /\ ctl' = [ctl EXCEPT ![k] = "idle"]
        /\ ctl[k] = "starting"
    BY <1>2 DEF SpawnWorkers
  <2>3. \A j \in Controllers : ctl'[j] \notin {"stopping", "joining"} =>
                               ctl[j] \notin {"stopping", "joining"}
    BY <2>2 DEF TypeOK
  <2> QED
    BY <2>1, <2>2, <2>3
<1>3. ASSUME NEW k \in Controllers, StopSwap(k)
      PROVE  IdleInv'
  <2>1. ctl'[k] = "stopping"
    BY <1>3 DEF StopSwap, TypeOK
  <2> QED
    BY <1>3, <2>1 DEF StopSwap
<1>4. ASSUME NEW k \in Controllers, StopLock(k)
      PROVE  IdleInv'
  <2>1. ctl'[k] = "joining"
    BY <1>4 DEF StopLock, TypeOK
  <2> QED
    BY <1>4, <2>1 DEF StopLock
<1>5. ASSUME NEW k \in Controllers, JoinWorker(k) \/ AbandonWorker(k)
      PROVE  IdleInv'
  BY <1>5 DEF JoinWorker, AbandonWorker
<1>6. ASSUME NEW k \in Controllers, StopReturn(k)
      PROVE  IdleInv'
  BY <1>6 DEF StopReturn
<1>7. ASSUME NEW w \in Workers, CheckRunning(w)
      PROVE  IdleInv'
  BY <1>7 DEF CheckRunning, Goto, TypeOK
<1>8. ASSUME NEW w \in Workers,
             Dequeue(w) \/ DequeueExpires(w) \/ AcquirePermit(w) \/ LookUpHandler(w) \/ CallHandler(w)
      PROVE  IdleInv'
  BY <1>8 DEF Dequeue, DequeueExpires, AcquirePermit, LookUpHandler, CallHandler, Goto, TypeOK
<1>9. ASSUME NEW w \in Workers, HandlerStep(w) \/ SendResponse(w) \/ RecordAndLoop(w)
      PROVE  IdleInv'
  BY <1>9 DEF HandlerStep, HandlerEnds, HandlerPanics, SendResponse, RecordAndLoop, Goto, TypeOK
<1>10. ASSUME NEW r \in Requests, CallRoute(r) \/ RouteStep(r)
       PROVE  IdleInv'
  BY <1>10 DEF CallRoute, RouteStep, Admitted, Refused, PushItem, EnqueueReturns,
               ReceiveResponse, RouteExpires
<1>11. ASSUME NEW m \in Modules, RegisterHandler(m) \/ RegisterRoute(m) \/ UnregisterHandler(m)
       PROVE  IdleInv'
  BY <1>11 DEF RegisterHandler, RegisterRoute, UnregisterHandler
<1>12. CASE RemoveRoutes \/ UNCHANGED vars
  BY <1>12 DEF RemoveRoutes, vars
<1> QED
  BY <1>1, <1>2, <1>3, <1>4, <1>5, <1>6, <1>7, <1>8, <1>9, <1>10, <1>11, <1>12
  DEF Next, StopStep, WorkerStep

\* After stop() has returned and while nobody starts the router, no worker
\* but those that stop() gave up on after five seconds has or awaits a
\* request, whatever other starts and stops it overlapped.
THEOREM StoppedIsIdle == Spec => []StoppedMeansIdle
<1>1. Init => IdleInv
  BY InitPermitInv DEF PermitInv, IdleInv, Init
<1>2. TypeOK' /\ IdleInv /\ [Next]_vars => IdleInv'
  BY NextIdleInv
<1>3. IdleInv => StoppedMeansIdle
  BY DEF IdleInv, StoppedMeansIdle
<1> QED
  BY <1>1, <1>2, <1>3, TypeCorrect, PTL DEF Spec

-------------------------------------------------------------------------------
(* No request is lost *)

LEMMA SizeFacts ==
    ASSUME TypeOK
    PROVE  /\ IsFiniteSet(Entered) /\ IsFiniteSet(queued) /\ IsFiniteSet(Busy)
           /\ Cardinality(Entered) \in Nat /\ Cardinality(queued) \in Nat
           /\ Cardinality(Busy) \in Nat /\ total \in Nat /\ crashed \in Nat
<1>1. IsFiniteSet(Requests) /\ IsFiniteSet(Workers)
  BY RouterAssumption DEF RouterAssumption
<1>2. Entered \subseteq Requests /\ queued \subseteq Requests /\ Busy \subseteq Workers
  BY DEF TypeOK, Entered, Busy
<1> QED
  BY <1>1, <1>2, FS_Subset, FS_CardinalityType DEF TypeOK

\* What a worker's step, a caller's step and all others do to the sets.
LEMMA NextRequests == AnswerInv /\ RequestsConserved /\ [Next]_vars => RequestsConserved'
<1> SUFFICES ASSUME AnswerInv, RequestsConserved, [Next]_vars
             PROVE  RequestsConserved'
  OBVIOUS
<1> USE DEF workVars, callVars, countVars
<1>0. TypeOK
  BY DEF AnswerInv
<1>1. ASSUME Entered' = Entered, queued' = queued, Busy' = Busy, total' = total, crashed' = crashed
      PROVE  RequestsConserved'
  BY <1>1 DEF RequestsConserved
<1>2. ASSUME NEW k \in Controllers, StartSwap(k) \/ StopSwap(k) \/ StopStep(k)
      PROVE  RequestsConserved'
  BY <1>2, <1>1 DEF StartSwap, StopSwap, StopStep, StopLock, JoinWorker, AbandonWorker,
                    StopReturn, Entered, Busy
<1>3. ASSUME NEW k \in Controllers, SpawnWorkers(k)
      PROVE  RequestsConserved'
  <2>1. PICK new \in SUBSET Unused : wpc' = [w \in Workers |-> IF w \in new THEN "top" ELSE wpc[w]]
    BY <1>3 DEF SpawnWorkers
  <2>2. \A w \in Workers : wpc'[w] = wpc[w] \/ (wpc[w] = "off" /\ wpc'[w] = "top")
    BY <2>1 DEF Unused
  <2>3. Busy' = Busy
    BY <2>2 DEF Busy, Permitted
  <2> QED
    BY <2>3, <1>1, <1>3 DEF SpawnWorkers, Entered
<1>4. ASSUME NEW w \in Workers, Dequeue(w)
      PROVE  RequestsConserved'
  <2>1. PICK r \in queued : queued' = queued \ {r}
    BY <1>4 DEF Dequeue
  <2>2. w \notin Busy /\ Busy' = Busy \cup {w} /\ Entered' = Entered
        /\ total' = total /\ crashed' = crashed
    BY <1>4, <1>0 DEF Dequeue, Goto, Busy, Entered, Permitted, TypeOK
  <2>3. Cardinality(queued') = Cardinality(queued) - 1 /\ Cardinality(Busy') = Cardinality(Busy) + 1
    BY <2>1, <2>2, <1>0, SizeFacts, FS_RemoveElement, FS_AddElement
  <2> QED
    BY <2>2, <2>3, <1>0, SizeFacts DEF RequestsConserved
<1>5. ASSUME NEW w \in Workers, HandlerPanics(w) \/ RecordAndLoop(w)
      PROVE  RequestsConserved'
  <2>1. w \in Busy /\ Busy' = Busy \ {w} /\ Entered' = Entered /\ queued' = queued
        /\ \/ total' = total + 1 /\ crashed' = crashed
           \/ total' = total /\ crashed' = crashed + 1
    BY <1>5, <1>0 DEF HandlerPanics, RecordAndLoop, Goto, Busy, Entered, Permitted, TypeOK
  <2>2. Cardinality(Busy') = Cardinality(Busy) - 1
    BY <2>1, <1>0, SizeFacts, FS_RemoveElement
  <2> QED
    BY <2>1, <2>2, <1>0, SizeFacts DEF RequestsConserved
<1>6. ASSUME NEW w \in Workers,
             \/ CheckRunning(w) \/ DequeueExpires(w) \/ AcquirePermit(w) \/ LookUpHandler(w)
             \/ CallHandler(w) \/ HandlerEnds(w, "ok") \/ HandlerEnds(w, "timeout") \/ SendResponse(w)
      PROVE  RequestsConserved'
  <2>1. Busy' = Busy /\ Entered' = Entered /\ queued' = queued /\ total' = total /\ crashed' = crashed
    BY <1>6, <1>0 DEF CheckRunning, DequeueExpires, AcquirePermit, LookUpHandler, CallHandler,
                      HandlerEnds, SendResponse, Goto, Busy, Entered, Permitted, TypeOK
  <2> QED
    BY <2>1, <1>1
<1>7. ASSUME NEW r \in Requests, PushItem(r)
      PROVE  RequestsConserved'
  <2>1. /\ cpc[r] = "admitted" /\ cpc'[r] = "pushed" /\ queued' = queued \cup {r}
        /\ \A q \in Requests \ {r} : cpc'[q] = cpc[q]
        /\ answer' = answer /\ Busy' = Busy /\ total' = total /\ crashed' = crashed
    BY <1>7, <1>0 DEF PushItem, Busy, TypeOK
  <2>2. r \notin queued /\ answer[r] = "none"
    BY <2>1 DEF AnswerInv, QueueInv
  <2>3. r \notin Entered /\ Entered' = Entered \cup {r}
    BY <2>1, <2>2 DEF Entered, Answers
  <2>4. /\ Cardinality(queued') = Cardinality(queued) + 1
        /\ Cardinality(Entered') = Cardinality(Entered) + 1
    BY <2>1, <2>2, <2>3, <1>0, SizeFacts, FS_AddElement
  <2> QED
    BY <2>1, <2>4, <1>0, SizeFacts DEF RequestsConserved
<1>8. ASSUME NEW r \in Requests, CallRoute(r) \/ Admitted(r) \/ Refused(r)
      PROVE  RequestsConserved'
  <2>1. /\ \A q \in Requests \ {r} : cpc'[q] = cpc[q] /\ answer'[q] = answer[q]
        /\ cpc[r] \in {"idle", "entering"} /\ cpc'[r] \notin {"pushed", "awaiting"}
        /\ answer'[r] = answer[r] \/ answer'[r] \in Refusals
        /\ Busy' = Busy /\ queued' = queued /\ total' = total /\ crashed' = crashed
    BY <1>8, <1>0 DEF CallRoute, Admitted, Refused, Return, Busy, Refusals, TypeOK
  <2>2. answer[r] = "none"
    BY <2>1 DEF AnswerInv, QueueInv
  <2>3. Entered' = Entered
    BY <2>1, <2>2 DEF Entered, Answers, Refusals
  <2> QED
    BY <2>1, <2>3, <1>1
<1>9. ASSUME NEW r \in Requests, EnqueueReturns(r) \/ ReceiveResponse(r) \/ RouteExpires(r)
      PROVE  RequestsConserved'
  <2>1. /\ \A q \in Requests \ {r} : cpc'[q] = cpc[q] /\ answer'[q] = answer[q]
        /\ cpc[r] \in {"pushed", "awaiting"}
        /\ cpc'[r] = "awaiting" \/ answer'[r] \in Answers
        /\ Busy' = Busy /\ queued' = queued /\ total' = total /\ crashed' = crashed
    BY <1>9, <1>0 DEF EnqueueReturns, ReceiveResponse, RouteExpires, Return, Busy, Answers, TypeOK
  <2>2. Entered' = Entered
    BY <2>1 DEF Entered
  <2> QED
    BY <2>1, <2>2, <1>1
<1>10. ASSUME NEW m \in Modules, RegisterHandler(m) \/ RegisterRoute(m) \/ UnregisterHandler(m)
       PROVE  RequestsConserved'
  BY <1>10, <1>1 DEF RegisterHandler, RegisterRoute, UnregisterHandler, Entered, Busy
<1>11. CASE RemoveRoutes \/ UNCHANGED vars
  BY <1>11, <1>1 DEF RemoveRoutes, vars, Entered, Busy
<1> QED
  BY <1>2, <1>3, <1>4, <1>5, <1>6, <1>7, <1>8, <1>9, <1>10, <1>11
  DEF Next, WorkerStep, HandlerStep, RouteStep

\* A request that entered the queue is in it, with one worker, or was
\* recorded in the statistics or lost to a panic: stop(), restarts and
\* timeouts lose none and duplicate none.
THEOREM RequestsAlwaysConserved == Spec => []RequestsConserved
<1>1. Init => RequestsConserved
  <2> SUFFICES ASSUME Init PROVE RequestsConserved
    OBVIOUS
  <2>1. Entered = {} /\ queued = {} /\ Busy = {} /\ total = 0 /\ crashed = 0
    BY DEF Init, Entered, Busy, Permitted, Answers
  <2> QED
    BY <2>1, FS_EmptySet DEF RequestsConserved
<1>2. AnswerInv /\ RequestsConserved /\ [Next]_vars => RequestsConserved'
  BY NextRequests
<1> QED
  BY <1>1, <1>2, AnswerInvCorrect, PTL DEF Spec
===============================================================================
