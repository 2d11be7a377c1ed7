----------------------------- MODULE RequestQueue -----------------------------
(***************************************************************************)
(* The priority request queue of src/router/queue.rs.  enqueue() touches   *)
(* five shared objects one after the other - the size counter, the         *)
(* sequence counter, the heap behind its mutex, the size counter again and *)
(* the Notify - and any other task may run between two of them.            *)
(* try_dequeue() pops and decrements while it holds the mutex; dequeue()   *)
(* repeats it, sleeping on the Notify when the heap is empty.              *)
(***************************************************************************)
EXTENDS Naturals, Sequences, FiniteSets

CONSTANTS Producers,    \* tasks calling enqueue
          Consumers,    \* tasks calling dequeue or try_dequeue
          Items,        \* the requests, each enqueued at most once
          PriorityOf,   \* [Items -> 0..3]: Low, Normal, High, Urgent
          MaxSize,      \* max_size
          WordMod,      \* usize arithmetic is modulo WordMod
          MaxClears,    \* bound on calls of clear()
          TimedDequeue, \* callers wrap dequeue() in tokio::time::timeout
          NoOne         \* nobody holds the mutex; no item in hand

ASSUME QueueAssumption ==
    /\ IsFiniteSet(Producers) /\ Producers # {}
    /\ IsFiniteSet(Consumers)
    /\ PriorityOf \in [Items -> 0..3]
    /\ MaxSize \in Nat
    /\ WordMod \in Nat
    /\ WordMod > MaxSize + Cardinality(Producers) + 1
    /\ MaxClears \in Nat
    /\ TimedDequeue \in BOOLEAN
    /\ NoOne \notin Items \cup Consumers \cup {"clear"}
    /\ "clear" \notin Consumers

VARIABLES queue,        \* the heap: a set of [item, sequence]
          currentSize,  \* current_size
          counter,      \* sequence_counter
          lock,         \* holder of the queue mutex
          permit,       \* the one permit a Notify can store
          waiters,      \* tasks asleep on the Notify, oldest first
          ppc, pitem, pseq,     \* progress of each enqueue call
          cpc, hand,            \* progress of each dequeue call
          clears,       \* calls of clear() so far
          offered, accepted, taken, before  \* the callers' view

heapVars == <<queue, counter, lock>>
notifyVars == <<permit, waiters>>
prodVars == <<ppc, pitem, pseq>>
consVars == <<cpc, hand>>
viewVars == <<offered, accepted, taken, before>>
vars == <<heapVars, currentSize, notifyVars, prodVars, consVars, clears, viewVars>>

Entry == [item : Items, sequence : Nat]
ItemsOf(entries) == {e.item : e \in entries}

\* fetch_add(1) and fetch_sub(1) on an AtomicUsize.
WrapInc(n) == IF n + 1 = WordMod THEN 0 ELSE n + 1
WrapDec(n) == IF n = 0 THEN WordMod - 1 ELSE n - 1

\* Mutant: the heap's order with the sequence comparison not reversed.
BeforeUnreversed(e, f) ==
    \/ PriorityOf[e.item] > PriorityOf[f.item]
    \/ PriorityOf[e.item] = PriorityOf[f.item] /\ e.sequence > f.sequence

\* PriorityQueueItem::cmp: e leaves the heap before f.
Before(e, f) ==
    \/ PriorityOf[e.item] > PriorityOf[f.item]
    \/ PriorityOf[e.item] = PriorityOf[f.item] /\ e.sequence < f.sequence

IsTop(e) == e \in queue /\ \A f \in queue \ {e} : Before(e, f)

Init ==
    /\ queue = {} /\ currentSize = 0 /\ counter = 0 /\ lock = NoOne
    /\ permit = FALSE /\ waiters = <<>>
    /\ ppc = [p \in Producers |-> "idle"]
    /\ pitem = [p \in Producers |-> NoOne]
    /\ pseq = [p \in Producers |-> 0]
    /\ cpc = [c \in Consumers |-> "out"]
    /\ hand = [c \in Consumers |-> NoOne]
    /\ clears = 0
    /\ offered = {} /\ accepted = {} /\ taken = {}
    /\ before = [x \in Items |-> {}]

-------------------------------------------------------------------------------
(* enqueue() *)

OfferItem(x) ==
    /\ x \notin offered
    /\ offered' = offered \cup {x}
    /\ before' = [before EXCEPT ![x] = accepted]
    /\ UNCHANGED <<accepted, taken>>

\* Mutant: the capacity check is off by one.
AdmitOneMore(p, x) ==
    /\ ppc[p] = "idle"
    /\ currentSize <= MaxSize
    /\ ppc' = [ppc EXCEPT ![p] = "admitted"]
    /\ pitem' = [pitem EXCEPT ![p] = x]
    /\ OfferItem(x)
    /\ UNCHANGED <<heapVars, currentSize, notifyVars, pseq, consVars, clears>>

\* The capacity check reads the counter without the mutex.
Admit(p, x) ==
    /\ ppc[p] = "idle"
    /\ currentSize < MaxSize
    /\ ppc' = [ppc EXCEPT ![p] = "admitted"]
    /\ pitem' = [pitem EXCEPT ![p] = x]
    /\ OfferItem(x)
    /\ UNCHANGED <<heapVars, currentSize, notifyVars, pseq, consVars, clears>>

Refuse(p, x) ==
    /\ ppc[p] = "idle"
    /\ currentSize >= MaxSize
    /\ OfferItem(x)
    /\ UNCHANGED <<heapVars, currentSize, notifyVars, prodVars, consVars, clears>>

TakeSequence(p) ==
    /\ ppc[p] = "admitted"
    /\ pseq' = [pseq EXCEPT ![p] = counter]
    /\ counter' = counter + 1
    /\ ppc' = [ppc EXCEPT ![p] = "sequenced"]
    /\ UNCHANGED <<queue, lock, currentSize, notifyVars, pitem, consVars, clears, viewVars>>

\* Mutant: the capacity is checked again under the mutex, and an entry that
\* no longer fits is dropped though the call goes on to return Ok.
PushIfRoom(p) ==
    /\ ppc[p] = "sequenced"
    /\ lock = NoOne
    /\ queue' = IF Cardinality(queue) < MaxSize
                THEN queue \cup {[item |-> pitem[p], sequence |-> pseq[p]]}
                ELSE queue
    /\ ppc' = [ppc EXCEPT ![p] = "pushed"]
    /\ UNCHANGED <<counter, lock, currentSize, notifyVars, pitem, pseq, consVars, clears, viewVars>>

\* lock, push, unlock: no other step of this task comes between.
Push(p) ==
    /\ ppc[p] = "sequenced"
    /\ lock = NoOne
    /\ queue' = queue \cup {[item |-> pitem[p], sequence |-> pseq[p]]}
    /\ ppc' = [ppc EXCEPT ![p] = "pushed"]
    /\ UNCHANGED <<counter, lock, currentSize, notifyVars, pitem, pseq, consVars, clears, viewVars>>

\* The size grows only after the mutex has been released.
Count(p) ==
    /\ ppc[p] = "pushed"
    /\ currentSize' = WrapInc(currentSize)
    /\ ppc' = [ppc EXCEPT ![p] = "counted"]
    /\ UNCHANGED <<heapVars, notifyVars, pitem, pseq, consVars, clears, viewVars>>

\* notify_one: wake the oldest sleeper, or store the single permit.
WakeOne ==
    IF waiters = <<>>
    THEN permit' = TRUE /\ UNCHANGED <<waiters, cpc>>
    ELSE /\ waiters' = Tail(waiters)
         /\ cpc' = [cpc EXCEPT ![Head(waiters)] = "woken"]
         /\ UNCHANGED permit

NotifyAndReturn(p) ==
    /\ ppc[p] = "counted"
    /\ WakeOne
    /\ accepted' = accepted \cup {pitem[p]}
    /\ ppc' = [ppc EXCEPT ![p] = "idle"]
    /\ pitem' = [pitem EXCEPT ![p] = NoOne]
    /\ UNCHANGED <<heapVars, currentSize, pseq, hand, clears, offered, taken, before>>

-------------------------------------------------------------------------------
(* dequeue() and try_dequeue() *)

Call(c, kind) ==
    /\ cpc[c] = "out"
    /\ cpc' = [cpc EXCEPT ![c] = kind]
    /\ UNCHANGED <<heapVars, currentSize, notifyVars, prodVars, hand, clears, viewVars>>

CallDequeue(c) == Call(c, "try")
CallTryDequeue(c) == Call(c, "poll")

Pop(c) ==
    /\ cpc[c] \in {"try", "poll"}
    /\ lock = NoOne
    /\ \E e \in queue :
          /\ IsTop(e)
          /\ queue' = queue \ {e}
          /\ hand' = [hand EXCEPT ![c] = e.item]
          /\ taken' = taken \cup {e.item}
    /\ lock' = c
    /\ cpc' = [cpc EXCEPT ![c] = "popped"]
    /\ UNCHANGED <<counter, currentSize, notifyVars, prodVars, clears, offered, accepted, before>>

\* Mutant: try_dequeue does not count the entry it popped.
ReturnUncounted(c) ==
    /\ cpc[c] = "popped"
    /\ lock' = NoOne
    /\ cpc' = [cpc EXCEPT ![c] = "out"]
    /\ hand' = [hand EXCEPT ![c] = NoOne]
    /\ UNCHANGED <<queue, counter, currentSize, notifyVars, prodVars, clears, viewVars>>

\* fetch_sub under the mutex, then the call returns the item.
Uncount(c) ==
    /\ cpc[c] = "popped"
    /\ currentSize' = WrapDec(currentSize)
    /\ lock' = NoOne
    /\ cpc' = [cpc EXCEPT ![c] = "out"]
    /\ hand' = [hand EXCEPT ![c] = NoOne]
    /\ UNCHANGED <<queue, counter, notifyVars, prodVars, clears, viewVars>>

\* try_dequeue returns None; dequeue goes on to wait.
FindEmpty(c) ==
    /\ cpc[c] \in {"try", "poll"}
    /\ lock = NoOne
    /\ queue = {}
    /\ cpc' = [cpc EXCEPT ![c] = IF cpc[c] = "try" THEN "empty" ELSE "out"]
    /\ UNCHANGED <<heapVars, currentSize, notifyVars, prodVars, hand, clears, viewVars>>

\* First poll of notified(): consume the stored permit or fall asleep.
Await(c) ==
    /\ cpc[c] = "empty"
    /\ IF permit
       THEN /\ permit' = FALSE
            /\ cpc' = [cpc EXCEPT ![c] = "try"]
            /\ UNCHANGED waiters
       ELSE /\ waiters' = Append(waiters, c)
            /\ cpc' = [cpc EXCEPT ![c] = "waiting"]
            /\ UNCHANGED permit
    /\ UNCHANGED <<heapVars, currentSize, prodVars, hand, clears, viewVars>>

Resume(c) ==
    /\ cpc[c] = "woken"
    /\ cpc' = [cpc EXCEPT ![c] = "try"]
    /\ UNCHANGED <<heapVars, currentSize, notifyVars, prodVars, hand, clears, viewVars>>

\* The caller's timeout drops a dequeue that is asleep ...
ExpireAsleep(c) ==
    /\ TimedDequeue
    /\ cpc[c] = "waiting"
    /\ cpc' = [cpc EXCEPT ![c] = "out"]
    /\ \E i \in DOMAIN waiters :
          /\ waiters[i] = c
          /\ waiters' = SubSeq(waiters, 1, i - 1) \o SubSeq(waiters, i + 1, Len(waiters))
    /\ UNCHANGED <<heapVars, currentSize, permit, prodVars, hand, clears, viewVars>>

\* ... or was woken but not polled yet: dropping a notified waiter passes
\* its notification on ...
ExpireWoken(c) ==
    /\ TimedDequeue
    /\ cpc[c] = "woken"
    /\ IF waiters = <<>>
       THEN /\ permit' = TRUE
            /\ cpc' = [cpc EXCEPT ![c] = "out"]
            /\ UNCHANGED waiters
       ELSE /\ waiters' = Tail(waiters)
            /\ cpc' = [cpc EXCEPT ![c] = "out", ![Head(waiters)] = "woken"]
            /\ UNCHANGED permit
    /\ UNCHANGED <<heapVars, currentSize, prodVars, hand, clears, viewVars>>

\* ... or is queueing for the mutex, its notification already spent.
ExpireLocking(c) ==
    /\ TimedDequeue
    /\ cpc[c] = "try"
    /\ lock # NoOne
    /\ cpc' = [cpc EXCEPT ![c] = "out"]
    /\ UNCHANGED <<heapVars, currentSize, notifyVars, prodVars, hand, clears, viewVars>>

-------------------------------------------------------------------------------
(* clear(): two stores under the mutex *)

ClearHeap ==
    /\ clears < MaxClears
    /\ lock = NoOne
    /\ queue' = {}
    /\ lock' = "clear"
    /\ clears' = clears + 1
    /\ UNCHANGED <<counter, currentSize, notifyVars, prodVars, consVars, viewVars>>

ClearSize ==
    /\ lock = "clear"
    /\ currentSize' = 0
    /\ lock' = NoOne
    /\ UNCHANGED <<queue, counter, notifyVars, prodVars, consVars, clears, viewVars>>

-------------------------------------------------------------------------------
Finish(p) == TakeSequence(p) \/ Push(p) \/ Count(p) \/ NotifyAndReturn(p)

Proceed(c) == Pop(c) \/ Uncount(c) \/ FindEmpty(c) \/ Await(c) \/ Resume(c)

Expire(c) == ExpireAsleep(c) \/ ExpireWoken(c) \/ ExpireLocking(c)

Next ==
    \/ \E p \in Producers, x \in Items : Admit(p, x) \/ Refuse(p, x)
    \/ \E p \in Producers : Finish(p)
    \/ \E c \in Consumers : CallDequeue(c) \/ CallTryDequeue(c)
    \/ \E c \in Consumers : Proceed(c) \/ Expire(c)
    \/ ClearHeap
    \/ ClearSize

Spec == Init /\ [][Next]_vars

\* A task that was polled runs on: every call in progress takes its steps.
\* Nothing obliges anyone to call enqueue or dequeue.
CallsFinish ==
    /\ \A p \in Producers : WF_vars(Finish(p))
    /\ \A c \in Consumers : WF_vars(Proceed(c))
    /\ WF_vars(ClearSize)

FairSpec == Spec /\ CallsFinish

\* The router's worker: dequeue again and again, each call under a timer.
WorkerSpec ==
    /\ FairSpec
    /\ \A c \in Consumers : WF_vars(CallDequeue(c))
    /\ \A c \in Consumers : WF_vars(Expire(c))

-------------------------------------------------------------------------------
(* What must hold *)

Uncounted == {p \in Producers : ppc[p] = "pushed"}
Entering == {p \in Producers : ppc[p] \in {"admitted", "sequenced"}}
Popped == IF lock \in Consumers THEN 1 ELSE 0

\* Entries whose removal, and whose insertion, the counter has yet to see.
Present == Cardinality(queue) + Popped
Pending == Cardinality(Uncounted)

\* Every variable keeps its type; current_size (queue.rs) stays a usize.
TypeOK ==
    /\ queue \subseteq Entry
    /\ currentSize \in 0..(WordMod - 1)
    /\ counter \in Nat
    /\ lock \in Consumers \cup {"clear", NoOne}
    /\ permit \in BOOLEAN
    /\ waiters \in Seq(Consumers)
    /\ ppc \in [Producers -> {"idle", "admitted", "sequenced", "pushed", "counted"}]
    /\ pitem \in [Producers -> Items \cup {NoOne}]
    /\ pseq \in [Producers -> Nat]
    /\ cpc \in [Consumers -> {"out", "try", "poll", "popped", "empty", "waiting", "woken"}]
    /\ hand \in [Consumers -> Items \cup {NoOne}]
    /\ clears \in 0..MaxClears
    /\ offered \subseteq Items /\ accepted \subseteq Items /\ taken \subseteq Items
    /\ before \in [Items -> SUBSET Items]

\* The counter is the number of entries corrected by the calls that are
\* between touching the heap and touching the counter; below zero it wraps.
SizeAccounting ==
    currentSize = IF Present >= Pending THEN Present - Pending
                                        ELSE WordMod - (Pending - Present)

\* The unlocked capacity check can be overrun, but only by the enqueue
\* calls that were in progress together: one less than there are producers.
OvershootBound ==
    Cardinality(queue) + Cardinality(Entering) + 1 <= MaxSize + Cardinality(Producers)

\* A call is refused when the queue is full, or while the counter is below
\* zero because a consumer was faster than the producer that still has to
\* count its entry.  Nothing else refuses a request.
RefusalExplained ==
    [][\A p \in Producers, x \in Items : Refuse(p, x) =>
          \/ Present >= MaxSize + Pending
          \/ Present < Pending]_vars

PQ == INSTANCE PriorityQueue WITH
        Capacity <- MaxSize + Cardinality(Producers) - 1,
        pending <- ItemsOf(queue)

\* RequestQueue is a bounded priority queue: however the steps of its calls
\* interleave, no entry is handed out before one of a higher priority, nor
\* before one of its own priority whose enqueue had returned when its own
\* began; and a call that refuses or waits has no effect.
Implements == PQ!Spec

\* Under the loop of the router's workers (dequeue under a 100 ms timer,
\* router.rs spawn_worker), every accepted request reaches a consumer.
EveryAcceptedIsTaken == \A x \in Items : x \in accepted ~> x \in taken
===============================================================================
