------------------------- MODULE RequestQueueProofs -------------------------
(***************************************************************************)
(* Theorems about RequestQueue, for any number of producers, consumers and *)
(* requests.  The bound on the heap and the refinement of PriorityQueue    *)
(* hold whatever clear() does.  That the counter is exact, and that a      *)
(* refusal is explained by it, assumes that clear() is not called (the     *)
(* router never calls it): its two stores leave the counter behind.        *)
(***************************************************************************)
EXTENDS RequestQueue, FiniteSetTheorems, SequenceTheorems, TLAPS

\* A call in progress carries a request.
TypeInv ==
    /\ TypeOK
    /\ \A p \in Producers : ppc[p] # "idle" => pitem[p] \in Items

LEMMA InitTypeInv == Init => TypeInv
<1> SUFFICES ASSUME Init PROVE TypeInv
  OBVIOUS
<1> USE QueueAssumption DEF QueueAssumption, Init
<1>1. /\ queue \subseteq Entry /\ counter \in Nat /\ clears \in 0..MaxClears
      /\ waiters \in Seq(Consumers)
      /\ lock \in Consumers \cup {"clear", NoOne}
  OBVIOUS
<1>2. permit \in BOOLEAN
  OBVIOUS
<1>6. currentSize \in 0..(WordMod - 1)
  <2>1. Cardinality(Producers) \in Nat
    BY FS_CardinalityType
  <2> QED
    BY <2>1
<1>3. /\ ppc \in [Producers -> {"idle", "admitted", "sequenced", "pushed", "counted"}]
      /\ pitem \in [Producers -> Items \cup {NoOne}]
      /\ pseq \in [Producers -> Nat]
      /\ \A p \in Producers : ppc[p] # "idle" => pitem[p] \in Items
  OBVIOUS
<1>4. /\ cpc \in [Consumers -> {"out", "try", "poll", "popped", "empty", "waiting", "woken"}]
      /\ hand \in [Consumers -> Items \cup {NoOne}]
  OBVIOUS
<1>5. /\ offered \subseteq Items /\ accepted \subseteq Items /\ taken \subseteq Items
      /\ before \in [Items -> SUBSET Items]
  OBVIOUS
<1> QED
  BY <1>1, <1>2, <1>3, <1>4, <1>5, <1>6 DEF TypeInv, TypeOK

LEMMA WrapType ==
    ASSUME NEW n \in 0..(WordMod - 1)
    PROVE  WrapInc(n) \in 0..(WordMod - 1) /\ WrapDec(n) \in 0..(WordMod - 1)
  BY QueueAssumption DEF QueueAssumption, WrapInc, WrapDec

LEMMA HeadTailType ==
    ASSUME NEW S, NEW s \in Seq(S), s # <<>>
    PROVE  Head(s) \in S /\ Tail(s) \in Seq(S)
  OBVIOUS

LEMMA NextTypeInv == TypeInv /\ [Next]_vars => TypeInv'
<1> SUFFICES ASSUME TypeInv, [Next]_vars
             PROVE  TypeInv'
  OBVIOUS
<1> USE DEF TypeInv, TypeOK, heapVars, notifyVars, prodVars, consVars, viewVars
<1>1. ASSUME NEW p \in Producers, NEW x \in Items, Admit(p, x)
      PROVE  TypeInv'
  BY <1>1 DEF Admit, OfferItem
<1>2. ASSUME NEW p \in Producers, NEW x \in Items, Refuse(p, x)
      PROVE  TypeInv'
  BY <1>2 DEF Refuse, OfferItem
<1>3. ASSUME NEW p \in Producers, TakeSequence(p)
      PROVE  TypeInv'
  BY <1>3 DEF TakeSequence
<1>4. ASSUME NEW p \in Producers, Push(p)
      PROVE  TypeInv'
  <2>1. [item |-> pitem[p], sequence |-> pseq[p]] \in Entry
    BY <1>4 DEF Push, Entry
  <2> QED
    BY <1>4, <2>1 DEF Push
<1>5. ASSUME NEW p \in Producers, Count(p)
      PROVE  TypeInv'
  BY <1>5, WrapType DEF Count
<1>6. ASSUME NEW p \in Producers, NotifyAndReturn(p)
      PROVE  TypeInv'
  <2>1. permit' \in BOOLEAN
    BY <1>6, Zenon DEF NotifyAndReturn, WakeOne
  <2>4. waiters' \in Seq(Consumers)
    <3>1. waiters \in Seq(Consumers)
      BY DEF TypeInv, TypeOK
    <3>2. CASE waiters = <<>>
      <4>1. waiters' = waiters
        BY <1>6, <3>2, Zenon DEF NotifyAndReturn, WakeOne
      <4> QED
        BY ONLY <4>1, <3>1
    <3>3. CASE waiters # <<>>
      <4>1. waiters' = Tail(waiters)
        BY <1>6, <3>3, Zenon DEF NotifyAndReturn, WakeOne
      <4>2. Tail(waiters) \in Seq(Consumers)
        BY ONLY <3>1, <3>3, HeadTailType, Zenon
      <4> QED
        BY ONLY <4>1, <4>2
    <3> QED
      BY ONLY <3>2, <3>3
  <2>5. cpc' \in [Consumers -> {"out", "try", "poll", "popped", "empty", "waiting", "woken"}]
    BY <1>6 DEF NotifyAndReturn, WakeOne
  <2>2. /\ accepted' \subseteq Items
        /\ \A q \in Producers : ppc'[q] # "idle" => pitem'[q] \in Items
    BY <1>6 DEF NotifyAndReturn
  <2>3. /\ ppc' \in [Producers -> {"idle", "admitted", "sequenced", "pushed", "counted"}]
        /\ pitem' \in [Producers -> Items \cup {NoOne}]
    BY <1>6 DEF NotifyAndReturn
  <2> QED
    BY <1>6, <2>1, <2>2, <2>3, <2>4, <2>5 DEF NotifyAndReturn
<1>7. ASSUME NEW c \in Consumers, CallDequeue(c) \/ CallTryDequeue(c)
      PROVE  TypeInv'
  BY <1>7 DEF CallDequeue, CallTryDequeue, Call
<1>8. ASSUME NEW c \in Consumers, Pop(c)
      PROVE  TypeInv'
  <2>1. PICK e \in queue : /\ queue' = queue \ {e}
                           /\ hand' = [hand EXCEPT ![c] = e.item]
                           /\ taken' = taken \cup {e.item}
    BY <1>8 DEF Pop
  <2>2. e.item \in Items
    BY DEF Entry
  <2> QED
    BY <1>8, <2>1, <2>2 DEF Pop
<1>9. ASSUME NEW c \in Consumers, Uncount(c)
      PROVE  TypeInv'
  BY <1>9, WrapType DEF Uncount
<1>10. ASSUME NEW c \in Consumers, FindEmpty(c)
       PROVE  TypeInv'
  BY <1>10 DEF FindEmpty
<1>11. ASSUME NEW c \in Consumers, Await(c)
       PROVE  TypeInv'
  <2>1. permit' \in BOOLEAN
    BY <1>11, Zenon DEF Await
  <2>4. Append(waiters, c) \in Seq(Consumers)
    OBVIOUS
  <2>3. waiters' \in Seq(Consumers)
    BY <1>11, <2>4, Zenon DEF Await
  <2>2. cpc' \in [Consumers -> {"out", "try", "poll", "popped", "empty", "waiting", "woken"}]
    BY <1>11 DEF Await
  <2> QED
    BY <1>11, <2>1, <2>2, <2>3 DEF Await
<1>12. ASSUME NEW c \in Consumers, Resume(c)
       PROVE  TypeInv'
  BY <1>12 DEF Resume
<1>13. ASSUME NEW c \in Consumers, ExpireAsleep(c)
       PROVE  TypeInv'
  <2>1. PICK i \in DOMAIN waiters :
            waiters' = SubSeq(waiters, 1, i - 1) \o SubSeq(waiters, i + 1, Len(waiters))
    BY <1>13 DEF ExpireAsleep
  <2>2. /\ SubSeq(waiters, 1, i - 1) \in Seq(Consumers)
        /\ SubSeq(waiters, i + 1, Len(waiters)) \in Seq(Consumers)
    OBVIOUS
  <2>3. waiters' \in Seq(Consumers)
    BY <2>1, <2>2
  <2> QED
    BY <1>13, <2>3 DEF ExpireAsleep
<1>14. ASSUME NEW c \in Consumers, ExpireWoken(c)
       PROVE  TypeInv'
  <2>1. permit' \in BOOLEAN
    BY <1>14, Zenon DEF ExpireWoken
  <2>3. waiters' \in Seq(Consumers)
    <3>1. waiters \in Seq(Consumers)
      BY DEF TypeInv, TypeOK
    <3>2. CASE waiters = <<>>
      <4>1. waiters' = waiters
        BY <1>14, <3>2, Zenon DEF ExpireWoken
      <4> QED
        BY ONLY <4>1, <3>1
    <3>3. CASE waiters # <<>>
      <4>1. waiters' = Tail(waiters)
        BY <1>14, <3>3, Zenon DEF ExpireWoken
      <4>2. Tail(waiters) \in Seq(Consumers)
        BY ONLY <3>1, <3>3, HeadTailType, Zenon
      <4> QED
        BY ONLY <4>1, <4>2
    <3> QED
      BY ONLY <3>2, <3>3
  <2>2. cpc' \in [Consumers -> {"out", "try", "poll", "popped", "empty", "waiting", "woken"}]
    BY <1>14 DEF ExpireWoken
  <2> QED
    BY <1>14, <2>1, <2>2, <2>3 DEF ExpireWoken
<1>15. ASSUME NEW c \in Consumers, ExpireLocking(c)
       PROVE  TypeInv'
  BY <1>15 DEF ExpireLocking
<1>16. ASSUME ClearHeap \/ ClearSize
       PROVE  TypeInv'
  BY <1>16, QueueAssumption DEF QueueAssumption, ClearHeap, ClearSize
<1>17. ASSUME UNCHANGED vars
       PROVE  TypeInv'
  BY <1>17 DEF vars
<1> QED
  BY <1>1, <1>2, <1>3, <1>4, <1>5, <1>6, <1>7, <1>8, <1>9, <1>10, <1>11, <1>12,
     <1>13, <1>14, <1>15, <1>16, <1>17 DEF Next, Finish, Proceed, Expire

\* Every variable keeps its type in every execution, whatever the number of
\* tasks: in particular the counter of queue.rs never leaves 0..usize::MAX.
THEOREM TypeCorrect == Spec => []TypeOK
<1>1. TypeInv => TypeOK
  BY DEF TypeInv
<1> QED
  BY InitTypeInv, NextTypeInv, <1>1, PTL DEF Spec

-------------------------------------------------------------------------------
(* A consumer holds the mutex from popping to counting, and clear() while  *)
(* the heap is empty; no entry shares its sequence number with another     *)
(* entry or with a call that is about to push; the counter follows.        *)

MutexInv ==
    /\ \A c \in Consumers : lock = c <=> cpc[c] = "popped"
    /\ lock = "clear" => queue = {}

SequenceInv ==
    /\ \A e \in queue : e.sequence < counter
    /\ \A p \in Producers : ppc[p] = "sequenced" =>
          /\ pseq[p] < counter
          /\ \A e \in queue : e.sequence # pseq[p]
          /\ \A q \in Producers \ {p} : ppc[q] = "sequenced" => pseq[q] # pseq[p]

\* What bounds the overshoot, clear() or not: while the counter is at least
\* zero the entries number at most the counter and the calls still to count,
\* and the counter, those calls and the ones admitted fit; while it is k below
\* zero, k of the calls still to count have had their entry popped already.
CapacityInv ==
    /\ IsFiniteSet(queue)
    /\ MaxSize = 0 => Pending = 0 /\ Cardinality(Entering) = 0
    /\ \/ /\ currentSize + Pending + Cardinality(Entering) + 1 <= MaxSize + Cardinality(Producers)
          /\ Present <= currentSize + Pending
       \/ \E k \in 1..Pending : currentSize = WordMod - k /\ Present + k <= Pending

CountInv == SizeAccounting /\ lock # "clear"

\* Exactly sleepers are in the Notify's list, each once.
WaitInv ==
    /\ \A i \in DOMAIN waiters : cpc[waiters[i]] = "waiting"
    /\ \A i, j \in DOMAIN waiters : waiters[i] = waiters[j] => i = j

LEMMA TailElements ==
    ASSUME NEW S, NEW s \in Seq(S), s # <<>>
    PROVE  /\ DOMAIN Tail(s) = 1..(Len(s) - 1)
           /\ \A i \in 1..(Len(s) - 1) : Tail(s)[i] = s[i + 1]
           /\ Head(s) = s[1] /\ 1 \in DOMAIN s /\ DOMAIN s = 1..Len(s)
           /\ Len(s) \in Nat
  OBVIOUS

LEMMA AppendElements ==
    ASSUME NEW S, NEW s \in Seq(S), NEW x \in S
    PROVE  /\ DOMAIN Append(s, x) = 1..(Len(s) + 1)
           /\ \A i \in 1..Len(s) : Append(s, x)[i] = s[i]
           /\ Append(s, x)[Len(s) + 1] = x
           /\ DOMAIN s = 1..Len(s) /\ Len(s) \in Nat
  OBVIOUS

\* What ExpireAsleep leaves of the list: the same sleepers without the i-th.
LEMMA RemovedElements ==
    ASSUME NEW S, NEW s \in Seq(S), NEW i \in DOMAIN s, NEW r,
           r = SubSeq(s, 1, i - 1) \o SubSeq(s, i + 1, Len(s))
    PROVE  /\ DOMAIN r = 1..(Len(s) - 1)
           /\ \A j \in 1..(Len(s) - 1) : r[j] = s[IF j < i THEN j ELSE j + 1]
           /\ DOMAIN s = 1..Len(s) /\ Len(s) \in Nat
<1> DEFINE front == SubSeq(s, 1, i - 1)
           back == SubSeq(s, i + 1, Len(s))
<1>0. DOMAIN s = 1..Len(s) /\ Len(s) \in Nat /\ i \in 1..Len(s)
  OBVIOUS
<1>1. /\ front \in Seq(S) /\ Len(front) = i - 1
      /\ \A j \in 1..(i - 1) : front[j] = s[j]
  BY <1>0
<1>2. /\ back \in Seq(S) /\ Len(back) = Len(s) - i
      /\ \A j \in 1..(Len(s) - i) : back[j] = s[j + i]
  BY <1>0
<1>3. r = front \o back
  OBVIOUS
<1> HIDE DEF front, back
<1>4. /\ r \in Seq(S) /\ Len(r) = Len(front) + Len(back)
      /\ \A j \in 1..(Len(front) + Len(back)) :
            r[j] = IF j <= Len(front) THEN front[j] ELSE back[j - Len(front)]
  <2>1. front \in Seq(S) /\ back \in Seq(S)
    BY <1>1, <1>2
  <2>2. /\ front \o back \in Seq(S)
        /\ Len(front \o back) = Len(front) + Len(back)
        /\ \A j \in 1..(Len(front) + Len(back)) :
              (front \o back)[j] = IF j <= Len(front) THEN front[j] ELSE back[j - Len(front)]
    BY ONLY <2>1, ConcatProperties, Zenon
  <2> QED
    BY ONLY <2>2, <1>3, Zenon
<1>5. Len(r) = Len(s) - 1 /\ DOMAIN r = 1..(Len(s) - 1)
  BY <1>0, <1>1, <1>2, <1>4
<1>6. ASSUME NEW j \in 1..(Len(s) - 1)
      PROVE  r[j] = s[IF j < i THEN j ELSE j + 1]
  <2>1. CASE j < i
    BY <2>1, <1>0, <1>1, <1>2, <1>4
  <2>2. CASE j >= i
    <3>1. r[j] = back[j - (i - 1)]
      BY <2>2, <1>0, <1>1, <1>2, <1>4
    <3>2. j - (i - 1) \in 1..(Len(s) - i) /\ (j - (i - 1)) + i = j + 1
      <4>1. \A n, a \in Nat : a \in 1..n =>
               \A b \in 1..(n - 1) : b >= a => /\ b - (a - 1) \in 1..(n - a)
                                               /\ (b - (a - 1)) + a = b + 1
        OBVIOUS
      <4> QED
        BY ONLY <4>1, <2>2, <1>0, j \in 1..(Len(s) - 1)
    <3>3. back[j - (i - 1)] = s[j + 1]
      BY <3>2, <1>2
    <3>4. (IF j < i THEN j ELSE j + 1) = j + 1
      BY <2>2, <1>0
    <3>5. r[j] = s[j + 1]
      BY ONLY <3>1, <3>3, Zenon
    <3> QED
      BY ONLY <3>4, <3>5, Zenon
  <2> QED
    BY <1>0, <2>1, <2>2
<1> QED
  BY <1>0, <1>5, <1>6

LEMMA InitWaitInv == Init => WaitInv
  BY DEF Init, WaitInv

LEMMA NextWaitInv ==
    ASSUME TypeInv, WaitInv, [Next]_vars
    PROVE  WaitInv'
<1> USE DEF TypeInv, TypeOK, WaitInv, heapVars, notifyVars, prodVars, consVars, viewVars
<1>1. ASSUME UNCHANGED <<waiters, cpc>>
      PROVE  WaitInv'
  BY <1>1
<1>3. ASSUME NEW p \in Producers, NotifyAndReturn(p)
      PROVE  WaitInv'
  <2>1. CASE waiters = <<>>
    BY <2>1, <1>3 DEF NotifyAndReturn, WakeOne
  <2>2. CASE waiters # <<>>
    <3>1. /\ DOMAIN waiters' = 1..(Len(waiters) - 1)
          /\ \A i \in DOMAIN waiters' : waiters'[i] = waiters[i + 1] /\ i + 1 \in DOMAIN waiters
          /\ Head(waiters) = waiters[1] /\ 1 \in DOMAIN waiters /\ Len(waiters) \in Nat
      BY <2>2, <1>3, TailElements DEF NotifyAndReturn, WakeOne
    <3>2. \A i \in DOMAIN waiters' : waiters'[i] \in Consumers /\ waiters'[i] # Head(waiters)
      BY <3>1
    <3>3. \A i, j \in DOMAIN waiters' : waiters'[i] = waiters'[j] => i = j
      BY <3>1
    <3> QED
      BY <2>2, <3>1, <3>2, <3>3, <1>3 DEF NotifyAndReturn, WakeOne
  <2> QED
    BY <2>1, <2>2
<1>4. ASSUME NEW c \in Consumers, cpc[c] # "waiting", waiters' = waiters,
             NEW v, cpc' = [cpc EXCEPT ![c] = v]
      PROVE  WaitInv'
  BY <1>4
<1>5. ASSUME NEW c \in Consumers,
             CallDequeue(c) \/ CallTryDequeue(c) \/ Pop(c) \/ Uncount(c)
                \/ FindEmpty(c) \/ Resume(c) \/ ExpireLocking(c)
      PROVE  WaitInv'
  BY <1>5, <1>4 DEF CallDequeue, CallTryDequeue, Call, Pop, Uncount, FindEmpty, Resume, ExpireLocking
<1>6. ASSUME NEW c \in Consumers, Await(c)
      PROVE  WaitInv'
  <2>1. CASE permit
    BY <2>1, <1>4, <1>6 DEF Await
  <2>2. CASE ~permit
    <3>1. waiters' = Append(waiters, c) /\ cpc' = [cpc EXCEPT ![c] = "waiting"] /\ cpc[c] = "empty"
      BY <2>2, <1>6 DEF Await
    <3> QED
      BY <3>1, AppendElements
  <2> QED
    BY <2>1, <2>2
<1>7. ASSUME NEW c \in Consumers, ExpireAsleep(c)
      PROVE  WaitInv'
  <2>1. PICK i \in DOMAIN waiters :
            /\ waiters[i] = c
            /\ waiters' = SubSeq(waiters, 1, i - 1) \o SubSeq(waiters, i + 1, Len(waiters))
    BY <1>7 DEF ExpireAsleep
  <2>2. /\ DOMAIN waiters' = 1..(Len(waiters) - 1)
        /\ \A j \in 1..(Len(waiters) - 1) : waiters'[j] = waiters[IF j < i THEN j ELSE j + 1]
        /\ DOMAIN waiters = 1..Len(waiters) /\ Len(waiters) \in Nat
    BY <2>1, RemovedElements
  <2>3. cpc' = [cpc EXCEPT ![c] = "out"]
    BY <1>7 DEF ExpireAsleep
  <2> DEFINE n == Len(waiters)
             old(j) == IF j < i THEN j ELSE j + 1
  <2>4. /\ n \in Nat /\ i \in 1..n
        /\ \A j \in 1..(n - 1) : old(j) \in 1..n /\ old(j) # i
        /\ \A j, k \in 1..(n - 1) : old(j) = old(k) => j = k
    BY <2>2
  <2>5. DOMAIN waiters = 1..n /\ DOMAIN waiters' = 1..(n - 1)
    BY <2>2
  <2>6. \A j \in 1..(n - 1) : waiters'[j] = waiters[old(j)]
    BY <2>2
  <2>7. c = waiters[i]
    BY <2>1
  <2> HIDE DEF n, old
  <2>8. \A j \in DOMAIN waiters' : waiters'[j] # c /\ cpc[waiters'[j]] = "waiting"
    BY <2>4, <2>5, <2>6, <2>7
  <2>9. \A j, k \in DOMAIN waiters' : waiters'[j] = waiters'[k] => j = k
    BY <2>4, <2>5, <2>6
  <2>10. \A j \in DOMAIN waiters' : waiters'[j] \in Consumers
    BY <2>4, <2>5, <2>6
  <2>11. \A j \in DOMAIN waiters' : cpc'[waiters'[j]] = "waiting"
    BY <2>3, <2>8, <2>10
  <2> QED
    BY <2>9, <2>11
<1>8. ASSUME NEW c \in Consumers, ExpireWoken(c)
      PROVE  WaitInv'
  <2>1. CASE waiters = <<>>
    BY <2>1, <1>8 DEF ExpireWoken
  <2>2. CASE waiters # <<>>
    <3>1. /\ DOMAIN waiters' = 1..(Len(waiters) - 1)
          /\ \A i \in DOMAIN waiters' : waiters'[i] = waiters[i + 1] /\ i + 1 \in DOMAIN waiters
          /\ Head(waiters) = waiters[1] /\ 1 \in DOMAIN waiters /\ Len(waiters) \in Nat
      BY <2>2, <1>8, TailElements DEF ExpireWoken
    <3>2. \A i \in DOMAIN waiters' : waiters'[i] \in Consumers /\ waiters'[i] # Head(waiters)
      BY <3>1
    <3>3. \A i, j \in DOMAIN waiters' : waiters'[i] = waiters'[j] => i = j
      BY <3>1
    <3> QED
      BY <2>2, <3>1, <3>2, <3>3, <1>8 DEF ExpireWoken
  <2> QED
    BY <2>1, <2>2
<1> QED
  BY <1>1, <1>3, <1>5, <1>6, <1>7, <1>8
  DEF Next, Finish, Proceed, Expire, Admit, Refuse, TakeSequence, Push, Count, ClearHeap, ClearSize, vars

LEMMA InitMutexInv == Init => MutexInv
  BY QueueAssumption DEF QueueAssumption, Init, MutexInv

LEMMA NextMutexInv ==
    ASSUME TypeInv, WaitInv, MutexInv, [Next]_vars
    PROVE  MutexInv'
<1> USE DEF TypeInv, TypeOK, MutexInv, heapVars, notifyVars, prodVars, consVars, viewVars
<1>1. ASSUME NEW p \in Producers, NEW x \in Items, Admit(p, x) \/ Refuse(p, x)
      PROVE  MutexInv'
  BY <1>1 DEF Admit, Refuse
<1>2. ASSUME NEW p \in Producers, TakeSequence(p) \/ Push(p) \/ Count(p)
      PROVE  MutexInv'
  BY <1>2, QueueAssumption DEF QueueAssumption, TakeSequence, Push, Count
<1>3. ASSUME NEW p \in Producers, NotifyAndReturn(p)
      PROVE  MutexInv'
  <2>1. CASE waiters = <<>>
    BY <2>1, <1>3 DEF NotifyAndReturn, WakeOne
  <2>2. CASE waiters # <<>>
    <3>1. Head(waiters) \in Consumers /\ cpc[Head(waiters)] = "waiting"
      BY <2>2, TailElements DEF WaitInv
    <3> QED
      BY <2>2, <3>1, <1>3 DEF NotifyAndReturn, WakeOne
  <2> QED
    BY <2>1, <2>2
<1>4. ASSUME NEW c \in Consumers, CallDequeue(c) \/ CallTryDequeue(c)
      PROVE  MutexInv'
  BY <1>4 DEF CallDequeue, CallTryDequeue, Call
<1>5. ASSUME NEW c \in Consumers, Pop(c) \/ Uncount(c)
      PROVE  MutexInv'
  <2>1. lock' # "clear"
    BY <1>5, QueueAssumption DEF QueueAssumption, Pop, Uncount
  <2>2. CASE Pop(c)
    BY <2>1, <2>2, QueueAssumption DEF QueueAssumption, Pop
  <2>3. CASE Uncount(c)
    BY <2>1, <2>3, QueueAssumption DEF QueueAssumption, Uncount
  <2> QED
    BY <1>5, <2>2, <2>3
<1>6. ASSUME NEW c \in Consumers, FindEmpty(c) \/ Await(c) \/ Resume(c)
      PROVE  MutexInv'
  BY <1>6 DEF FindEmpty, Await, Resume
<1>7. ASSUME NEW c \in Consumers, Expire(c)
      PROVE  MutexInv'
  <2>1. CASE ExpireAsleep(c) \/ ExpireLocking(c)
    BY <2>1 DEF ExpireAsleep, ExpireLocking
  <2>2. CASE ExpireWoken(c) /\ waiters = <<>>
    BY <2>2 DEF ExpireWoken
  <2>3. CASE ExpireWoken(c) /\ waiters # <<>>
    <3>1. Head(waiters) \in Consumers /\ cpc[Head(waiters)] = "waiting"
      BY <2>3, TailElements DEF WaitInv
    <3> QED
      BY <2>3, <3>1 DEF ExpireWoken
  <2> QED
    BY <1>7, <2>1, <2>2, <2>3 DEF Expire
<1>8. ASSUME ClearHeap \/ ClearSize
      PROVE  MutexInv'
  BY <1>8, QueueAssumption DEF QueueAssumption, ClearHeap, ClearSize
<1>9. ASSUME UNCHANGED vars
      PROVE  MutexInv'
  BY <1>9 DEF vars
<1> QED
  BY <1>1, <1>2, <1>3, <1>4, <1>5, <1>6, <1>7, <1>8, <1>9 DEF Next, Finish, Proceed

LEMMA InitSequenceInv == Init => SequenceInv
  BY DEF Init, SequenceInv

LEMMA NextSequenceInv ==
    ASSUME TypeInv, SequenceInv, [Next]_vars
    PROVE  SequenceInv'
<1> USE DEF TypeInv, TypeOK, SequenceInv, heapVars, notifyVars, prodVars, consVars, viewVars
<1>1. ASSUME NEW p \in Producers, NEW x \in Items, Admit(p, x) \/ Refuse(p, x)
      PROVE  SequenceInv'
  BY <1>1 DEF Admit, Refuse
<1>2. ASSUME NEW p \in Producers, TakeSequence(p)
      PROVE  SequenceInv'
  <2>1. \A e \in queue : e.sequence \in Nat
    BY DEF Entry
  <2>2. \A q \in Producers \ {p} : pseq'[q] = pseq[q] /\ ppc'[q] = ppc[q]
    BY <1>2 DEF TakeSequence
  <2>3. pseq'[p] = counter /\ counter' = counter + 1 /\ queue' = queue
    BY <1>2 DEF TakeSequence
  <2>4. \A q \in Producers \ {p} : ppc[q] = "sequenced" => pseq[q] \in Nat /\ pseq[q] < counter
    OBVIOUS
  <2>5. counter \in Nat
    OBVIOUS
  <2> QED
    <3>1. \A e \in queue' : e.sequence < counter' /\ e.sequence # pseq'[p]
      BY <2>1, <2>3, <2>5
    <3>2. ASSUME NEW q \in Producers, ppc'[q] = "sequenced"
          PROVE  /\ pseq'[q] < counter'
                 /\ \A e \in queue' : e.sequence # pseq'[q]
                 /\ \A r \in Producers \ {q} : ppc'[r] = "sequenced" => pseq'[r] # pseq'[q]
      <4>1. CASE q = p
        BY <3>1, <4>1, <2>2, <2>3, <2>4, <2>5
      <4>2. CASE q # p
        <5>1. q \in Producers \ {p} /\ ppc[q] = "sequenced" /\ pseq'[q] = pseq[q]
          BY <3>2, <4>2, <2>2
        <5>2. pseq'[q] < counter' /\ \A e \in queue' : e.sequence # pseq'[q]
          BY <5>1, <2>3, <2>4, <2>5
        <5>3. \A r \in Producers \ {q} : ppc'[r] = "sequenced" => pseq'[r] # pseq'[q]
          BY <5>1, <2>2, <2>3, <2>4, <2>5
        <5> QED
          BY <5>2, <5>3
      <4> QED
        BY <4>1, <4>2
    <3> QED
      BY <3>1, <3>2
<1>3. ASSUME NEW p \in Producers, Push(p)
      PROVE  SequenceInv'
  <2> DEFINE new == [item |-> pitem[p], sequence |-> pseq[p]]
  <2>1. /\ queue' = queue \cup {new} /\ new.sequence = pseq[p]
        /\ UNCHANGED <<counter, pseq>> /\ ppc[p] = "sequenced"
        /\ ppc' = [ppc EXCEPT ![p] = "pushed"]
    BY <1>3 DEF Push
  <2>2. \A q \in Producers : ppc'[q] = "sequenced" => q # p /\ ppc[q] = "sequenced"
    BY <2>1
  <2> HIDE DEF new
  <2> QED
    BY <2>1, <2>2
<1>4. ASSUME NEW p \in Producers, Count(p) \/ NotifyAndReturn(p)
      PROVE  SequenceInv'
  BY <1>4 DEF Count, NotifyAndReturn
<1>5. ASSUME NEW c \in Consumers, CallDequeue(c) \/ CallTryDequeue(c) \/ Proceed(c) \/ Expire(c)
      PROVE  SequenceInv'
  <2>1. UNCHANGED <<counter, ppc, pseq>> /\ queue' \subseteq queue
    BY <1>5 DEF CallDequeue, CallTryDequeue, Call, Proceed, Expire, Pop, Uncount, FindEmpty,
                Await, Resume, ExpireAsleep, ExpireWoken, ExpireLocking
  <2> QED
    BY <2>1
<1>6. ASSUME ClearHeap \/ ClearSize
      PROVE  SequenceInv'
  BY <1>6 DEF ClearHeap, ClearSize
<1>7. ASSUME UNCHANGED vars
      PROVE  SequenceInv'
  BY <1>7 DEF vars
<1> QED
  BY <1>1, <1>2, <1>3, <1>4, <1>5, <1>6, <1>7 DEF Next, Finish

-------------------------------------------------------------------------------

LEMMA DisjointSizes ==
    ASSUME NEW S \in SUBSET Producers, NEW T \in SUBSET Producers, S \cap T = {}
    PROVE  /\ IsFiniteSet(S) /\ IsFiniteSet(T)
           /\ Cardinality(S) \in Nat /\ Cardinality(T) \in Nat /\ Cardinality(Producers) \in Nat
           /\ Cardinality(S) + Cardinality(T) <= Cardinality(Producers)
<1>1. IsFiniteSet(Producers)
  BY QueueAssumption DEF QueueAssumption
<1>2. IsFiniteSet(S) /\ IsFiniteSet(T)
  BY <1>1, FS_Subset
<1>3. S \cup T \in SUBSET Producers
  OBVIOUS
<1>4. Cardinality(S \cup T) <= Cardinality(Producers)
  BY <1>1, <1>3, FS_Subset
<1>5. Cardinality(S \cup T) = Cardinality(S) + Cardinality(T) - 0
  BY <1>2, FS_Union, FS_EmptySet
<1> QED
  BY <1>1, <1>2, <1>4, <1>5, FS_CardinalityType

LEMMA Sizes ==
    ASSUME IsFiniteSet(queue)
    PROVE  /\ Cardinality(queue) \in Nat /\ Cardinality(Producers) \in Nat
           /\ Cardinality(Uncounted) \in Nat /\ Cardinality(Entering) \in Nat
           /\ IsFiniteSet(Uncounted) /\ IsFiniteSet(Entering)
           /\ Cardinality(Uncounted) + Cardinality(Entering) <= Cardinality(Producers)
           /\ Popped \in 0..1
<1>1. /\ Uncounted \in SUBSET Producers /\ Entering \in SUBSET Producers
      /\ Uncounted \cap Entering = {}
  BY DEF Uncounted, Entering
<1>2. Popped \in 0..1
  BY DEF Popped
<1>3. Cardinality(queue) \in Nat
  BY FS_CardinalityType
<1> QED
  BY <1>1, <1>2, <1>3, DisjointSizes

\* How a step moves the sizes the counter is about: the entries, the calls
\* before the heap (Entering), those before the counter (Pending), and the
\* entry popped but not yet uncounted.
Sized == <<Cardinality(queue), Cardinality(Entering), Pending, Popped, currentSize, lock>>

AdmitMoves ==
    /\ currentSize < MaxSize
    /\ Pending + Cardinality(Entering) + 1 <= Cardinality(Producers)
    /\ Cardinality(Entering)' = Cardinality(Entering) + 1
    /\ UNCHANGED <<currentSize, Cardinality(queue), Pending, Popped, lock>>

PushMoves ==
    /\ Cardinality(queue)' = Cardinality(queue) + 1
    /\ Pending' = Pending + 1
    /\ Cardinality(Entering) # 0
    /\ Cardinality(Entering)' = Cardinality(Entering) - 1
    /\ UNCHANGED <<currentSize, Popped, lock>>

CountMoves ==
    /\ Pending # 0
    /\ Pending' = Pending - 1
    /\ currentSize' = WrapInc(currentSize)
    /\ UNCHANGED <<Cardinality(queue), Cardinality(Entering), Popped, lock>>

PopMoves ==
    /\ Cardinality(queue) # 0
    /\ Cardinality(queue)' = Cardinality(queue) - 1
    /\ Popped = 0 /\ Popped' = 1 /\ lock' # "clear"
    /\ UNCHANGED <<currentSize, Pending, Cardinality(Entering)>>

UncountMoves ==
    /\ Popped = 1 /\ Popped' = 0 /\ lock' # "clear"
    /\ currentSize' = WrapDec(currentSize)
    /\ UNCHANGED <<Cardinality(queue), Pending, Cardinality(Entering)>>

ClearHeapMoves ==
    /\ MaxClears # 0
    /\ Cardinality(queue)' = 0
    /\ UNCHANGED <<currentSize, Pending, Cardinality(Entering), Popped>>

ClearSizeMoves ==
    /\ lock = "clear" /\ Cardinality(queue) = 0 /\ Popped = 0
    /\ currentSize' = 0
    /\ UNCHANGED <<Cardinality(queue), Pending, Cardinality(Entering), Popped>>

LEMMA SizeSteps ==
    ASSUME TypeInv, MutexInv, SequenceInv, IsFiniteSet(queue), [Next]_vars
    PROVE  /\ IsFiniteSet(queue)'
           /\ \/ AdmitMoves \/ PushMoves \/ CountMoves \/ PopMoves \/ UncountMoves
              \/ ClearHeapMoves \/ ClearSizeMoves \/ UNCHANGED Sized
<1> DEFINE Goal == /\ IsFiniteSet(queue)'
                   /\ \/ AdmitMoves \/ PushMoves \/ CountMoves \/ PopMoves \/ UncountMoves
                      \/ ClearHeapMoves \/ ClearSizeMoves \/ UNCHANGED Sized
<1>1. /\ Cardinality(queue) \in Nat /\ Pending \in Nat /\ Cardinality(Entering) \in Nat
      /\ IsFiniteSet(Uncounted) /\ IsFiniteSet(Entering)
      /\ Pending + Cardinality(Entering) <= Cardinality(Producers)
  BY Sizes DEF Pending
<1>2. ASSUME UNCHANGED <<queue, currentSize, lock, Entering, Uncounted>>
      PROVE  Goal
  BY <1>2 DEF Sized, Pending, Popped
<1>3. ASSUME UNCHANGED <<queue, currentSize, ppc, lock>>
      PROVE  Goal
  BY <1>3, <1>2 DEF Entering, Uncounted
<1>4. ASSUME NEW p \in Producers, NEW x \in Items, Admit(p, x)
      PROVE  Goal
  <2>1. UNCHANGED <<queue, currentSize, lock>> /\ currentSize < MaxSize
    BY <1>4 DEF Admit, heapVars
  <2>2. Entering' = Entering \cup {p} /\ Uncounted' = Uncounted /\ p \notin Uncounted \cup Entering
    BY <1>4, <2>1 DEF Admit, Entering, Uncounted, TypeInv, TypeOK
  <2>3. Cardinality(Entering)' = Cardinality(Entering) + 1
    BY <1>1, <2>2, FS_AddElement
  <2>4. Cardinality(Uncounted) + Cardinality(Entering \cup {p}) <= Cardinality(Producers)
    <3>1. /\ Uncounted \in SUBSET Producers /\ Entering \cup {p} \in SUBSET Producers
          /\ Uncounted \cap (Entering \cup {p}) = {}
      BY <2>2 DEF Uncounted, Entering
    <3> QED
      BY <3>1, DisjointSizes
  <2>5. Pending + Cardinality(Entering) + 1 <= Cardinality(Producers)
    BY <1>1, <2>2, <2>3, <2>4 DEF Pending
  <2>6. AdmitMoves
    BY <2>1, <2>2, <2>3, <2>5 DEF AdmitMoves, Pending, Popped
  <2> QED
    BY <2>1, <2>6
<1>5. ASSUME NEW p \in Producers, Push(p)
      PROVE  Goal
  <2> DEFINE new == [item |-> pitem[p], sequence |-> pseq[p]]
  <2>1. /\ queue' = queue \cup {new} /\ UNCHANGED <<currentSize, lock>>
        /\ ppc[p] = "sequenced" /\ ppc' = [ppc EXCEPT ![p] = "pushed"]
    BY <1>5 DEF Push
  <2>2. new \notin queue
    BY <2>1 DEF SequenceInv
  <2>3. IsFiniteSet(queue)' /\ Cardinality(queue)' = Cardinality(queue) + 1
    BY <1>1, <2>1, <2>2, FS_AddElement
  <2>4. /\ Entering' = Entering \ {p} /\ p \in Entering
        /\ Uncounted' = Uncounted \cup {p} /\ p \notin Uncounted
    BY <2>1 DEF Entering, Uncounted, TypeInv, TypeOK
  <2>5. /\ Cardinality(Entering)' = Cardinality(Entering) - 1 /\ Cardinality(Entering) # 0
        /\ Pending' = Pending + 1
    BY <1>1, <2>4, FS_AddElement, FS_RemoveElement, FS_EmptySet DEF Pending
  <2> QED
    BY <2>1, <2>3, <2>5 DEF PushMoves, Popped
<1>6. ASSUME NEW p \in Producers, Count(p)
      PROVE  Goal
  <2>1. /\ UNCHANGED <<queue, lock>> /\ currentSize' = WrapInc(currentSize)
        /\ ppc[p] = "pushed" /\ ppc' = [ppc EXCEPT ![p] = "counted"]
    BY <1>6 DEF Count, heapVars
  <2>2. Entering' = Entering /\ Uncounted' = Uncounted \ {p} /\ p \in Uncounted
    BY <2>1 DEF Entering, Uncounted, TypeInv, TypeOK
  <2>3. Pending' = Pending - 1 /\ Pending # 0
    BY <1>1, <2>2, FS_RemoveElement, FS_EmptySet DEF Pending
  <2> QED
    BY <2>1, <2>2, <2>3 DEF CountMoves, Popped
<1>7. ASSUME NEW c \in Consumers, Pop(c)
      PROVE  Goal
  <2>1. PICK e \in queue : queue' = queue \ {e}
    BY <1>7 DEF Pop
  <2>2. UNCHANGED <<currentSize, ppc>> /\ lock = NoOne /\ lock' = c
    BY <1>7 DEF Pop, prodVars
  <2>3. /\ IsFiniteSet(queue)' /\ Cardinality(queue)' = Cardinality(queue) - 1
        /\ Cardinality(queue) # 0
    BY <1>1, <2>1, FS_RemoveElement, FS_EmptySet
  <2>4. /\ Entering' = Entering /\ Uncounted' = Uncounted /\ Popped = 0 /\ Popped' = 1
        /\ lock' # "clear"
    BY <2>2, QueueAssumption DEF QueueAssumption, Entering, Uncounted, Popped
  <2> QED
    BY <2>2, <2>3, <2>4 DEF PopMoves, Pending
<1>8. ASSUME NEW c \in Consumers, Uncount(c)
      PROVE  Goal
  <2>1. /\ UNCHANGED <<queue, ppc>> /\ currentSize' = WrapDec(currentSize)
        /\ cpc[c] = "popped" /\ lock' = NoOne
    BY <1>8 DEF Uncount, prodVars
  <2>2. Entering' = Entering /\ Uncounted' = Uncounted /\ Popped = 1 /\ Popped' = 0
    BY <2>1, QueueAssumption DEF QueueAssumption, Entering, Uncounted, Popped, MutexInv
  <2>3. lock' # "clear"
    BY <2>1, QueueAssumption DEF QueueAssumption
  <2> QED
    BY <2>1, <2>2, <2>3 DEF UncountMoves, Pending
<1>9. ASSUME NEW p \in Producers, NEW x \in Items, Refuse(p, x)
      PROVE  Goal
  BY <1>3, <1>9 DEF Refuse, heapVars, prodVars
<1>10. ASSUME NEW p \in Producers, TakeSequence(p)
       PROVE  Goal
  <2>1. UNCHANGED <<queue, currentSize, lock>>
    BY <1>10 DEF TakeSequence
  <2>2. Entering' = Entering /\ Uncounted' = Uncounted
    BY <1>10, <2>1 DEF TakeSequence, Entering, Uncounted, TypeInv, TypeOK
  <2> QED
    BY <1>2, <2>1, <2>2
<1>11. ASSUME NEW p \in Producers, NotifyAndReturn(p)
       PROVE  Goal
  <2>1. UNCHANGED <<queue, currentSize, lock>>
    BY <1>11 DEF NotifyAndReturn, heapVars
  <2>2. Entering' = Entering /\ Uncounted' = Uncounted
    BY <1>11, <2>1 DEF NotifyAndReturn, Entering, Uncounted, TypeInv, TypeOK
  <2> QED
    BY <1>2, <2>1, <2>2
<1>12. ASSUME NEW c \in Consumers,
              \/ CallDequeue(c) \/ CallTryDequeue(c) \/ FindEmpty(c)
              \/ Await(c) \/ Resume(c) \/ Expire(c)
       PROVE  Goal
  BY <1>3, <1>12 DEF CallDequeue, CallTryDequeue, Call, FindEmpty, Await, Resume, Expire,
     ExpireAsleep, ExpireWoken, ExpireLocking, heapVars, prodVars
<1>13. ASSUME ClearHeap
       PROVE  Goal
  <2>1. /\ queue' = {} /\ UNCHANGED <<currentSize, ppc>> /\ lock = NoOne /\ lock' = "clear"
        /\ MaxClears # 0
    BY <1>13 DEF ClearHeap, prodVars, TypeInv, TypeOK
  <2>2. Entering' = Entering /\ Uncounted' = Uncounted /\ Popped' = Popped
    BY <2>1, QueueAssumption DEF QueueAssumption, Entering, Uncounted, Popped
  <2>3. IsFiniteSet(queue)' /\ Cardinality(queue)' = 0
    BY <2>1, FS_EmptySet
  <2> QED
    BY <2>1, <2>2, <2>3 DEF ClearHeapMoves, Pending
<1>14. ASSUME ClearSize
       PROVE  Goal
  <2>1. UNCHANGED <<queue, ppc>> /\ lock = "clear" /\ lock' = NoOne /\ currentSize' = 0
    BY <1>14 DEF ClearSize, prodVars
  <2>2. Entering' = Entering /\ Uncounted' = Uncounted /\ Popped' = 0 /\ Popped = 0
    BY <2>1, QueueAssumption DEF QueueAssumption, Entering, Uncounted, Popped
  <2>3. Cardinality(queue) = 0
    BY <2>1, FS_EmptySet DEF MutexInv
  <2> QED
    BY <2>1, <2>2, <2>3 DEF ClearSizeMoves, Pending
<1>15. ASSUME UNCHANGED vars
       PROVE  Goal
  BY <1>3, <1>15 DEF vars, heapVars, prodVars
<1> QED
  BY <1>4, <1>5, <1>6, <1>7, <1>8, <1>9, <1>10, <1>11, <1>12, <1>13, <1>14, <1>15
  DEF Next, Finish, Proceed

LEMMA InitSizes ==
    ASSUME Init
    PROVE  /\ IsFiniteSet(queue) /\ Cardinality(queue) = 0 /\ currentSize = 0
           /\ Pending = 0 /\ Cardinality(Entering) = 0 /\ Popped = 0
           /\ Cardinality(Producers) \in Nat /\ Cardinality(Producers) # 0
<1>1. queue = {} /\ Uncounted = {} /\ Entering = {} /\ Popped = 0 /\ currentSize = 0
  BY QueueAssumption DEF QueueAssumption, Init, Uncounted, Entering, Popped
<1>2. Cardinality(Producers) \in Nat /\ Cardinality(Producers) # 0
  BY QueueAssumption, FS_EmptySet, FS_CardinalityType DEF QueueAssumption
<1> QED
  BY <1>1, <1>2, FS_EmptySet DEF Pending

LEMMA InitCapacityInv == Init => CapacityInv
  BY InitSizes, QueueAssumption DEF QueueAssumption, CapacityInv, Present

LEMMA NextCapacityInv ==
    ASSUME TypeInv, MutexInv, SequenceInv, CapacityInv, [Next]_vars
    PROVE  CapacityInv'
<1> DEFINE h == Cardinality(queue)
           u == Pending
           d == Cardinality(Entering)
           n == Cardinality(Producers)
<1>1. /\ h \in Nat /\ u \in Nat /\ d \in Nat /\ n \in Nat
      /\ u + d <= n /\ Popped \in 0..1
  BY Sizes DEF CapacityInv, Pending
<1>2. MaxSize \in Nat /\ WordMod \in Nat /\ WordMod > MaxSize + n + 1
  BY QueueAssumption DEF QueueAssumption
<1>3. n # 0
  BY QueueAssumption, FS_EmptySet DEF QueueAssumption
<1>4. /\ MaxSize = 0 => u = 0 /\ d = 0
      /\ \/ currentSize + u + d + 1 <= MaxSize + n /\ h + Popped <= currentSize + u
         \/ \E k \in 1..u : currentSize = WordMod - k /\ h + Popped + k <= u
  BY DEF CapacityInv, Present
<1>5. currentSize \in 0..(WordMod - 1)
  BY DEF TypeInv, TypeOK
<1>6. IsFiniteSet(queue)'
  BY SizeSteps DEF CapacityInv
<1>7. ASSUME MaxSize = 0 => u' = 0 /\ d' = 0,
             \/ currentSize' + u' + d' + 1 <= MaxSize + n /\ h' + Popped' <= currentSize' + u'
             \/ \E k \in 1..u' : currentSize' = WordMod - k /\ h' + Popped' + k <= u'
      PROVE  CapacityInv'
  BY <1>6, <1>7 DEF CapacityInv, Present
<1> HIDE DEF h, u, d, n
<1>8. CASE AdmitMoves
  <2>1. /\ currentSize < MaxSize /\ u + d + 1 <= n /\ d' = d + 1
        /\ currentSize' = currentSize /\ h' = h /\ u' = u /\ Popped' = Popped
    BY <1>8 DEF AdmitMoves, h, u, d, n
  <2> QED
    BY <1>1, <1>2, <1>3, <1>4, <1>5, <1>7, <2>1
<1>9. CASE PushMoves
  <2>1. /\ h' = h + 1 /\ u' = u + 1 /\ d' = d - 1 /\ d # 0
        /\ currentSize' = currentSize /\ Popped' = Popped
    BY <1>9 DEF PushMoves, h, u, d, n
  <2> QED
    BY <1>1, <1>2, <1>3, <1>4, <1>5, <1>7, <2>1
<1>10. CASE CountMoves
  <2>1. /\ h' = h /\ u # 0 /\ u' = u - 1 /\ d' = d /\ currentSize' = WrapInc(currentSize)
        /\ Popped' = Popped
    BY <1>10 DEF CountMoves, h, u, d, n
  <2>2. CASE currentSize + u + d + 1 <= MaxSize + n /\ h + Popped <= currentSize + u
    BY <1>1, <1>2, <1>3, <1>4, <1>5, <1>7, <2>1, <2>2 DEF WrapInc
  <2>3. CASE \E k \in 1..u : currentSize = WordMod - k /\ h + Popped + k <= u
    <3>1. PICK k \in 1..u : currentSize = WordMod - k /\ h + Popped + k <= u
      BY <2>3
    <3>2. CASE k = 1
      BY <1>1, <1>2, <1>3, <1>4, <1>5, <1>7, <2>1, <3>1, <3>2 DEF WrapInc
    <3>3. CASE k # 1
      <4>1. k - 1 \in 1..u' /\ currentSize' = WordMod - (k - 1) /\ h' + Popped' + (k - 1) <= u'
        BY <1>1, <1>2, <1>5, <2>1, <3>1, <3>3 DEF WrapInc
      <4> QED
        BY <1>1, <1>4, <1>7, <2>1, <4>1
    <3> QED
      BY <3>2, <3>3
  <2> QED
    BY <1>4, <2>2, <2>3
<1>11. CASE PopMoves
  <2>1. /\ h # 0 /\ h' = h - 1 /\ u' = u /\ d' = d /\ currentSize' = currentSize
        /\ Popped = 0 /\ Popped' = 1
    BY <1>11 DEF PopMoves, h, u, d, n
  <2> QED
    BY <1>1, <1>2, <1>3, <1>4, <1>5, <1>7, <2>1
<1>12. CASE UncountMoves
  <2>1. /\ h' = h /\ u' = u /\ d' = d /\ currentSize' = WrapDec(currentSize)
        /\ Popped = 1 /\ Popped' = 0
    BY <1>12 DEF UncountMoves, h, u, d, n
  <2>2. CASE currentSize + u + d + 1 <= MaxSize + n /\ h + Popped <= currentSize + u
    <3>1. CASE currentSize # 0
      BY <1>1, <1>2, <1>3, <1>4, <1>5, <1>7, <2>1, <2>2, <3>1 DEF WrapDec
    <3>2. CASE currentSize = 0
      <4>1. 1 \in 1..u' /\ currentSize' = WordMod - 1 /\ h' + Popped' + 1 <= u'
        BY <1>1, <1>2, <2>1, <2>2, <3>2 DEF WrapDec
      <4> QED
        BY <1>1, <1>4, <1>7, <2>1, <4>1
    <3> QED
      BY <3>1, <3>2
  <2>3. CASE \E k \in 1..u : currentSize = WordMod - k /\ h + Popped + k <= u
    <3>1. PICK k \in 1..u : currentSize = WordMod - k /\ h + Popped + k <= u
      BY <2>3
    <3>2. k + 1 \in 1..u' /\ currentSize' = WordMod - (k + 1) /\ h' + Popped' + (k + 1) <= u'
      BY <1>1, <1>2, <1>5, <2>1, <3>1 DEF WrapDec
    <3> QED
      BY <1>1, <1>4, <1>7, <2>1, <3>2
  <2> QED
    BY <1>4, <2>2, <2>3
<1>13. CASE ClearHeapMoves
  <2>1. h' = 0 /\ u' = u /\ d' = d /\ currentSize' = currentSize /\ Popped' = Popped
    BY <1>13 DEF ClearHeapMoves, h, u, d, n
  <2>2. h' + Popped' <= h + Popped
    BY <1>1, <2>1
  <2> QED
    BY <1>1, <1>2, <1>3, <1>4, <1>5, <1>7, <2>1, <2>2
<1>14. CASE ClearSizeMoves
  <2>1. /\ h = 0 /\ h' = h /\ u' = u /\ d' = d /\ currentSize' = 0
        /\ Popped = 0 /\ Popped' = Popped
    BY <1>14 DEF ClearSizeMoves, h, u, d, n
  <2> QED
    BY <1>1, <1>2, <1>3, <1>4, <1>7, <2>1
<1>15. CASE UNCHANGED Sized
  <2>1. h' = h /\ u' = u /\ d' = d /\ currentSize' = currentSize /\ Popped' = Popped
    BY <1>15 DEF Sized, h, u, d, n
  <2> QED
    BY <1>1, <1>4, <1>7, <2>1
<1> QED
  BY <1>8, <1>9, <1>10, <1>11, <1>12, <1>13, <1>14, <1>15, SizeSteps DEF CapacityInv

LEMMA CapacityBounds == TypeInv /\ CapacityInv => OvershootBound
<1> SUFFICES ASSUME TypeInv, CapacityInv PROVE OvershootBound
  OBVIOUS
<1>1. /\ Cardinality(queue) \in Nat /\ Pending \in Nat /\ Cardinality(Entering) \in Nat
      /\ Cardinality(Producers) \in Nat
      /\ Pending + Cardinality(Entering) <= Cardinality(Producers) /\ Popped \in 0..1
  BY Sizes DEF CapacityInv, Pending
<1>2. MaxSize \in Nat /\ currentSize \in Nat
  BY QueueAssumption DEF QueueAssumption, TypeInv, TypeOK
<1> QED
  BY <1>1, <1>2 DEF CapacityInv, OvershootBound, Present

LEMMA InitCountInv == Init => CountInv
<1> SUFFICES ASSUME Init PROVE CountInv
  OBVIOUS
<1>1. lock # "clear"
  BY QueueAssumption DEF QueueAssumption, Init
<1>2. SizeAccounting
  BY InitSizes DEF SizeAccounting, Present
<1> QED
  BY <1>1, <1>2 DEF CountInv

LEMMA NextCountInv ==
    ASSUME MaxClears = 0, TypeInv, MutexInv, SequenceInv, CapacityInv, CountInv, [Next]_vars
    PROVE  CountInv'
<1> DEFINE h == Cardinality(queue)
           u == Pending
           d == Cardinality(Entering)
           n == Cardinality(Producers)
           Accounted(size, present, pending) ==
               size = IF present >= pending THEN present - pending ELSE WordMod - (pending - present)
<1>1. /\ h \in Nat /\ u \in Nat /\ d \in Nat /\ n \in Nat
      /\ u + d <= n /\ Popped \in 0..1
  BY Sizes DEF CapacityInv, Pending
<1>2. MaxSize \in Nat /\ WordMod \in Nat /\ WordMod > MaxSize + n + 1
  BY QueueAssumption DEF QueueAssumption
<1>3. h + d + 1 <= MaxSize + n
  BY CapacityBounds DEF OvershootBound
<1>4. Accounted(currentSize, h + Popped, u) /\ lock # "clear"
  BY DEF CountInv, SizeAccounting, Present
<1>6. ASSUME Accounted(currentSize', h' + Popped', u'), lock' # "clear"
      PROVE  CountInv'
  BY <1>6 DEF CountInv, SizeAccounting, Present
<1> HIDE DEF h, u, d, n
<1>7. CASE AdmitMoves
  BY <1>4, <1>6, <1>7 DEF AdmitMoves, h, u
<1>8. CASE PushMoves
  <2>1. /\ h' = h + 1 /\ u' = u + 1 /\ currentSize' = currentSize /\ Popped' = Popped
        /\ lock' = lock
    BY <1>8 DEF PushMoves, h, u
  <2> QED
    BY <1>1, <1>2, <1>4, <1>6, <2>1
<1>9. CASE CountMoves
  <2>1. /\ h' = h /\ u # 0 /\ u' = u - 1 /\ currentSize' = WrapInc(currentSize)
        /\ Popped' = Popped /\ lock' = lock
    BY <1>9 DEF CountMoves, h, u
  <2> QED
    BY <1>1, <1>2, <1>3, <1>4, <1>6, <2>1 DEF WrapInc
<1>10. CASE PopMoves
  <2>1. /\ h # 0 /\ h' = h - 1 /\ u' = u /\ currentSize' = currentSize
        /\ Popped = 0 /\ Popped' = 1 /\ lock' # "clear"
    BY <1>10 DEF PopMoves, h, u
  <2> QED
    BY <1>1, <1>2, <1>4, <1>6, <2>1
<1>11. CASE UncountMoves
  <2>1. /\ h' = h /\ u' = u /\ currentSize' = WrapDec(currentSize)
        /\ Popped = 1 /\ Popped' = 0 /\ lock' # "clear"
    BY <1>11 DEF UncountMoves, h, u
  <2> QED
    BY <1>1, <1>2, <1>3, <1>4, <1>6, <2>1 DEF WrapDec
<1>12. ~ClearHeapMoves /\ ~ClearSizeMoves
  BY <1>4, QueueAssumption DEF ClearHeapMoves, ClearSizeMoves
<1>13. CASE UNCHANGED Sized
  BY <1>4, <1>6, <1>13 DEF Sized, h, u
<1> QED
  BY <1>7, <1>8, <1>9, <1>10, <1>11, <1>12, <1>13, SizeSteps DEF CapacityInv

\* The part of the inductive invariant that clear() leaves intact.
HeapInv == TypeInv /\ WaitInv /\ MutexInv /\ SequenceInv /\ CapacityInv

LEMMA InitHeapInv == Init => HeapInv
  BY InitTypeInv, InitWaitInv, InitMutexInv, InitSequenceInv, InitCapacityInv DEF HeapInv

LEMMA NextHeapInv == HeapInv /\ [Next]_vars => HeapInv'
  BY NextTypeInv, NextWaitInv, NextMutexInv, NextSequenceInv, NextCapacityInv DEF HeapInv

\* However often clear() runs and wherever it interleaves with the calls in
\* progress, enqueue() of queue.rs overruns max_size by less than the number
\* of tasks that call it.
THEOREM OvershootBounded == Spec => []OvershootBound
<1>1. HeapInv => OvershootBound
  BY CapacityBounds DEF HeapInv
<1> QED
  BY InitHeapInv, NextHeapInv, <1>1, PTL DEF Spec

\* Without clear(), the counter too is accounted for.
SizeInv == HeapInv /\ CountInv

LEMMA SizeInvCorrect ==
    ASSUME MaxClears = 0
    PROVE  Spec => []SizeInv
<1>1. Init => SizeInv
  BY InitHeapInv, InitCountInv DEF SizeInv
<1>2. SizeInv /\ [Next]_vars => SizeInv'
  BY NextHeapInv, NextCountInv DEF SizeInv, HeapInv
<1> QED
  BY <1>1, <1>2, PTL DEF Spec

\* Without clear(), current_size of queue.rs is at every moment the number of
\* entries, corrected by the calls between the heap and the counter.
THEOREM SizeAccounted ==
    ASSUME MaxClears = 0
    PROVE  Spec => []SizeAccounting
<1>1. SizeInv => SizeAccounting
  BY DEF SizeInv, CountInv
<1> QED
  BY SizeInvCorrect, <1>1, PTL

\* Without clear(), enqueue() of queue.rs returns QueueFull only when the
\* queue is full or its counter is below zero.
THEOREM RefusalsExplained ==
    ASSUME MaxClears = 0
    PROVE  Spec => RefusalExplained
<1>1. SizeInv /\ [Next]_vars =>
        [\A p \in Producers, x \in Items : Refuse(p, x) =>
            \/ Present >= MaxSize + Pending
            \/ Present < Pending]_vars
  <2> SUFFICES ASSUME SizeInv, NEW p \in Producers, NEW x \in Items, Refuse(p, x),
                      ~(Present < Pending)
               PROVE  Present >= MaxSize + Pending
    BY Zenon
  <2>1. Present \in Nat /\ Pending \in Nat /\ MaxSize \in Nat
    BY Sizes, QueueAssumption DEF QueueAssumption, SizeInv, HeapInv, CapacityInv, Present, Pending
  <2>2. currentSize = Present - Pending /\ currentSize >= MaxSize
    BY <2>1 DEF Refuse, SizeInv, CountInv, SizeAccounting
  <2> QED
    BY <2>1, <2>2
<1> QED
  BY SizeInvCorrect, <1>1, PTL DEF Spec, RefusalExplained
-------------------------------------------------------------------------------
(* The queue implements PriorityQueue.  What the callers saw (offered,     *)
(* accepted, taken, before) fits the heap, and a request that was accepted *)
(* before another was offered has the smaller sequence number.             *)

ViewInv ==
    /\ accepted \cup taken \cup ItemsOf(queue) \subseteq offered
    /\ taken \cap ItemsOf(queue) = {}
    /\ \A e, f \in queue : e.item = f.item => e = f
    /\ \A x \in Items : before[x] \subseteq accepted /\ x \notin before[x]

\* A call in progress is the only one with its request, which is not accepted
\* yet, and not in the heap or taken before the call has pushed it.
CallInv ==
    \A p \in Producers : ppc[p] # "idle" =>
        /\ pitem[p] \in offered \ accepted
        /\ \A q \in Producers \ {p} : ppc[q] # "idle" => pitem[q] # pitem[p]
        /\ ppc[p] \in {"admitted", "sequenced"} => pitem[p] \notin ItemsOf(queue) \cup taken

OrderInv ==
    /\ \A e, f \in queue : f.item \in before[e.item] => f.sequence < e.sequence
    /\ \A p \in Producers : ppc[p] = "sequenced" =>
          \A f \in queue : f.item \in before[pitem[p]] => f.sequence < pseq[p]

LEMMA InitViewInv == Init => ViewInv /\ CallInv /\ OrderInv
  BY DEF Init, ViewInv, CallInv, OrderInv, ItemsOf

LEMMA OfferKeepsView ==
    ASSUME TypeInv, ViewInv, CallInv, OrderInv,
           NEW p \in Producers, NEW x \in Items, Admit(p, x) \/ Refuse(p, x)
    PROVE  ViewInv' /\ CallInv' /\ OrderInv'
<1> USE DEF TypeInv, TypeOK
<1>1. /\ x \notin offered /\ offered' = offered \cup {x}
      /\ before' = [before EXCEPT ![x] = accepted]
      /\ UNCHANGED <<accepted, taken, queue, pseq>>
  BY DEF Admit, Refuse, OfferItem, heapVars, prodVars
<1>2. \A y \in Items \ {x} : before'[y] = before[y]
  BY <1>1
<1>3. before'[x] = accepted
  BY <1>1
<1>4. x \notin accepted \cup taken \cup ItemsOf(queue)
  BY <1>1 DEF ViewInv
<1>5. ViewInv'
  BY <1>1, <1>2, <1>3, <1>4 DEF ViewInv, ItemsOf
<1>6. \/ ppc' = [ppc EXCEPT ![p] = "admitted"] /\ pitem' = [pitem EXCEPT ![p] = x] /\ ppc[p] = "idle"
      \/ UNCHANGED <<ppc, pitem>>
  BY DEF Admit, Refuse, prodVars
<1>7. CallInv'
  BY <1>1, <1>4, <1>6 DEF CallInv, ItemsOf
<1>8. \A q \in Producers : ppc'[q] = "sequenced" => ppc[q] = "sequenced" /\ pitem'[q] = pitem[q] /\ pitem[q] # x
  BY <1>1, <1>6 DEF CallInv
<1>9. \A e \in queue : e.item \in Items /\ e.item # x
  BY <1>4 DEF ItemsOf, Entry
<1>10. OrderInv'
  <2>1. \A e, f \in queue' : f.item \in before'[e.item] => f.sequence < e.sequence
    BY <1>1, <1>2, <1>9 DEF OrderInv
  <2>2. ASSUME NEW q \in Producers, ppc'[q] = "sequenced", NEW f \in queue', f.item \in before'[pitem'[q]]
        PROVE  f.sequence < pseq'[q]
    <3>1. ppc[q] = "sequenced" /\ pitem'[q] = pitem[q] /\ pitem[q] \in Items \ {x}
      BY <1>8, <2>2
    <3>2. f \in queue /\ f.item \in before[pitem[q]] /\ pseq'[q] = pseq[q]
      BY <1>1, <1>2, <2>2, <3>1
    <3> QED
      BY <3>1, <3>2 DEF OrderInv
  <2> QED
    BY <2>1, <2>2 DEF OrderInv
<1> QED
  BY <1>5, <1>7, <1>10

LEMMA SequenceKeepsView ==
    ASSUME TypeInv, ViewInv, CallInv, OrderInv, SequenceInv,
           NEW p \in Producers, TakeSequence(p)
    PROVE  ViewInv' /\ CallInv' /\ OrderInv'
<1> USE DEF TypeInv, TypeOK
<1>1. /\ ppc[p] = "admitted" /\ ppc' = [ppc EXCEPT ![p] = "sequenced"]
      /\ pseq' = [pseq EXCEPT ![p] = counter]
      /\ UNCHANGED <<queue, pitem, offered, accepted, taken, before>>
  BY DEF TakeSequence, viewVars
<1>2. ViewInv'
  BY <1>1 DEF ViewInv, ItemsOf
<1>3. CallInv'
  BY <1>1 DEF CallInv, ItemsOf
<1>4. OrderInv'
  <2>1. \A f \in queue : f.sequence < pseq'[p]
    BY <1>1 DEF SequenceInv
  <2>2. \A q \in Producers \ {p} : ppc'[q] = ppc[q] /\ pseq'[q] = pseq[q]
    BY <1>1
  <2> QED
    BY <1>1, <2>1, <2>2 DEF OrderInv
<1> QED
  BY <1>2, <1>3, <1>4

LEMMA PushKeepsView ==
    ASSUME TypeInv, ViewInv, CallInv, OrderInv,
           NEW p \in Producers, Push(p)
    PROVE  ViewInv' /\ CallInv' /\ OrderInv'
<1> USE DEF TypeInv, TypeOK
<1> DEFINE new == [item |-> pitem[p], sequence |-> pseq[p]]
<1>1. /\ ppc[p] = "sequenced" /\ ppc' = [ppc EXCEPT ![p] = "pushed"]
      /\ queue' = queue \cup {new}
      /\ UNCHANGED <<pitem, pseq, offered, accepted, taken, before>>
  BY DEF Push, viewVars
<1>2. new.item = pitem[p] /\ new.sequence = pseq[p]
  OBVIOUS
<1>3. pitem[p] \in offered \ (accepted \cup taken \cup ItemsOf(queue)) /\ pitem[p] \in Items
  BY <1>1 DEF CallInv
<1>4. \A e \in queue : e.item # pitem[p] /\ e.item \in Items
  BY <1>3 DEF ItemsOf, Entry
<1>5. ItemsOf(queue') = ItemsOf(queue) \cup {pitem[p]}
  BY <1>1, <1>2 DEF ItemsOf
<1> HIDE DEF new
<1>6. ViewInv'
  <2>1. accepted' = accepted /\ taken' = taken /\ offered' = offered /\ before' = before
    BY <1>1
  <2>2. /\ accepted \cup taken \cup ItemsOf(queue) \cup {pitem[p]} \subseteq offered
        /\ taken \cap (ItemsOf(queue) \cup {pitem[p]}) = {}
    BY <1>3 DEF ViewInv
  <2>3. \A e, f \in queue' : e.item = f.item => e = f
    BY <1>1, <1>2, <1>4 DEF ViewInv
  <2>4. /\ accepted' \cup taken' \cup ItemsOf(queue') \subseteq offered'
        /\ taken' \cap ItemsOf(queue') = {}
    BY ONLY <1>5, <2>1, <2>2
  <2>5. \A x \in Items : before'[x] \subseteq accepted' /\ x \notin before'[x]
    BY <2>1 DEF ViewInv
  <2> QED
    BY <2>3, <2>4, <2>5 DEF ViewInv
<1>7. CallInv'
  <2>1. \A q \in Producers \ {p} : ppc[q] # "idle" => pitem[q] # pitem[p]
    BY <1>1 DEF CallInv
  <2>2. \A q \in Producers \ {p} : ppc'[q] = ppc[q]
    BY <1>1
  <2> QED
    BY <1>1, <1>5, <2>1, <2>2 DEF CallInv
<1>8. OrderInv'
  <2>1. \A e \in queue : pitem[p] \notin before[e.item]
    BY <1>3, <1>4 DEF ViewInv
  <2>2. pitem[p] \notin before[pitem[p]]
    BY <1>3 DEF ViewInv
  <2>3. \A f \in queue : f.item \in before[pitem[p]] => f.sequence < pseq[p]
    BY <1>1 DEF OrderInv
  <2>4. \A e, f \in queue' : f.item \in before[e.item] => f.sequence < e.sequence
    BY <1>1, <1>2, <2>1, <2>2, <2>3 DEF OrderInv
  <2>5. ASSUME NEW q \in Producers, ppc'[q] = "sequenced", NEW f \in queue', f.item \in before[pitem[q]]
        PROVE  f.sequence < pseq[q]
    <3>1. ppc[q] = "sequenced"
      BY <1>1, <2>5
    <3>2. pitem[p] \notin before[pitem[q]]
      BY <1>3, <3>1 DEF ViewInv
    <3> QED
      BY <1>1, <1>2, <2>5, <3>1, <3>2 DEF OrderInv
  <2> QED
    BY <1>1, <2>4, <2>5 DEF OrderInv
<1> QED
  BY <1>6, <1>7, <1>8

LEMMA ReturnKeepsView ==
    ASSUME TypeInv, ViewInv, CallInv, OrderInv,
           NEW p \in Producers, NotifyAndReturn(p)
    PROVE  ViewInv' /\ CallInv' /\ OrderInv'
<1> USE DEF TypeInv, TypeOK
<1>1. /\ ppc[p] = "counted" /\ ppc' = [ppc EXCEPT ![p] = "idle"]
      /\ pitem' = [pitem EXCEPT ![p] = NoOne]
      /\ accepted' = accepted \cup {pitem[p]}
      /\ UNCHANGED <<queue, pseq, offered, taken, before>>
  BY DEF NotifyAndReturn, heapVars
<1>2. pitem[p] \in offered /\ \A q \in Producers \ {p} : ppc[q] # "idle" => pitem[q] # pitem[p]
  BY <1>1 DEF CallInv
<1>3. \A q \in Producers : ppc'[q] # "idle" => q # p /\ ppc'[q] = ppc[q] /\ pitem'[q] = pitem[q]
  BY <1>1
<1>4. ViewInv'
  BY <1>1, <1>2 DEF ViewInv, ItemsOf
<1>5. CallInv'
  BY <1>1, <1>2, <1>3 DEF CallInv, ItemsOf
<1>6. OrderInv'
  BY <1>1, <1>3 DEF OrderInv
<1> QED
  BY <1>4, <1>5, <1>6

LEMMA ShrinkKeepsView ==
    ASSUME TypeInv, ViewInv, CallInv, OrderInv,
           queue' \subseteq queue, taken \subseteq taken',
           taken' \subseteq taken \cup ItemsOf(queue), taken' \cap ItemsOf(queue') = {},
           UNCHANGED <<ppc, pitem, pseq, offered, accepted, before>>
    PROVE  ViewInv' /\ CallInv' /\ OrderInv'
<1>1. ItemsOf(queue') \subseteq ItemsOf(queue)
  BY DEF ItemsOf
<1>2. ViewInv'
  BY <1>1 DEF ViewInv
<1>3. CallInv'
  BY <1>1 DEF CallInv
<1>4. OrderInv'
  BY DEF OrderInv
<1> QED
  BY <1>2, <1>3, <1>4

LEMMA PopMapped ==
    ASSUME TypeInv, ViewInv, OrderInv, NEW c \in Consumers, Pop(c)
    PROVE  \E e \in queue : /\ ItemsOf(queue') = ItemsOf(queue) \ {e.item}
                            /\ taken' = taken \cup {e.item}
                            /\ queue' = queue \ {e}
                            /\ \A y \in ItemsOf(queue) : ~PQ!Outranks(y, e.item)
<1>1. PICK e \in queue : IsTop(e) /\ queue' = queue \ {e} /\ taken' = taken \cup {e.item}
  BY DEF Pop
<1>2. ItemsOf(queue') = ItemsOf(queue) \ {e.item}
  BY <1>1 DEF ViewInv, ItemsOf
<1>3. ASSUME NEW f \in queue
      PROVE  ~PQ!Outranks(f.item, e.item)
  <2>1. /\ e.item \in Items /\ f.item \in Items /\ e.sequence \in Nat /\ f.sequence \in Nat
        /\ PriorityOf[e.item] \in 0..3 /\ PriorityOf[f.item] \in 0..3
    BY QueueAssumption DEF QueueAssumption, TypeInv, TypeOK, Entry
  <2>2. CASE f = e
    BY <2>1, <2>2 DEF PQ!Outranks, ViewInv
  <2>3. CASE f # e
    <3>1. Before(e, f)
      BY <1>1, <2>3 DEF IsTop
    <3>2. f.item \in before[e.item] => f.sequence < e.sequence
      BY DEF OrderInv
    <3> QED
      BY <2>1, <3>1, <3>2 DEF Before, PQ!Outranks
  <2> QED
    BY <2>2, <2>3
<1>4. \A y \in ItemsOf(queue) : ~PQ!Outranks(y, e.item)
  BY <1>3 DEF ItemsOf
<1> QED
  BY <1>1, <1>2, <1>4

LEMMA CountKeepsView ==
    ASSUME TypeInv, ViewInv, CallInv, OrderInv,
           NEW p \in Producers, Count(p)
    PROVE  ViewInv' /\ CallInv' /\ OrderInv'
<1>1. /\ ppc[p] = "pushed" /\ ppc' = [ppc EXCEPT ![p] = "counted"]
      /\ UNCHANGED <<queue, pitem, pseq, offered, accepted, taken, before>>
  BY DEF Count, heapVars, viewVars
<1>2. \A q \in Producers : /\ ppc'[q] # "idle" => ppc[q] # "idle"
                           /\ ppc'[q] \in {"admitted", "sequenced"} => ppc'[q] = ppc[q]
  BY <1>1 DEF TypeInv, TypeOK
<1> QED
  BY <1>1, <1>2 DEF ViewInv, CallInv, OrderInv, ItemsOf

\* Steps of a consumer, and of clear(), that leave the heap's entries and the
\* callers' view alone.
LEMMA QuietSteps ==
    ASSUME \/ \E c \in Consumers :
                \/ CallDequeue(c) \/ CallTryDequeue(c) \/ Uncount(c) \/ FindEmpty(c)
                \/ Await(c) \/ Resume(c) \/ Expire(c)
           \/ ClearSize
           \/ UNCHANGED vars
    PROVE  UNCHANGED <<queue, ppc, pitem, pseq, offered, accepted, taken, before>>
  BY DEF CallDequeue, CallTryDequeue, Call, Uncount, FindEmpty, Await, Resume, Expire,
     ExpireAsleep, ExpireWoken, ExpireLocking, ClearSize, vars, heapVars, prodVars, viewVars

LEMMA NextViewInv ==
    ASSUME HeapInv, ViewInv, CallInv, OrderInv, [Next]_vars
    PROVE  ViewInv' /\ CallInv' /\ OrderInv'
<1> USE DEF HeapInv
<1>1. ASSUME NEW p \in Producers, NEW x \in Items, Admit(p, x) \/ Refuse(p, x)
      PROVE  ViewInv' /\ CallInv' /\ OrderInv'
  BY <1>1, OfferKeepsView
<1>2. ASSUME NEW p \in Producers, Finish(p)
      PROVE  ViewInv' /\ CallInv' /\ OrderInv'
  BY <1>2, SequenceKeepsView, PushKeepsView, CountKeepsView, ReturnKeepsView DEF Finish
<1>3. ASSUME NEW c \in Consumers, Pop(c)
      PROVE  ViewInv' /\ CallInv' /\ OrderInv'
  <2>1. PICK e \in queue : /\ ItemsOf(queue') = ItemsOf(queue) \ {e.item}
                           /\ taken' = taken \cup {e.item} /\ queue' = queue \ {e}
    BY <1>3, PopMapped
  <2>2. e.item \in ItemsOf(queue)
    BY DEF ItemsOf
  <2>3. UNCHANGED <<ppc, pitem, pseq, offered, accepted, before>>
    BY <1>3 DEF Pop, prodVars
  <2>4. taken' \cap ItemsOf(queue') = {}
    BY <2>1 DEF ViewInv
  <2>5. taken' \subseteq taken \cup ItemsOf(queue)
    BY <2>1, <2>2
  <2> QED
    BY <2>1, <2>3, <2>4, <2>5, ShrinkKeepsView
<1>4. ASSUME ClearHeap
      PROVE  ViewInv' /\ CallInv' /\ OrderInv'
  <2>1. queue' = {} /\ UNCHANGED <<ppc, pitem, pseq, offered, accepted, taken, before>>
    BY <1>4 DEF ClearHeap, prodVars, viewVars
  <2>2. ItemsOf(queue') = {}
    BY <2>1 DEF ItemsOf
  <2> QED
    BY <2>1, <2>2, ShrinkKeepsView
<1>5. ASSUME UNCHANGED <<queue, ppc, pitem, pseq, offered, accepted, taken, before>>
      PROVE  ViewInv' /\ CallInv' /\ OrderInv'
  BY <1>5 DEF ViewInv, CallInv, OrderInv, ItemsOf
<1> QED
  BY <1>1, <1>2, <1>3, <1>4, <1>5, QuietSteps DEF Next, Proceed

\* The abstract state PriorityQueue sees.
pqMapped == <<offered, ItemsOf(queue), accepted, taken, before>>

LEMMA SameCardinality == \A S : PQ!Cardinality(S) = Cardinality(S)
  BY DEF Cardinality, PQ!Cardinality

LEMMA PushInserts ==
    ASSUME HeapInv, CallInv, NEW p \in Producers, Push(p)
    PROVE  PQ!Insert(pitem[p])
<1> DEFINE new == [item |-> pitem[p], sequence |-> pseq[p]]
<1>1. /\ ppc[p] = "sequenced" /\ queue' = queue \cup {new} /\ new.item = pitem[p]
      /\ UNCHANGED <<offered, accepted, taken, before>>
  BY DEF Push, viewVars
<1>2. pitem[p] \in offered \ (ItemsOf(queue) \cup accepted \cup taken)
  BY <1>1 DEF CallInv
<1>3. ItemsOf(queue') = ItemsOf(queue) \cup {pitem[p]}
  BY <1>1 DEF ItemsOf
<1>4. Cardinality(ItemsOf(queue)) < MaxSize + Cardinality(Producers) - 1
  <2>1. IsFiniteSet(queue)
    BY DEF HeapInv, CapacityInv
  <2>2. IsFiniteSet(ItemsOf(queue)) /\ Cardinality(ItemsOf(queue)) <= Cardinality(queue)
    <3> DEFINE f == [e \in queue |-> e.item]
    <3>1. f \in Surjection(queue, ItemsOf(queue))
      BY DEF Surjection, ItemsOf
    <3> QED
      BY <2>1, <3>1, FS_Surjection
  <2>3. p \in Entering
    BY <1>1 DEF Entering
  <2>4. Cardinality(Entering) # 0
    BY <2>1, <2>3, Sizes, FS_EmptySet
  <2>5. OvershootBound
    BY CapacityBounds DEF HeapInv
  <2>6. MaxSize \in Nat
    BY QueueAssumption DEF QueueAssumption
  <2>7. Cardinality(ItemsOf(queue)) \in Nat
    BY <2>2, FS_CardinalityType
  <2> QED
    BY <2>1, <2>2, <2>4, <2>5, <2>6, <2>7, Sizes DEF OvershootBound
<1> QED
  BY <1>1, <1>2, <1>3, <1>4, SameCardinality DEF PQ!Insert

\* Every step of the queue is one of PriorityQueue's, or invisible there:
\* Admit and Refuse offer, Push inserts, NotifyAndReturn returns, Pop takes,
\* and clear() discards.
LEMMA NextRefines ==
    ASSUME HeapInv, ViewInv, CallInv, OrderInv, [Next]_vars
    PROVE  [PQ!Next]_pqMapped
<1> USE DEF HeapInv
<1>1. ASSUME NEW p \in Producers, NEW x \in Items, Admit(p, x) \/ Refuse(p, x)
      PROVE  PQ!Next
  <2>1. PQ!Offer(x)
    BY <1>1 DEF Admit, Refuse, OfferItem, PQ!Offer, heapVars
  <2> QED
    BY <2>1 DEF PQ!Next
<1>2. ASSUME NEW p \in Producers, Push(p)
      PROVE  PQ!Next
  <2>1. PQ!Insert(pitem[p]) /\ pitem[p] \in Items
    BY <1>2, PushInserts DEF Push, TypeInv
  <2> QED
    BY <2>1 DEF PQ!Next
<1>3. ASSUME NEW p \in Producers, NotifyAndReturn(p)
      PROVE  PQ!Next
  <2>1. pitem[p] \in Items /\ pitem[p] \in offered \ accepted
    BY <1>3 DEF NotifyAndReturn, TypeInv, CallInv
  <2>2. PQ!Return(pitem[p])
    BY <1>3, <2>1 DEF NotifyAndReturn, PQ!Return, heapVars
  <2> QED
    BY <2>1, <2>2 DEF PQ!Next
<1>4. ASSUME NEW c \in Consumers, Pop(c)
      PROVE  PQ!Next
  <2>1. PICK e \in queue : /\ ItemsOf(queue') = ItemsOf(queue) \ {e.item}
                           /\ taken' = taken \cup {e.item}
                           /\ \A y \in ItemsOf(queue) : ~PQ!Outranks(y, e.item)
    BY <1>4, PopMapped
  <2>2. e.item \in ItemsOf(queue) /\ e.item \in Items
    BY DEF ItemsOf, TypeInv, TypeOK, Entry
  <2>3. UNCHANGED <<offered, accepted, before>>
    BY <1>4 DEF Pop
  <2>4. PQ!Take(e.item)
    BY <2>1, <2>2, <2>3 DEF PQ!Take
  <2> QED
    BY <2>2, <2>4 DEF PQ!Next
<1>5. ASSUME ClearHeap
      PROVE  PQ!Next
  <2>1. queue' = {} /\ UNCHANGED <<offered, accepted, taken, before>>
    BY <1>5 DEF ClearHeap, viewVars
  <2>2. PQ!Discard
    BY <2>1 DEF PQ!Discard, ItemsOf
  <2> QED
    BY <2>2 DEF PQ!Next
<1>6. ASSUME UNCHANGED <<queue, offered, accepted, taken, before>>
      PROVE  UNCHANGED pqMapped
  BY <1>6 DEF pqMapped, ItemsOf
<1>7. ASSUME NEW p \in Producers, TakeSequence(p) \/ Count(p)
      PROVE  UNCHANGED pqMapped
  BY <1>6, <1>7 DEF TakeSequence, Count, heapVars, viewVars
<1> QED
  BY <1>1, <1>2, <1>3, <1>4, <1>5, <1>6, <1>7, QuietSteps DEF Next, Finish, Proceed

LEMMA InitRefines == Init => PQ!Init
  BY DEF Init, PQ!Init, ItemsOf

\* queue.rs implements the bounded priority queue PriorityQueue states, for
\* any number of producers, consumers, requests and calls of clear(): no entry
\* overtakes one of a higher priority, nor one of its own priority that was
\* accepted before it was offered, and no entry is lost, doubled or invented.
THEOREM QueueRefines == Spec => Implements
<1> DEFINE I == HeapInv /\ ViewInv /\ CallInv /\ OrderInv
<1>1. Init => I
  BY InitHeapInv, InitViewInv
<1>2. I /\ [Next]_vars => I'
  BY NextHeapInv, NextViewInv
<1>3. I /\ [Next]_vars => [PQ!Next]_pqMapped
  BY NextRefines
<1>4. I /\ [Next]_vars => [PQ!Next]_(PQ!pqvars)
  BY <1>3 DEF pqMapped, PQ!pqvars
<1> QED
  BY <1>1, <1>2, <1>4, InitRefines, PTL DEF Spec, Implements, PQ!Spec
=============================================================================
